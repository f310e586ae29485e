------------------------------- MODULE RegionScan -------------------------------
(***************************************************************************)
(* One regional WebApi: the background scheduler and the manual /notify    *)
(* endpoint both run NotifyRegionScanCommandHandler, which asks the fuel   *)
(* API, stamps the answer and publishes it to the region's topic.  The two *)
(* run concurrently and share one Kafka producer.  A call is cut off by    *)
(* its timeout (30 s, 20 s) or by the client at any moment, so deadlines   *)
(* are steps that may be taken whenever a call is waiting.                 *)
(*                                                                         *)
(* "now" is at once the clock and the state of the stations: data fetched  *)
(* at time n shows the stations as they are at n.                          *)
(***************************************************************************)
EXTENDS Naturals, Sequences

CONSTANTS
    Requests,     \* POST /notify calls
    Scheduler,    \* the caller FuelBackgroundScheduler
    NoEvent,      \* a call that has built no event yet
    MaxTime,      \* bound: the clock
    MaxTopic,     \* bound: records of the topic
    MaxScans,     \* bound: scans the scheduler starts
    MaxCrashes    \* bound: deaths of the process

ASSUME SchedulerAssumption == Scheduler \notin Requests
ASSUME BoundAssumption ==
    /\ MaxTime \in Nat /\ MaxTopic \in Nat /\ MaxScans \in Nat /\ MaxCrashes \in Nat

Callers == Requests \cup {Scheduler}

VARIABLES
    now,       \* DateTime.UtcNow
    pc,        \* pc[c]: where HandleAsync of caller c is
    fetched,   \* fetched[c]: the time of the stations in scrapedStations
    event,     \* event[c]: the RegionScanIntegrationEvent of c's call
    outbox,    \* events handed to the producer that it may still send
    topic,     \* the region's snapshot topic
    sched,     \* "starting" (60 s delay), "waiting" (WaitForNextTickAsync), "scanning"
    tick,      \* a timer tick not yet consumed; ticks that come meanwhile coalesce
    scans,     \* scans started by the scheduler
    crashes    \* deaths so far

vars == <<now, pc, fetched, event, outbox, topic, sched, tick, scans, crashes>>

Idle == {"idle", "success", "empty", "error"}
Running == {"fetching", "stamping", "producing"}

Published(e) == \E i \in 1..Len(topic) : topic[i] = e

Events == [caller : Callers, scan : Nat, data : Nat, occurredOn : Nat]

Init ==
    /\ now = 0
    /\ pc = [c \in Callers |-> "idle"]
    /\ fetched = [c \in Callers |-> 0]
    /\ event = [c \in Callers |-> NoEvent]
    /\ outbox = {}
    /\ topic = <<>>
    /\ sched = "starting"
    /\ tick = FALSE
    /\ scans = 0
    /\ crashes = 0

\* Time passes and the stations change.
Advance ==
    /\ now < MaxTime
    /\ now' = now + 1
    /\ UNCHANGED <<pc, fetched, event, outbox, topic, sched, tick, scans, crashes>>

--------------------------------------------------------------------------------
(* Callers *)

\* POST /notify; each request is served once.
Notify(r) ==
    /\ pc[r] = "idle"
    /\ pc' = [pc EXCEPT ![r] = "fetching"]
    /\ UNCHANGED <<now, fetched, event, outbox, topic, sched, tick, scans, crashes>>

\* The PeriodicTimer keeps at most one tick for a scheduler that is busy.
TimerTick ==
    /\ tick' = TRUE
    /\ UNCHANGED <<now, pc, fetched, event, outbox, topic, sched, scans, crashes>>

\* ExecuteScanJobAsync: the first scan after the delay, the others on a tick.
StartScan ==
    /\ \/ sched = "starting" /\ UNCHANGED tick
       \/ sched = "waiting" /\ tick /\ tick' = FALSE
    /\ scans < MaxScans
    /\ scans' = scans + 1
    /\ sched' = "scanning"
    /\ pc' = [pc EXCEPT ![Scheduler] = "fetching"]
    /\ event' = [event EXCEPT ![Scheduler] = NoEvent]
    /\ UNCHANGED <<now, fetched, outbox, topic, crashes>>

\* Mutant: an exception of the handler leaves the loop.
MutantNoCatch ==
    /\ sched = "scanning"
    /\ pc[Scheduler] \in Idle \ {"error"}
    /\ sched' = "waiting"
    /\ UNCHANGED <<now, pc, fetched, event, outbox, topic, tick, scans, crashes>>

\* Whatever the handler returned or threw, ExecuteScanJobAsync logs it and the loop waits.
EndScan ==
    /\ sched = "scanning"
    /\ pc[Scheduler] \in Idle
    /\ sched' = "waiting"
    /\ UNCHANGED <<now, pc, fetched, event, outbox, topic, tick, scans, crashes>>

--------------------------------------------------------------------------------
(* NotifyRegionScanCommandHandler.HandleAsync *)

\* Mutant: the answer to an earlier call is used again.
MutantFetchCached(c) ==
    /\ pc[c] = "fetching"
    /\ pc' = [pc EXCEPT ![c] = "stamping"]
    /\ fetched' = [fetched EXCEPT ![c] = IF @ = 0 THEN now ELSE @]
    /\ UNCHANGED <<now, event, outbox, topic, sched, tick, scans, crashes>>

\* ParseActualPricesAsync returns the stations.
FetchOk(c) ==
    /\ pc[c] = "fetching"
    /\ pc' = [pc EXCEPT ![c] = "stamping"]
    /\ fetched' = [fetched EXCEPT ![c] = now]
    /\ UNCHANGED <<now, event, outbox, topic, sched, tick, scans, crashes>>

\* Mutant: without the early return an empty answer reaches the producer with no event built.
MutantNoEarlyReturn(c) ==
    /\ pc[c] = "fetching"
    /\ pc' = [pc EXCEPT ![c] = "producing"]
    /\ outbox' = outbox \cup {event[c]}
    /\ UNCHANGED <<now, fetched, event, topic, sched, tick, scans, crashes>>

\* The parser turns every failure, its cancellation included, into an empty list, and
\* the handler returns without an event.
FetchEmpty(c) ==
    /\ pc[c] = "fetching"
    /\ pc' = [pc EXCEPT ![c] = "empty"]
    /\ UNCHANGED <<now, fetched, event, outbox, topic, sched, tick, scans, crashes>>

\* Mutant: the clock is read before the fuel API answers.
MutantStampFirst(c) ==
    LET e == [caller |-> c, scan |-> IF c = Scheduler THEN scans ELSE 0,
              data |-> now, occurredOn |-> fetched[c]] IN
    /\ pc[c] = "stamping"
    /\ pc' = [pc EXCEPT ![c] = "producing"]
    /\ event' = [event EXCEPT ![c] = e]
    /\ outbox' = outbox \cup {e}
    /\ UNCHANGED <<now, fetched, topic, sched, tick, scans, crashes>>

\* currentTime is read, the event is built and ProduceAsync enqueues it.
Produce(c) ==
    LET e == [caller |-> c, scan |-> IF c = Scheduler THEN scans ELSE 0,
              data |-> fetched[c], occurredOn |-> now] IN
    /\ pc[c] = "stamping"
    /\ pc' = [pc EXCEPT ![c] = "producing"]
    /\ event' = [event EXCEPT ![c] = e]
    /\ outbox' = outbox \cup {e}
    /\ UNCHANGED <<now, fetched, topic, sched, tick, scans, crashes>>

\* The producer sends an event of its queue; it may send it again when the
\* acknowledgement is lost, and retries overtake each other.
Send(e) ==
    /\ Len(topic) < MaxTopic
    /\ topic' = Append(topic, e)
    /\ UNCHANGED <<now, pc, fetched, event, outbox, sched, tick, scans, crashes>>

\* Mutant: Produce instead of ProduceAsync, the report is not awaited.
MutantFireAndForget(c) ==
    /\ pc[c] = "producing"
    /\ pc' = [pc EXCEPT ![c] = "success"]
    /\ UNCHANGED <<now, fetched, event, outbox, topic, sched, tick, scans, crashes>>

\* The delivery report of an event that is in the topic ends the call.
PublishOk(c) ==
    /\ pc[c] = "producing"
    /\ event[c] \in outbox /\ Published(event[c])
    /\ pc' = [pc EXCEPT ![c] = "success"]
    /\ outbox' = outbox \ {event[c]}
    /\ UNCHANGED <<now, fetched, event, topic, sched, tick, scans, crashes>>

\* ProduceException: the producer gave the event up, sent or not, and the caller is told.
\* A published event with a null fuel type ends here too: the alert text throws on it.
PublishFail(c) ==
    /\ pc[c] = "producing"
    /\ pc' = [pc EXCEPT ![c] = "error"]
    /\ outbox' = outbox \ {event[c]}
    /\ UNCHANGED <<now, fetched, event, topic, sched, tick, scans, crashes>>

\* The timeout or the client cancels ProduceAsync; the event stays in the producer's queue.
Cancel(c) ==
    /\ pc[c] = "producing"
    /\ pc' = [pc EXCEPT ![c] = "error"]
    /\ UNCHANGED <<now, fetched, event, outbox, topic, sched, tick, scans, crashes>>

\* Mutant: an event nobody waits for is stamped anew for another attempt.
MutantRestamp(e) ==
    /\ \A c \in Callers : ~(pc[c] = "producing" /\ event[c] = e)
    /\ outbox' = (outbox \ {e}) \cup {[e EXCEPT !.occurredOn = now]}
    /\ UNCHANGED <<now, pc, fetched, event, topic, sched, tick, scans, crashes>>

\* The producer forgets an event nobody waits for any more: sent, or out of time.
Forget(e) ==
    /\ \A c \in Callers : ~(pc[c] = "producing" /\ event[c] = e)
    /\ outbox' = outbox \ {e}
    /\ UNCHANGED <<now, pc, fetched, event, topic, sched, tick, scans, crashes>>

\* The container dies, by itself or because an exception left ExecuteAsync, and restarts.
Crash ==
    /\ crashes < MaxCrashes
    /\ crashes' = crashes + 1
    /\ pc' = [c \in Callers |-> IF pc[c] \in Running THEN "error" ELSE pc[c]]
    /\ outbox' = {}
    /\ sched' = "starting"
    /\ tick' = FALSE
    /\ UNCHANGED <<now, fetched, event, topic, scans>>

Next ==
    \/ Advance
    \/ \E r \in Requests : Notify(r)
    \/ TimerTick
    \/ StartScan
    \/ EndScan
    \/ \E c \in Callers : FetchOk(c)
    \/ \E c \in Callers : FetchEmpty(c)
    \/ \E c \in Callers : Produce(c)
    \/ \E e \in outbox : Send(e)
    \/ \E c \in Callers : PublishOk(c)
    \/ \E c \in Callers : PublishFail(c)
    \/ \E c \in Callers : Cancel(c)
    \/ \E e \in outbox : Forget(e)
    \/ Crash

Spec == Init /\ [][Next]_vars

\* Nothing is assumed of the fuel API or of Kafka.  The HTTP client gives up after 10 s,
\* the cancellation source after 30 s, and the thread pool runs what is ready.
Fairness ==
    /\ WF_vars(TimerTick)
    /\ WF_vars(StartScan)
    /\ WF_vars(EndScan)
    /\ WF_vars(FetchOk(Scheduler) \/ FetchEmpty(Scheduler))
    /\ WF_vars(Produce(Scheduler))
    /\ WF_vars(Cancel(Scheduler))

FairSpec == Spec /\ Fairness

--------------------------------------------------------------------------------
(* Properties *)

\* Every variable stays in its type.
TypeOK ==
    /\ now \in Nat
    /\ pc \in [Callers -> Idle \cup Running]
    /\ fetched \in [Callers -> Nat]
    /\ event \in [Callers -> Events \cup {NoEvent}]
    /\ outbox \subseteq Events
    /\ topic \in Seq(Events)
    /\ sched \in {"starting", "waiting", "scanning"}
    /\ tick \in BOOLEAN
    /\ scans \in Nat
    /\ crashes \in Nat

\* A caller told of success has its event in the topic, although the event is handed to a
\* background producer that may still drop it.
SuccessIsPublished ==
    \A c \in Callers : pc[c] = "success" => Published(event[c])

\* OccurredOn is never earlier than the data it stamps: the handler reads the clock
\* after the fuel API has answered, so no archive row claims to know the future.
StampNotBeforeData ==
    \A i \in 1..Len(topic) : topic[i].data <= topic[i].occurredOn

\* Among the scheduler's records a later OccurredOn never hides older data, whatever the
\* producer delays, repeats or reorders: HandleAsync is awaited, so scans do not overlap.
\* (A /notify call may overlap a scan and stamp older data later.)
SchedulerStampsFollowData ==
    \A i, j \in 1..Len(topic) :
        /\ topic[i].caller = Scheduler /\ topic[j].caller = Scheduler
        /\ topic[i].occurredOn < topic[j].occurredOn
        => topic[i].data <= topic[j].data

\* What the readers of the topic may rely on: each scan fetches after the one before was
\* stamped, since HandleAsync is awaited, and its copies are one event.
Feed == INSTANCE ScanFeed
FeedSpec == Feed!Spec

\* The scheduler always gets to its next scan, however many failed, hung or died with the
\* process: ExecuteScanJobAsync catches everything and its timeout frees a call stuck in
\* Kafka, so no bound on the number of scans is missed.
SchedulerNeverStops == \A n \in 1..MaxScans : <>(scans >= n)
================================================================================
