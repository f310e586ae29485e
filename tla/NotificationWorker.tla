--------------------------- MODULE NotificationWorker ---------------------------
(***************************************************************************)
(* NotificationConsumerService: one loop that reads the snapshot topics    *)
(* and the tenant-configuration topic, posts one push per snapshot to ntfy *)
(* and keeps the tenants' configurations in memory.  Kafka's client        *)
(* commits by itself what Consume handed out, whether or not the push      *)
(* succeeded, and joins a topic without a committed offset at its end.     *)
(* One partition per topic, named by the topic; offsets count from 1.      *)
(***************************************************************************)
EXTENDS Naturals, Sequences, FiniteSets

CONSTANTS
    Regions,            \* snapshot topics of KafkaTopicsToListen
    ConfigTopic,        \* tenant-configuration-events
    Tenants,            \* an event of ConfigTopic is known by its tenant
    Snapshots,          \* what a snapshot may hold
    JsonNull,           \* a record holding the JSON literal null
    Broken,             \* a record the handler throws on: no JSON, or a null FuelType
    Unassigned,         \* no offset
    Nothing,            \* no snapshot in hand
    Faults,             \* do Kafka and ntfy fail?
    MaxLog,             \* bound: records per topic
    MaxJoins            \* bound: times the worker joins its group, at a start or again

Topics == Regions \cup {ConfigTopic}
Records == {JsonNull, Broken} \cup Tenants \cup Snapshots
RecordsOf(t) == {JsonNull, Broken} \cup (IF t = ConfigTopic THEN Tenants ELSE Snapshots)

\* A push under way: the record it is made from, and how often the worker had joined its
\* group when it read that record.
Requests == [topic : Regions, offset : Nat, join : Nat]

ASSUME TopicAssumption == ConfigTopic \notin Regions
ASSUME RecordAssumption ==
    /\ {JsonNull, Broken} \cap (Tenants \cup Snapshots) = {}
    /\ Tenants \cap Snapshots = {}
    /\ JsonNull # Broken
ASSUME AbsenceAssumption == Unassigned \notin Nat /\ Nothing \notin Requests
ASSUME BoundAssumption == MaxLog \in Nat /\ MaxJoins \in Nat /\ Faults \in BOOLEAN

VARIABLES
    log,        \* log[t]: the records of topic t
    committed,  \* committed[t]: the group's offset on the broker
    pc,         \* "down", "polling", "posting" (awaiting ntfy), "pausing" (Task.Delay)
    position,   \* position[t]: the last offset Consume handed out
    since,      \* since[t]: position[t] when t was assigned
    hand,       \* the push being posted
    cache,      \* _tenantsCache: the offset of the event cached for a tenant, 0 if none
    wire,       \* posts nobody waits for any more that may still reach ntfy
    pushes,     \* pushes[t]: what ntfy distributed, by offset
    gaveUp,     \* history: posts the worker stopped waiting for, or that were refused
    joined,     \* history: joined[t]: the end of t when it was last joined there
    heard,      \* history: the events of tenants read in this life of the process
    joins       \* times the worker joined its group: at each start, and again in between

known == <<cache, heard>>
process == <<pc, position, since, hand, known, joins>>
ntfy == <<wire, pushes>>
vars == <<log, committed, process, ntfy, gaveUp, joined>>

Init ==
    /\ log = [t \in Topics |-> <<>>]
    /\ committed = [t \in Topics |-> Unassigned]
    /\ pc = "down"
    /\ position = [t \in Topics |-> Unassigned]
    /\ since = [t \in Topics |-> Unassigned]
    /\ hand = Nothing
    /\ cache = [n \in Tenants |-> 0]
    /\ wire = {}
    /\ pushes = [t \in Regions |-> <<>>]
    /\ gaveUp = {}
    /\ joined = [t \in Topics |-> 0]
    /\ heard = {}
    /\ joins = 0

\* A regional WebApi or the Dashboard publishes.
Produce(t, r) ==
    /\ Len(log[t]) < MaxLog
    /\ r \in RecordsOf(t)
    /\ log' = [log EXCEPT ![t] = Append(@, r)]
    /\ UNCHANGED <<committed, process, ntfy, gaveUp, joined>>

--------------------------------------------------------------------------------
(* The process and its Kafka client *)

\* Mutant: the cache outlives the process.
MutantStartKeepsCache ==
    /\ pc = "down"
    /\ joins < MaxJoins
    /\ pc' = "polling"
    /\ joins' = joins + 1
    /\ heard' = {}
    /\ UNCHANGED <<log, committed, position, since, hand, cache, ntfy, gaveUp, joined>>

Start ==
    /\ pc = "down"
    /\ joins < MaxJoins
    /\ pc' = "polling"
    /\ joins' = joins + 1
    /\ cache' = [n \in Tenants |-> 0]
    /\ heard' = {}
    /\ UNCHANGED <<log, committed, position, since, hand, ntfy, gaveUp, joined>>

\* The client learns of a topic: it resumes at the committed offset, else at the end.
Assign(t) ==
    LET offset == IF committed[t] = Unassigned THEN Len(log[t]) ELSE committed[t] IN
    /\ pc # "down"
    /\ position[t] = Unassigned
    /\ position' = [position EXCEPT ![t] = offset]
    /\ since' = [since EXCEPT ![t] = offset]
    /\ joined' = IF committed[t] = Unassigned THEN [joined EXCEPT ![t] = offset] ELSE joined
    /\ UNCHANGED <<log, committed, pc, hand, known, joins, ntfy, gaveUp>>

\* What a commit sends: the offsets handed out since the topics were assigned.
Committable == [t \in Topics |-> IF position[t] = since[t] THEN committed[t] ELSE position[t]]

AutoCommit ==
    /\ pc # "down"
    /\ Committable # committed
    /\ committed' = Committable
    /\ UNCHANGED <<log, process, ntfy, gaveUp, joined>>

\* The client holds no topic any more.
Release ==
    /\ position' = [t \in Topics |-> Unassigned]
    /\ since' = [t \in Topics |-> Unassigned]

\* The session is lost, or the group rebalances (a topic was found, a member came or went):
\* the client's thread joins again, whatever the loop is doing, and Assign resumes where the
\* group committed.  No handler is set, so the process keeps its post and its cache.
Rejoin ==
    /\ pc # "down"
    /\ joins < MaxJoins
    /\ joins' = joins + 1
    /\ Release
    /\ UNCHANGED <<log, committed, pc, hand, known, ntfy, gaveUp, joined>>

\* The process is gone, and with it the wait for a push; the request may still arrive.
Leave ==
    /\ pc' = "down"
    /\ hand' = Nothing
    /\ Release
    /\ gaveUp' = gaveUp \cup ({hand} \ {Nothing})
    /\ wire' \in {wire, wire \cup ({hand} \ {Nothing})}
    /\ UNCHANGED <<log, known, joins, pushes, joined>>

\* stoppingToken is cancelled: the loop ends and Close commits.
Stop ==
    /\ pc \in {"polling", "posting"}
    /\ joins < MaxJoins
    /\ committed' = Committable
    /\ Leave

\* The process dies, or is stopped in a Task.Delay, whose exception skips Close.
Crash ==
    /\ pc # "down"
    /\ joins < MaxJoins
    /\ Leave
    /\ UNCHANGED committed

--------------------------------------------------------------------------------
(* The loop *)

Consume(t) ==
    /\ pc = "polling"
    /\ position[t] # Unassigned
    /\ position[t] < Len(log[t])
    /\ position' = [position EXCEPT ![t] = @ + 1]

Upcoming(t) == log[t][position[t] + 1]

\* A configuration event overwrites what the cache holds of its tenant.
ReadConfiguration ==
    /\ Consume(ConfigTopic)
    /\ Upcoming(ConfigTopic) \in Tenants
    /\ cache' = [cache EXCEPT ![Upcoming(ConfigTopic)] = position'[ConfigTopic]]
    /\ heard' = heard \cup {position'[ConfigTopic]}
    /\ UNCHANGED <<log, committed, pc, since, hand, joins, ntfy, gaveUp, joined>>

\* null is passed over; what does not parse is logged when it is a configuration event.
PassOver(t) ==
    /\ Consume(t)
    /\ Upcoming(t) \in (IF t = ConfigTopic THEN {JsonNull, Broken} ELSE {JsonNull})
    /\ UNCHANGED <<log, committed, pc, since, hand, known, joins, ntfy, gaveUp, joined>>

\* Mutant: a snapshot like the one before is not announced again.
MutantTakeOnlyChanges(t) ==
    /\ Consume(t)
    /\ Upcoming(t) \in Snapshots
    /\ IF position[t] > 0 /\ log[t][position[t]] = Upcoming(t)
       THEN UNCHANGED <<pc, hand>>
       ELSE /\ pc' = "posting"
            /\ hand' = [topic |-> t, offset |-> position'[t], join |-> joins]
    /\ UNCHANGED <<log, committed, since, known, joins, ntfy, gaveUp, joined>>

\* Mutant: the post is not awaited.
MutantTakeWithoutWaiting(t) ==
    /\ Consume(t)
    /\ Upcoming(t) \in Snapshots
    /\ wire' = wire \cup {[topic |-> t, offset |-> position'[t], join |-> joins]}
    /\ UNCHANGED <<log, committed, pc, since, hand, known, joins, pushes, gaveUp, joined>>

\* Every snapshot is posted, with the list of stations or with the news that there are none.
TakeSnapshot(t) ==
    /\ Consume(t)
    /\ Upcoming(t) \in Snapshots
    /\ pc' = "posting"
    /\ hand' = [topic |-> t, offset |-> position'[t], join |-> joins]
    /\ UNCHANGED <<log, committed, since, known, joins, ntfy, gaveUp, joined>>

\* Mutant: the loop seeks back to the record that failed.
MutantFailSnapshotSeeksBack(t) ==
    /\ pc = "polling"
    /\ position[t] # Unassigned
    /\ position[t] < Len(log[t])
    /\ Upcoming(t) = Broken
    /\ pc' = "pausing"
    /\ UNCHANGED <<log, committed, position, since, hand, known, joins, ntfy, gaveUp, joined>>

\* catch (Exception): the record is skipped after a delay.
FailSnapshot(t) ==
    /\ Consume(t)
    /\ Upcoming(t) = Broken
    /\ pc' = "pausing"
    /\ UNCHANGED <<log, committed, since, hand, known, joins, ntfy, gaveUp, joined>>

\* Consume throws: the topic is unknown, or another error.
ConsumeError ==
    /\ Faults
    /\ pc = "polling"
    /\ pc' = "pausing"
    /\ UNCHANGED <<log, committed, position, since, hand, known, joins, ntfy, gaveUp, joined>>

Resume ==
    /\ pc = "pausing"
    /\ pc' = "polling"
    /\ UNCHANGED <<log, committed, position, since, hand, known, joins, ntfy, gaveUp, joined>>

Answered ==
    /\ pc = "posting"
    /\ pc' = "polling"
    /\ hand' = Nothing
    /\ UNCHANGED <<log, committed, position, since, known, joins, joined>>

\* Mutant: the request is sent again when its answer is lost.
MutantLostAnswerRetries ==
    /\ Answered
    /\ pushes' = [pushes EXCEPT ![hand.topic] = Append(Append(@, hand.offset), hand.offset)]
    /\ UNCHANGED <<wire, gaveUp>>

\* ntfy has distributed the push; whether its answer arrives makes no difference.
Accepted ==
    /\ Answered
    /\ pushes' = [pushes EXCEPT ![hand.topic] = Append(@, hand.offset)]
    /\ UNCHANGED <<wire, gaveUp>>

\* Mutant: the refused post is kept for later.
MutantRefusedKept ==
    /\ Faults
    /\ pc = "posting"
    /\ pc' = "pausing"
    /\ gaveUp' = gaveUp \cup {hand}
    /\ UNCHANGED <<log, committed, position, since, hand, known, joins, ntfy, joined>>

\* A status that is not success is logged; there is no retry.
Refused ==
    /\ Faults
    /\ Answered
    /\ gaveUp' = gaveUp \cup {hand}
    /\ UNCHANGED ntfy

\* Mutant: a post that timed out is sent once more.
MutantTimedOutRetries ==
    /\ Faults
    /\ pc = "posting"
    /\ wire' = wire \cup {hand}
    /\ gaveUp' = gaveUp \cup {hand}
    /\ UNCHANGED <<log, committed, process, pushes, joined>>

\* The HTTP client gives up; ntfy may process the request all the same.
TimedOut ==
    /\ Faults
    /\ Answered
    /\ gaveUp' = gaveUp \cup {hand}
    /\ wire' = wire \cup {hand}
    /\ UNCHANGED pushes

ArriveLate(request) ==
    /\ wire' = wire \ {request}
    /\ pushes' = [pushes EXCEPT ![request.topic] = Append(@, request.offset)]
    /\ UNCHANGED <<log, committed, process, gaveUp, joined>>

Read ==
    \/ ReadConfiguration
    \/ \E t \in Topics : PassOver(t)
    \/ \E t \in Regions : TakeSnapshot(t)
    \/ \E t \in Regions : FailSnapshot(t)

Answer == Accepted \/ Refused \/ TimedOut

Next ==
    \/ \E t \in Topics : \E r \in RecordsOf(t) : Produce(t, r)
    \/ Start
    \/ \E t \in Topics : Assign(t)
    \/ Rejoin
    \/ AutoCommit
    \/ Stop
    \/ Crash
    \/ Read
    \/ ConsumeError
    \/ Resume
    \/ Answer
    \/ \E request \in wire : ArriveLate(request)

Spec == Init /\ [][Next]_vars

\* restart: always; the client looks for new topics every 10 s; a delay and a post end (HttpClient
\* times out after 100 s); and a record that waits is handed out between the errors Consume reports.
Fairness ==
    /\ WF_vars(Start)
    /\ \A t \in Topics : WF_vars(Assign(t))
    /\ SF_vars(Read)
    /\ WF_vars(Resume)
    /\ WF_vars(Answer)

FairSpec == Spec /\ Fairness

--------------------------------------------------------------------------------
(* Properties *)

\* Every variable stays in its type.
TypeOK ==
    /\ log \in [Topics -> Seq(Records)]
    /\ committed \in [Topics -> Nat \cup {Unassigned}]
    /\ pc \in {"down", "polling", "posting", "pausing"}
    /\ position \in [Topics -> Nat \cup {Unassigned}]
    /\ since \in [Topics -> Nat \cup {Unassigned}]
    /\ hand \in Requests \cup {Nothing}
    /\ pc = "posting" <=> hand # Nothing
    /\ cache \in [Tenants -> Nat]
    /\ wire \subseteq Requests
    /\ pushes \in [Regions -> Seq(Nat)]
    /\ gaveUp \subseteq Requests
    /\ joined \in [Topics -> Nat]
    /\ heard \subseteq Nat
    /\ joins \in 0..MaxJoins

Pushed(t, i) == \E n \in DOMAIN pushes[t] : pushes[t][n] = i

Tried(t, i) == \E request \in gaveUp \cup {hand} :
    request # Nothing /\ request.topic = t /\ request.offset = i

\* What the group will not be handed again unless it joins anew.
Passed(t) == IF position[t] = Unassigned THEN committed[t] ELSE position[t]

\* Although Kafka commits what Consume handed out without waiting for ntfy, no snapshot is
\* skipped silently after the topic was joined: it was pushed, or its post was tried.
EverySnapshotTried ==
    \A t \in Regions : Passed(t) # Unassigned =>
        \A i \in joined[t] + 1 .. Passed(t) :
            log[t][i] \in Snapshots => Pushed(t, i) \/ Tried(t, i)

\* A snapshot is pushed, now or later, at most once for each time the worker joined its
\* group: at a start, or at a rejoin that takes the client back to what was committed.
RepeatsNeedRejoin ==
    \A t \in Regions : \A i \in 1..Len(log[t]) :
        Cardinality({n \in DOMAIN pushes[t] : pushes[t][n] = i})
            + Cardinality({w \in wire : w.topic = t /\ w.offset = i}) <= joins

\* Pushes of a region arrive in the order of its scans, up to one step back for each time
\* the worker joined again, which reads anew what was not committed, and for each post that
\* was given up.
StepsBackAreExplained ==
    \A t \in Regions :
        Cardinality({n \in 2..Len(pushes[t]) : pushes[t][n] <= pushes[t][n - 1]})
            <= (IF joins = 0 THEN 0 ELSE joins - 1)
                + Cardinality({g \in gaveUp : g.topic = t})

\* The cache holds, for each tenant, an event this life of the process has read, if it read
\* any.  The handler compares no timestamps, so after a rejoin it may go back to an older
\* event, but never below the last one up to where the loop has got.
CacheFollowsReads ==
    pc # "down" => \A n \in Tenants :
        LET events == {i \in heard : log[ConfigTopic][i] = n} IN
        /\ cache[n] \in events \cup {0}
        /\ events # {} => cache[n] # 0
        /\ position[ConfigTopic] # Unassigned =>
               \A i \in events : i <= position[ConfigTopic] => i <= cache[n]

\* A well-formed snapshot waiting in an assigned topic is pushed or tried at last, or the
\* group, having committed nothing, joined the topic anew behind it.
EverySnapshotSettled ==
    \A t \in Regions : \A i \in 1..MaxLog :
        (/\ position[t] # Unassigned
         /\ position[t] < i /\ i <= Len(log[t])
         /\ log[t][i] \in Snapshots)
            ~> (Pushed(t, i) \/ Tried(t, i) \/ i <= joined[t])

\* The records of t posted since it was assigned.
Asked(t) ==
    IF position[t] = Unassigned THEN {}
    ELSE {i \in since[t] + 1 .. position[t] : log[t][i] \in Snapshots}

\* What the subscribers may rely on: each time it joins, the worker posts a region's snapshots
\* one at a time, in order, none left out in between, and each post is distributed at most
\* once, late only if given up.
Pushing == INSTANCE SnapshotPushes
    WITH log <- [t \in Regions |-> log[t]], join <- joins, asked <- [t \in Regions |-> Asked(t)],
         waiting <- hand, stray <- wire
PushesSpec == Pushing!Spec

\* Once the worker reads again from where it stopped, it knows the tenants it read about.
CacheKnowsTenants ==
    position[ConfigTopic] # Unassigned =>
        \A i \in joined[ConfigTopic] + 1 .. position[ConfigTopic] :
            log[ConfigTopic][i] \in Tenants => cache[log[ConfigTopic][i]] # 0
================================================================================
