---------------------------- MODULE RegionScanProofs ----------------------------
(***************************************************************************)
(* Proofs about RegionScan, for every set of requests and every bound.     *)
(*                                                                         *)
(* The invariant speaks of the events that exist: queued in the producer   *)
(* or in the topic.  Only Produce makes one; its clock is not behind any   *)
(* stamp, and what it fetched is not older than what the caller's earlier  *)
(* events show.                                                            *)
(***************************************************************************)
EXTENDS RegionScan, TLAPS

Exists(e) == e \in outbox \/ Published(e)

\* Nothing fetched or stamped is ahead of the clock, and a stamp is not before its data.
ClockInv ==
    /\ \A c \in Callers : fetched[c] <= now
    /\ \A e \in Events : Exists(e) => e.data <= e.occurredOn /\ e.occurredOn <= now

\* The scheduler's stamps follow its data, and its last fetch is its newest data.
OrderInv ==
    /\ \A e \in Events : Exists(e) /\ e.caller = Scheduler => e.data <= fetched[Scheduler]
    /\ \A e, f \in Events :
           /\ Exists(e) /\ Exists(f)
           /\ e.caller = Scheduler /\ f.caller = Scheduler
           /\ e.occurredOn < f.occurredOn
           => e.data <= f.data

ScanInv == TypeOK /\ ClockInv /\ OrderInv /\ SuccessIsPublished

NewEvent(c) ==
    [caller |-> c, scan |-> IF c = Scheduler THEN scans ELSE 0,
     data |-> fetched[c], occurredOn |-> now]

\* Appending to the topic keeps what it holds and adds the one event.
LEMMA AppendPublishes ==
    ASSUME topic \in Seq(Events), NEW x \in Events, topic' = Append(topic, x)
    PROVE  /\ \A e : Published(e) => Published(e)'
           /\ \A e : Published(e)' => Published(e) \/ e = x
<1>1. /\ Len(topic') = Len(topic) + 1
      /\ \A i \in 1..Len(topic) : topic'[i] = topic[i]
      /\ topic'[Len(topic) + 1] = x
      /\ Len(topic) \in Nat
  OBVIOUS
<1>2. ASSUME NEW e, Published(e) PROVE Published(e)'
  <2>1. PICK i \in 1..Len(topic) : topic[i] = e
    BY <1>2 DEF Published
  <2>2. i \in 1..Len(topic') /\ topic'[i] = e
    BY <1>1, <2>1
  <2> QED BY <2>2 DEF Published
<1>3. ASSUME NEW e, Published(e)' PROVE Published(e) \/ e = x
  <2>1. PICK i \in 1..Len(topic') : topic'[i] = e
    BY <1>3 DEF Published
  <2>2. CASE i = Len(topic) + 1
    BY <1>1, <2>1, <2>2
  <2>3. CASE i # Len(topic) + 1
    <3>1. i \in 1..Len(topic) /\ topic[i] = e
      BY <1>1, <2>1, <2>3
    <3> QED BY <3>1 DEF Published
  <2> QED BY <2>2, <2>3
<1> QED BY <1>2, <1>3

--------------------------------------------------------------------------------
(* Type correctness *)

LEMMA TypeInit == Init => TypeOK
<1> SUFFICES ASSUME Init PROVE TypeOK
  OBVIOUS
<1>1. topic \in Seq(Events) /\ outbox \subseteq Events
  BY DEF Init
<1>2. tick \in BOOLEAN
  BY Zenon DEF Init
<1>3. /\ now \in Nat /\ scans \in Nat /\ crashes \in Nat
      /\ fetched \in [Callers -> Nat]
      /\ pc \in [Callers -> Idle \cup Running]
  BY DEF Init, Idle
<1>4. event \in [Callers -> Events \cup {NoEvent}] /\ sched \in {"starting", "waiting", "scanning"}
  BY Zenon DEF Init
<1> QED
  BY <1>1, <1>2, <1>3, <1>4 DEF TypeOK

\* Every step keeps every variable in its type.
LEMMA TypeStep == TypeOK /\ [Next]_vars => TypeOK'
<1> SUFFICES ASSUME TypeOK, [Next]_vars PROVE TypeOK'
  OBVIOUS
<1>1. CASE Advance
  BY <1>1 DEF TypeOK, Advance
<1>2. ASSUME NEW r \in Requests, Notify(r) PROVE TypeOK'
  BY <1>2 DEF TypeOK, Notify, Running
<1>3. CASE TimerTick
  BY <1>3 DEF TypeOK, TimerTick
<1>4. CASE StartScan
  <2>1. tick' \in BOOLEAN
    BY <1>4, Zenon DEF StartScan, TypeOK
  <2>2. /\ pc' = [pc EXCEPT ![Scheduler] = "fetching"]
        /\ event' = [event EXCEPT ![Scheduler] = NoEvent]
        /\ sched' = "scanning" /\ scans' = scans + 1
        /\ UNCHANGED <<now, fetched, outbox, topic, crashes>>
    BY <1>4 DEF StartScan
  <2>3. Scheduler \in Callers /\ scans' \in Nat
    BY <2>2 DEF TypeOK, Callers
  <2>4. pc' \in [Callers -> Idle \cup Running]
    BY <2>2, <2>3 DEF TypeOK, Running
  <2>5. event' \in [Callers -> Events \cup {NoEvent}]
    BY <2>2, <2>3 DEF TypeOK
  <2> QED
    BY <2>1, <2>2, <2>3, <2>4, <2>5, Zenon DEF TypeOK
<1>5. CASE EndScan
  BY <1>5 DEF TypeOK, EndScan
<1>6. ASSUME NEW c \in Callers, FetchOk(c) PROVE TypeOK'
  BY <1>6 DEF TypeOK, FetchOk, Running
<1>7. ASSUME NEW c \in Callers, FetchEmpty(c) PROVE TypeOK'
  BY <1>7 DEF TypeOK, FetchEmpty, Idle
<1>8. ASSUME NEW c \in Callers, Produce(c) PROVE TypeOK'
  <2>1. NewEvent(c) \in Events
    BY DEF NewEvent, Events, TypeOK
  <2>2. /\ event' = [event EXCEPT ![c] = NewEvent(c)]
        /\ outbox' = outbox \cup {NewEvent(c)}
        /\ pc' = [pc EXCEPT ![c] = "producing"]
        /\ UNCHANGED <<now, fetched, topic, sched, tick, scans, crashes>>
    BY <1>8 DEF Produce, NewEvent
  <2> QED BY <2>1, <2>2 DEF TypeOK, Running
<1>9. ASSUME NEW e \in outbox, Send(e) PROVE TypeOK'
  BY <1>9 DEF TypeOK, Send
<1>10. ASSUME NEW c \in Callers, PublishOk(c) PROVE TypeOK'
  BY <1>10 DEF TypeOK, PublishOk, Idle
<1>11. ASSUME NEW c \in Callers, PublishFail(c) PROVE TypeOK'
  BY <1>11 DEF TypeOK, PublishFail, Idle
<1>12. ASSUME NEW c \in Callers, Cancel(c) PROVE TypeOK'
  BY <1>12 DEF TypeOK, Cancel, Idle
<1>13. ASSUME NEW e \in outbox, Forget(e) PROVE TypeOK'
  BY <1>13 DEF TypeOK, Forget
<1>14. CASE Crash
  <2>1. tick' \in BOOLEAN /\ outbox' \subseteq Events
    BY <1>14, Zenon DEF Crash
  <2>2. pc' \in [Callers -> Idle \cup Running]
    BY <1>14 DEF Crash, TypeOK, Idle
  <2>3. crashes' \in Nat
    BY <1>14 DEF Crash, TypeOK
  <2> QED
    BY <1>14, <2>1, <2>2, <2>3, Zenon DEF TypeOK, Crash
<1>15. CASE UNCHANGED vars
  BY <1>15 DEF TypeOK, vars
<1> QED
  BY <1>1, <1>2, <1>3, <1>4, <1>5, <1>6, <1>7, <1>8, <1>9, <1>10, <1>11, <1>12, <1>13,
     <1>14, <1>15 DEF Next

\* The variables keep their types, for all constants.
THEOREM ScanTypeOK == Spec => []TypeOK
  BY TypeInit, TypeStep, PTL DEF Spec

--------------------------------------------------------------------------------
(* The steps *)

LEMMA InvInit == Init => ScanInv
<1> SUFFICES ASSUME Init PROVE ScanInv
  OBVIOUS
<1>1. \A e : ~Exists(e)
  BY DEF Init, Exists, Published
<1>2. Scheduler \in Callers
  BY DEF Callers
<1> QED
  BY <1>1, TypeInit DEF Init, ScanInv, ClockInv, OrderInv, SuccessIsPublished

\* A step that makes no event, and moves neither the clock nor a fetch back.
LEMMA QuietStep ==
    ASSUME TypeOK, TypeOK', ClockInv, OrderInv,
           now <= now',
           \A c \in Callers : fetched'[c] <= now' /\ fetched[c] <= fetched'[c],
           \A e \in Events : Exists(e)' => Exists(e)
    PROVE  ClockInv' /\ OrderInv'
<1>1. Scheduler \in Callers
  BY DEF Callers
<1>2. \A e \in Events : e.data \in Nat /\ e.occurredOn \in Nat
  BY DEF Events
<1>3. now \in Nat /\ now' \in Nat /\ fetched[Scheduler] \in Nat /\ fetched'[Scheduler] \in Nat
  BY <1>1 DEF TypeOK
<1>4. ClockInv'
  <2>1. ASSUME NEW e \in Events, Exists(e)'
        PROVE  e.data <= e.occurredOn /\ e.occurredOn <= now'
    <3>1. e.data <= e.occurredOn /\ e.occurredOn <= now
      BY <2>1 DEF ClockInv
    <3> QED BY <3>1, <1>2, <1>3
  <2> QED BY <2>1 DEF ClockInv
<1>5. OrderInv'
  <2>1. ASSUME NEW e \in Events, Exists(e)', e.caller = Scheduler
        PROVE  e.data <= fetched'[Scheduler]
    <3>1. e.data <= fetched[Scheduler] /\ fetched[Scheduler] <= fetched'[Scheduler]
      BY <1>1, <2>1 DEF OrderInv
    <3> QED BY <3>1, <1>2, <1>3
  <2>2. ASSUME NEW e \in Events, NEW f \in Events, Exists(e)', Exists(f)',
               e.caller = Scheduler, f.caller = Scheduler, e.occurredOn < f.occurredOn
        PROVE  e.data <= f.data
    BY <2>2 DEF OrderInv
  <2> QED BY <2>1, <2>2 DEF OrderInv
<1> QED BY <1>4, <1>5

\* Produce: the new event is stamped now with what its caller fetched.
LEMMA ProduceStep ==
    ASSUME TypeOK, TypeOK', ClockInv, OrderInv, NEW c \in Callers, Produce(c)
    PROVE  ClockInv' /\ OrderInv'
<1> DEFINE n == NewEvent(c)
<1>1. /\ n \in Events /\ n.caller = c /\ n.data = fetched[c] /\ n.occurredOn = now
      /\ now' = now /\ fetched' = fetched
      /\ \A e : Exists(e)' => Exists(e) \/ e = n
  <2>1. n \in Events /\ n.caller = c /\ n.data = fetched[c] /\ n.occurredOn = now
    BY DEF NewEvent, Events, TypeOK
  <2>2. outbox' = outbox \cup {n} /\ topic' = topic /\ now' = now /\ fetched' = fetched
    BY DEF Produce, NewEvent
  <2> HIDE DEF n
  <2>3. \A e : Exists(e)' => Exists(e) \/ e = n
    BY <2>2 DEF Exists, Published
  <2> QED BY <2>1, <2>2, <2>3
<1> HIDE DEF n
<1>2. Scheduler \in Callers
  BY DEF Callers
<1>3. \A e \in Events : e.data \in Nat /\ e.occurredOn \in Nat
  BY DEF Events
<1>4. now \in Nat /\ \A d \in Callers : fetched[d] \in Nat /\ fetched[d] <= now
  BY DEF TypeOK, ClockInv
<1>5. ClockInv'
  <2>1. ASSUME NEW e \in Events, Exists(e)'
        PROVE  e.data <= e.occurredOn /\ e.occurredOn <= now
    <3>1. CASE Exists(e)
      BY <3>1 DEF ClockInv
    <3>2. CASE e = n
      BY <1>1, <1>4, <3>2
    <3> QED BY <1>1, <2>1, <3>1, <3>2
  <2> QED BY <1>1, <1>4, <2>1 DEF ClockInv
<1>6. ASSUME NEW e \in Events, Exists(e)', e.caller = Scheduler
      PROVE  e.data <= fetched[Scheduler]
  <2>1. CASE Exists(e)
    BY <1>6, <2>1 DEF OrderInv
  <2>2. CASE e = n
    BY <1>1, <1>2, <1>4, <1>6, <2>2
  <2> QED BY <1>1, <1>6, <2>1, <2>2
<1>7. ASSUME NEW e \in Events, NEW f \in Events, Exists(e)', Exists(f)',
             e.caller = Scheduler, f.caller = Scheduler, e.occurredOn < f.occurredOn
      PROVE  e.data <= f.data
  <2>1. CASE Exists(e) /\ Exists(f)
    BY <1>7, <2>1 DEF OrderInv
  <2>2. CASE f = n
    <3>1. e.data <= fetched[Scheduler]
      BY <1>6, <1>7
    <3> QED BY <1>1, <1>7, <2>2, <3>1
  <2>3. CASE e = n /\ f # n
    <3>1. f.occurredOn <= now
      BY <1>1, <1>7, <2>3 DEF ClockInv
    <3> QED BY <1>1, <1>3, <1>4, <1>7, <2>3, <3>1
  <2> QED BY <1>1, <1>7, <2>1, <2>2, <2>3
<1> QED
  BY <1>1, <1>5, <1>6, <1>7 DEF OrderInv

\* Steps that add no event and leave the fetches and the clock alone.
LEMMA StillStep ==
    ASSUME ScanInv, TypeOK', now' = now, fetched' = fetched,
           outbox' \subseteq outbox, topic' = topic
    PROVE  ClockInv' /\ OrderInv'
<1>1. \A e \in Events : Exists(e)' => Exists(e)
  BY DEF Exists, Published
<1>2. \A c \in Callers : fetched'[c] <= now' /\ fetched[c] <= fetched'[c]
  BY DEF ScanInv, ClockInv, TypeOK
<1>3. now <= now'
  BY DEF ScanInv, TypeOK
<1> QED BY <1>1, <1>2, <1>3, QuietStep DEF ScanInv

\* A step keeps SuccessIsPublished if nothing leaves the topic and callers in success
\* keep their event.
LEMMA SuccessKept ==
    ASSUME SuccessIsPublished,
           1..Len(topic) \subseteq 1..Len(topic'),
           \A i \in 1..Len(topic) : topic'[i] = topic[i],
           \A c \in Callers : pc'[c] = "success" => pc[c] = "success" /\ event'[c] = event[c]
    PROVE  SuccessIsPublished'
<1>1. ASSUME NEW c \in Callers, pc'[c] = "success"
      PROVE  \E i \in 1..Len(topic') : topic'[i] = event'[c]
  <2>1. PICK i \in 1..Len(topic) : topic[i] = event[c]
    BY <1>1 DEF SuccessIsPublished, Published
  <2> QED BY <1>1, <2>1
<1> QED BY <1>1 DEF SuccessIsPublished, Published

LEMMA InvStep == ScanInv /\ [Next]_vars => ScanInv'
<1> SUFFICES ASSUME ScanInv, [Next]_vars PROVE ScanInv'
  OBVIOUS
<1>1. TypeOK /\ TypeOK' /\ ClockInv /\ OrderInv /\ SuccessIsPublished
  BY TypeStep DEF ScanInv
<1>2. Scheduler \in Callers /\ \A r \in Requests : r \in Callers
  BY DEF Callers
<1>3. CASE Advance
  <2>1. /\ now' = now + 1 /\ fetched' = fetched /\ outbox' = outbox /\ topic' = topic
        /\ pc' = pc /\ event' = event
    BY <1>3 DEF Advance
  <2>2. \A c \in Callers : fetched'[c] <= now' /\ fetched[c] <= fetched'[c]
    BY <1>1, <2>1 DEF TypeOK, ClockInv
  <2>3. now <= now'
    BY <1>1, <2>1 DEF TypeOK
  <2>4. \A e \in Events : Exists(e)' => Exists(e)
    BY <2>1 DEF Exists, Published
  <2> QED BY <1>1, <2>1, <2>2, <2>3, <2>4, QuietStep, SuccessKept DEF ScanInv
<1>4. ASSUME NEW r \in Requests, Notify(r) PROVE ScanInv'
  <2>1. /\ now' = now /\ fetched' = fetched /\ outbox' \subseteq outbox /\ topic' = topic
        /\ \A c \in Callers : pc'[c] = "success" => pc[c] = "success" /\ event'[c] = event[c]
    BY <1>1, <1>2, <1>4 DEF Notify, TypeOK
  <2> QED BY <1>1, <2>1, StillStep, SuccessKept DEF ScanInv
<1>5. CASE TimerTick
  BY <1>1, <1>5, StillStep, SuccessKept DEF ScanInv, TimerTick
<1>6. CASE StartScan
  <2>1. /\ now' = now /\ fetched' = fetched /\ outbox' \subseteq outbox /\ topic' = topic
        /\ \A c \in Callers : pc'[c] = "success" => pc[c] = "success" /\ event'[c] = event[c]
    BY <1>1, <1>2, <1>6 DEF StartScan, TypeOK
  <2> QED BY <1>1, <2>1, StillStep, SuccessKept DEF ScanInv
<1>7. CASE EndScan
  BY <1>1, <1>7, StillStep, SuccessKept DEF ScanInv, EndScan
<1>8. ASSUME NEW c \in Callers, FetchOk(c) PROVE ScanInv'
  <2>1. /\ now' = now /\ outbox' = outbox /\ topic' = topic
        /\ fetched' = [fetched EXCEPT ![c] = now]
        /\ \A d \in Callers : pc'[d] = "success" => pc[d] = "success" /\ event'[d] = event[d]
    BY <1>1, <1>8 DEF FetchOk, TypeOK
  <2>2. \A d \in Callers : fetched'[d] <= now' /\ fetched[d] <= fetched'[d]
    BY <1>1, <2>1 DEF TypeOK, ClockInv
  <2>3. now <= now'
    BY <1>1, <2>1 DEF TypeOK
  <2>4. \A e \in Events : Exists(e)' => Exists(e)
    BY <2>1 DEF Exists, Published
  <2> QED BY <1>1, <2>1, <2>2, <2>3, <2>4, QuietStep, SuccessKept DEF ScanInv
<1>9. ASSUME NEW c \in Callers, FetchEmpty(c) PROVE ScanInv'
  <2>1. /\ now' = now /\ fetched' = fetched /\ outbox' \subseteq outbox /\ topic' = topic
        /\ \A d \in Callers : pc'[d] = "success" => pc[d] = "success" /\ event'[d] = event[d]
    BY <1>1, <1>9 DEF FetchEmpty, TypeOK
  <2> QED BY <1>1, <2>1, StillStep, SuccessKept DEF ScanInv
<1>10. ASSUME NEW c \in Callers, Produce(c) PROVE ScanInv'
  <2>1. /\ topic' = topic
        /\ \A d \in Callers : pc'[d] = "success" => pc[d] = "success" /\ event'[d] = event[d]
    BY <1>1, <1>10 DEF Produce, TypeOK
  <2>2. ClockInv' /\ OrderInv'
    BY <1>1, <1>10, ProduceStep
  <2> QED BY <1>1, <2>1, <2>2, SuccessKept DEF ScanInv
<1>11. ASSUME NEW e \in outbox, Send(e) PROVE ScanInv'
  <2>1. /\ e \in Events /\ topic \in Seq(Events) /\ topic' = Append(topic, e)
        /\ now' = now /\ fetched' = fetched /\ outbox' = outbox /\ pc' = pc /\ event' = event
    BY <1>1, <1>11 DEF Send, TypeOK
  <2>2. \A f : Published(f)' => Published(f) \/ f = e
    BY <2>1, AppendPublishes
  <2>3. \A f \in Events : Exists(f)' => Exists(f)
    BY <1>11, <2>1, <2>2 DEF Exists
  <2>4. \A c \in Callers : fetched'[c] <= now' /\ fetched[c] <= fetched'[c]
    BY <1>1, <2>1 DEF TypeOK, ClockInv
  <2>5. now <= now'
    BY <1>1, <2>1 DEF TypeOK
  <2>6. /\ 1..Len(topic) \subseteq 1..Len(topic')
        /\ \A i \in 1..Len(topic) : topic'[i] = topic[i]
    BY <2>1
  <2> QED BY <1>1, <2>1, <2>3, <2>4, <2>5, <2>6, QuietStep, SuccessKept DEF ScanInv
<1>12. ASSUME NEW c \in Callers, PublishOk(c) PROVE ScanInv'
  <2>1. /\ now' = now /\ fetched' = fetched /\ outbox' \subseteq outbox /\ topic' = topic
        /\ event' = event /\ pc' = [pc EXCEPT ![c] = "success"] /\ Published(event[c])
    BY <1>12 DEF PublishOk
  <2>2. ASSUME NEW d \in Callers, pc'[d] = "success"
        PROVE  \E i \in 1..Len(topic) : topic[i] = event[d]
    <3>1. CASE d = c
      BY <2>1, <3>1 DEF Published
    <3>2. CASE d # c
      BY <1>1, <2>1, <2>2, <3>2 DEF TypeOK, SuccessIsPublished, Published
    <3> QED BY <3>1, <3>2
  <2>3. SuccessIsPublished'
    BY <2>1, <2>2 DEF SuccessIsPublished, Published
  <2> QED BY <1>1, <2>1, <2>3, StillStep DEF ScanInv
<1>13. ASSUME NEW c \in Callers, PublishFail(c) PROVE ScanInv'
  <2>1. /\ now' = now /\ fetched' = fetched /\ outbox' \subseteq outbox /\ topic' = topic
        /\ \A d \in Callers : pc'[d] = "success" => pc[d] = "success" /\ event'[d] = event[d]
    BY <1>1, <1>13 DEF PublishFail, TypeOK
  <2> QED BY <1>1, <2>1, StillStep, SuccessKept DEF ScanInv
<1>14. ASSUME NEW c \in Callers, Cancel(c) PROVE ScanInv'
  <2>1. /\ now' = now /\ fetched' = fetched /\ outbox' \subseteq outbox /\ topic' = topic
        /\ \A d \in Callers : pc'[d] = "success" => pc[d] = "success" /\ event'[d] = event[d]
    BY <1>1, <1>14 DEF Cancel, TypeOK
  <2> QED BY <1>1, <2>1, StillStep, SuccessKept DEF ScanInv
<1>15. ASSUME NEW e \in outbox, Forget(e) PROVE ScanInv'
  BY <1>1, <1>15, StillStep, SuccessKept DEF ScanInv, Forget
<1>16. CASE Crash
  <2>1. /\ now' = now /\ fetched' = fetched /\ outbox' \subseteq outbox /\ topic' = topic
        /\ \A d \in Callers : pc'[d] = "success" => pc[d] = "success" /\ event'[d] = event[d]
    BY <1>1, <1>16 DEF Crash, TypeOK
  <2> QED BY <1>1, <2>1, StillStep, SuccessKept DEF ScanInv
<1>17. CASE UNCHANGED vars
  BY <1>1, <1>17, StillStep, SuccessKept DEF ScanInv, vars
<1> QED
  BY <1>3, <1>4, <1>5, <1>6, <1>7, <1>8, <1>9, <1>10, <1>11, <1>12, <1>13, <1>14, <1>15,
     <1>16, <1>17 DEF Next

--------------------------------------------------------------------------------
(* Theorems *)

LEMMA Invariance == Spec => []ScanInv
  BY InvInit, InvStep, PTL DEF Spec

\* SuccessIsPublished: a caller told of success has its event in the topic.
THEOREM SuccessIsAlwaysPublished == Spec => []SuccessIsPublished
<1>1. ScanInv => SuccessIsPublished
  BY DEF ScanInv
<1> QED BY <1>1, Invariance, PTL

\* StampNotBeforeData: no record of the topic is stamped before its data.
THEOREM StampsFollowFetch == Spec => []StampNotBeforeData
<1>1. ScanInv => StampNotBeforeData
  <2> SUFFICES ASSUME ScanInv, NEW i \in 1..Len(topic) PROVE topic[i].data <= topic[i].occurredOn
    BY DEF StampNotBeforeData
  <2>1. topic[i] \in Events /\ Exists(topic[i])
    BY DEF ScanInv, TypeOK, Exists, Published
  <2> QED BY <2>1 DEF ScanInv, ClockInv
<1> QED BY <1>1, Invariance, PTL

\* SchedulerStampsFollowData: whatever the producer delays, repeats or reorders, a later
\* stamp of the scheduler never carries older data.
THEOREM SchedulerOrder == Spec => []SchedulerStampsFollowData
<1>1. ScanInv => SchedulerStampsFollowData
  <2> SUFFICES ASSUME ScanInv, NEW i \in 1..Len(topic), NEW j \in 1..Len(topic),
                      topic[i].caller = Scheduler, topic[j].caller = Scheduler,
                      topic[i].occurredOn < topic[j].occurredOn
               PROVE  topic[i].data <= topic[j].data
    BY DEF SchedulerStampsFollowData
  <2>1. /\ topic[i] \in Events /\ Exists(topic[i])
        /\ topic[j] \in Events /\ Exists(topic[j])
    BY DEF ScanInv, TypeOK, Exists, Published
  <2> QED BY <2>1 DEF ScanInv, OrderInv
<1> QED BY <1>1, Invariance, PTL
--------------------------------------------------------------------------------
(* The promise to the readers of the topic *)

FromScheduler(e) == e.caller = Scheduler

\* Scans are numbered; the one under way has no event yet, and it has fetched, if at all,
\* after every earlier one was stamped.  Feed!InOrder is this order among the events.
FeedInv ==
    /\ scans <= MaxScans
    /\ \A e \in Events : Exists(e) =>
           IF FromScheduler(e)
           THEN /\ e.scan \in 1..scans
                /\ pc[Scheduler] \in {"fetching", "stamping"} => e.scan < scans
                /\ pc[Scheduler] = "stamping" => e.occurredOn <= fetched[Scheduler]
           ELSE e.caller \in Requests /\ e.scan = 0
    /\ pc[Scheduler] \in {"fetching", "stamping"} => scans >= 1
    /\ \A e, f \in Events : Exists(e) /\ Exists(f) => Feed!InOrder(e, f)

LEMMA FeedInit == Init => FeedInv
<1> SUFFICES ASSUME Init PROVE FeedInv
  OBVIOUS
<1>1. \A e : ~Exists(e)
  BY DEF Init, Exists, Published
<1>2. Scheduler \in Callers
  BY DEF Callers
<1>3. pc[Scheduler] = "idle" /\ scans = 0 /\ scans <= MaxScans
  BY <1>2, BoundAssumption DEF Init
<1> QED
  BY <1>1, <1>3 DEF FeedInv

\* A step that makes no event and does not take the scheduler into a call.
LEMMA FeedKept ==
    ASSUME FeedInv, scans' = scans,
           \A e \in Events : Exists(e)' => Exists(e),
           pc'[Scheduler] \in {"fetching", "stamping"} => pc'[Scheduler] = pc[Scheduler],
           fetched'[Scheduler] = fetched[Scheduler]
    PROVE  FeedInv'
<1>1. ASSUME NEW e \in Events, Exists(e)', FromScheduler(e)
      PROVE  /\ e.scan \in 1..scans'
             /\ pc'[Scheduler] \in {"fetching", "stamping"} => e.scan < scans'
             /\ pc'[Scheduler] = "stamping" => e.occurredOn <= fetched'[Scheduler]
  BY <1>1 DEF FeedInv
<1>2. ASSUME NEW e \in Events, Exists(e)', ~FromScheduler(e)
      PROVE  e.caller \in Requests /\ e.scan = 0
  BY <1>2 DEF FeedInv
<1>3. ASSUME NEW e \in Events, NEW f \in Events, Exists(e)', Exists(f)'
      PROVE  Feed!InOrder(e, f)
  BY <1>3 DEF FeedInv
<1>4. scans' <= MaxScans /\ (pc'[Scheduler] \in {"fetching", "stamping"} => scans' >= 1)
  BY DEF FeedInv
<1> QED
  BY <1>1, <1>2, <1>3, <1>4 DEF FeedInv, FromScheduler, Feed!InOrder

\* Produce makes the event of the scan under way, or of a request.
LEMMA FeedProduce ==
    ASSUME ScanInv, FeedInv, NEW c \in Callers, Produce(c)
    PROVE  FeedInv'
<1> DEFINE n == NewEvent(c)
<1>1. /\ n \in Events /\ n.caller = c /\ n.data = fetched[c] /\ n.occurredOn = now
      /\ n.scan = IF c = Scheduler THEN scans ELSE 0
  BY DEF NewEvent, Events, ScanInv, TypeOK
<1>2. /\ fetched' = fetched /\ scans' = scans /\ pc[c] = "stamping"
      /\ pc' = [pc EXCEPT ![c] = "producing"]
      /\ outbox' = outbox \cup {n} /\ topic' = topic
  BY DEF Produce, NewEvent
<1> HIDE DEF n
<1>3. \A e : Exists(e)' => Exists(e) \/ e = n
  BY <1>2 DEF Exists, Published
<1>4. /\ Scheduler \in Callers /\ c \in Requests \cup {Scheduler}
      /\ pc'[Scheduler] = IF c = Scheduler THEN "producing" ELSE pc[Scheduler]
  BY <1>2 DEF Callers, ScanInv, TypeOK
<1>5. /\ \A e \in Events : e.data \in Nat /\ e.occurredOn \in Nat /\ e.scan \in Nat
      /\ now \in Nat /\ scans \in Nat /\ fetched[Scheduler] \in Nat
  BY <1>4 DEF Events, ScanInv, TypeOK
<1>6. ASSUME NEW e \in Events, Exists(e)', FromScheduler(e)
      PROVE  /\ e.scan \in 1..scans'
             /\ pc'[Scheduler] \in {"fetching", "stamping"} => e.scan < scans'
             /\ pc'[Scheduler] = "stamping" => e.occurredOn <= fetched'[Scheduler]
  <2>1. CASE Exists(e)
    BY <1>2, <1>4, <1>6, <2>1 DEF FeedInv
  <2>2. CASE e = n
    <3>1. c = Scheduler
      BY <1>1, <1>6, <2>2 DEF FromScheduler
    <3>2. scans >= 1
      BY <1>2, <3>1 DEF FeedInv
    <3> QED BY <1>1, <1>2, <1>4, <1>5, <2>2, <3>1, <3>2
  <2> QED BY <1>3, <1>6, <2>1, <2>2
<1>7. ASSUME NEW e \in Events, Exists(e)', ~FromScheduler(e)
      PROVE  e.caller \in Requests /\ e.scan = 0
  <2>1. CASE Exists(e)
    BY <1>7, <2>1 DEF FeedInv
  <2>2. CASE e = n
    BY <1>1, <1>4, <1>7, <2>2 DEF FromScheduler
  <2> QED BY <1>3, <1>7, <2>1, <2>2
<1>8. ASSUME NEW e \in Events, Exists(e), e.caller = Scheduler, n.caller = Scheduler
      PROVE  e.scan < n.scan /\ e.occurredOn <= n.data
  BY <1>1, <1>2, <1>8 DEF FeedInv, FromScheduler
<1>9. ASSUME NEW e \in Events, NEW f \in Events, Exists(e)', Exists(f)'
      PROVE  Feed!InOrder(e, f)
  <2>1. CASE Exists(e) /\ Exists(f)
    BY <2>1 DEF FeedInv
  <2>2. CASE e = n /\ f = n
    BY <1>1, <1>5, <2>2 DEF Feed!InOrder
  <2>3. CASE Exists(e) /\ f = n
    BY <1>1, <1>5, <1>8, <2>3 DEF Feed!InOrder
  <2>4. CASE e = n /\ Exists(f)
    BY <1>1, <1>5, <1>8, <2>4 DEF Feed!InOrder
  <2> QED BY <1>3, <1>9, <2>1, <2>2, <2>3, <2>4
<1>10. scans' <= MaxScans /\ (pc'[Scheduler] \in {"fetching", "stamping"} => scans' >= 1)
  BY <1>2, <1>4 DEF FeedInv
<1> QED
  BY <1>6, <1>7, <1>9, <1>10 DEF FeedInv, FromScheduler, Feed!InOrder

\* The scan that starts has the next number.
LEMMA FeedStart == ScanInv /\ FeedInv /\ StartScan => FeedInv'
<1> SUFFICES ASSUME ScanInv, FeedInv, StartScan PROVE FeedInv'
  OBVIOUS
<1>1. /\ scans' = scans + 1 /\ scans < MaxScans
      /\ pc' = [pc EXCEPT ![Scheduler] = "fetching"]
      /\ UNCHANGED <<now, fetched, outbox, topic>>
  BY DEF StartScan
<1>2. pc'[Scheduler] = "fetching" /\ scans \in Nat /\ MaxScans \in Nat
  BY <1>1, BoundAssumption DEF ScanInv, TypeOK, Callers
<1>3. \A e \in Events : Exists(e)' => Exists(e)
  BY <1>1 DEF Exists, Published
<1>4. ASSUME NEW e \in Events, Exists(e)', FromScheduler(e)
      PROVE  e.scan \in 1..scans' /\ e.scan < scans'
  <2>1. e.scan \in 1..scans
    BY <1>3, <1>4 DEF FeedInv
  <2> QED BY <1>1, <1>2, <2>1
<1>5. ASSUME NEW e \in Events, Exists(e)', ~FromScheduler(e)
      PROVE  e.caller \in Requests /\ e.scan = 0
  BY <1>3, <1>5 DEF FeedInv
<1>6. ASSUME NEW e \in Events, NEW f \in Events, Exists(e)', Exists(f)'
      PROVE  Feed!InOrder(e, f)
  BY <1>3, <1>6 DEF FeedInv
<1> QED
  BY <1>1, <1>2, <1>4, <1>5, <1>6 DEF FeedInv, FromScheduler, Feed!InOrder

\* What the scheduler fetches is as new as the clock, and no stamp is newer.
LEMMA FeedFetch ==
    ASSUME ScanInv, FeedInv, NEW c \in Callers, FetchOk(c)
    PROVE  FeedInv'
<1>1. /\ scans' = scans /\ pc[c] = "fetching" /\ outbox' = outbox /\ topic' = topic
      /\ pc' = [pc EXCEPT ![c] = "stamping"] /\ fetched' = [fetched EXCEPT ![c] = now]
  BY DEF FetchOk
<1>2. \A e \in Events : Exists(e)' => Exists(e)
  BY <1>1 DEF Exists, Published
<1>3. Scheduler \in Callers /\ pc \in [Callers -> Idle \cup Running] /\ fetched \in [Callers -> Nat]
  BY DEF Callers, ScanInv, TypeOK
<1>4. CASE c # Scheduler
  <2>1. pc'[Scheduler] = pc[Scheduler] /\ fetched'[Scheduler] = fetched[Scheduler]
    BY <1>1, <1>3, <1>4
  <2> QED BY <1>1, <1>2, <2>1, FeedKept
<1>5. CASE c = Scheduler
  <2>1. pc'[Scheduler] = "stamping" /\ fetched'[Scheduler] = now /\ pc[Scheduler] = "fetching"
    BY <1>1, <1>3, <1>5
  <2>2. ASSUME NEW e \in Events, Exists(e)', FromScheduler(e)
        PROVE  e.scan \in 1..scans' /\ e.scan < scans' /\ e.occurredOn <= fetched'[Scheduler]
    <3>1. e.scan \in 1..scans /\ e.scan < scans
      BY <1>2, <2>1, <2>2 DEF FeedInv
    <3>2. e.occurredOn <= now
      BY <1>2, <2>2 DEF ScanInv, ClockInv
    <3> QED BY <1>1, <2>1, <3>1, <3>2
  <2>3. ASSUME NEW e \in Events, Exists(e)', ~FromScheduler(e)
        PROVE  e.caller \in Requests /\ e.scan = 0
    BY <1>2, <2>3 DEF FeedInv
  <2>4. ASSUME NEW e \in Events, NEW f \in Events, Exists(e)', Exists(f)'
        PROVE  Feed!InOrder(e, f)
    BY <1>2, <2>4 DEF FeedInv
  <2>5. scans' <= MaxScans /\ scans' >= 1
    BY <1>1, <2>1 DEF FeedInv
  <2> QED
    BY <2>2, <2>3, <2>4, <2>5 DEF FeedInv, FromScheduler, Feed!InOrder
<1> QED BY <1>4, <1>5

LEMMA FeedStep == ScanInv /\ FeedInv /\ [Next]_vars => FeedInv'
<1> SUFFICES ASSUME ScanInv, FeedInv, [Next]_vars PROVE FeedInv'
  OBVIOUS
<1>1. Scheduler \in Callers /\ Requests \subseteq Callers /\ Scheduler \notin Requests
  BY SchedulerAssumption DEF Callers
<1>2. pc \in [Callers -> Idle \cup Running] /\ topic \in Seq(Events) /\ outbox \subseteq Events
  BY DEF ScanInv, TypeOK
<1>3. ASSUME scans' = scans, fetched' = fetched, topic' = topic, outbox' \subseteq outbox,
             pc'[Scheduler] \in {"fetching", "stamping"} => pc'[Scheduler] = pc[Scheduler]
      PROVE  FeedInv'
  <2>1. \A e \in Events : Exists(e)' => Exists(e)
    BY <1>3 DEF Exists, Published
  <2> QED BY <1>3, <2>1, FeedKept
<1>4. CASE Advance
  BY <1>3, <1>4 DEF Advance
<1>5. ASSUME NEW r \in Requests, Notify(r) PROVE FeedInv'
  BY <1>1, <1>2, <1>3, <1>5 DEF Notify
<1>6. CASE TimerTick
  BY <1>3, <1>6 DEF TimerTick
<1>7. CASE StartScan
  BY <1>7, FeedStart
<1>8. CASE EndScan
  BY <1>3, <1>8 DEF EndScan
<1>9. ASSUME NEW c \in Callers, FetchOk(c) PROVE FeedInv'
  BY <1>9, FeedFetch
<1>10. ASSUME NEW c \in Callers, FetchEmpty(c) PROVE FeedInv'
  BY <1>1, <1>2, <1>3, <1>10 DEF FetchEmpty
<1>11. ASSUME NEW c \in Callers, Produce(c) PROVE FeedInv'
  BY <1>11, FeedProduce
<1>12. ASSUME NEW e \in outbox, Send(e) PROVE FeedInv'
  <2>1. e \in Events /\ topic' = Append(topic, e)
    BY <1>2, <1>12 DEF Send
  <2>2. \A f : Published(f)' => Published(f) \/ f = e
    BY <1>2, <2>1, AppendPublishes
  <2>3. \A f \in Events : Exists(f)' => Exists(f)
    BY <1>12, <2>2 DEF Exists, Send
  <2> QED BY <1>12, <2>3, FeedKept DEF Send
<1>13. ASSUME NEW c \in Callers, PublishOk(c) PROVE FeedInv'
  BY <1>1, <1>2, <1>3, <1>13 DEF PublishOk
<1>14. ASSUME NEW c \in Callers, PublishFail(c) PROVE FeedInv'
  BY <1>1, <1>2, <1>3, <1>14 DEF PublishFail
<1>15. ASSUME NEW c \in Callers, Cancel(c) PROVE FeedInv'
  BY <1>1, <1>2, <1>3, <1>15 DEF Cancel
<1>16. ASSUME NEW e \in outbox, Forget(e) PROVE FeedInv'
  BY <1>3, <1>16 DEF Forget
<1>17. CASE Crash
  BY <1>1, <1>2, <1>3, <1>17 DEF Crash, Running
<1>18. CASE UNCHANGED vars
  BY <1>3, <1>18 DEF vars
<1> QED
  BY <1>4, <1>5, <1>6, <1>7, <1>8, <1>9, <1>10, <1>11, <1>12, <1>13, <1>14, <1>15, <1>16,
     <1>17, <1>18 DEF Next

\* An event that exists may be published.
LEMMA SendPublishes ==
    ASSUME ScanInv, FeedInv, NEW e \in outbox, Send(e)
    PROVE  Feed!Next
<1>1. e \in Events /\ Exists(e) /\ topic \in Seq(Events)
  BY DEF ScanInv, TypeOK, Exists
<1>2. e.data <= e.occurredOn /\ e.occurredOn <= now
  BY <1>1 DEF ScanInv, ClockInv
<1>3. now \in Nat /\ scans \in Nat /\ MaxScans \in Nat /\ scans <= MaxScans
  BY BoundAssumption DEF ScanInv, TypeOK, FeedInv
<1>4. e.data \in 0..now /\ e.occurredOn \in 0..now
  BY <1>1, <1>2, <1>3 DEF Events
<1>5. \/ e.caller = Scheduler /\ e.scan \in 1..MaxScans
      \/ e.caller \in Requests /\ e.scan = 0
  BY <1>1, <1>3 DEF FeedInv, FromScheduler
<1>6. e = [caller |-> e.caller, scan |-> e.scan, data |-> e.data, occurredOn |-> e.occurredOn]
  BY <1>1 DEF Events
<1>7. e \in Feed!Records
  BY <1>4, <1>5, <1>6 DEF Feed!Records
<1>8. \A i \in 1..Len(topic) : topic[i] \in Events /\ Exists(topic[i])
  BY <1>1 DEF Exists, Published
<1>9. \A i \in 1..Len(topic) : Feed!InOrder(e, topic[i]) /\ Feed!InOrder(topic[i], e)
  BY <1>1, <1>8 DEF FeedInv
<1>10. topic' = Append(topic, e) /\ now' = now
  BY DEF Send
<1>11. Feed!Publish(e)
  BY <1>2, <1>9, <1>10 DEF Feed!Publish
<1> QED BY <1>7, <1>11 DEF Feed!Next

LEMMA FeedInitRefines == Init => Feed!Init
  BY DEF Init, Feed!Init

LEMMA FeedNextRefines == ScanInv /\ FeedInv /\ [Next]_vars => [Feed!Next]_(Feed!vars)
<1> SUFFICES ASSUME ScanInv, FeedInv, [Next]_vars PROVE Feed!Next \/ UNCHANGED <<now, topic>>
  BY DEF Feed!vars
<1>1. CASE Advance
  BY <1>1 DEF Advance, Feed!Tick, Feed!Next
<1>2. ASSUME NEW e \in outbox, Send(e) PROVE Feed!Next
  BY <1>2, SendPublishes
<1>3. ASSUME [Next]_vars, ~Advance, \A e \in outbox : ~Send(e)
      PROVE  UNCHANGED <<now, topic>>
  BY <1>3 DEF Next, vars, Notify, TimerTick, StartScan, EndScan, FetchOk, FetchEmpty, Produce,
              PublishOk, PublishFail, Cancel, Forget, Crash
<1> QED BY <1>1, <1>2, <1>3

\* FeedSpec: whatever overlaps, fails or dies inside the WebApi, the readers of its topic get
\* what ScanFeed promises them.
THEOREM ScanImplementsFeed == Spec => FeedSpec
<1>1. Init => ScanInv /\ FeedInv
  BY InvInit, FeedInit
<1>2. (ScanInv /\ FeedInv) /\ [Next]_vars => (ScanInv /\ FeedInv)'
  BY InvStep, FeedStep
<1> QED
  BY <1>1, <1>2, FeedInitRefines, FeedNextRefines, PTL DEF Spec, FeedSpec, Feed!Spec
================================================================================
