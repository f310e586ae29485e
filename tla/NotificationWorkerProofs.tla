------------------------ MODULE NotificationWorkerProofs ------------------------
(***************************************************************************)
(* NotificationWorker, for all constants: the types, that no snapshot is   *)
(* skipped silently after its topic was joined, what the cache holds, how  *)
(* often and in which order snapshots are pushed, and that the worker      *)
(* implements SnapshotPushes.                                              *)
(***************************************************************************)
EXTENDS NotificationWorker, FiniteSetTheorems, TLAPS

USE DEF known, Release

--------------------------------------------------------------------------------
(* The inductive invariant *)

\* Offsets stay within their topic; an assigned topic was entered at since[t] or later.
OffsetInv ==
    \A t \in Topics :
        /\ committed[t] # Unassigned => committed[t] <= Len(log[t])
        /\ position[t] = Unassigned <=> since[t] = Unassigned
        /\ position[t] # Unassigned => since[t] <= position[t] /\ position[t] <= Len(log[t])
        /\ pc = "down" => position[t] = Unassigned

\* The snapshots of t up to offset n that came after it was joined were pushed or tried.
Covered(t, n) ==
    \A i \in joined[t] + 1 .. n : log[t][i] \in Snapshots => Pushed(t, i) \/ Tried(t, i)

\* A commit covers nothing that was not at least tried, as one record is in hand at a time.
CoverInv ==
    \A t \in Regions, n \in Nat : n \in {committed[t], position[t]} => Covered(t, n)

\* The places where a sequence of offsets holds i, and where it fails to increase.
Copies(s, i) == {n \in DOMAIN s : s[n] = i}
Descents(s) == {n \in 2..Len(s) : s[n] <= s[n - 1]}

InHand(t, i) == hand # Nothing /\ hand.topic = t /\ hand.offset = i

\* Posts nobody waits for that may still arrive, and those given up.
Late(t) == {w \in wire : w.topic = t}
LateAt(t, i) == {w \in wire : w.topic = t /\ w.offset = i}
GivenUp(t) == {g \in gaveUp : g.topic = t}

\* Where the worker is in its group, it has read what it posted since it joined.
HasRead(g) ==
    /\ g.join <= joins
    /\ g.join = joins /\ pc # "down" =>
           position[g.topic] # Unassigned /\ g.offset <= position[g.topic]

\* A post is known by the join it was read after: the one in hand was never given up before.
HandInv ==
    /\ IsFiniteSet(gaveUp) /\ wire \subseteq gaveUp
    /\ \A g \in gaveUp : HasRead(g)
    /\ hand # Nothing => HasRead(hand) /\ hand \notin gaveUp
    /\ joins = 0 => pc = "down" /\ gaveUp = {} /\ \A t \in Regions : pushes[t] = <<>>

\* Record i of t is still to be read, until the worker joins again.
Unread(t, i) == pc # "down" /\ (position[t] = Unassigned \/ position[t] < i)

\* What was pushed, may come late, is in hand and is to be read of a record: once for each join.
RepeatInv ==
    \A t \in Regions, i \in Nat :
        Cardinality(Copies(pushes[t], i)) + Cardinality(LateAt(t, i))
            + (IF InHand(t, i) THEN 1 ELSE 0) + (IF Unread(t, i) THEN 1 ELSE 0) <= joins

Latest(t) == pushes[t][Len(pushes[t])]

\* The post in hand, distributed, is a step back.
HandBehind(t) ==
    /\ hand # Nothing /\ hand.topic = t
    /\ pushes[t] # <<>> /\ hand.offset <= Latest(t)

\* What is read next comes before what was pushed or posted last.
ReadBehind(t) ==
    /\ pc # "down"
    /\ IF hand # Nothing /\ hand.topic = t
       THEN position[t] = Unassigned \/ position[t] < hand.offset
       ELSE pushes[t] # <<>> /\ (position[t] = Unassigned \/ position[t] < Latest(t))

\* A step back is paid for by joining again or by a post given up; a late post, the post in
\* hand and what is read next may have theirs still to come.
StepBackInv ==
    \A t \in Regions :
        Cardinality(Descents(pushes[t])) + Cardinality(Late(t))
            + (IF HandBehind(t) THEN 1 ELSE 0) + (IF ReadBehind(t) THEN 1 ELSE 0)
            <= (IF joins = 0 THEN 0 ELSE joins - 1) + Cardinality(GivenUp(t))

\* The events of tenant n that this life has read.
Heard(n) == {i \in heard : log[ConfigTopic][i] = n}

\* Where the loop has got to, and where a rejoin would take it back to, the cache holds nothing
\* older than the last event up to there; with no offset committed, nothing older at all.
CacheInv ==
    /\ heard \subseteq 1..Len(log[ConfigTopic])
    /\ committed[ConfigTopic] # Unassigned /\ position[ConfigTopic] # Unassigned =>
           committed[ConfigTopic] <= position[ConfigTopic]
    /\ pc # "down" => \A n \in Tenants : \A i \in Heard(n) :
           /\ committed[ConfigTopic] = Unassigned =>
                  /\ i <= cache[n]
                  /\ position[ConfigTopic] # Unassigned => i <= position[ConfigTopic]
           /\ committed[ConfigTopic] # Unassigned /\ i <= committed[ConfigTopic] => i <= cache[n]

NotifierInv ==
    /\ TypeOK /\ OffsetInv /\ CoverInv /\ CacheInv /\ CacheFollowsReads
    /\ HandInv /\ RepeatInv /\ StepBackInv

--------------------------------------------------------------------------------
(* Types *)

LEMMA TypeInit == Init => TypeOK
  BY BoundAssumption DEF Init, TypeOK

LEMMA TypeStep == TypeOK /\ [Next]_vars => TypeOK'
<1> SUFFICES ASSUME TypeOK, [Next]_vars PROVE TypeOK'
  OBVIOUS
<1> USE BoundAssumption, AbsenceAssumption
<1>1. ASSUME NEW t \in Topics, NEW r \in RecordsOf(t), Produce(t, r) PROVE TypeOK'
  <2>1. r \in Records
    BY <1>1 DEF RecordsOf, Records
  <2> QED BY <1>1, <2>1 DEF TypeOK, Produce, process, ntfy
<1>2. CASE Start
  BY <1>2 DEF TypeOK, Start, ntfy
<1>3. ASSUME NEW t \in Topics, Assign(t) PROVE TypeOK'
  BY <1>3 DEF TypeOK, Assign, ntfy
<1>20. CASE Rejoin
  BY <1>20 DEF TypeOK, Rejoin, ntfy
<1>4. CASE AutoCommit
  BY <1>4 DEF TypeOK, AutoCommit, Committable, process, ntfy
<1>5. ASSUME Leave, committed' \in [Topics -> Nat \cup {Unassigned}] PROVE TypeOK'
  BY <1>5 DEF TypeOK, Leave
<1>6. CASE Stop
  BY <1>5, <1>6 DEF TypeOK, Stop, Committable
<1>7. CASE Crash
  BY <1>5, <1>7 DEF TypeOK, Crash
<1>8. ASSUME NEW t \in Topics, Consume(t) PROVE position' \in [Topics -> Nat \cup {Unassigned}]
  BY <1>8 DEF TypeOK, Consume
<1>9. CASE ReadConfiguration
  <2>1. position'[ConfigTopic] \in Nat
    BY <1>9 DEF TypeOK, ReadConfiguration, Consume, Topics
  <2> QED BY <1>8, <1>9, <2>1 DEF TypeOK, ReadConfiguration, Topics, ntfy
<1>10. ASSUME NEW t \in Topics, PassOver(t) PROVE TypeOK'
  BY <1>8, <1>10 DEF TypeOK, PassOver, ntfy
<1>11. ASSUME NEW t \in Regions, TakeSnapshot(t) PROVE TypeOK'
  <2>1. position'[t] \in Nat /\ t \in Topics
    BY <1>11 DEF TypeOK, TakeSnapshot, Consume, Topics
  <2>2. [topic |-> t, offset |-> position'[t], join |-> joins] \in Requests
    BY <2>1 DEF Requests, TypeOK
  <2> QED BY <1>8, <1>11, <2>1, <2>2 DEF TypeOK, TakeSnapshot, ntfy
<1>12. ASSUME NEW t \in Regions, FailSnapshot(t) PROVE TypeOK'
  BY <1>8, <1>12 DEF TypeOK, FailSnapshot, Consume, Topics, ntfy
<1>13. CASE ConsumeError
  BY <1>13 DEF TypeOK, ConsumeError, ntfy
<1>14. CASE Resume
  BY <1>14 DEF TypeOK, Resume, ntfy
<1>15. CASE Accepted
  <2>1. hand.topic \in Regions /\ hand.offset \in Nat
    BY <1>15 DEF TypeOK, Accepted, Answered, Requests
  <2> QED BY <1>15, <2>1 DEF TypeOK, Accepted, Answered
<1>16. CASE Refused
  BY <1>16 DEF TypeOK, Refused, Answered, ntfy
<1>17. CASE TimedOut
  BY <1>17 DEF TypeOK, TimedOut, Answered
<1>18. ASSUME NEW request \in wire, ArriveLate(request) PROVE TypeOK'
  <2>1. request.topic \in Regions /\ request.offset \in Nat
    BY <1>18 DEF TypeOK, Requests
  <2> QED BY <1>18, <2>1 DEF TypeOK, ArriveLate, process
<1>19. CASE UNCHANGED vars
  BY <1>19 DEF TypeOK, vars, process, ntfy
<1> QED BY <1>1, <1>2, <1>3, <1>4, <1>6, <1>7, <1>9, <1>10, <1>11, <1>12, <1>13, <1>14,
           <1>15, <1>16, <1>17, <1>18, <1>19, <1>20 DEF Next, Read, Answer

--------------------------------------------------------------------------------
(* Offsets *)

\* A topic only grows.
LEMMA LogGrows ==
    ASSUME TypeOK, [Next]_vars, NEW t \in Topics
    PROVE  /\ Len(log[t]) \in Nat /\ Len(log'[t]) \in Nat /\ Len(log[t]) <= Len(log'[t])
           /\ \A i \in 1..Len(log[t]) : log'[t][i] = log[t][i]
<1>1. ASSUME NEW u \in Topics, NEW r \in RecordsOf(u), Produce(u, r)
      PROVE  log'[t] = log[t] \/ (log'[t] = Append(log[t], r) /\ r \in Records)
  BY <1>1 DEF TypeOK, Produce, RecordsOf, Records
<1>2. CASE log' = log
  BY <1>2 DEF TypeOK
<1>3. log' = log \/ \E u \in Topics : \E r \in RecordsOf(u) : Produce(u, r)
  BY DEF Next, Start, Assign, Rejoin, AutoCommit, Stop, Crash, Leave, Read, ReadConfiguration, PassOver,
         TakeSnapshot, FailSnapshot, ConsumeError, Resume, Answer, Accepted, Refused, TimedOut,
         Answered, ArriveLate, vars
<1>4. log[t] \in Seq(Records)
  BY DEF TypeOK
<1>5. ASSUME NEW r \in Records, log'[t] = Append(log[t], r)
      PROVE  /\ Len(log[t]) \in Nat /\ Len(log'[t]) = Len(log[t]) + 1
             /\ \A i \in 1..Len(log[t]) : log'[t][i] = log[t][i]
  BY <1>4, <1>5
<1>6. CASE log'[t] = log[t]
  BY <1>4, <1>6
<1>7. CASE log'[t] # log[t]
  <2>1. PICK r \in Records : log'[t] = Append(log[t], r)
    BY <1>1, <1>3, <1>7
  <2> QED BY <1>5, <2>1
<1> QED BY <1>6, <1>7

\* What handing out the next record does to the offsets.
LEMMA ConsumeOffsets ==
    ASSUME TypeOK, OffsetInv, NEW t \in Topics, Consume(t)
    PROVE  /\ position[t] \in Nat /\ position[t] + 1 <= Len(log[t]) /\ position'[t] = position[t] + 1
           /\ \A u \in Topics : u # t => position'[u] = position[u]
           /\ position'[t] # Unassigned
  BY AbsenceAssumption DEF TypeOK, OffsetInv, Consume

\* Committable offsets are committed or handed out.
LEMMA CommittableOffsets ==
    \A t \in Topics : Committable[t] \in {committed[t], position[t]}
  BY DEF Committable

LEMMA OffsetInit == Init => OffsetInv
  BY DEF Init, OffsetInv

LEMMA OffsetStep == TypeOK /\ OffsetInv /\ [Next]_vars => OffsetInv'
<1> SUFFICES ASSUME TypeOK, OffsetInv, [Next]_vars PROVE OffsetInv'
  OBVIOUS
<1> USE AbsenceAssumption
<1>0. \A t \in Topics : Len(log[t]) \in Nat /\ Len(log'[t]) \in Nat /\ Len(log[t]) <= Len(log'[t])
  BY LogGrows
<1>1. ASSUME NEW t \in Topics, NEW r \in RecordsOf(t), Produce(t, r) PROVE OffsetInv'
  BY <1>0, <1>1 DEF TypeOK, OffsetInv, Produce, process
<1>2. CASE Start
  BY <1>2 DEF OffsetInv, Start
<1>3. ASSUME NEW t \in Topics, Assign(t) PROVE OffsetInv'
  BY <1>0, <1>3 DEF TypeOK, OffsetInv, Assign
<1>13. CASE Rejoin
  BY <1>13 DEF TypeOK, OffsetInv, Rejoin
<1>4. CASE AutoCommit
  BY <1>0, <1>4, CommittableOffsets DEF TypeOK, OffsetInv, AutoCommit, process
<1>5. CASE Stop
  BY <1>0, <1>5, CommittableOffsets DEF TypeOK, OffsetInv, Stop, Leave
<1>6. CASE Crash
  BY <1>6 DEF TypeOK, OffsetInv, Crash, Leave
<1>7. ASSUME NEW t \in Topics, Consume(t), pc' # "down",
             log' = log, committed' = committed, since' = since
      PROVE  OffsetInv'
  <2>1. /\ position[t] \in Nat /\ position[t] + 1 <= Len(log[t]) /\ position'[t] = position[t] + 1
        /\ \A u \in Topics : u # t => position'[u] = position[u]
    BY <1>7, ConsumeOffsets
  <2> QED BY <1>0, <1>7, <2>1 DEF TypeOK, OffsetInv
<1>8. CASE Read
  <2>1. \E t \in Topics : Consume(t) /\ pc' # "down" /\ log' = log /\ committed' = committed /\ since' = since
    <3>1. CASE ReadConfiguration
      BY <3>1 DEF ReadConfiguration, Consume, Topics
    <3>2. CASE ~ReadConfiguration
      BY <1>8, <3>2 DEF Read, PassOver, TakeSnapshot, FailSnapshot, Consume, Topics
    <3> QED BY <3>1, <3>2
  <2> QED BY <1>7, <2>1
<1>9. ASSUME log' = log, committed' = committed, position' = position, since' = since,
             pc' = "down" => pc = "down"
      PROVE  OffsetInv'
  BY <1>9 DEF OffsetInv
<1>10. CASE ConsumeError \/ Resume \/ Answer
  BY <1>9, <1>10 DEF ConsumeError, Resume, Answer, Accepted, Refused, TimedOut, Answered
<1>11. ASSUME NEW request \in wire, ArriveLate(request) PROVE OffsetInv'
  BY <1>9, <1>11 DEF ArriveLate, process
<1>12. CASE UNCHANGED vars
  BY <1>9, <1>12 DEF vars, process
<1> QED BY <1>1, <1>2, <1>3, <1>4, <1>5, <1>6, <1>8, <1>10, <1>11, <1>12, <1>13 DEF Next

--------------------------------------------------------------------------------
(* No snapshot is skipped silently *)

\* A push distributed or a post tried stays so: Answered moves hand to one of the two.
LEMMA TriedStays ==
    ASSUME TypeOK, [Next]_vars, NEW t \in Regions, NEW i \in Nat, Pushed(t, i) \/ Tried(t, i)
    PROVE  Pushed(t, i)' \/ Tried(t, i)'
<1> USE AbsenceAssumption
<1>1. ASSUME pushes' = pushes, gaveUp \cup {hand} \subseteq gaveUp' \cup {hand', Nothing}
      PROVE  Pushed(t, i)' \/ Tried(t, i)'
  BY <1>1 DEF Pushed, Tried
<1>2. ASSUME NEW u \in Regions, NEW m \in Nat, pushes' = [pushes EXCEPT ![u] = Append(@, m)]
      PROVE  /\ Pushed(t, i) => Pushed(t, i)'
             /\ t = u /\ i = m => Pushed(t, i)'
  <2>1. pushes[t] \in Seq(Nat) /\ pushes[u] \in Seq(Nat)
    BY DEF TypeOK
  <2>2. pushes'[t] = IF t = u THEN Append(pushes[t], m) ELSE pushes[t]
    BY <1>2 DEF TypeOK
  <2>3. /\ DOMAIN pushes[t] \subseteq DOMAIN Append(pushes[t], m)
        /\ \A k \in DOMAIN pushes[t] : Append(pushes[t], m)[k] = pushes[t][k]
        /\ Len(pushes[t]) + 1 \in DOMAIN Append(pushes[t], m)
        /\ Append(pushes[t], m)[Len(pushes[t]) + 1] = m
    BY <2>1
  <2>4. CASE t = u
    BY <2>2, <2>3, <2>4 DEF Pushed
  <2>5. CASE t # u
    BY <2>2, <2>5 DEF Pushed
  <2> QED BY <2>4, <2>5
<1>3. CASE Accepted
  <2>1. hand.topic \in Regions /\ hand.offset \in Nat
    BY <1>3 DEF TypeOK, Accepted, Answered, Requests
  <2>2. CASE hand.topic = t /\ hand.offset = i
    BY <1>2, <1>3, <2>1, <2>2 DEF Accepted
  <2>3. CASE ~(hand.topic = t /\ hand.offset = i)
    <3>1. Tried(t, i) => Tried(t, i)'
      BY <1>3, <2>3 DEF Tried, Accepted, Answered
    <3> QED BY <1>2, <1>3, <2>1, <3>1 DEF Accepted
  <2> QED BY <2>2, <2>3
<1>4. ASSUME NEW request \in wire, ArriveLate(request) PROVE Pushed(t, i)' \/ Tried(t, i)'
  <2>1. request.topic \in Regions /\ request.offset \in Nat
    BY <1>4 DEF TypeOK, Requests
  <2>2. Tried(t, i) => Tried(t, i)'
    BY <1>4 DEF Tried, ArriveLate, process
  <2> QED BY <1>2, <1>4, <2>1, <2>2 DEF ArriveLate
<1>5. ASSUME NEW u \in Topics, NEW r \in RecordsOf(u), Produce(u, r)
      PROVE  Pushed(t, i)' \/ Tried(t, i)'
  BY <1>1, <1>5 DEF Produce, process, ntfy
<1>6. CASE Read
  <2>1. pushes' = pushes /\ gaveUp' = gaveUp /\ (hand' = hand \/ hand = Nothing)
    BY <1>6 DEF Read, ReadConfiguration, PassOver, TakeSnapshot, FailSnapshot, Consume, TypeOK, ntfy
  <2> QED BY <1>1, <2>1
<1>7. CASE \/ Start \/ Rejoin \/ AutoCommit \/ Stop \/ Crash
           \/ ConsumeError \/ Resume \/ Refused \/ TimedOut
  BY <1>1, <1>7 DEF Start, Rejoin, AutoCommit, Stop, Crash, Leave, ConsumeError, Resume, Refused,
     TimedOut, Answered, process, ntfy
<1>8. ASSUME NEW u \in Topics, Assign(u) PROVE Pushed(t, i)' \/ Tried(t, i)'
  BY <1>1, <1>8 DEF Assign, ntfy
<1>9. CASE UNCHANGED vars
  BY <1>1, <1>9 DEF vars, process, ntfy
<1> QED BY <1>3, <1>4, <1>5, <1>6, <1>7, <1>8, <1>9 DEF Next, Answer

LEMMA CoveredStays ==
    ASSUME TypeOK, [Next]_vars, NEW t \in Regions, NEW n \in Nat, n <= Len(log[t]),
           Covered(t, n), joined'[t] = joined[t]
    PROVE  Covered(t, n)'
<1> SUFFICES ASSUME NEW i \in joined[t] + 1 .. n, log'[t][i] \in Snapshots
             PROVE  Pushed(t, i)' \/ Tried(t, i)'
  BY DEF Covered
<1>1. t \in Topics /\ joined[t] \in Nat /\ Len(log[t]) \in Nat
  BY DEF TypeOK, Topics
<1>2. i \in 1..Len(log[t]) /\ i \in Nat
  BY <1>1
<1>3. Pushed(t, i) \/ Tried(t, i)
  BY <1>1, <1>2, LogGrows DEF Covered
<1> QED BY <1>2, <1>3, TriedStays

LEMMA CoverInit == Init => CoverInv
  BY AbsenceAssumption DEF Init, CoverInv, Topics

LEMMA CoverStep == TypeOK /\ OffsetInv /\ CoverInv /\ [Next]_vars => CoverInv'
<1> SUFFICES ASSUME TypeOK, OffsetInv, CoverInv, [Next]_vars,
                    NEW t \in Regions, NEW n \in Nat, n \in {committed'[t], position'[t]}
             PROVE  Covered(t, n)'
  BY DEF CoverInv
<1> USE AbsenceAssumption
<1>0. t \in Topics /\ joined[t] \in Nat /\ Len(log[t]) \in Nat
  BY DEF TypeOK, Topics
\* Offsets that move nowhere new.
<1>1. ASSUME joined'[t] = joined[t], n \in {committed[t], position[t]} PROVE Covered(t, n)'
  <2>1. Covered(t, n) /\ n <= Len(log[t])
    BY <1>0, <1>1 DEF CoverInv, OffsetInv
  <2> QED BY <1>1, <2>1, CoveredStays
<1>2. ASSUME NEW u \in Topics, Assign(u) PROVE Covered(t, n)'
  <2>1. CASE u = t /\ committed[t] = Unassigned
    <3>1. joined'[t] = Len(log[t]) /\ n = Len(log[t])
      BY <1>0, <1>2, <2>1 DEF TypeOK, Assign
    <3> QED BY <1>0, <3>1 DEF Covered
  <2>2. CASE u # t \/ committed[t] # Unassigned
    <3>1. joined'[t] = joined[t] /\ n \in {committed[t], position[t]}
      BY <1>0, <1>2, <2>2 DEF TypeOK, Assign
    <3> QED BY <1>1, <3>1
  <2> QED BY <2>1, <2>2
\* The next record: a snapshot is taken in hand.
<1>4. CASE Read
  <2>1. joined' = joined /\ log' = log /\ committed' = committed
    BY <1>4 DEF Read, ReadConfiguration, PassOver, TakeSnapshot, FailSnapshot
  <2>2. PICK u \in Topics : Consume(u)
    BY <1>4 DEF Read, ReadConfiguration, PassOver, TakeSnapshot, FailSnapshot, Topics
  <2>3. CASE n \in {committed[t], position[t]}
    BY <1>1, <2>1, <2>3
  <2>4. CASE n \notin {committed[t], position[t]}
    <3>1. u = t /\ n = position[t] + 1 /\ position[t] \in Nat /\ n <= Len(log[t])
      BY <1>0, <2>1, <2>2, <2>4, ConsumeOffsets
    <3>2. PICK m \in Nat : m = position[t] /\ n = m + 1
      BY <3>1
    <3>3. Covered(t, m)'
      BY <1>0, <2>1, <3>1, <3>2, CoveredStays DEF CoverInv
    <3>4. log[t][n] \in Snapshots => Tried(t, n)'
      <4>1. CASE TakeSnapshot(t)
        <5>1. hand' = [topic |-> t, offset |-> n, join |-> joins]
          BY <2>2, <3>1, <4>1, ConsumeOffsets DEF TakeSnapshot
        <5>2. hand' \in Requests
          BY <1>0, <3>1, <5>1 DEF Requests, TypeOK
        <5> QED BY <5>1, <5>2 DEF Tried
      <4>2. CASE ~TakeSnapshot(t)
        <5>1. Upcoming(t) = log[t][n] /\ t # ConfigTopic
          BY <3>1, TopicAssumption DEF Upcoming
        <5>2. ASSUME NEW w \in Topics, Consume(w) PROVE w = t
          BY <3>1, <5>2, ConsumeOffsets, <2>2 
        <5>3. Upcoming(t) \in {JsonNull, Broken}
          BY <1>4, <4>2, <5>1, <5>2 DEF Read, ReadConfiguration, PassOver, TakeSnapshot, FailSnapshot, Topics
        <5> QED BY <5>1, <5>3, RecordAssumption
      <4> QED BY <4>1, <4>2
    <3> QED BY <1>0, <2>1, <3>2, <3>3, <3>4 DEF Covered
  <2> QED BY <2>3, <2>4
<1>5. CASE ~Read /\ ~\E u \in Topics : Assign(u)
  <2>1. joined' = joined
    BY <1>5 DEF Next, Produce, Start, Rejoin, AutoCommit, Stop, Crash, Leave, ConsumeError, Resume, Answer,
       Accepted, Refused, TimedOut, Answered, ArriveLate, vars
  <2>2. \/ committed' = committed \/ committed' = Committable
    BY <1>5 DEF Next, Produce, Start, Rejoin, AutoCommit, Stop, Crash, Leave, ConsumeError, Resume, Answer,
       Accepted, Refused, TimedOut, Answered, ArriveLate, vars
  <2>3. position' = position \/ position' = [w \in Topics |-> Unassigned]
    BY <1>5 DEF Next, Produce, Start, Rejoin, AutoCommit, Stop, Crash, Leave, ConsumeError, Resume, Answer,
       Accepted, Refused, TimedOut, Answered, ArriveLate, vars, process
  <2>4. n \in {committed[t], position[t]}
    BY <1>0, <2>2, <2>3, CommittableOffsets
  <2> QED BY <1>1, <2>1, <2>4
<1> QED BY <1>2, <1>4, <1>5

--------------------------------------------------------------------------------
(* The cache *)

LEMMA CacheInit == Init => CacheInv /\ CacheFollowsReads
<1> SUFFICES ASSUME Init PROVE CacheInv /\ CacheFollowsReads
  OBVIOUS
<1>1. heard = {} /\ pc = "down" /\ committed[ConfigTopic] = Unassigned
  BY DEF Init, Topics
<1> QED BY <1>1 DEF CacheInv, CacheFollowsReads

\* The events of a tenant that were read stay what they are.
LEMMA HeardStays ==
    ASSUME TypeOK, CacheInv, [Next]_vars, heard' = heard, NEW n
    PROVE  /\ heard' \subseteq 1..Len(log'[ConfigTopic])
           /\ Heard(n)' = Heard(n)
<1>1. /\ Len(log[ConfigTopic]) \in Nat /\ Len(log'[ConfigTopic]) \in Nat
      /\ Len(log[ConfigTopic]) <= Len(log'[ConfigTopic])
      /\ \A i \in 1..Len(log[ConfigTopic]) : log'[ConfigTopic][i] = log[ConfigTopic][i]
  BY LogGrows DEF Topics
<1>2. \A i \in heard : i \in 1..Len(log[ConfigTopic]) /\ i \in 1..Len(log'[ConfigTopic])
  BY <1>1 DEF CacheInv
<1> QED BY <1>1, <1>2 DEF Heard

\* What CacheFollowsReads and CacheInv say of one tenant: its cached event k, with the loop at
\* offset p, the group's offset at c and the tenant's events E read.
Fresh(k, E, p) ==
    /\ k \in E \cup {0}
    /\ E # {} => k # 0
    /\ p # Unassigned => \A i \in E : i <= p => i <= k

Safe(k, E, p, c) ==
    \A i \in E :
        /\ c = Unassigned => i <= k /\ (p # Unassigned => i <= p)
        /\ c # Unassigned /\ i <= c => i <= k

LEMMA CacheByTenant ==
    /\ CacheFollowsReads <=>
           (pc # "down" => \A n \in Tenants : Fresh(cache[n], Heard(n), position[ConfigTopic]))
    /\ CacheInv <=>
           /\ heard \subseteq 1..Len(log[ConfigTopic])
           /\ committed[ConfigTopic] # Unassigned /\ position[ConfigTopic] # Unassigned =>
                  committed[ConfigTopic] <= position[ConfigTopic]
           /\ pc # "down" => \A n \in Tenants :
                  Safe(cache[n], Heard(n), position[ConfigTopic], committed[ConfigTopic])
  BY DEF CacheFollowsReads, CacheInv, Fresh, Safe, Heard

\* Steps that leave the cache alone, and the offsets of ConfigTopic unless they commit its
\* position, leave it, or assign it anew.
LEMMA CacheFramed ==
    ASSUME TypeOK, OffsetInv, CacheInv, CacheFollowsReads, [Next]_vars,
           pc' # "down" => pc # "down", UNCHANGED known,
           \/ /\ position'[ConfigTopic] \in {position[ConfigTopic], Unassigned}
              /\ \/ committed'[ConfigTopic] = committed[ConfigTopic]
                 \/ /\ position[ConfigTopic] # Unassigned
                    /\ committed'[ConfigTopic] = position[ConfigTopic]
           \/ /\ position[ConfigTopic] = Unassigned
              /\ committed'[ConfigTopic] = committed[ConfigTopic]
              /\ \/ /\ committed[ConfigTopic] = Unassigned
                    /\ position'[ConfigTopic] = Len(log[ConfigTopic])
                 \/ position'[ConfigTopic] = committed[ConfigTopic]
    PROVE  CacheInv' /\ CacheFollowsReads'
<1> USE AbsenceAssumption
<1>0. PICK p, c, q, d :
          /\ p = position[ConfigTopic] /\ c = committed[ConfigTopic]
          /\ q = position'[ConfigTopic] /\ d = committed'[ConfigTopic]
  OBVIOUS
<1>7. \/ q \in {p, Unassigned} /\ (d = c \/ (p # Unassigned /\ d = p))
      \/ p = Unassigned /\ d = c /\ ((c = Unassigned /\ q = Len(log[ConfigTopic])) \/ q = c)
  BY <1>0
<1>1. /\ p \in Nat \cup {Unassigned} /\ c \in Nat \cup {Unassigned}
      /\ c # Unassigned /\ p # Unassigned => c <= p
  BY <1>0, CacheByTenant DEF TypeOK, Topics
<1>2. heard' \subseteq 1..Len(log'[ConfigTopic]) /\ \A n : Heard(n)' = Heard(n)
  BY HeardStays
<1>3. heard \subseteq 1..Len(log[ConfigTopic]) /\ Len(log[ConfigTopic]) \in Nat
  BY LogGrows DEF CacheInv, Topics
<1>4. q \in Nat \cup {Unassigned} /\ d \in Nat \cup {Unassigned}
      /\ (d # Unassigned /\ q # Unassigned => d <= q)
  BY <1>1, <1>3, <1>7
<1>5. ASSUME pc' # "down", NEW n \in Tenants
      PROVE  Fresh(cache[n], Heard(n), q) /\ Safe(cache[n], Heard(n), q, d)
  <2>1. Fresh(cache[n], Heard(n), p) /\ Safe(cache[n], Heard(n), p, c)
    BY <1>0, <1>5, CacheByTenant
  <2>2. \A i \in Heard(n) : i \in Nat /\ i <= Len(log[ConfigTopic])
    BY <1>3 DEF Heard
  <2>3. Fresh(cache[n], Heard(n), q)
    BY <1>1, <1>7, <2>1, <2>2 DEF Fresh, Safe
  <2>4. Safe(cache[n], Heard(n), q, d)
    BY <1>1, <1>7, <2>1, <2>2 DEF Fresh, Safe
  <2> QED BY <2>3, <2>4
<1>8. CacheFollowsReads'
  <2>1. ASSUME pc' # "down", NEW n \in Tenants PROVE Fresh(cache'[n], Heard(n)', q)
    BY <1>2, <1>5, <2>1
  <2> QED BY <1>0, <2>1 DEF CacheFollowsReads, Fresh, Heard
<1>9. CacheInv'
  <2>1. ASSUME pc' # "down", NEW n \in Tenants PROVE Safe(cache'[n], Heard(n)', q, d)
    BY <1>2, <1>5, <2>1
  <2> QED BY <1>0, <1>2, <1>4, <2>1 DEF CacheInv, Safe
<1> QED BY <1>8, <1>9

\* Reading on in ConfigTopic: the record is a tenant's, whose entry is overwritten, or nobody's.
LEMMA CacheConsumes ==
    ASSUME TypeOK, OffsetInv, CacheInv, CacheFollowsReads, Consume(ConfigTopic),
           log' = log, committed' = committed, NEW p \in Nat, p = position[ConfigTopic] + 1,
           \/ /\ Upcoming(ConfigTopic) \in Tenants
              /\ cache' = [cache EXCEPT ![Upcoming(ConfigTopic)] = p]
              /\ heard' = heard \cup {p}
           \/ Upcoming(ConfigTopic) \notin Tenants /\ cache' = cache /\ heard' = heard
    PROVE  CacheInv' /\ CacheFollowsReads'
<1> USE AbsenceAssumption
<1> DEFINE c == committed[ConfigTopic]
<1>1. /\ position[ConfigTopic] \in Nat /\ p <= Len(log[ConfigTopic])
      /\ position'[ConfigTopic] = p /\ pc # "down" /\ position[ConfigTopic] # Unassigned
      /\ Len(log[ConfigTopic]) \in Nat /\ p # Unassigned
  BY ConsumeOffsets DEF Topics, Consume, TypeOK
<1>2. c \in Nat \cup {Unassigned} /\ (c # Unassigned => c <= position[ConfigTopic])
  BY <1>1 DEF TypeOK, Topics, CacheInv
<1>3. heard \subseteq 1..Len(log[ConfigTopic]) /\ heard' \subseteq 1..Len(log[ConfigTopic])
  <2>1. heard \subseteq 1..Len(log[ConfigTopic]) /\ p \in 1..Len(log[ConfigTopic])
    BY <1>1 DEF CacheInv
  <2>2. heard' \subseteq heard \cup {p}
    OBVIOUS
  <2> QED BY <2>1, <2>2
<1>4. Upcoming(ConfigTopic) = log[ConfigTopic][p]
  BY DEF Upcoming
<1>5. ASSUME NEW n \in Tenants
      PROVE  LET E == {i \in heard' : log[ConfigTopic][i] = n}
             IN  Fresh(cache'[n], E, p) /\ Safe(cache'[n], E, p, c)
  <2> DEFINE E == {i \in heard' : log[ConfigTopic][i] = n}
  <2>1. /\ Fresh(cache[n], Heard(n), position[ConfigTopic])
        /\ Safe(cache[n], Heard(n), position[ConfigTopic], c)
    BY <1>1, CacheByTenant
  <2>2. \A i \in Heard(n) : i \in Nat
    BY <1>3 DEF Heard
  <2>3. CASE log[ConfigTopic][p] = n
    <3>1. cache'[n] = p /\ E = Heard(n) \cup {p}
      BY <1>4, <2>3 DEF TypeOK, Heard
    <3> HIDE DEF E
    <3>2. Fresh(p, E, p)
      BY <1>1, <3>1 DEF Fresh
    <3>3. Safe(p, E, p, c)
      BY <1>1, <1>2, <2>1, <2>2, <3>1 DEF Safe
    <3> QED BY <3>1, <3>2, <3>3 DEF E
  <2>4. CASE log[ConfigTopic][p] # n
    <3>1. cache'[n] = cache[n] /\ E = Heard(n)
      BY <1>4, <2>4 DEF TypeOK, Heard
    <3>2. \A i \in Heard(n) : i # p
      BY <2>4 DEF Heard
    <3> HIDE DEF E
    <3>3. Fresh(cache[n], E, p)
      BY <1>1, <2>1, <2>2, <3>1, <3>2 DEF Fresh
    <3>4. Safe(cache[n], E, p, c)
      BY <1>1, <1>2, <2>1, <2>2, <3>1 DEF Safe
    <3> QED BY <3>1, <3>3, <3>4 DEF E
  <2> QED BY <2>3, <2>4
<1>6. CacheFollowsReads'
  <2>1. ASSUME NEW n \in Tenants PROVE Fresh(cache'[n], Heard(n)', p)
    BY <1>5, <2>1 DEF Heard
  <2> QED BY <1>1, <2>1 DEF CacheFollowsReads, Fresh, Heard
<1>7. CacheInv'
  <2>1. ASSUME NEW n \in Tenants PROVE Safe(cache'[n], Heard(n)', p, c)
    BY <1>5, <2>1 DEF Heard
  <2>2. c # Unassigned => c <= p
    BY <1>1, <1>2
  <2> QED BY <1>1, <1>3, <2>1, <2>2 DEF CacheInv, Safe
<1> QED BY <1>6, <1>7

LEMMA CacheStep ==
    TypeOK /\ OffsetInv /\ CacheInv /\ CacheFollowsReads /\ [Next]_vars
        => CacheInv' /\ CacheFollowsReads'
<1> SUFFICES ASSUME TypeOK, OffsetInv, CacheInv, CacheFollowsReads, [Next]_vars
             PROVE  CacheInv' /\ CacheFollowsReads'
  OBVIOUS
<1> USE AbsenceAssumption
<1>0. ConfigTopic \in Topics
  BY DEF Topics
\* Offsets that stay, and those that a commit, a rejoin or the end of the process changes.
<1>1. ASSUME UNCHANGED known, pc' # "down" => pc # "down",
             position' = position \/ position'[ConfigTopic] = Unassigned,
             committed' = committed \/ committed' = Committable
      PROVE  CacheInv' /\ CacheFollowsReads'
  <2>1. \/ committed'[ConfigTopic] = committed[ConfigTopic]
        \/ /\ position[ConfigTopic] # Unassigned
           /\ committed'[ConfigTopic] = position[ConfigTopic]
    BY <1>0, <1>1 DEF Committable, OffsetInv
  <2> QED BY <1>1, <2>1, CacheFramed
<1>2. CASE Start
  BY <1>0, <1>2 DEF Start, OffsetInv, CacheInv, CacheFollowsReads, Heard
<1>3. ASSUME NEW t \in Topics, Assign(t) PROVE CacheInv' /\ CacheFollowsReads'
  <2>1. CASE t # ConfigTopic
    <3>1. position'[ConfigTopic] = position[ConfigTopic] /\ committed' = committed
      BY <1>0, <1>3, <2>1 DEF Assign, TypeOK
    <3> QED BY <1>3, <3>1, CacheFramed DEF Assign
  <2>2. CASE t = ConfigTopic
    <3>1. /\ position[ConfigTopic] = Unassigned /\ committed' = committed
          /\ \/ /\ committed[ConfigTopic] = Unassigned
                /\ position'[ConfigTopic] = Len(log[ConfigTopic])
             \/ position'[ConfigTopic] = committed[ConfigTopic]
      BY <1>0, <1>3, <2>2 DEF Assign, TypeOK
    <3> QED BY <1>3, <3>1, CacheFramed DEF Assign
  <2> QED BY <2>1, <2>2
<1>4. ASSUME NEW t \in Regions, TakeSnapshot(t) \/ FailSnapshot(t) \/ PassOver(t)
      PROVE  CacheInv' /\ CacheFollowsReads'
  <2>1. t \in Topics /\ t # ConfigTopic /\ Consume(t) /\ UNCHANGED known /\ committed' = committed
    BY <1>4, TopicAssumption DEF TakeSnapshot, FailSnapshot, PassOver, Topics
  <2>2. position'[ConfigTopic] = position[ConfigTopic] /\ pc # "down"
    BY <1>0, <2>1, ConsumeOffsets DEF Consume
  <2> QED BY <2>1, <2>2, CacheFramed
<1>5. CASE ReadConfiguration
  <2>1. PICK p \in Nat : p = position[ConfigTopic] + 1 /\ p = position'[ConfigTopic]
    BY <1>0, <1>5, ConsumeOffsets DEF ReadConfiguration
  <2>2. /\ Consume(ConfigTopic) /\ Upcoming(ConfigTopic) \in Tenants
        /\ cache' = [cache EXCEPT ![Upcoming(ConfigTopic)] = p] /\ heard' = heard \cup {p}
        /\ log' = log /\ committed' = committed
    BY <1>5, <2>1 DEF ReadConfiguration
  <2> QED BY <2>1, <2>2, CacheConsumes
<1>6. CASE PassOver(ConfigTopic)
  <2>1. Upcoming(ConfigTopic) \notin Tenants
    BY <1>6, RecordAssumption DEF PassOver
  <2>2. PICK p \in Nat : p = position[ConfigTopic] + 1
    BY <1>0, <1>6, ConsumeOffsets DEF PassOver
  <2>3. Consume(ConfigTopic) /\ UNCHANGED known /\ log' = log /\ committed' = committed
    BY <1>6 DEF PassOver
  <2> QED BY <2>1, <2>2, <2>3, CacheConsumes
<1>7. ASSUME NEW t \in Topics, NEW r \in RecordsOf(t), Produce(t, r)
      PROVE  CacheInv' /\ CacheFollowsReads'
  BY <1>1, <1>7 DEF Produce, process
<1>8. CASE Rejoin \/ AutoCommit \/ Stop \/ Crash \/ ConsumeError \/ Resume \/ Answer
  BY <1>0, <1>1, <1>8 DEF Rejoin, AutoCommit, Stop, Crash, Leave, ConsumeError, Resume, Answer,
     Accepted, Refused, TimedOut, Answered, process
<1>9. ASSUME NEW request \in wire, ArriveLate(request) PROVE CacheInv' /\ CacheFollowsReads'
  BY <1>1, <1>9 DEF ArriveLate, process
<1>10. CASE UNCHANGED vars
  BY <1>1, <1>10 DEF vars, process
<1> QED BY <1>2, <1>3, <1>4, <1>5, <1>6, <1>7, <1>8, <1>9, <1>10 DEF Next, Read, Topics

--------------------------------------------------------------------------------
(* Copies and steps back in a sequence that grows *)

LEMMA CopiesAppend ==
    ASSUME NEW s \in Seq(Nat), NEW x \in Nat, NEW i
    PROVE  /\ IsFiniteSet(Copies(s, i)) /\ Cardinality(Copies(s, i)) \in Nat
           /\ Cardinality(Copies(Append(s, x), i))
                = Cardinality(Copies(s, i)) + (IF x = i THEN 1 ELSE 0)
<1>1. Len(s) \in Nat /\ DOMAIN s = 1..Len(s)
  OBVIOUS
<1>2. IsFiniteSet(Copies(s, i))
  <2>1. IsFiniteSet(1..Len(s))
    BY <1>1, FS_Interval
  <2> QED BY <1>1, <2>1, FS_Subset DEF Copies
<1>3. Cardinality(Copies(s, i)) \in Nat
  BY <1>2, FS_CardinalityType
<1>4. Copies(Append(s, x), i) = Copies(s, i) \cup (IF x = i THEN {Len(s) + 1} ELSE {})
  BY <1>1 DEF Copies
<1>5. Len(s) + 1 \notin Copies(s, i)
  BY <1>1 DEF Copies
<1>6. CASE x = i
  BY <1>2, <1>3, <1>4, <1>5, <1>6, FS_AddElement
<1>7. CASE x # i
  BY <1>2, <1>3, <1>4, <1>7
<1> QED BY <1>2, <1>3, <1>6, <1>7

LEMMA DescentsAppend ==
    ASSUME NEW s \in Seq(Nat), NEW x \in Nat
    PROVE  /\ Cardinality(Descents(s)) \in Nat
           /\ Cardinality(Descents(Append(s, x)))
                = Cardinality(Descents(s)) + (IF s # <<>> /\ x <= s[Len(s)] THEN 1 ELSE 0)
<1>1. Len(s) \in Nat
  OBVIOUS
<1>2. IsFiniteSet(Descents(s))
  <2>1. IsFiniteSet(2..Len(s))
    BY <1>1, FS_Interval
  <2> QED BY <2>1, FS_Subset DEF Descents
<1>3. Cardinality(Descents(s)) \in Nat
  BY <1>2, FS_CardinalityType
<1> DEFINE Falls == s # <<>> /\ x <= s[Len(s)]
<1>4. Descents(Append(s, x)) = Descents(s) \cup (IF Falls THEN {Len(s) + 1} ELSE {})
  <2> DEFINE r == Append(s, x)
  <2>1. /\ Len(r) = Len(s) + 1 /\ r[Len(s) + 1] = x
        /\ \A n \in 1..Len(s) : r[n] = s[n]
        /\ s # <<>> <=> Len(s) # 0
    BY <1>1
  <2>2. \A n \in 2..Len(s) : r[n] = s[n] /\ r[n - 1] = s[n - 1]
    BY <1>1, <2>1
  <2>3. Len(s) + 1 \in 2..Len(r) <=> s # <<>>
    BY <1>1, <2>1
  <2>4. s # <<>> => r[Len(s) + 1 - 1] = s[Len(s)]
    BY <1>1, <2>1
  <2>5. \A n \in 2..Len(r) : n \in 2..Len(s) \/ n = Len(s) + 1
    BY <1>1, <2>1
  <2>6. 2..Len(s) \subseteq 2..Len(r)
    BY <1>1, <2>1
  <2> HIDE DEF r
  <2>7. Descents(r) = Descents(s) \cup (IF Falls THEN {Len(s) + 1} ELSE {})
    <3>1. \A n \in 2..Len(s) : n \in Descents(r) <=> n \in Descents(s)
      BY <2>2, <2>6 DEF Descents
    <3>2. Len(s) + 1 \in Descents(r) <=> Falls
      BY <2>1, <2>3, <2>4 DEF Descents
    <3>3. Descents(r) \subseteq 2..Len(r) /\ Descents(s) \subseteq 2..Len(s)
      BY DEF Descents
    <3> HIDE DEF Falls
    <3> QED BY <2>5, <3>1, <3>2, <3>3
  <2> QED BY <2>7 DEF r
<1>5. Len(s) + 1 \notin Descents(s)
  BY <1>1 DEF Descents
<1>6. CASE Falls
  BY <1>2, <1>3, <1>4, <1>5, <1>6, FS_AddElement
<1>7. CASE ~Falls
  <2>1. Descents(Append(s, x)) = Descents(s)
    BY <1>4, <1>7
  <2> QED BY <1>3, <1>7, <2>1
<1> QED BY <1>6, <1>7

--------------------------------------------------------------------------------
(* The steps, as far as pushes are concerned *)

\* Nothing is sent, answered or given up; an offset stays, is assigned, or moves on by one.
Quiet ==
    /\ hand' = hand /\ joins' = joins
    /\ wire' = wire /\ pushes' = pushes /\ gaveUp' = gaveUp
    /\ pc' = "down" <=> pc = "down"
    /\ \A t \in Topics :
           \/ position'[t] = position[t]
           \/ position[t] = Unassigned /\ position'[t] \in Nat
           \/ /\ hand = Nothing
              /\ position[t] \in Nat /\ position'[t] = position[t] + 1

LEMMA PushSteps ==
    ASSUME TypeOK, OffsetInv, [Next]_vars
    PROVE  \/ Quiet
           \/ Start
           \/ Rejoin
           \/ Leave /\ pc # "down"
           \/ \E t \in Regions : TakeSnapshot(t)
           \/ Answer
           \/ \E request \in wire : ArriveLate(request)
<1> USE AbsenceAssumption
<1>1. ASSUME NEW t \in Topics, NEW r \in RecordsOf(t), Produce(t, r) PROVE Quiet
  BY <1>1 DEF Produce, Quiet, process, ntfy
<1>2. ASSUME NEW t \in Topics, Assign(t) PROVE Quiet
  <2>1. position'[t] \in Nat /\ position[t] = Unassigned
    BY <1>2, LogGrows DEF Assign, TypeOK
  <2>2. \A u \in Topics : u # t => position'[u] = position[u]
    BY <1>2 DEF Assign, TypeOK
  <2> QED BY <1>2, <2>1, <2>2 DEF Assign, Quiet, ntfy
<1>3. CASE AutoCommit
  BY <1>3 DEF AutoCommit, Quiet, process, ntfy
<1>4. CASE Stop \/ Crash
  BY <1>4 DEF Stop, Crash
<1>5. ASSUME NEW t \in Topics, Consume(t), hand' = hand, joins' = joins, UNCHANGED ntfy,
             gaveUp' = gaveUp, pc' # "down"
      PROVE  Quiet
  <2>1. hand = Nothing /\ pc # "down"
    BY <1>5 DEF Consume, TypeOK
  <2> QED BY <1>5, <2>1, ConsumeOffsets DEF Quiet, ntfy
<1>6. CASE ReadConfiguration
  BY <1>5, <1>6 DEF ReadConfiguration, Consume, Topics
<1>7. ASSUME NEW t \in Topics, PassOver(t) PROVE Quiet
  BY <1>5, <1>7 DEF PassOver, Consume
<1>8. ASSUME NEW t \in Regions, FailSnapshot(t) PROVE Quiet
  BY <1>5, <1>8 DEF FailSnapshot, Topics
<1>9. CASE ConsumeError \/ Resume
  BY <1>9 DEF ConsumeError, Resume, Quiet, ntfy
<1>10. CASE UNCHANGED vars
  BY <1>10 DEF vars, process, ntfy, Quiet
<1> QED BY <1>1, <1>2, <1>3, <1>4, <1>6, <1>7, <1>8, <1>9, <1>10 DEF Next, Read

\* A snapshot is taken in hand.
LEMMA TakeStep ==
    ASSUME TypeOK, OffsetInv, NEW t \in Regions, TakeSnapshot(t)
    PROVE  /\ pc # "down" /\ pc' # "down" /\ joins' = joins /\ hand = Nothing
           /\ wire' = wire /\ pushes' = pushes /\ gaveUp' = gaveUp
           /\ position[t] \in Nat /\ position'[t] = position[t] + 1
           /\ \A u \in Topics : u # t => position'[u] = position[u]
           /\ hand' = [topic |-> t, offset |-> position[t] + 1, join |-> joins]
           /\ hand' # Nothing
<1>1. t \in Topics /\ Consume(t) /\ pc = "polling"
  BY DEF TakeSnapshot, Topics, Consume
<1>2. /\ position[t] \in Nat /\ position'[t] = position[t] + 1
      /\ \A u \in Topics : u # t => position'[u] = position[u]
  BY <1>1, ConsumeOffsets
<1>3. [topic |-> t, offset |-> position[t] + 1, join |-> joins] \in Requests
  BY <1>2 DEF Requests, TypeOK
<1> QED BY <1>1, <1>2, <1>3, AbsenceAssumption DEF TakeSnapshot, TypeOK, ntfy

\* Accepted, refused or timed out.
LEMMA AnswerStep ==
    ASSUME TypeOK, Answer
    PROVE  /\ pc # "down" /\ pc' # "down" /\ joins' = joins /\ position' = position
           /\ hand \in Requests /\ hand' = Nothing
           /\ gaveUp' \in {gaveUp, gaveUp \cup {hand}}
           /\ \/ /\ pushes' = [pushes EXCEPT ![hand.topic] = Append(@, hand.offset)]
                 /\ wire' = wire /\ gaveUp' = gaveUp
              \/ /\ pushes' = pushes /\ gaveUp' = gaveUp \cup {hand}
                 /\ wire' \in {wire, wire \cup {hand}}
  BY DEF TypeOK, Answer, Accepted, Refused, TimedOut, Answered, ntfy

\* The process goes and its post with it.
LEMMA LeaveStep ==
    ASSUME TypeOK, Leave
    PROVE  /\ pc' = "down" /\ joins' = joins /\ hand' = Nothing /\ pushes' = pushes
           /\ \/ hand = Nothing /\ gaveUp' = gaveUp /\ wire' = wire
              \/ /\ hand \in Requests /\ gaveUp' = gaveUp \cup {hand}
                 /\ wire' \in {wire, wire \cup {hand}}
<1>1. CASE hand = Nothing
  BY <1>1 DEF Leave
<1>2. CASE hand # Nothing
  BY <1>2 DEF Leave, TypeOK
<1> QED BY <1>1, <1>2

--------------------------------------------------------------------------------
(* Posts are told apart by the join they were read after *)

LEMMA HandInit == Init => HandInv
  BY FS_EmptySet DEF Init, HandInv

LEMMA HandStep == TypeOK /\ OffsetInv /\ HandInv /\ [Next]_vars => HandInv'
<1> SUFFICES ASSUME TypeOK, OffsetInv, HandInv, [Next]_vars PROVE HandInv'
  OBVIOUS
<1> USE AbsenceAssumption
<1>0. /\ joins \in Nat
      /\ gaveUp \subseteq Requests /\ \A g \in Requests : g.topic \in Topics /\ g.offset \in Nat
      /\ \A t \in Topics : position[t] \in Nat \cup {Unassigned}
  BY BoundAssumption DEF TypeOK, Requests, Topics
<1>9. hand # Nothing => hand \in Requests
  BY DEF TypeOK
\* What this life has read of a topic it still holds.
<1>1. CASE Quiet
  <2>1. \A t \in Topics : position[t] # Unassigned =>
            position'[t] # Unassigned /\ position'[t] \in Nat /\ position[t] <= position'[t]
    BY <1>0, <1>1 DEF Quiet
  <2>2. ASSUME NEW g \in Requests, HasRead(g) PROVE HasRead(g)'
    BY <1>0, <1>1, <2>1, <2>2 DEF HasRead, Quiet
  <2> QED BY <1>0, <1>1, <1>9, <2>2 DEF HandInv, Quiet
\* Joining makes all posts old ones.
<1>2. CASE Start \/ Rejoin
  <2>1. /\ joins' = joins + 1 /\ hand' = hand /\ wire' = wire /\ gaveUp' = gaveUp
        /\ joins' # 0
    BY <1>0, <1>2 DEF Start, Rejoin, ntfy
  <2>2. ASSUME NEW g \in Requests, HasRead(g) PROVE HasRead(g)'
    <3>1. g.join \in Nat /\ g.join <= joins
      BY <2>2 DEF HasRead, Requests
    <3> QED BY <1>0, <2>1, <3>1 DEF HasRead
  <2> QED BY <1>0, <1>9, <2>1, <2>2 DEF HandInv
<1>3. CASE Leave /\ pc # "down"
  <2>1. joins # 0
    BY <1>3 DEF HandInv
  <2>2. ASSUME NEW g \in gaveUp' PROVE HasRead(g)'
    BY <1>3, <2>2, LeaveStep DEF HandInv, HasRead
  <2>3. IsFiniteSet(gaveUp') /\ wire' \subseteq gaveUp'
    BY <1>3, LeaveStep, FS_AddElement DEF HandInv
  <2> QED BY <1>3, <2>1, <2>2, <2>3, LeaveStep DEF HandInv
<1>4. ASSUME NEW t \in Regions, TakeSnapshot(t) PROVE HandInv'
  <2>1. t \in Topics
    BY DEF Topics
  <2>2. /\ hand'.topic = t /\ hand'.offset = position[t] + 1 /\ hand'.join = joins
        /\ position[t] \in Nat /\ position'[t] = position[t] + 1
    BY <1>4, TakeStep
  <2>3. ASSUME NEW g \in gaveUp PROVE HasRead(g)' /\ g # hand'
    <3>1. g \in Requests /\ g.topic \in Topics /\ g.offset \in Nat /\ HasRead(g)
      BY <1>0 DEF HandInv
    <3>2. g.join = joins => position[g.topic] \in Nat /\ g.offset <= position[g.topic]
      BY <1>0, <1>4, <3>1, TakeStep DEF HasRead
    <3>3. CASE g.topic = t
      BY <1>4, <2>2, <3>1, <3>2, <3>3, TakeStep DEF HasRead
    <3>4. CASE g.topic # t
      BY <1>4, <2>2, <3>1, <3>2, <3>4, TakeStep DEF HasRead
    <3> QED BY <3>3, <3>4
  <2>4. HasRead(hand)'
    BY <1>0, <1>4, <2>2, TakeStep DEF HasRead
  <2>5. joins' # 0
    BY <1>4, TakeStep DEF HandInv
  <2> QED BY <1>4, <2>3, <2>4, <2>5, TakeStep DEF HandInv
<1>5. CASE Answer
  <2>1. hand # Nothing /\ HasRead(hand)
    BY <1>5, <1>9, AnswerStep DEF HandInv
  <2>2. ASSUME NEW g \in gaveUp \cup {hand} PROVE HasRead(g)'
    BY <1>5, <2>1, <2>2, AnswerStep DEF HandInv, HasRead
  <2>3. IsFiniteSet(gaveUp') /\ wire' \subseteq gaveUp' /\ gaveUp' \subseteq gaveUp \cup {hand}
    BY <1>5, AnswerStep, FS_AddElement DEF HandInv
  <2>4. joins' # 0
    BY <1>5, AnswerStep DEF HandInv
  <2> QED BY <1>5, <2>2, <2>3, <2>4, AnswerStep DEF HandInv
<1>6. ASSUME NEW request \in wire, ArriveLate(request) PROVE HandInv'
  <2>1. gaveUp # {} /\ joins # 0
    BY DEF HandInv
  <2> QED BY <1>6, <2>1 DEF ArriveLate, HandInv, HasRead, process
<1> QED BY <1>1, <1>2, <1>3, <1>4, <1>5, <1>6, PushSteps

--------------------------------------------------------------------------------
(* Repeated pushes *)

\* What is counted is finite.
LEMMA LateFinite ==
    ASSUME HandInv, NEW t, NEW i
    PROVE  /\ IsFiniteSet(Late(t)) /\ IsFiniteSet(LateAt(t, i)) /\ IsFiniteSet(GivenUp(t))
           /\ Cardinality(Late(t)) \in Nat /\ Cardinality(LateAt(t, i)) \in Nat
           /\ Cardinality(GivenUp(t)) \in Nat
<1>1. Late(t) \subseteq gaveUp /\ LateAt(t, i) \subseteq gaveUp /\ GivenUp(t) \subseteq gaveUp
  BY DEF HandInv, Late, LateAt, GivenUp
<1>2. IsFiniteSet(Late(t)) /\ IsFiniteSet(LateAt(t, i)) /\ IsFiniteSet(GivenUp(t))
  BY <1>1, FS_Subset DEF HandInv
<1> QED BY <1>2, FS_CardinalityType

\* To give the post in hand up is to give up one post more.
LEMMA HandNotGivenUp == HandInv /\ hand # Nothing => hand \notin gaveUp
  BY DEF HandInv

\* What one more late post adds, and one that arrives takes away.
LEMMA LateMore ==
    ASSUME HandInv, NEW h, wire' \in {wire, wire \cup {h}}, NEW t
    PROVE  /\ Cardinality(Late(t)') \in Nat
           /\ Cardinality(Late(t)') <= Cardinality(Late(t)) + (IF h.topic = t THEN 1 ELSE 0)
<1>0. IsFiniteSet(Late(t)) /\ Cardinality(Late(t)) \in Nat
  BY LateFinite
<1>1. CASE Late(t)' = Late(t)
  BY <1>0, <1>1
<1>2. CASE Late(t)' = Late(t) \cup {h} /\ h.topic = t
  BY <1>0, <1>2, FS_AddElement
<1> QED BY <1>1, <1>2 DEF Late

LEMMA LateAtMore ==
    ASSUME HandInv, NEW h, wire' \in {wire, wire \cup {h}}, NEW t, NEW i
    PROVE  /\ Cardinality(LateAt(t, i)') \in Nat
           /\ Cardinality(LateAt(t, i)')
                <= Cardinality(LateAt(t, i)) + (IF h.topic = t /\ h.offset = i THEN 1 ELSE 0)
<1>0. IsFiniteSet(LateAt(t, i)) /\ Cardinality(LateAt(t, i)) \in Nat
  BY LateFinite
<1>1. CASE LateAt(t, i)' = LateAt(t, i)
  BY <1>0, <1>1
<1>2. CASE LateAt(t, i)' = LateAt(t, i) \cup {h} /\ h.topic = t /\ h.offset = i
  <2>1. /\ Cardinality(LateAt(t, i) \cup {h}) \in Nat
        /\ Cardinality(LateAt(t, i) \cup {h}) <= Cardinality(LateAt(t, i)) + 1
    BY <1>0, FS_AddElement
  <2> QED BY <1>2, <2>1
<1> QED BY <1>1, <1>2 DEF LateAt

LEMMA LateLess ==
    ASSUME HandInv, NEW h \in wire, wire' = wire \ {h}, NEW t, NEW i
    PROVE  /\ Cardinality(Late(t)') = Cardinality(Late(t)) - (IF h.topic = t THEN 1 ELSE 0)
           /\ Cardinality(LateAt(t, i)')
                = Cardinality(LateAt(t, i)) - (IF h.topic = t /\ h.offset = i THEN 1 ELSE 0)
<1>0. /\ IsFiniteSet(Late(t)) /\ IsFiniteSet(LateAt(t, i))
      /\ Cardinality(Late(t)) \in Nat /\ Cardinality(LateAt(t, i)) \in Nat
  BY LateFinite
<1>1. Late(t)' = Late(t) \ {h} /\ LateAt(t, i)' = LateAt(t, i) \ {h}
  BY DEF Late, LateAt
<1>2. (h \in Late(t) <=> h.topic = t) /\ (h \in LateAt(t, i) <=> h.topic = t /\ h.offset = i)
  BY DEF Late, LateAt
<1>3. Cardinality(Late(t) \ {h})
        = IF h \in Late(t) THEN Cardinality(Late(t)) - 1 ELSE Cardinality(Late(t))
  BY <1>0, FS_RemoveElement
<1>4. Cardinality(LateAt(t, i) \ {h})
        = IF h \in LateAt(t, i) THEN Cardinality(LateAt(t, i)) - 1 ELSE Cardinality(LateAt(t, i))
  BY <1>0, FS_RemoveElement
<1> QED BY <1>0, <1>1, <1>2, <1>3, <1>4

\* What a push adds to the copies and the steps back of each region.
LEMMA PushMore ==
    ASSUME TypeOK, NEW u \in Regions, NEW x \in Nat,
           pushes' = [pushes EXCEPT ![u] = Append(@, x)],
           NEW t \in Regions, NEW i \in Nat
    PROVE  /\ pushes'[t] = IF t = u THEN Append(pushes[t], x) ELSE pushes[t]
           /\ Cardinality(Copies(pushes'[t], i))
                = Cardinality(Copies(pushes[t], i)) + (IF u = t /\ x = i THEN 1 ELSE 0)
           /\ Cardinality(Descents(pushes'[t]))
                = Cardinality(Descents(pushes[t]))
                    + (IF u = t /\ pushes[t] # <<>> /\ x <= pushes[t][Len(pushes[t])] THEN 1 ELSE 0)
<1>1. pushes[t] \in Seq(Nat)
  BY DEF TypeOK
<1>2. pushes'[t] = IF t = u THEN Append(pushes[t], x) ELSE pushes[t]
  BY DEF TypeOK
<1>3. CASE t = u
  BY <1>1, <1>2, <1>3, CopiesAppend, DescentsAppend
<1>4. CASE t # u
  <2>1. Cardinality(Copies(pushes[t], i)) \in Nat /\ Cardinality(Descents(pushes[t])) \in Nat
    BY <1>1, CopiesAppend, DescentsAppend
  <2> QED BY <1>2, <1>4, <2>1
<1> QED BY <1>3, <1>4

LEMMA RepeatInit == Init => RepeatInv
<1> SUFFICES ASSUME Init, NEW t \in Regions, NEW i \in Nat
             PROVE  Cardinality(Copies(pushes[t], i)) + Cardinality(LateAt(t, i))
                        + (IF InHand(t, i) THEN 1 ELSE 0) + (IF Unread(t, i) THEN 1 ELSE 0) <= joins
  BY DEF RepeatInv
<1>1. Copies(pushes[t], i) = {} /\ LateAt(t, i) = {}
  BY DEF Init, Copies, LateAt
<1>2. ~InHand(t, i) /\ ~Unread(t, i) /\ joins = 0
  BY DEF Init, InHand, Unread
<1> QED BY <1>1, <1>2, FS_EmptySet

LEMMA RepeatStep == TypeOK /\ OffsetInv /\ HandInv /\ RepeatInv /\ [Next]_vars => RepeatInv'
<1> SUFFICES ASSUME TypeOK, OffsetInv, HandInv, RepeatInv, [Next]_vars,
                    NEW t \in Regions, NEW i \in Nat
             PROVE  Cardinality(Copies(pushes'[t], i)) + Cardinality(LateAt(t, i)')
                        + (IF InHand(t, i)' THEN 1 ELSE 0) + (IF Unread(t, i)' THEN 1 ELSE 0)
                      <= joins'
  BY DEF RepeatInv
<1> USE AbsenceAssumption
<1> DEFINE copies == Cardinality(Copies(pushes[t], i))
           late == Cardinality(LateAt(t, i))
           held == IF InHand(t, i) THEN 1 ELSE 0
           unread == IF Unread(t, i) THEN 1 ELSE 0
           Goal == Cardinality(Copies(pushes'[t], i)) + Cardinality(LateAt(t, i)')
                       + (IF InHand(t, i)' THEN 1 ELSE 0) + (IF Unread(t, i)' THEN 1 ELSE 0)
                     <= joins'
<1>0. /\ copies \in Nat /\ late \in Nat /\ held \in {0, 1} /\ unread \in {0, 1} /\ joins \in Nat
      /\ copies + late + held + unread <= joins
      /\ t \in Topics /\ position[t] \in Nat \cup {Unassigned}
  <2>1. pushes[t] \in Seq(Nat) /\ joins \in Nat /\ t \in Topics
    BY BoundAssumption DEF TypeOK, Topics
  <2>2. copies \in Nat
    BY <2>1, CopiesAppend
  <2>3. late \in Nat
    BY LateFinite
  <2>4. copies + late + held + unread <= joins
    BY DEF RepeatInv
  <2> QED BY <2>1, <2>2, <2>3, <2>4 DEF TypeOK
<1> HIDE DEF copies, late
<1>1. ASSUME pushes' = pushes, LateAt(t, i)' = LateAt(t, i), joins' = joins,
             InHand(t, i)' => InHand(t, i), Unread(t, i)' => Unread(t, i)
      PROVE  Goal
  BY <1>0, <1>1 DEF copies, late
<1>2. CASE Quiet
  <2>1. (InHand(t, i)' => InHand(t, i)) /\ (Unread(t, i)' => Unread(t, i))
    BY <1>0, <1>2 DEF Quiet, InHand, Unread
  <2> QED BY <1>1, <1>2, <2>1 DEF Quiet, LateAt
\* Everything may be read once more.
<1>3. CASE Start \/ Rejoin
  <2>1. /\ pushes' = pushes /\ LateAt(t, i)' = LateAt(t, i)
        /\ joins' = joins + 1 /\ (InHand(t, i)' <=> InHand(t, i))
    BY <1>3 DEF Start, Rejoin, ntfy, LateAt, InHand
  <2> QED BY <1>0, <2>1 DEF copies, late
<1>4. CASE Leave /\ pc # "down"
  <2>0. ~InHand(t, i)' /\ ~Unread(t, i)' /\ pushes' = pushes /\ joins' = joins
    BY <1>4, LeaveStep DEF InHand, Unread
  <2>1. CASE hand = Nothing
    BY <1>1, <1>4, <2>0, <2>1, LeaveStep DEF LateAt
  <2>2. CASE hand # Nothing
    <3>1. wire' \in {wire, wire \cup {hand}}
      BY <1>4, <2>2, LeaveStep
    <3>2. hand.topic = t /\ hand.offset = i <=> InHand(t, i)
      BY <2>2 DEF InHand
    <3>3. /\ Cardinality(LateAt(t, i)') \in Nat
          /\ Cardinality(LateAt(t, i)') <= late + (IF hand.topic = t /\ hand.offset = i THEN 1 ELSE 0)
      BY <3>1, LateAtMore DEF late
    <3> QED BY <1>0, <2>0, <3>2, <3>3 DEF copies
  <2> QED BY <2>1, <2>2
\* What was to be read is in hand.
<1>5. ASSUME NEW u \in Regions, TakeSnapshot(u) PROVE Goal
  <2>1. ~InHand(t, i) /\ pushes' = pushes /\ joins' = joins /\ LateAt(t, i)' = LateAt(t, i)
    BY <1>5, TakeStep DEF InHand, LateAt
  <2>2. /\ Unread(t, i)' => Unread(t, i)
        /\ InHand(t, i)' => Unread(t, i) /\ ~Unread(t, i)'
    <3>1. CASE u = t
      BY <1>0, <1>5, <3>1, TakeStep DEF InHand, Unread
    <3>2. CASE u # t
      BY <1>0, <1>5, <3>2, TakeStep DEF InHand, Unread
    <3> QED BY <3>1, <3>2
  <2> QED BY <1>0, <2>1, <2>2 DEF copies, late
\* What was in hand is pushed, may come late, or is lost.
<1>6. CASE Answer
  <2>1. /\ hand \in Requests /\ hand # Nothing /\ hand.topic \in Regions /\ hand.offset \in Nat
        /\ (hand.topic = t /\ hand.offset = i <=> InHand(t, i))
    BY <1>6, AnswerStep DEF Requests, InHand
  <2>2. ~InHand(t, i)' /\ (Unread(t, i)' <=> Unread(t, i)) /\ joins' = joins
    BY <1>6, AnswerStep DEF InHand, Unread
  <2>4. CASE pushes' = [pushes EXCEPT ![hand.topic] = Append(@, hand.offset)] /\ wire' = wire
    <3>1. LateAt(t, i)' = LateAt(t, i)
      BY <2>4 DEF LateAt
    <3>2. Cardinality(Copies(pushes'[t], i))
            = copies + (IF hand.topic = t /\ hand.offset = i THEN 1 ELSE 0)
      BY <2>1, <2>4, PushMore DEF copies
    <3> QED BY <1>0, <2>1, <2>2, <3>1, <3>2 DEF late
  <2>5. CASE pushes' = pushes /\ wire' \in {wire, wire \cup {hand}}
    <3>1. /\ Cardinality(LateAt(t, i)') \in Nat
          /\ Cardinality(LateAt(t, i)') <= late + (IF hand.topic = t /\ hand.offset = i THEN 1 ELSE 0)
      BY <2>5, LateAtMore DEF late
    <3> QED BY <1>0, <2>1, <2>2, <2>5, <3>1 DEF copies
  <2> QED BY <1>6, <2>4, <2>5, AnswerStep
<1>7. ASSUME NEW request \in wire, ArriveLate(request) PROVE Goal
  <2>1. request.topic \in Regions /\ request.offset \in Nat
    BY DEF TypeOK, Requests
  <2>2. (InHand(t, i)' <=> InHand(t, i)) /\ (Unread(t, i)' <=> Unread(t, i)) /\ joins' = joins
    BY <1>7 DEF ArriveLate, process, InHand, Unread
  <2>3. Cardinality(LateAt(t, i)')
          = late - (IF request.topic = t /\ request.offset = i THEN 1 ELSE 0)
    BY <1>7, LateLess DEF ArriveLate, late
  <2>4. Cardinality(Copies(pushes'[t], i))
          = copies + (IF request.topic = t /\ request.offset = i THEN 1 ELSE 0)
    BY <1>7, <2>1, PushMore DEF ArriveLate, copies
  <2> QED BY <1>0, <2>2, <2>3, <2>4
<1> QED BY <1>2, <1>3, <1>4, <1>5, <1>6, <1>7, PushSteps

--------------------------------------------------------------------------------
(* Steps back *)

\* Giving a post up is counted once.
LEMMA GivenUpMore ==
    ASSUME HandInv, NEW t
    PROVE  /\ gaveUp' = gaveUp => Cardinality(GivenUp(t)') = Cardinality(GivenUp(t))
           /\ \A h : gaveUp' = gaveUp \cup {h} /\ h \notin gaveUp =>
                  Cardinality(GivenUp(t)')
                      = Cardinality(GivenUp(t)) + (IF h.topic = t THEN 1 ELSE 0)
<1>0. IsFiniteSet(GivenUp(t)) /\ Cardinality(GivenUp(t)) \in Nat
  BY LateFinite
<1>1. ASSUME gaveUp' = gaveUp PROVE GivenUp(t)' = GivenUp(t)
  BY <1>1 DEF GivenUp
<1>2. ASSUME NEW h, gaveUp' = gaveUp \cup {h}, h \notin gaveUp
      PROVE  Cardinality(GivenUp(t)')
                 = Cardinality(GivenUp(t)) + (IF h.topic = t THEN 1 ELSE 0)
  <2>1. GivenUp(t)' = GivenUp(t) \cup (IF h.topic = t THEN {h} ELSE {}) /\ h \notin GivenUp(t)
    BY <1>2 DEF GivenUp
  <2>2. Cardinality(GivenUp(t) \cup {h}) = Cardinality(GivenUp(t)) + 1
    BY <1>0, <2>1, FS_AddElement
  <2>3. CASE h.topic = t
    BY <2>1, <2>2, <2>3
  <2>4. CASE h.topic # t
    <3>1. GivenUp(t)' = GivenUp(t)
      BY <2>1, <2>4
    <3> QED BY <1>0, <2>4, <3>1
  <2> QED BY <2>3, <2>4
<1> QED BY <1>1, <1>2

LEMMA StepBackInit == Init => StepBackInv
<1> SUFFICES ASSUME Init, NEW t \in Regions
             PROVE  Cardinality(Descents(pushes[t])) + Cardinality(Late(t))
                        + (IF HandBehind(t) THEN 1 ELSE 0) + (IF ReadBehind(t) THEN 1 ELSE 0)
                      <= (IF joins = 0 THEN 0 ELSE joins - 1) + Cardinality(GivenUp(t))
  BY DEF StepBackInv
<1>1. Descents(pushes[t]) = {} /\ Late(t) = {} /\ GivenUp(t) = {}
  BY DEF Init, Descents, Late, GivenUp
<1>2. ~HandBehind(t) /\ ~ReadBehind(t) /\ joins = 0
  BY DEF Init, HandBehind, ReadBehind
<1> QED BY <1>1, <1>2, FS_EmptySet

LEMMA StepBackStep ==
    TypeOK /\ OffsetInv /\ HandInv /\ StepBackInv /\ [Next]_vars => StepBackInv'
<1> SUFFICES ASSUME TypeOK, OffsetInv, HandInv, StepBackInv, [Next]_vars, NEW t \in Regions
             PROVE  Cardinality(Descents(pushes'[t])) + Cardinality(Late(t)')
                        + (IF HandBehind(t)' THEN 1 ELSE 0) + (IF ReadBehind(t)' THEN 1 ELSE 0)
                      <= (IF joins' = 0 THEN 0 ELSE joins' - 1) + Cardinality(GivenUp(t)')
  BY DEF StepBackInv
<1> USE AbsenceAssumption
<1> DEFINE falls == Cardinality(Descents(pushes[t]))
           late == Cardinality(Late(t))
           given == Cardinality(GivenUp(t))
           latest == Latest(t)
           Goal == Cardinality(Descents(pushes'[t])) + Cardinality(Late(t)')
                       + (IF HandBehind(t)' THEN 1 ELSE 0) + (IF ReadBehind(t)' THEN 1 ELSE 0)
                     <= (IF joins' = 0 THEN 0 ELSE joins' - 1) + Cardinality(GivenUp(t)')
<1>0. /\ falls \in Nat /\ late \in Nat /\ given \in Nat /\ joins \in Nat
      /\ falls + late + (IF HandBehind(t) THEN 1 ELSE 0) + (IF ReadBehind(t) THEN 1 ELSE 0)
           <= (IF joins = 0 THEN 0 ELSE joins - 1) + given
      /\ t \in Topics /\ position[t] \in Nat \cup {Unassigned}
      /\ pushes[t] \in Seq(Nat) /\ (pushes[t] # <<>> => latest \in Nat)
  <2>1. pushes[t] \in Seq(Nat) /\ joins \in Nat /\ t \in Topics
    BY BoundAssumption DEF TypeOK, Topics
  <2>2. falls \in Nat
    BY <2>1, DescentsAppend
  <2>3. late \in Nat /\ given \in Nat
    BY LateFinite
  <2>4. falls + late + (IF HandBehind(t) THEN 1 ELSE 0) + (IF ReadBehind(t) THEN 1 ELSE 0)
          <= (IF joins = 0 THEN 0 ELSE joins - 1) + given
    BY DEF StepBackInv
  <2> QED BY <2>1, <2>2, <2>3, <2>4 DEF TypeOK, Latest
<1> HIDE DEF falls, late, given
<1>8. hand # Nothing => hand \in Requests /\ hand.offset \in Nat /\ hand.topic \in Regions
  BY DEF TypeOK, Requests
<1>9. pushes' = pushes => Latest(t)' = latest
  BY DEF Latest
<1>1. ASSUME pushes' = pushes, wire' = wire, gaveUp' = gaveUp, joins' = joins,
             HandBehind(t)' => HandBehind(t), ReadBehind(t)' => ReadBehind(t)
      PROVE  Goal
  <2>1. Late(t)' = Late(t) /\ GivenUp(t)' = GivenUp(t)
    BY <1>1 DEF Late, GivenUp
  <2> QED BY <1>0, <1>1, <2>1 DEF falls, late, given
<1>2. CASE Quiet
  <2>1. HandBehind(t)' => HandBehind(t)
    BY <1>2, <1>9 DEF Quiet, HandBehind
  <2>2. ReadBehind(t)' => ReadBehind(t)
    <3>1. CASE hand # Nothing /\ hand.topic = t
      BY <1>0, <1>2, <1>8, <3>1 DEF Quiet, ReadBehind
    <3>2. CASE ~(hand # Nothing /\ hand.topic = t)
      BY <1>0, <1>2, <1>9, <3>2 DEF Quiet, ReadBehind
    <3> QED BY <3>1, <3>2
  <2> QED BY <1>1, <1>2, <2>1, <2>2 DEF Quiet
\* What is read next may be a step back, but the first time there is nothing to step back from.
<1>3. CASE Start \/ Rejoin
  <2>1. /\ pushes' = pushes /\ Late(t)' = Late(t) /\ GivenUp(t)' = GivenUp(t)
        /\ joins' = joins + 1 /\ hand' = hand
    BY <1>3 DEF Start, Rejoin, ntfy, Late, GivenUp
  <2>2. HandBehind(t)' <=> HandBehind(t)
    BY <1>9, <2>1 DEF HandBehind
  <2>3. CASE joins = 0
    <3>1. pushes[t] = <<>> /\ given = 0 /\ hand = Nothing
      BY <2>3, FS_EmptySet DEF HandInv, GivenUp, given, TypeOK
    <3>2. ~HandBehind(t)' /\ ~ReadBehind(t)'
      BY <2>1, <3>1 DEF HandBehind, ReadBehind
    <3> QED BY <1>0, <2>1, <2>3, <3>2 DEF falls, late, given
  <2>4. CASE joins # 0
    BY <1>0, <2>1, <2>2, <2>4 DEF falls, late, given
  <2> QED BY <2>3, <2>4
<1>4. CASE Leave /\ pc # "down"
  <2>0. ~HandBehind(t)' /\ ~ReadBehind(t)' /\ pushes' = pushes /\ joins' = joins
    BY <1>4, LeaveStep DEF HandBehind, ReadBehind
  <2>1. CASE hand = Nothing
    BY <1>1, <1>4, <2>0, <2>1, LeaveStep
  <2>2. CASE hand # Nothing
    <3>1. /\ Cardinality(Late(t)') \in Nat
          /\ Cardinality(Late(t)') <= late + (IF hand.topic = t THEN 1 ELSE 0)
      BY <1>4, <2>2, LeaveStep, LateMore DEF late
    <3>2. Cardinality(GivenUp(t)') = given + (IF hand.topic = t THEN 1 ELSE 0)
      BY <1>4, <2>2, LeaveStep, HandNotGivenUp, GivenUpMore DEF given
    <3> QED BY <1>0, <2>0, <3>1, <3>2 DEF falls
  <2> QED BY <2>1, <2>2
\* What was read behind is in hand, and what comes next lies after it.
<1>5. ASSUME NEW u \in Regions, TakeSnapshot(u) PROVE Goal
  <2>1. /\ hand = Nothing /\ pc # "down" /\ pushes' = pushes /\ joins' = joins
        /\ Late(t)' = Late(t) /\ GivenUp(t)' = GivenUp(t) /\ ~HandBehind(t)
    BY <1>5, TakeStep DEF Late, GivenUp, HandBehind
  <2>2. CASE u = t
    <3>1. /\ hand' # Nothing /\ hand'.topic = t /\ hand'.offset = position[t] + 1
          /\ position[t] \in Nat /\ position'[t] = position[t] + 1
      BY <1>5, <2>2, TakeStep
    <3>2. ~ReadBehind(t)'
      BY <3>1 DEF ReadBehind
    <3>3. HandBehind(t)' => ReadBehind(t)
      BY <1>0, <1>9, <2>1, <3>1 DEF HandBehind, ReadBehind
    <3> QED BY <1>0, <2>1, <3>2, <3>3 DEF falls, late, given
  <2>3. CASE u # t
    <3>1. hand'.topic # t /\ position'[t] = position[t] /\ Latest(t)' = latest
      BY <1>0, <1>5, <1>9, <2>1, <2>3, TakeStep
    <3>2. ~HandBehind(t)' /\ (ReadBehind(t)' => ReadBehind(t))
      BY <2>1, <3>1 DEF HandBehind, ReadBehind
    <3> QED BY <1>0, <2>1, <3>2 DEF falls, late, given
  <2> QED BY <2>2, <2>3
<1>6. CASE Answer
  <2>1. /\ hand \in Requests /\ hand # Nothing /\ hand.topic \in Regions /\ hand.offset \in Nat
        /\ hand \notin gaveUp /\ joins' = joins /\ hand' = Nothing /\ position' = position
        /\ pc # "down" /\ pc' # "down"
    BY <1>6, <1>8, AnswerStep, HandNotGivenUp
  <2>2. ~HandBehind(t)'
    BY <2>1 DEF HandBehind
  <2>3. CASE /\ pushes' = [pushes EXCEPT ![hand.topic] = Append(@, hand.offset)]
             /\ wire' = wire /\ gaveUp' = gaveUp
    <3>1. Late(t)' = Late(t) /\ GivenUp(t)' = GivenUp(t)
      BY <2>3 DEF Late, GivenUp
    <3>2. /\ pushes'[t] = IF t = hand.topic THEN Append(pushes[t], hand.offset) ELSE pushes[t]
          /\ Cardinality(Descents(pushes'[t]))
               = falls + (IF hand.topic = t /\ pushes[t] # <<>> /\ hand.offset <= latest
                          THEN 1 ELSE 0)
      BY <2>1, <2>3, PushMore DEF falls, Latest
    <3>3. CASE hand.topic = t
      <4>1. pushes[t] # <<>> /\ hand.offset <= latest <=> HandBehind(t)
        BY <2>1, <3>3 DEF HandBehind
      <4>2. pushes'[t] # <<>> /\ Latest(t)' = hand.offset
        BY <1>0, <2>1, <3>2, <3>3 DEF Latest
      <4>3. ReadBehind(t)' => ReadBehind(t)
        BY <2>1, <3>3, <4>2 DEF ReadBehind
      <4> QED BY <1>0, <2>1, <2>2, <3>1, <3>2, <3>3, <4>1, <4>3 DEF late, given
    <3>4. CASE hand.topic # t
      <4>1. pushes'[t] = pushes[t] /\ Latest(t)' = latest
        BY <3>2, <3>4 DEF Latest
      <4>2. ReadBehind(t)' => ReadBehind(t)
        BY <2>1, <3>4, <4>1 DEF ReadBehind
      <4> QED BY <1>0, <2>1, <2>2, <3>1, <3>2, <3>4, <4>2 DEF late, given
    <3> QED BY <3>3, <3>4
  <2>4. CASE /\ pushes' = pushes /\ gaveUp' = gaveUp \cup {hand}
             /\ wire' \in {wire, wire \cup {hand}}
    <3>1. /\ Cardinality(Late(t)') \in Nat
          /\ Cardinality(Late(t)') <= late + (IF hand.topic = t THEN 1 ELSE 0)
      BY <2>4, LateMore DEF late
    <3>2. Cardinality(GivenUp(t)') = given + (IF hand.topic = t THEN 1 ELSE 0)
      BY <2>1, <2>4, GivenUpMore DEF given
    \* The push before the one given up may have been later still.
    <3>3. ReadBehind(t)' => ReadBehind(t) \/ HandBehind(t)
      <4>1. CASE hand.topic = t
        BY <1>0, <1>9, <2>1, <2>4, <4>1 DEF ReadBehind, HandBehind
      <4>2. CASE hand.topic # t
        BY <1>9, <2>1, <2>4, <4>2 DEF ReadBehind
      <4> QED BY <4>1, <4>2
    <3>4. Cardinality(Descents(pushes'[t])) = falls
      BY <2>4 DEF falls
    <3>5. (IF ReadBehind(t)' THEN 1 ELSE 0)
              <= (IF HandBehind(t) THEN 1 ELSE 0) + (IF ReadBehind(t) THEN 1 ELSE 0)
      BY <3>3
    <3> QED BY <1>0, <2>1, <2>2, <3>1, <3>2, <3>4, <3>5
  <2> QED BY <1>6, <2>3, <2>4, AnswerStep
<1>7. ASSUME NEW request \in wire, ArriveLate(request) PROVE Goal
  <2>1. /\ request.topic \in Regions /\ request.offset \in Nat
        /\ joins' = joins /\ pc' = pc /\ hand' = hand /\ position' = position
        /\ GivenUp(t)' = GivenUp(t)
    BY <1>7 DEF TypeOK, Requests, ArriveLate, process, GivenUp
  <2>2. Cardinality(Late(t)') = late - (IF request.topic = t THEN 1 ELSE 0)
    BY <1>7, LateLess DEF ArriveLate, late
  <2>3. /\ pushes'[t] = IF t = request.topic THEN Append(pushes[t], request.offset) ELSE pushes[t]
        /\ Cardinality(Descents(pushes'[t]))
             = falls + (IF request.topic = t /\ pushes[t] # <<>> /\ request.offset <= latest
                        THEN 1 ELSE 0)
    BY <1>7, <2>1, PushMore DEF ArriveLate, falls, Latest
  <2>4. CASE request.topic = t
    \* It falls behind the latest push, or it puts another behind, never both and never two.
    <3>1. pushes'[t] # <<>> /\ Latest(t)' = request.offset
      BY <1>0, <2>1, <2>3, <2>4 DEF Latest
    <3>2. CASE hand # Nothing /\ hand.topic = t
      <4>1. ReadBehind(t)' <=> ReadBehind(t)
        BY <2>1, <3>2 DEF ReadBehind
      <4>2. pushes[t] # <<>> /\ request.offset <= latest /\ HandBehind(t)' => HandBehind(t)
        BY <1>0, <1>8, <2>1, <3>1, <3>2 DEF HandBehind
      <4> QED BY <1>0, <2>1, <2>2, <2>3, <2>4, <4>1, <4>2 DEF given
    <3>3. CASE ~(hand # Nothing /\ hand.topic = t)
      <4>1. ~HandBehind(t)' /\ ~HandBehind(t)
        BY <2>1, <3>3 DEF HandBehind
      <4>2. pushes[t] # <<>> /\ request.offset <= latest /\ ReadBehind(t)' => ReadBehind(t)
        BY <1>0, <2>1, <3>1, <3>3 DEF ReadBehind
      <4> QED BY <1>0, <2>1, <2>2, <2>3, <2>4, <4>1, <4>2 DEF given
    <3> QED BY <3>2, <3>3
  <2>5. CASE request.topic # t
    <3>1. pushes'[t] = pushes[t] /\ Latest(t)' = latest
      BY <2>3, <2>5 DEF Latest
    <3>2. (HandBehind(t)' <=> HandBehind(t)) /\ (ReadBehind(t)' <=> ReadBehind(t))
      BY <2>1, <3>1 DEF HandBehind, ReadBehind
    <3> QED BY <1>0, <2>1, <2>2, <2>3, <2>5, <3>2 DEF given
  <2> QED BY <2>4, <2>5
<1> QED BY <1>2, <1>3, <1>4, <1>5, <1>6, <1>7, PushSteps

--------------------------------------------------------------------------------
(* The worker implements SnapshotPushes *)

\* What a step that reads nothing of t leaves of what was asked of it.
LEMMA AskedStays ==
    ASSUME TypeOK, OffsetInv, [Next]_vars, NEW t \in Regions,
           position'[t] = position[t], since'[t] = since[t]
    PROVE  Asked(t)' = Asked(t)
<1>1. t \in Topics
  BY DEF Topics
<1>2. CASE position[t] = Unassigned
  BY <1>2 DEF Asked
<1>3. CASE position[t] # Unassigned
  <2>1. since[t] \in Nat /\ position[t] \in Nat /\ position[t] <= Len(log[t])
    BY <1>1, <1>3 DEF TypeOK, OffsetInv
  <2>2. \A i \in since[t] + 1 .. position[t] : log'[t][i] = log[t][i]
    BY <1>1, <2>1, LogGrows
  <2> QED BY <1>3, <2>2 DEF Asked
<1> QED BY <1>2, <1>3

\* Reading on asks for the record if it is a snapshot.
LEMMA AskedMore ==
    ASSUME TypeOK, OffsetInv, NEW t \in Regions, Consume(t), since' = since, log' = log
    PROVE  Asked(t)' = Asked(t) \cup (IF Upcoming(t) \in Snapshots THEN {position[t] + 1} ELSE {})
<1> USE AbsenceAssumption
<1>1. /\ t \in Topics /\ position[t] \in Nat /\ since[t] \in Nat /\ since[t] <= position[t]
      /\ position'[t] = position[t] + 1 /\ position[t] # Unassigned /\ position'[t] # Unassigned
  BY ConsumeOffsets DEF Topics, TypeOK, OffsetInv
<1>2. PICK p \in Nat : p = position[t] /\ position'[t] = p + 1
  BY <1>1
<1>3. since[t] + 1 .. p + 1 = (since[t] + 1 .. p) \cup {p + 1}
  BY <1>1, <1>2
<1>4. Asked(t)' = {i \in since[t] + 1 .. p + 1 : log[t][i] \in Snapshots}
  BY <1>1, <1>2 DEF Asked
<1>5. Asked(t) = {i \in since[t] + 1 .. p : log[t][i] \in Snapshots}
  BY <1>1, <1>2 DEF Asked
<1>6. Upcoming(t) = log[t][p + 1]
  BY <1>2 DEF Upcoming
<1> QED BY <1>2, <1>3, <1>4, <1>5, <1>6

LEMMA PushingInit == Init => Pushing!Init
<1> SUFFICES ASSUME Init PROVE Pushing!Init
  OBVIOUS
<1>1. \A t \in Regions : log[t] = <<>> /\ Asked(t) = {}
  BY DEF Init, Topics, Asked
<1>2. joins = 0 /\ hand = Nothing /\ wire = {} /\ pushes = [t \in Regions |-> <<>>]
  BY DEF Init
<1> QED BY <1>1, <1>2 DEF Pushing!Init

LEMMA PushingStep ==
    TypeOK /\ OffsetInv /\ HandInv /\ [Next]_vars => [Pushing!Next]_(Pushing!vars)
<1> SUFFICES ASSUME TypeOK, OffsetInv, HandInv, [Next]_vars
             PROVE  Pushing!Next \/ UNCHANGED Pushing!vars
  OBVIOUS
<1> USE AbsenceAssumption
<1> DEFINE L == [t \in Regions |-> log[t]]
           A == [t \in Regions |-> Asked(t)]
<1>0. \A t \in Regions : t \in Topics
  BY DEF Topics
\* Offsets of regions stay, or move on to what is no snapshot.
<1>1. ASSUME L' = L, A' = A, hand' = hand, joins' = joins, wire' = wire, pushes' = pushes
      PROVE  UNCHANGED Pushing!vars
  BY <1>1 DEF Pushing!vars, Pushing!worker
<1>2. ASSUME log' = log PROVE L' = L
  BY <1>2
<1>3. ASSUME \A t \in Regions : Asked(t)' = Asked(t) PROVE A' = A
  BY <1>3
<1>4. ASSUME position' = position, since' = since PROVE A' = A
  BY <1>3, <1>4, AskedStays
<1> HIDE DEF L, A
<1>5. ASSUME NEW t \in Topics, NEW r \in RecordsOf(t), Produce(t, r)
      PROVE  Pushing!Next \/ UNCHANGED Pushing!vars
  <2>1. /\ A' = A /\ hand' = hand /\ joins' = joins /\ wire' = wire /\ pushes' = pushes
        /\ log' = [log EXCEPT ![t] = Append(@, r)] /\ r \in Records
    BY <1>4, <1>5 DEF Produce, process, ntfy, RecordsOf, Records
  <2>2. CASE t \in Regions
    <3>1. L' = [L EXCEPT ![t] = Append(@, r)]
      BY <1>0, <2>1, <2>2 DEF L, TypeOK
    <3>2. Pushing!Publish(t, r)
      BY <2>1, <3>1 DEF Pushing!Publish, Pushing!worker, L, A
    <3> QED BY <2>1, <2>2, <3>2 DEF Pushing!Next
  <2>3. CASE t \notin Regions
    <3>1. L' = L
      BY <1>0, <2>1, <2>3 DEF L, TypeOK
    <3> QED BY <1>1, <2>1, <3>1
  <2> QED BY <2>2, <2>3
\* Where no topic is held, nothing was asked for since joining.
<1>6. CASE Start \/ Rejoin
  <2>1. /\ hand' = hand /\ joins' = joins + 1 /\ wire' = wire /\ pushes' = pushes /\ L' = L
    BY <1>2, <1>6 DEF Start, Rejoin, ntfy
  <2>2. ASSUME NEW t \in Regions PROVE position'[t] = Unassigned
    BY <1>0, <1>6 DEF Start, Rejoin, OffsetInv
  <2>3. A' = [t \in Regions |-> {}]
    BY <2>2 DEF Asked, A
  <2>4. Pushing!Join
    BY <2>1, <2>3 DEF Pushing!Join, L, A
  <2> QED BY <2>4 DEF Pushing!Next
<1>7. ASSUME NEW u \in Topics, Assign(u) PROVE UNCHANGED Pushing!vars
  <2>1. ASSUME NEW t \in Regions PROVE Asked(t)' = Asked(t)
    <3>1. CASE t = u
      <4>1. /\ position[t] = Unassigned /\ position'[t] = since'[t] /\ position'[t] \in Nat
        BY <1>0, <1>7, <3>1, LogGrows DEF Assign, TypeOK
      <4>2. since'[t] + 1 .. position'[t] = {}
        BY <4>1
      <4> QED BY <4>1, <4>2 DEF Asked
    <3>2. CASE t # u
      BY <1>0, <1>7, <3>2, AskedStays DEF Assign, TypeOK
    <3> QED BY <3>1, <3>2
  <2> QED BY <1>1, <1>2, <1>3, <1>7, <2>1 DEF Assign, ntfy
<1>8. CASE AutoCommit \/ ConsumeError \/ Resume
  BY <1>1, <1>2, <1>4, <1>8 DEF AutoCommit, ConsumeError, Resume, process, ntfy
<1>9. CASE Stop \/ Crash
  <2>1. Leave
    BY <1>9 DEF Stop, Crash
  <2>2. A' = [t \in Regions |-> {}]
    BY <1>0, <2>1 DEF Leave, Asked, A
  <2>3. Pushing!Die
    BY <1>2, <2>1, <2>2 DEF Leave, Pushing!Die, L, A
  <2> QED BY <2>3 DEF Pushing!Next
<1>10. ASSUME NEW u \in Topics, Consume(u), u \notin Regions \/ Upcoming(u) \notin Snapshots,
              log' = log, since' = since, hand' = hand, joins' = joins, UNCHANGED ntfy
       PROVE  UNCHANGED Pushing!vars
  <2>1. ASSUME NEW t \in Regions PROVE Asked(t)' = Asked(t)
    <3>1. CASE t = u
      BY <1>10, <3>1, AskedMore
    <3>2. CASE t # u
      BY <1>0, <1>10, <3>2, ConsumeOffsets, AskedStays
    <3> QED BY <3>1, <3>2
  <2> QED BY <1>1, <1>2, <1>3, <1>10, <2>1 DEF ntfy
<1>11. CASE ReadConfiguration
  BY <1>10, <1>11, TopicAssumption DEF ReadConfiguration, Topics
<1>12. ASSUME NEW u \in Topics, PassOver(u) PROVE UNCHANGED Pushing!vars
  <2>1. u \notin Regions \/ Upcoming(u) \notin Snapshots
    BY <1>12, RecordAssumption, TopicAssumption DEF PassOver, Topics
  <2> QED BY <1>10, <1>12, <2>1 DEF PassOver
<1>13. ASSUME NEW u \in Regions, FailSnapshot(u) PROVE UNCHANGED Pushing!vars
  <2>1. Upcoming(u) \notin Snapshots
    BY <1>13, RecordAssumption DEF FailSnapshot
  <2> QED BY <1>0, <1>10, <1>13, <2>1 DEF FailSnapshot
<1>14. ASSUME NEW u \in Regions, TakeSnapshot(u) PROVE Pushing!Next
  <2>1. /\ Consume(u) /\ log' = log /\ since' = since /\ Upcoming(u) \in Snapshots
        /\ joins' = joins /\ wire' = wire /\ pushes' = pushes /\ L' = L
    BY <1>2, <1>14 DEF TakeSnapshot, ntfy
  <2>2. PICK i \in Nat : i = position[u] + 1
    BY <1>14, TakeStep
  <2>3. i \in 1..Len(log[u]) /\ log[u][i] \in Snapshots
    BY <1>0, <2>1, <2>2, ConsumeOffsets DEF Upcoming
  <2>4. hand = Nothing /\ hand' = [topic |-> u, offset |-> i, join |-> joins]
    BY <1>14, <2>2, TakeStep
  <2>5. A' = [A EXCEPT ![u] = @ \cup {i}]
    <3>1. Asked(u)' = Asked(u) \cup {i}
      BY <2>1, <2>2, AskedMore
    <3>2. \A t \in Regions : t # u => Asked(t)' = Asked(t)
      BY <1>0, <2>1, ConsumeOffsets, AskedStays
    <3> QED BY <3>1, <3>2 DEF A
  <2>6. /\ \A j \in Asked(u) : j < i
        /\ \A j \in Asked(u) : \A k \in j + 1 .. i - 1 : log[u][k] \in Snapshots => k \in Asked(u)
    <3>1. since[u] \in Nat /\ position[u] \in Nat /\ position[u] # Unassigned /\ i - 1 = position[u]
      BY <1>0, <1>14, <2>2, TakeStep DEF TypeOK, OffsetInv
    <3>2. Asked(u) = {j \in since[u] + 1 .. i - 1 : log[u][j] \in Snapshots}
      BY <3>1 DEF Asked
    <3> QED BY <2>2, <3>1, <3>2
  <2>7. L[u] = log[u] /\ A[u] = Asked(u)
    BY DEF L, A
  <2>8. Pushing!IsNext(u, i)
    BY <2>6, <2>7 DEF Pushing!IsNext, L, A
  <2>9. Pushing!Ask(u, i)
    BY <2>1, <2>3, <2>4, <2>5, <2>7, <2>8 DEF Pushing!Ask, L, A
  <2> QED BY <2>3, <2>7, <2>9 DEF Pushing!Next, L
<1>15. CASE Answer
  <2>1. L' = L /\ A' = A
    BY <1>2, <1>4, <1>15 DEF Answer, Accepted, Refused, TimedOut, Answered
  <2>2. hand # Nothing /\ hand' = Nothing /\ joins' = joins
    BY <1>15, AnswerStep
  <2>3. CASE pushes' = [pushes EXCEPT ![hand.topic] = Append(@, hand.offset)] /\ wire' = wire
    BY <2>1, <2>2, <2>3 DEF Pushing!Next, Pushing!Push, Pushing!Distribute, L, A
  <2>4. CASE pushes' = pushes /\ wire' \in {wire, wire \cup {hand}}
    BY <2>1, <2>2, <2>4 DEF Pushing!Next, Pushing!GiveUp, L, A
  <2> QED BY <1>15, <2>3, <2>4, AnswerStep
<1>16. ASSUME NEW post \in wire, ArriveLate(post) PROVE Pushing!Next
  <2>1. L' = L /\ A' = A
    BY <1>2, <1>4, <1>16 DEF ArriveLate, process
  <2>2. Pushing!PushLate(post)
    BY <1>16, <2>1 DEF ArriveLate, process, Pushing!PushLate, Pushing!Distribute, Pushing!worker, L, A
  <2> QED BY <2>2 DEF Pushing!Next
<1>17. CASE UNCHANGED vars
  BY <1>1, <1>2, <1>4, <1>17 DEF vars, process, ntfy
<1> QED BY <1>5, <1>6, <1>7, <1>8, <1>9, <1>11, <1>12, <1>13, <1>14, <1>15, <1>16, <1>17
        DEF Next, Read

--------------------------------------------------------------------------------
(* Theorems *)

LEMMA NotifierInvariance == Spec => []NotifierInv
<1>1. Init => NotifierInv
  BY TypeInit, OffsetInit, CoverInit, CacheInit, HandInit, RepeatInit, StepBackInit DEF NotifierInv
<1>2. NotifierInv /\ [Next]_vars => NotifierInv'
  BY TypeStep, OffsetStep, CoverStep, CacheStep, HandStep, RepeatStep, StepBackStep DEF NotifierInv
<1> QED BY <1>1, <1>2, PTL DEF Spec

\* The variables keep their types, for all constants.
THEOREM NotifierTypeOK == Spec => []TypeOK
<1>1. NotifierInv => TypeOK
  BY DEF NotifierInv
<1> QED BY <1>1, NotifierInvariance, PTL

\* EverySnapshotTried: automatic commits skip no snapshot that ntfy was not at least asked to push.
THEOREM NoSnapshotSkipped == Spec => []EverySnapshotTried
<1>1. NotifierInv => EverySnapshotTried
  <2> SUFFICES ASSUME NotifierInv, NEW t \in Regions, Passed(t) # Unassigned
               PROVE  Covered(t, Passed(t))
    BY DEF EverySnapshotTried, Covered
  <2>1. Passed(t) \in Nat /\ Passed(t) \in {committed[t], position[t]}
    BY DEF NotifierInv, TypeOK, Topics, Passed
  <2> QED BY <2>1 DEF NotifierInv, CoverInv
<1> QED BY <1>1, NotifierInvariance, PTL

\* CacheFollowsReads: the cache holds an event this life has read, and none older than the last
\* one up to where the loop has got, commits, errors and rejoins included.
THEOREM CacheIsWhatWasRead == Spec => []CacheFollowsReads
<1>1. NotifierInv => CacheFollowsReads
  BY DEF NotifierInv
<1> QED BY <1>1, NotifierInvariance, PTL

\* RepeatsNeedRejoin: late arrivals included, a snapshot is pushed at most once for each time
\* the worker joined its group.
THEOREM PushesRepeatByRejoin == Spec => []RepeatsNeedRejoin
<1>1. NotifierInv => RepeatsNeedRejoin
  <2> SUFFICES ASSUME NotifierInv, NEW t \in Regions, NEW i \in 1..Len(log[t])
               PROVE  Cardinality(Copies(pushes[t], i)) + Cardinality(LateAt(t, i)) <= joins
    BY DEF RepeatsNeedRejoin, Copies, LateAt
  <2>1. pushes[t] \in Seq(Nat) /\ joins \in Nat /\ i \in Nat
    BY BoundAssumption DEF NotifierInv, TypeOK, Topics
  <2>2. Cardinality(Copies(pushes[t], i)) \in Nat /\ Cardinality(LateAt(t, i)) \in Nat
    BY <2>1, CopiesAppend, LateFinite DEF NotifierInv
  <2>3. Cardinality(Copies(pushes[t], i)) + Cardinality(LateAt(t, i))
            + (IF InHand(t, i) THEN 1 ELSE 0) + (IF Unread(t, i) THEN 1 ELSE 0) <= joins
    BY <2>1 DEF NotifierInv, RepeatInv
  <2> QED BY <2>1, <2>2, <2>3
<1> QED BY <1>1, NotifierInvariance, PTL

\* StepsBackAreExplained: every step back of a region's pushes has a restart, a rejoin or a post
\* given up of its own.
THEOREM StepsBackHaveCause == Spec => []StepsBackAreExplained
<1>1. NotifierInv => StepsBackAreExplained
  <2> SUFFICES ASSUME NotifierInv, NEW t \in Regions
               PROVE  Cardinality(Descents(pushes[t]))
                        <= (IF joins = 0 THEN 0 ELSE joins - 1) + Cardinality(GivenUp(t))
    BY DEF StepsBackAreExplained, Descents, GivenUp
  <2>1. pushes[t] \in Seq(Nat) /\ joins \in Nat
    BY BoundAssumption DEF NotifierInv, TypeOK
  <2>2. Cardinality(Descents(pushes[t])) \in Nat
    BY <2>1, DescentsAppend
  <2>3. Cardinality(Late(t)) \in Nat /\ Cardinality(GivenUp(t)) \in Nat
    BY LateFinite DEF NotifierInv
  <2>4. Cardinality(Descents(pushes[t])) + Cardinality(Late(t))
            + (IF HandBehind(t) THEN 1 ELSE 0) + (IF ReadBehind(t) THEN 1 ELSE 0)
          <= (IF joins = 0 THEN 0 ELSE joins - 1) + Cardinality(GivenUp(t))
    BY DEF NotifierInv, StepBackInv
  <2> QED BY <2>1, <2>2, <2>3, <2>4
<1> QED BY <1>1, NotifierInvariance, PTL

\* PushesSpec: offsets, commits, rejoins and errors included, the worker implements SnapshotPushes.
THEOREM NotifierImplementsPushes == Spec => PushesSpec
<1>1. NotifierInv /\ [Next]_vars => [Pushing!Next]_(Pushing!vars)
  BY PushingStep DEF NotifierInv
<1> QED BY <1>1, PushingInit, NotifierInvariance, PTL DEF Spec, PushesSpec, Pushing!Spec
================================================================================
