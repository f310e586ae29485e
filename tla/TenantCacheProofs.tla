--------------------------- MODULE TenantCacheProofs ---------------------------
(***************************************************************************)
(* Proofs about TenantCache for all tenants, stamps and bounds.            *)
(***************************************************************************)
EXTENDS TenantCache, TLAPS

CacheInv == TypeOK /\ (pc = "down" => cache = Empty) /\ CacheIsNewestRead

--------------------------------------------------------------------------------
(* Types *)

LEMMA KindsDiffer ==
    /\ \A t \in Tenants : Deletion(t) \notin Updates
    /\ \A t, u \in Tenants : Deletion(t) = Deletion(u) => t = u
<1>1. \A t : Deletion(t).deleted = t /\ DOMAIN Deletion(t) = {"deleted"}
  BY DEF Deletion
<1>2. \A r \in Updates : DOMAIN r = {"tenant", "updatedAt"}
  BY DEF Updates
<1> QED BY <1>1, <1>2

LEMMA TypeStep == CacheInv /\ [Next]_vars => TypeOK' /\ (pc = "down" => cache = Empty)'
<1> SUFFICES ASSUME CacheInv, [Next]_vars
             PROVE  TypeOK' /\ (pc' = "down" => cache' = Empty)
  BY DEF Empty
<1> USE BoundAssumption DEF CacheInv, TypeOK
<1>1. ASSUME NEW r \in Records, Produce(r)
      PROVE  TypeOK' /\ (pc' = "down" => cache' = Empty)
  <2>1. log' \in Seq(Records) /\ Len(log') = Len(log) + 1 /\ Len(log') <= MaxLog
    BY <1>1 DEF Produce
  <2>2. cache' \in [Tenants -> 0..Len(log')]
    BY <1>1, <2>1 DEF Produce
  <2>3. reads' \in Seq(1..Len(log'))
    <3>1. reads' = reads /\ 1..Len(log) \subseteq 1..Len(log')
      BY <1>1, <2>1 DEF Produce
    <3>2. reads \in Seq(1..Len(log))
      OBVIOUS
    <3>3. \A S, T : S \subseteq T => Seq(S) \subseteq Seq(T)
      OBVIOUS
    <3> QED BY <3>1, <3>2, <3>3
  <2> QED BY <1>1, <2>1, <2>2, <2>3 DEF Produce
<1>2. CASE Start
  BY <1>2 DEF Start
<1>10. CASE Rejoin
  BY <1>10 DEF Rejoin
<1>3. CASE AutoCommit
  BY <1>3 DEF AutoCommit
<1>4. CASE Stop \/ Crash
  BY <1>4 DEF Stop, Crash, Leave, Empty
<1>5. ASSUME Consume
      PROVE  /\ position' \in 0..Len(log') /\ log' = log
             /\ position + 1 \in 1..Len(log) /\ Upcoming \in Records
             /\ reads' \in Seq(1..Len(log'))
  BY <1>5 DEF Consume, Upcoming
<1>6. CASE ReadUpdate
  <2>1. Consume /\ pc' = pc /\ pc = "polling" /\ Upcoming \in Updates
    BY <1>6 DEF ReadUpdate, Consume
  <2>2. cache' \in [Tenants -> 0..Len(log)]
    BY <1>5, <1>6, <2>1 DEF ReadUpdate
  <2> QED BY <1>5, <2>1, <2>2 DEF Consume
<1>7. CASE ReadDeletion
  <2>1. Consume /\ pc' = pc /\ pc = "polling"
    BY <1>7 DEF ReadDeletion, Consume
  <2>2. cache' \in [Tenants -> 0..Len(log)]
    BY <1>7 DEF ReadDeletion
  <2> QED BY <1>5, <2>1, <2>2 DEF Consume
<1>8. CASE ReadUnusable
  BY <1>5, <1>8 DEF ReadUnusable, Consume
<1>9. CASE UNCHANGED vars
  BY <1>9 DEF vars
<1> QED BY <1>1, <1>2, <1>3, <1>4, <1>6, <1>7, <1>8, <1>9, <1>10 DEF Next, Read

\* A read appends the upcoming event to those read.
LEMMA ConsumeReads ==
    ASSUME CacheInv, Consume, NEW last, last = Len(reads) + 1
    PROVE  /\ Len(reads) \in Nat /\ last \in Nat /\ Len(reads') = last
           /\ reads'[last] = position + 1
           /\ \A n \in 1..Len(reads) : reads'[n] = reads[n] /\ Event(n)' = Event(n)
           /\ Event(last)' = Upcoming
<1>1. reads \in Seq(1..Len(log)) /\ reads' = Append(reads, position + 1) /\ log' = log
  BY DEF CacheInv, TypeOK, Consume
<1>2. /\ Len(reads) \in Nat /\ last \in Nat /\ Len(reads') = last /\ reads'[last] = position + 1
      /\ \A n \in 1..Len(reads) : reads'[n] = reads[n]
  <2>1. PICK p : p = position + 1
    OBVIOUS
  <2> QED BY <1>1, <2>1
<1> QED BY <1>1, <1>2 DEF Event, Upcoming

--------------------------------------------------------------------------------
(* The newest event read *)

\* What CacheIsNewestRead says of one tenant.
Newest(t) ==
    IF Standing(t) = {}
    THEN cache[t] = 0
    ELSE \E n \in Standing(t) : cache[t] = reads[n] /\ \A m \in Standing(t) : Preferred(n, m)

LEMMA NewestInCache == CacheInv /\ pc = "polling" => \A t \in Tenants : Newest(t)
  BY DEF CacheInv, CacheIsNewestRead, Newest

\* What stands before the event just read still stands, unless that deletes the tenant.
LEMMA StandingBefore ==
    ASSUME CacheInv, Consume, NEW t \in Tenants, Upcoming # Deletion(t),
           NEW last, last = Len(reads) + 1
    PROVE  Standing(t)' = Standing(t) \cup
               (IF Upcoming \in Updates /\ Upcoming.tenant = t THEN {last} ELSE {})
<1>1. /\ Len(reads) \in Nat /\ last \in Nat /\ Len(reads') = last /\ Event(last)' = Upcoming
      /\ \A n \in 1..Len(reads) : Event(n)' = Event(n)
  BY ConsumeReads
<1>2. ASSUME NEW n \in 1..last
      PROVE  n \in Standing(t)' <=>
                 /\ Event(n)' \in Updates /\ Event(n)'.tenant = t
                 /\ \A m \in n + 1 .. Len(reads) : Event(m) # Deletion(t)
  <2>1. (\A m \in n + 1 .. last : Event(m)' # Deletion(t))
            <=> \A m \in n + 1 .. Len(reads) : Event(m) # Deletion(t)
    <3>1. \A m \in n + 1 .. last : m = last \/ m \in n + 1 .. Len(reads)
      BY <1>1
    <3>2. n + 1 .. Len(reads) \subseteq n + 1 .. last /\ n + 1 .. Len(reads) \subseteq 1..Len(reads)
      BY <1>1
    <3> QED BY <1>1, <3>1, <3>2
  <2> QED BY <1>1, <2>1 DEF Standing
<1>3. \A n \in 1..Len(reads) : n \in Standing(t)' <=> n \in Standing(t)
  BY <1>1, <1>2 DEF Standing
<1>4. last \in Standing(t)' <=> Upcoming \in Updates /\ Upcoming.tenant = t
  BY <1>1, <1>2
<1>5. /\ Standing(t)' \subseteq 1..last /\ Standing(t) \subseteq 1..Len(reads)
      /\ \A n \in 1..last : n \in 1..Len(reads) \/ n = last
  BY <1>1 DEF Standing
<1> QED BY <1>3, <1>4, <1>5

\* After a deletion of t nothing stands of t.
LEMMA StandingEnds ==
    ASSUME CacheInv, Consume, NEW t \in Tenants, Upcoming = Deletion(t)
    PROVE  Standing(t)' = {}
<1>0. PICK last : last = Len(reads) + 1
  OBVIOUS
<1>1. Len(reads) \in Nat /\ last \in Nat /\ Len(reads') = last /\ Event(last)' = Deletion(t)
  BY <1>0, ConsumeReads
<1>2. Deletion(t) \notin Updates
  BY KindsDiffer
<1> SUFFICES ASSUME NEW n \in Standing(t)' PROVE FALSE
  OBVIOUS
<1>3. /\ n \in 1..last /\ Event(n)' \in Updates
      /\ \A m \in n + 1 .. last : Event(m)' # Deletion(t)
  BY <1>1 DEF Standing
<1>4. CASE n = last
  BY <1>1, <1>2, <1>3, <1>4
<1>5. CASE n # last
  <2>1. last \in n + 1 .. last
    BY <1>1, <1>3, <1>5
  <2> QED BY <1>1, <1>3, <2>1
<1> QED BY <1>4, <1>5

\* What is kept of a tenant stays the newest when neither it nor what stands changes.
LEMMA NewestFrame ==
    ASSUME CacheInv, NEW t \in Tenants, Newest(t),
           \A n \in 1..Len(reads) : reads'[n] = reads[n] /\ Event(n)' = Event(n),
           cache'[t] = cache[t], Standing(t)' = Standing(t)
    PROVE  Newest(t)'
<1>1. Standing(t) \subseteq 1..Len(reads)
  BY DEF Standing
<1>2. \A m, n \in Standing(t) : Preferred(m, n)' <=> Preferred(m, n)
  BY <1>1 DEF Preferred
<1> QED BY <1>1, <1>2 DEF Newest

\* ReadUpdate keeps the newer of two events, the first of two with one stamp.
LEMMA NewestAfterUpdate ==
    ASSUME CacheInv, ReadUpdate, NEW t \in Tenants, Upcoming.tenant = t, Newest(t)
    PROVE  Newest(t)'
<1>0. PICK last : last = Len(reads) + 1
  OBVIOUS
<1>1. Consume /\ Upcoming \in Updates /\ Upcoming.updatedAt \in Nat /\ Upcoming # Deletion(t)
  BY KindsDiffer, StampAssumption DEF ReadUpdate, Updates
<1>2. Standing(t)' = Standing(t) \cup {last}
  BY <1>0, <1>1, StandingBefore
<1>3. /\ Len(reads) \in Nat /\ last = Len(reads) + 1 /\ reads'[last] = position + 1 /\ Event(last)' = Upcoming
      /\ \A n \in 1..Len(reads) : reads'[n] = reads[n] /\ Event(n)' = Event(n)
  BY <1>0, <1>1, ConsumeReads
<1>4. ASSUME NEW n \in Standing(t)
      PROVE  /\ n \in 1..Len(reads) /\ n < last /\ Event(n).updatedAt \in Nat
             /\ Event(n)' = Event(n) /\ reads'[n] = reads[n] /\ reads[n] # 0
             /\ log[reads[n]] = Event(n)
  <2>1. n \in 1..Len(reads) /\ Event(n) \in Updates
    BY DEF Standing
  <2>2. Event(n).updatedAt \in Nat
    BY <2>1, StampAssumption DEF Updates
  <2>3. reads[n] \in 1..Len(log)
    BY <2>1 DEF CacheInv, TypeOK
  <2> QED BY <1>3, <2>1, <2>2, <2>3 DEF Event
<1>5. cache'[t] = IF cache[t] = 0 \/ Upcoming.updatedAt > log[cache[t]].updatedAt
                  THEN position + 1 ELSE cache[t]
  BY DEF ReadUpdate, CacheInv, TypeOK
<1>6. Preferred(last, last)'
  BY <1>1, <1>3 DEF Preferred
<1>7. CASE Standing(t) = {}
  <2>1. cache'[t] = reads'[last] /\ Standing(t)' = {last}
    BY <1>2, <1>3, <1>5, <1>7 DEF Newest
  <2> QED BY <1>6, <2>1 DEF Newest
<1>8. CASE Standing(t) # {}
  <2>1. PICK n \in Standing(t) : cache[t] = reads[n] /\ \A m \in Standing(t) : Preferred(n, m)
    BY <1>8 DEF Newest
  <2>2. cache'[t] = IF Upcoming.updatedAt > Event(n).updatedAt THEN reads'[last] ELSE reads'[n]
    BY <1>3, <1>4, <1>5, <2>1
  <2>3. CASE Upcoming.updatedAt > Event(n).updatedAt
    <3>1. \A m \in Standing(t) : Preferred(last, m)'
      BY <1>1, <1>3, <1>4, <2>1, <2>3 DEF Preferred
    <3> QED BY <1>2, <1>6, <2>2, <2>3, <3>1 DEF Newest
  <2>4. CASE ~(Upcoming.updatedAt > Event(n).updatedAt)
    <3>1. \A m \in Standing(t) : Preferred(n, m)'
      BY <1>4, <2>1 DEF Preferred
    <3>2. Preferred(n, last)'
      BY <1>1, <1>3, <1>4, <2>1, <2>4 DEF Preferred
    <3>3. n \in Standing(t)' /\ cache'[t] = reads'[n]
      BY <1>2, <2>2, <2>4
    <3> QED BY <1>2, <3>1, <3>2, <3>3 DEF Newest
  <2> QED BY <2>3, <2>4
<1> QED BY <1>7, <1>8

LEMMA NewestStep == CacheInv /\ [Next]_vars => CacheIsNewestRead'
<1> SUFFICES ASSUME CacheInv, [Next]_vars, pc' = "polling", NEW t \in Tenants PROVE Newest(t)'
  BY DEF CacheIsNewestRead, Newest
\* The events read stay what they are while the topic grows.
<1>1. ASSUME reads' = reads, cache' = cache, pc' = pc, \A i \in 1..Len(log) : log'[i] = log[i]
      PROVE  Newest(t)'
  <2>1. \A n \in 1..Len(reads) : reads[n] \in 1..Len(log) /\ Event(n)' = Event(n)
    BY <1>1 DEF CacheInv, TypeOK, Event
  <2>2. Standing(t)' = Standing(t)
    <3>1. \A n \in 1..Len(reads) : n + 1 .. Len(reads) \subseteq 1..Len(reads)
      BY DEF CacheInv, TypeOK
    <3>2. \A n \in 1..Len(reads) : n \in Standing(t)' <=> n \in Standing(t)
      BY <1>1, <2>1, <3>1 DEF Standing
    <3>3. Standing(t)' \subseteq 1..Len(reads) /\ Standing(t) \subseteq 1..Len(reads)
      BY <1>1 DEF Standing
    <3> QED BY <3>2, <3>3
  <2>3. Newest(t)
    BY <1>1, NewestInCache
  <2> QED BY <1>1, <2>1, <2>2, <2>3, NewestFrame
<1>2. ASSUME NEW r \in Records, Produce(r) PROVE Newest(t)'
  BY <1>1, <1>2 DEF Produce, CacheInv, TypeOK
<1>3. CASE Rejoin \/ AutoCommit \/ UNCHANGED vars
  BY <1>1, <1>3 DEF Rejoin, AutoCommit, vars
<1>8. CASE Start
  <2>1. Standing(t)' = {}
    BY <1>8 DEF Start, Standing
  <2>2. cache'[t] = 0
    BY <1>8 DEF Start, CacheInv, Empty
  <2> QED BY <2>1, <2>2 DEF Newest
<1>4. CASE Stop \/ Crash
  BY <1>4 DEF Stop, Crash, Leave
<1>5. CASE ReadUpdate
  <2>1. pc = "polling" /\ Consume /\ Upcoming \in Updates
    BY <1>5 DEF ReadUpdate, Consume
  <2>2. CASE Upcoming.tenant = t
    BY <1>5, <2>1, <2>2, NewestInCache, NewestAfterUpdate
  <2>3. CASE Upcoming.tenant # t
    <3>1. Upcoming # Deletion(t)
      BY <2>1, KindsDiffer
    <3>2. Standing(t)' = Standing(t)
      BY <2>1, <2>3, <3>1, StandingBefore
    <3>3. cache'[t] = cache[t]
      BY <1>5, <2>3 DEF ReadUpdate, CacheInv, TypeOK
    <3> QED BY <2>1, <3>2, <3>3, ConsumeReads, NewestInCache, NewestFrame
  <2> QED BY <2>2, <2>3
<1>6. CASE ReadDeletion
  <2>1. pc = "polling" /\ Consume /\ log' = log
    BY <1>6 DEF ReadDeletion, Consume
  <2>2. PICK u \in Tenants : Upcoming = Deletion(u) /\ cache' = [cache EXCEPT ![u] = 0]
    BY <1>6 DEF ReadDeletion
  <2>3. CASE u = t
    <3>1. Standing(t)' = {}
      BY <2>1, <2>2, <2>3, StandingEnds
    <3>2. cache'[t] = 0
      BY <2>2, <2>3 DEF CacheInv, TypeOK
    <3> QED BY <3>1, <3>2 DEF Newest
  <2>4. CASE u # t
    <3>1. Upcoming # Deletion(t) /\ Upcoming \notin Updates
      BY <2>2, <2>4, KindsDiffer
    <3>2. Standing(t)' = Standing(t)
      BY <2>1, <3>1, StandingBefore
    <3>3. cache'[t] = cache[t]
      BY <2>2, <2>4 DEF CacheInv, TypeOK
    <3> QED BY <2>1, <3>2, <3>3, ConsumeReads, NewestInCache, NewestFrame
  <2> QED BY <2>3, <2>4
<1>7. CASE ReadUnusable
  <2>1. pc = "polling" /\ Consume /\ log' = log /\ cache' = cache /\ Upcoming \in Unusable
    BY <1>7 DEF ReadUnusable, Consume
  <2>2. Upcoming \notin Updates /\ Upcoming # Deletion(t)
    BY <2>1, RecordAssumption DEF Deletions
  <2>3. Standing(t)' = Standing(t)
    BY <2>1, <2>2, StandingBefore
  <2> QED BY <2>1, <2>3, ConsumeReads, NewestInCache, NewestFrame
<1> QED BY <1>1, <1>2, <1>3, <1>4, <1>5, <1>6, <1>7, <1>8 DEF Next, Read

--------------------------------------------------------------------------------
(* Theorems *)

LEMMA Invariance == Spec => []CacheInv
<1>1. Init => CacheInv
  BY BoundAssumption DEF Init, CacheInv, TypeOK, CacheIsNewestRead, Empty
<1>2. CacheInv /\ [Next]_vars => CacheInv'
  BY TypeStep, NewestStep DEF CacheInv
<1> QED BY <1>1, <1>2, PTL DEF Spec

\* The variables keep their types and no offset passes the end of the topic.
THEOREM CacheTypeOK == Spec => []TypeOK
<1>1. CacheInv => TypeOK
  BY DEF CacheInv
<1> QED BY <1>1, Invariance, PTL

\* CacheIsNewestRead: in whatever order a life of the process reads events, it keeps of each
\* tenant the newest since its last deletion, the first of those with one UpdatedAt.
THEOREM CacheKeepsNewest == Spec => []CacheIsNewestRead
<1>1. CacheInv => CacheIsNewestRead
  BY DEF CacheInv
<1> QED BY <1>1, Invariance, PTL
================================================================================
