------------------------------ MODULE TenantCache ------------------------------
(***************************************************************************)
(* TenantConfigurationConsumer and InMemoryTenantCache: a consumer group   *)
(* of its own reads the tenants' events and keeps, per tenant, the one     *)
(* with the greatest UpdatedAt.  The cache lives in memory, the group's    *)
(* offset on the broker, where Kafka's client commits by itself what       *)
(* Consume handed out.  One partition; offsets count from 1.               *)
(***************************************************************************)
EXTENDS Naturals, Sequences

CONSTANTS
    Tenants,    \* TenantId of an event
    Stamps,     \* UpdatedAt of an event
    Unusable,   \* null, no JSON, or an event without the id or the name it needs
    MaxLog,     \* bound: events
    MaxJoins    \* bound: times the process joins its group, at a start or again

Deletion(t) == [deleted |-> t]

\* Of an event that deletes, the use case looks at the tenant alone.
Deletions == {Deletion(t) : t \in Tenants}
Updates == [tenant : Tenants, updatedAt : Stamps]
Records == Updates \cup Deletions \cup Unusable

ASSUME StampAssumption == Stamps \subseteq Nat
ASSUME RecordAssumption == Unusable \cap (Updates \cup Deletions) = {}
ASSUME BoundAssumption == MaxLog \in Nat /\ MaxJoins \in Nat

VARIABLES
    log,        \* tenant-configuration-events
    committed,  \* the group's offset on the broker
    pc,         \* "down", "polling"
    position,   \* the last offset Consume handed out
    reads,      \* history: the offsets this life of the process was handed, in order
    cache,      \* _tenants: the offset of the event kept of a tenant, 0 if none
    joins       \* times the process joined its group

vars == <<log, committed, pc, position, reads, cache, joins>>

Empty == [t \in Tenants |-> 0]

Init ==
    /\ log = <<>>
    /\ committed = 0
    /\ pc = "down"
    /\ position = 0
    /\ reads = <<>>
    /\ cache = Empty
    /\ joins = 0

\* The Dashboard API publishes.
Produce(r) ==
    /\ Len(log) < MaxLog
    /\ log' = Append(log, r)
    /\ UNCHANGED <<committed, pc, position, reads, cache, joins>>

--------------------------------------------------------------------------------
(* The process and its Kafka client *)

\* The group resumes at its offset; with none it reads from the first event (Earliest).
Start ==
    /\ pc = "down"
    /\ joins < MaxJoins
    /\ pc' = "polling"
    /\ position' = committed
    /\ reads' = <<>>
    /\ joins' = joins + 1
    /\ UNCHANGED <<log, committed, cache>>

\* The session is lost or the group rebalances: the client joins again and resumes where the
\* group committed, while the process keeps what it has cached.
Rejoin ==
    /\ pc = "polling"
    /\ joins < MaxJoins
    /\ position' = committed
    /\ joins' = joins + 1
    /\ UNCHANGED <<log, committed, pc, reads, cache>>

AutoCommit ==
    /\ pc = "polling"
    /\ committed' = position
    /\ UNCHANGED <<log, pc, position, reads, cache, joins>>

\* The process is gone with its memory; after the last of its joins it stays.
Leave ==
    /\ pc = "polling"
    /\ joins < MaxJoins
    /\ pc' = "down"
    /\ cache' = Empty
    /\ UNCHANGED <<log, position, reads, joins>>

\* Mutant: the offset committed is one too far.
MutantStopCommitsNext == Leave /\ committed' = position + 1

\* stoppingToken is cancelled: the loop ends and Close commits.
Stop == Leave /\ committed' = position

Crash == Leave /\ UNCHANGED committed

--------------------------------------------------------------------------------
(* The loop *)

Consume ==
    /\ pc = "polling"
    /\ position < Len(log)
    /\ position' = position + 1
    /\ reads' = Append(reads, position + 1)
    /\ UNCHANGED <<log, committed, joins>>

Upcoming == log[position + 1]

\* Mutant: an event with the same UpdatedAt counts as newer.
MutantReadUpdateNotOlder ==
    LET t == Upcoming.tenant IN
    /\ Consume
    /\ Upcoming \in Updates
    /\ IF cache[t] = 0 \/ Upcoming.updatedAt >= log[cache[t]].updatedAt
       THEN cache' = [cache EXCEPT ![t] = position + 1]
       ELSE cache' = cache
    /\ UNCHANGED pc

\* UpdateOrAdd: a tenant that is not there is added, one that is there is replaced only by
\* a greater UpdatedAt.
ReadUpdate ==
    LET t == Upcoming.tenant IN
    /\ Consume
    /\ Upcoming \in Updates
    /\ IF cache[t] = 0 \/ Upcoming.updatedAt > log[cache[t]].updatedAt
       THEN cache' = [cache EXCEPT ![t] = position + 1]
       ELSE cache' = cache
    /\ UNCHANGED pc

\* Remove: whatever is kept of the tenant goes, without a trace.
ReadDeletion ==
    /\ Consume
    /\ \E t \in Tenants :
           Upcoming = Deletion(t) /\ cache' = [cache EXCEPT ![t] = 0]
    /\ UNCHANGED pc

\* Mutant: the exception leaves the loop.
MutantUnusableEndsLoop ==
    /\ Consume
    /\ Upcoming \in Unusable
    /\ pc' = "ended"
    /\ UNCHANGED cache

\* continue, Remove's early return, or catch (Exception): the event is passed over.
ReadUnusable ==
    /\ Consume
    /\ Upcoming \in Unusable
    /\ UNCHANGED <<pc, cache>>

Read == ReadUpdate \/ ReadDeletion \/ ReadUnusable

Next ==
    \/ \E r \in Records : Produce(r)
    \/ Start
    \/ Rejoin
    \/ AutoCommit
    \/ Stop
    \/ Crash
    \/ Read

Spec == Init /\ [][Next]_vars

\* The process is started again, and its loop is handed what waits.
Fairness == WF_vars(Start) /\ WF_vars(Read)

FairSpec == Spec /\ Fairness

--------------------------------------------------------------------------------
(* Properties *)

\* Every variable stays in its type, and no offset passes the end of the topic.
TypeOK ==
    /\ log \in Seq(Records)
    /\ Len(log) <= MaxLog
    /\ committed \in 0..Len(log)
    /\ pc \in {"down", "polling"}
    /\ position \in 0..Len(log)
    /\ reads \in Seq(1..Len(log))
    /\ cache \in [Tenants -> 0..Len(log)]
    /\ joins \in 0..MaxJoins

\* The n-th event this life has read.
Event(n) == log[reads[n]]

\* The reads of updates of t in this life, after the last of its deletions it read.
Standing(t) ==
    {n \in 1..Len(reads) :
        /\ Event(n) \in Updates /\ Event(n).tenant = t
        /\ \A m \in n + 1 .. Len(reads) : Event(m) # Deletion(t)}

\* Read m is kept rather than n: its UpdatedAt is greater, or the same and it came first.
Preferred(m, n) ==
    \/ Event(n).updatedAt < Event(m).updatedAt
    \/ Event(n).updatedAt = Event(m).updatedAt /\ m <= n

\* In whatever order events arrive, and however often rejoins repeat them, the cache keeps of
\* each tenant the newest this life has read since it last read the tenant's deletion.  So an
\* older event read after a deletion brings the tenant back, one whose UpdatedAt did not
\* grow is ignored, and what an earlier life read is unknown.
CacheIsNewestRead ==
    pc = "polling" => \A t \in Tenants :
        IF Standing(t) = {}
        THEN cache[t] = 0
        ELSE \E n \in Standing(t) :
                 cache[t] = reads[n] /\ \A m \in Standing(t) : Preferred(n, m)

Removed(t) ==
    \E n \in 1..Len(log) :
        /\ log[n] = Deletion(t)
        /\ \A m \in n + 1 .. Len(log) : ~(log[m] \in Updates /\ log[m].tenant = t)

\* A tenant that was deleted for good leaves the cache for good, although restarts and
\* rejoins replay events and events the loop cannot use lie in between.
RemovalReachesCache == <>[](\A t \in Tenants : Removed(t) => cache[t] = 0)
================================================================================
