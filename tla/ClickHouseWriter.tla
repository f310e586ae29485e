---------------------------- MODULE ClickHouseWriter ----------------------------
(***************************************************************************)
(* ClickHouseConsumerService: the hosted service that drains the snapshot  *)
(* topics into ClickHouse.  Offsets are committed by hand, the buffer is   *)
(* kept across a failed flush, and one loop iteration is not atomic: the   *)
(* insert and the commit are two remote calls, each of which can fail or   *)
(* be cut short by the death of the process.  One partition per topic (the *)
(* broker's default), named by the topic.                                  *)
(***************************************************************************)
EXTENDS Naturals, Sequences

CONSTANTS
    Topics,       \* KafkaTopicsToListen
    Events,       \* RegionScanIntegrationEvents, one identity per scan
    JsonNull,     \* a record holding the JSON literal null
    Garbage,      \* a record JsonSerializer rejects
    Items,        \* <<StationId, FuelType>> pairs
    MissingKey,   \* an item whose StationId or FuelType is null
    Content,      \* Content[e]: the station x fuel items of event e, in order
    NoResult,     \* the null ConsumeResult
    MaxLog,       \* bound: records per topic
    MaxRestarts   \* bound: restarts and group rebalances

Messages == Events \cup {JsonNull, Garbage}

Results == [topic : Topics, offset : Nat]

ASSUME MessageAssumption ==
    /\ JsonNull \notin Events
    /\ Garbage \notin Events
    /\ JsonNull # Garbage
ASSUME ContentAssumption == Content \in [Events -> Seq(Items \cup {MissingKey})]
ASSUME ResultAssumption == NoResult \notin Results
ASSUME BoundAssumption == MaxLog \in Nat /\ MaxRestarts \in Nat

VARIABLES
    log,        \* log[t]: the records of topic t
    position,   \* position[t]: the offset Consume returns next
    committed,  \* committed[t]: the group's offset on the broker
    buffer,     \* batchBuffer: where each buffered event was read
    last,       \* the lastResult argument of the running flush
    pc,         \* "poll": in Consume; "save", "commit": inside FlushBufferAsync
    table,      \* keys of the rows of fuel_station_snapshots, read with FINAL
    restarts    \* restarts and rebalances so far

vars == <<log, position, committed, buffer, last, pc, table, restarts>>

\* The primary key Region, StationId, FuelType, Timestamp: the event stands for OccurredOn.
RowKey(t, e, item) == <<t, e, item>>

RowsOf ==
    [t \in Topics |-> [m \in Messages |->
        IF m \in Events THEN {RowKey(t, m, Content[m][j]) : j \in DOMAIN Content[m]} ELSE {}]]

RecordAt(result) == log[result.topic][result.offset + 1]

--------------------------------------------------------------------------------
(* FlushBufferAsync, up to SaveChangesAsync *)

\* rawEntities: one per buffered event, station and fuel.
RawEntities ==
    UNION {{<<i, j>> : j \in DOMAIN Content[RecordAt(buffer[i])]} : i \in DOMAIN buffer}

KeyOf(entity) ==
    LET e == RecordAt(buffer[entity[1]])
    IN  RowKey(buffer[entity[1]].topic, e, Content[e][entity[2]])

\* Mutant: no GroupBy before the insert.
MutantNoGroupBy == RawEntities

\* GroupBy(key).Select(First): one entity of every key.  Entities of a key differ
\* only in columns the model leaves out, so which of them is first does not matter.
UniqueEntities ==
    {CHOOSE entity \in RawEntities : KeyOf(entity) = key :
        key \in {KeyOf(entity) : entity \in RawEntities}}

\* AddRangeAsync throws on a null key part and on two entities with one key.
Trackable(entities) ==
    /\ \A a \in entities : KeyOf(a)[3] # MissingKey
    /\ \A a, b \in entities : KeyOf(a) = KeyOf(b) => a = b

BatchRows == {KeyOf(entity) : entity \in UniqueEntities}

--------------------------------------------------------------------------------
Init ==
    /\ log = [t \in Topics |-> <<>>]
    /\ position = [t \in Topics |-> 0]
    /\ committed = [t \in Topics |-> 0]
    /\ buffer = <<>>
    /\ last = NoResult
    /\ pc = "poll"
    /\ table = {}
    /\ restarts = 0

\* A scan is published; a producer retry may append the same event twice.
Produce(t, m) ==
    /\ Len(log[t]) < MaxLog
    /\ log' = [log EXCEPT ![t] = Append(@, m)]
    /\ UNCHANGED <<position, committed, buffer, last, pc, table, restarts>>

\* Consume(1s) returns null: whatever a failed flush left behind is flushed again.
PollNothing ==
    /\ pc = "poll"
    /\ buffer # <<>>
    /\ last' = NoResult
    /\ pc' = "save"
    /\ UNCHANGED <<log, position, committed, buffer, table, restarts>>

Consume(t) ==
    /\ pc = "poll"
    /\ position[t] < Len(log[t])
    /\ position' = [position EXCEPT ![t] = @ + 1]

\* Mutant: the buffer is overwritten instead of extended.
MutantPollOverwrites(t) ==
    LET result == [topic |-> t, offset |-> position[t]] IN
    /\ Consume(t)
    /\ RecordAt(result) \in Events
    /\ buffer' = <<result>>
    /\ last' = result
    /\ pc' = "save"
    /\ UNCHANGED <<log, committed, table, restarts>>

PollEvent(t) ==
    LET result == [topic |-> t, offset |-> position[t]] IN
    /\ Consume(t)
    /\ RecordAt(result) \in Events
    /\ buffer' = Append(buffer, result)
    /\ last' = result
    /\ pc' = "save"
    /\ UNCHANGED <<log, committed, table, restarts>>

\* Mutant: a record without an event is committed on the spot.
MutantNullCommits(t) ==
    /\ Consume(t)
    /\ RecordAt([topic |-> t, offset |-> position[t]]) = JsonNull
    /\ committed' = [committed EXCEPT ![t] = position[t] + 1]
    /\ UNCHANGED <<log, buffer, last, pc, table, restarts>>

\* null is not buffered, but a buffer left by a failed flush is flushed with its result.
PollNull(t) ==
    LET result == [topic |-> t, offset |-> position[t]] IN
    /\ Consume(t)
    /\ RecordAt(result) = JsonNull
    /\ IF buffer # <<>>
       THEN last' = result /\ pc' = "save"
       ELSE UNCHANGED <<last, pc>>
    /\ UNCHANGED <<log, committed, buffer, table, restarts>>

\* Deserialize throws: the loop logs, waits and polls on past the record.
PollGarbage(t) ==
    /\ Consume(t)
    /\ log[t][position[t] + 1] = Garbage
    /\ UNCHANGED <<log, committed, buffer, last, pc, table, restarts>>

\* SaveChangesAsync succeeds; without a last result the flush ends here.
SaveOk ==
    /\ pc = "save"
    /\ Trackable(UniqueEntities)
    /\ table' = table \cup BatchRows
    /\ IF last = NoResult
       THEN buffer' = <<>> /\ pc' = "poll"
       ELSE pc' = "commit" /\ UNCHANGED buffer
    /\ UNCHANGED <<log, position, committed, last, restarts>>

\* Mutant: buffer.Clear() in a finally block.
MutantClearsOnFailure ==
    /\ pc = "save"
    /\ buffer' = <<>>
    /\ pc' = "poll"
    /\ UNCHANGED <<log, position, committed, last, table, restarts>>

\* An untrackable batch throws before any insert; an insert can fail half way.
SaveFail ==
    /\ pc = "save"
    /\ \E rows \in SUBSET (IF Trackable(UniqueEntities) THEN BatchRows ELSE {}) :
           table' = table \cup rows
    /\ pc' = "poll"
    /\ UNCHANGED <<log, position, committed, buffer, last, restarts>>

\* Mutant: the first buffered record is committed instead of the last one read.
MutantCommitsFirst ==
    /\ pc = "commit"
    /\ committed' = [committed EXCEPT ![buffer[1].topic] = buffer[1].offset + 1]
    /\ buffer' = <<>>
    /\ pc' = "poll"
    /\ UNCHANGED <<log, position, last, table, restarts>>

\* Mutant: the offset before the record is committed.
MutantCommitsBefore ==
    /\ pc = "commit"
    /\ committed' = [committed EXCEPT ![last.topic] = last.offset - 1]
    /\ buffer' = <<>>
    /\ pc' = "poll"
    /\ UNCHANGED <<log, position, last, table, restarts>>

\* consumer.Commit(lastResult) commits the offset after it, in its partition only.
CommitOk ==
    /\ pc = "commit"
    /\ committed' = [committed EXCEPT ![last.topic] = last.offset + 1]
    /\ buffer' = <<>>
    /\ pc' = "poll"
    /\ UNCHANGED <<log, position, last, table, restarts>>

\* Commit throws, whether or not the broker has taken the offset.
CommitFail ==
    /\ pc = "commit"
    /\ \/ committed' = [committed EXCEPT ![last.topic] = last.offset + 1]
       \/ UNCHANGED committed
    /\ pc' = "poll"
    /\ UNCHANGED <<log, position, buffer, last, table, restarts>>

\* The process dies anywhere and starts again from the committed offsets (Earliest).
Restart ==
    /\ restarts < MaxRestarts
    /\ restarts' = restarts + 1
    /\ position' = committed
    /\ buffer' = <<>>
    /\ last' = NoResult
    /\ pc' = "poll"
    /\ UNCHANGED <<log, committed, table>>

\* Inside Consume the group gives the partitions out again: the positions go back
\* to the committed offsets, the buffer is kept.
Rebalance ==
    /\ pc = "poll"
    /\ restarts < MaxRestarts
    /\ restarts' = restarts + 1
    /\ position' = committed
    /\ UNCHANGED <<log, committed, buffer, last, pc, table>>

Poll(t) == PollEvent(t) \/ PollNull(t) \/ PollGarbage(t)

Next ==
    \/ \E t \in Topics, m \in Messages : Produce(t, m)
    \/ PollNothing
    \/ \E t \in Topics : PollEvent(t)
    \/ \E t \in Topics : PollNull(t)
    \/ \E t \in Topics : PollGarbage(t)
    \/ SaveOk
    \/ SaveFail
    \/ CommitOk
    \/ CommitFail
    \/ Restart
    \/ Rebalance

Spec == Init /\ [][Next]_vars

\* The loop is a running thread (WF).  Kafka hands over every partition's next record
\* and ClickHouse accepts an insert if asked often enough (SF).
Fairness ==
    /\ \A t \in Topics : SF_vars(Poll(t))
    /\ WF_vars(PollNothing)
    /\ WF_vars(SaveOk \/ SaveFail)
    /\ SF_vars(SaveOk)
    /\ WF_vars(CommitOk \/ CommitFail)

FairSpec == Spec /\ Fairness

--------------------------------------------------------------------------------
(* Properties *)

\* Every variable stays in its type.
TypeOK ==
    /\ log \in [Topics -> Seq(Messages)]
    /\ position \in [Topics -> Nat]
    /\ committed \in [Topics -> Nat]
    /\ buffer \in Seq(Results)
    /\ last \in Results \cup {NoResult}
    /\ pc \in {"poll", "save", "commit"}
    /\ table \subseteq Topics \X Events \X (Items \cup {MissingKey})
    /\ restarts \in Nat

\* A committed offset never passes a row that is not in ClickHouse: FlushBufferAsync
\* commits only what every earlier flush of the partition, failed ones included, stored.
CommittedIsStored ==
    \A t \in Topics : \A i \in 1..committed[t] : RowsOf[t][log[t][i]] \subseteq table

\* No read record is forgotten while the process lives: its rows are stored or the
\* buffer still holds it, through failed saves, failed commits and rebalances.
ReadIsStoredOrBuffered ==
    \A t \in Topics : \A i \in 1..position[t] :
        \/ RowsOf[t][log[t][i]] \subseteq table
        \/ \E k \in DOMAIN buffer : buffer[k] = [topic |-> t, offset |-> i - 1]

\* The committed offset of a partition never moves back, although positions do and the
\* buffer may hold records of several partitions read before a rebalance.
CommitNeverRewinds ==
    [][\A t \in Topics : committed[t] <= committed'[t]]_vars

\* With well-formed events every published event reaches ClickHouse, whatever fails on
\* the way, because failed batches are retried and restarts read from the commit.
EveryEventStored ==
    \A t \in Topics : \A i \in 1..MaxLog :
        (i <= Len(log[t])) ~> (i <= Len(log[t]) /\ RowsOf[t][log[t][i]] \subseteq table)

\* The worker implements the archive's promise.
Archive == INSTANCE SnapshotArchive WITH acked <- committed, archived <- table
ArchiveSpec == Archive!Spec

\* README: the worker reads the stream to accumulate its history.  An event whose keys
\* are all there is stored, whatever else was published.
WellFormed(m) == m \in Events /\ \A j \in DOMAIN Content[m] : Content[m][j] # MissingKey
WellFormedEventStored ==
    \A t \in Topics : \A i \in 1..MaxLog :
        (i <= Len(log[t]) /\ WellFormed(log[t][i]))
            ~> (i <= Len(log[t]) /\ RowsOf[t][log[t][i]] \subseteq table)
================================================================================
