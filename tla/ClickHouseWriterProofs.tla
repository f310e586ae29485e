------------------------- MODULE ClickHouseWriterProofs -------------------------
(***************************************************************************)
(* Proofs about ClickHouseWriter for every set of topics, events and items *)
(* and every bound.  The inductive invariant is WriterInv: what TLC checks *)
(* (TypeOK, CommittedIsStored, ReadIsStoredOrBuffered) is not inductive by *)
(* itself, because a commit moves the offset past records the model must   *)
(* know to be in the buffer, and the buffer's rows to be in the table.     *)
(***************************************************************************)
EXTENDS ClickHouseWriter, TLAPS

OffsetsInRange ==
    \A t \in Topics : committed[t] <= position[t] /\ position[t] <= Len(log[t])

BufferInLog ==
    \A k \in DOMAIN buffer :
        buffer[k].offset < Len(log[buffer[k].topic]) /\ RecordAt(buffer[k]) \in Events

\* The record whose offset a running flush will commit was read and is uncommitted.
LastInFlight ==
    (pc # "poll" /\ last # NoResult) =>
        committed[last.topic] <= last.offset /\ last.offset < position[last.topic]

\* Between the insert and the commit the whole buffer is in the table.
CommitAfterSave ==
    pc = "commit" =>
        /\ last # NoResult
        /\ \A k \in DOMAIN buffer :
               RowsOf[buffer[k].topic][RecordAt(buffer[k])] \subseteq table

WriterInv ==
    /\ TypeOK
    /\ OffsetsInRange
    /\ BufferInLog
    /\ LastInFlight
    /\ CommitAfterSave
    /\ CommittedIsStored
    /\ ReadIsStoredOrBuffered

--------------------------------------------------------------------------------
(* Lemmas about the operators of the flush *)

LEMMA RowsOfValue ==
    ASSUME NEW t \in Topics, NEW m \in Messages
    PROVE  /\ m \in Events =>
                 RowsOf[t][m] = {RowKey(t, m, Content[m][j]) : j \in DOMAIN Content[m]}
           /\ m \notin Events => RowsOf[t][m] = {}
  BY DEF RowsOf

\* What is inserted is what the buffered events carry: GroupBy loses no key.
LEMMA BatchIsBuffered ==
    ASSUME TypeOK, BufferInLog
    PROVE  BatchRows = UNION {RowsOf[buffer[k].topic][RecordAt(buffer[k])] : k \in DOMAIN buffer}
<1>. DEFINE Keys == {KeyOf(entity) : entity \in RawEntities}
<1>1. BatchRows = Keys
  <2>1. \A key \in Keys : KeyOf(CHOOSE entity \in RawEntities : KeyOf(entity) = key) = key
    OBVIOUS
  <2>. QED
    BY <2>1 DEF BatchRows, UniqueEntities
<1>2. ASSUME NEW k \in DOMAIN buffer
      PROVE  RowsOf[buffer[k].topic][RecordAt(buffer[k])]
               = {KeyOf(<<k, j>>) : j \in DOMAIN Content[RecordAt(buffer[k])]}
  <2>1. buffer[k].topic \in Topics /\ RecordAt(buffer[k]) \in Events
    <3>1. buffer[k] \in Results
      BY DEF TypeOK
    <3>. QED
      BY <3>1 DEF BufferInLog, Results
  <2>2. \A j : KeyOf(<<k, j>>) = RowKey(buffer[k].topic, RecordAt(buffer[k]),
                                        Content[RecordAt(buffer[k])][j])
    BY DEF KeyOf
  <2>3. RowsOf[buffer[k].topic][RecordAt(buffer[k])]
          = {RowKey(buffer[k].topic, RecordAt(buffer[k]), Content[RecordAt(buffer[k])][j]) :
               j \in DOMAIN Content[RecordAt(buffer[k])]}
    BY <2>1, RowsOfValue DEF Messages
  <2>. QED
    BY <2>2, <2>3, Zenon
<1>3. ASSUME NEW row
      PROVE  row \in Keys <=>
               \E k \in DOMAIN buffer :
                   row \in {KeyOf(<<k, j>>) : j \in DOMAIN Content[RecordAt(buffer[k])]}
  <2>1. RawEntities = UNION {{<<k, j>> : j \in DOMAIN Content[RecordAt(buffer[k])]} :
                               k \in DOMAIN buffer}
    BY DEF RawEntities
  <2>2. ASSUME NEW k \in DOMAIN buffer, NEW j \in DOMAIN Content[RecordAt(buffer[k])]
        PROVE  KeyOf(<<k, j>>) \in Keys
    <3>1. <<k, j>> \in RawEntities
      BY <2>1
    <3>. QED
      BY <3>1
  <2>3. ASSUME row \in Keys
        PROVE  \E k \in DOMAIN buffer :
                   \E j \in DOMAIN Content[RecordAt(buffer[k])] : row = KeyOf(<<k, j>>)
    <3>1. PICK entity \in RawEntities : row = KeyOf(entity)
      BY <2>3
    <3>2. PICK k \in DOMAIN buffer :
            \E j \in DOMAIN Content[RecordAt(buffer[k])] : entity = <<k, j>>
      BY <2>1
    <3>. QED
      BY <3>1, <3>2
  <2>4. row \in Keys <=> \E k \in DOMAIN buffer :
                            \E j \in DOMAIN Content[RecordAt(buffer[k])] : row = KeyOf(<<k, j>>)
    <3>. HIDE DEF Keys
    <3>. QED
      BY <2>2, <2>3, Zenon
  <2>5. ASSUME NEW k
        PROVE  row \in {KeyOf(<<k, j>>) : j \in DOMAIN Content[RecordAt(buffer[k])]} <=>
                 \E j \in DOMAIN Content[RecordAt(buffer[k])] : row = KeyOf(<<k, j>>)
    OBVIOUS
  <2>. HIDE DEF Keys
  <2>. QED
    BY <2>4, <2>5, Zenon
<1>4. ASSUME NEW row
      PROVE  row \in Keys <=>
                \E k \in DOMAIN buffer : row \in RowsOf[buffer[k].topic][RecordAt(buffer[k])]
  BY <1>2, <1>3, Zenon
<1>. DEFINE Rows == UNION {RowsOf[buffer[k].topic][RecordAt(buffer[k])] : k \in DOMAIN buffer}
<1>5. ASSUME NEW row
      PROVE  row \in Rows <=>
                \E k \in DOMAIN buffer : row \in RowsOf[buffer[k].topic][RecordAt(buffer[k])]
  OBVIOUS
<1>. HIDE DEF Keys, Rows
<1>6. \A row : row \in Keys <=> row \in Rows
  BY <1>4, <1>5, Zenon
<1>7. Keys = Rows
  BY <1>6
<1>. QED
  BY <1>1, <1>7 DEF Rows

\* Rows of any message are keys of the table.
LEMMA RowsAreKeys ==
    ASSUME NEW t \in Topics, NEW m \in Messages
    PROVE  RowsOf[t][m] \subseteq Topics \X Events \X (Items \cup {MissingKey})
<1>1. CASE m \in Events
  <2>1. ASSUME NEW j \in DOMAIN Content[m]
        PROVE  RowKey(t, m, Content[m][j]) \in Topics \X Events \X (Items \cup {MissingKey})
    <3>1. Content[m] \in Seq(Items \cup {MissingKey})
      BY <1>1, ContentAssumption
    <3>2. Content[m][j] \in Items \cup {MissingKey}
      BY <3>1
    <3>. QED
      BY <1>1, <3>2 DEF RowKey
  <2>. QED
    BY <1>1, <2>1, RowsOfValue
<1>2. CASE m \notin Events
  BY <1>2, RowsOfValue
<1>. QED
  BY <1>1, <1>2

\* A batch is a set of keys too.
LEMMA BatchIsKeys ==
    ASSUME TypeOK, BufferInLog
    PROVE  BatchRows \subseteq Topics \X Events \X (Items \cup {MissingKey})
<1>1. ASSUME NEW k \in DOMAIN buffer
      PROVE  RowsOf[buffer[k].topic][RecordAt(buffer[k])]
               \subseteq Topics \X Events \X (Items \cup {MissingKey})
  <2>1. buffer[k] \in Results
    BY DEF TypeOK
  <2>2. buffer[k].topic \in Topics /\ RecordAt(buffer[k]) \in Messages
    BY <2>1 DEF BufferInLog, Results, Messages
  <2>. QED
    BY <2>2, RowsAreKeys
<1>. QED
  BY <1>1, BatchIsBuffered

--------------------------------------------------------------------------------
(* The steps *)

LEMMA InitEstablishesInv == Init => WriterInv
  BY DEF Init, WriterInv, TypeOK, OffsetsInRange, BufferInLog, LastInFlight,
         CommitAfterSave, CommittedIsStored, ReadIsStoredOrBuffered

LEMMA ProduceKeepsInv ==
    ASSUME WriterInv, NEW t \in Topics, NEW m \in Messages, Produce(t, m)
    PROVE  WriterInv'
<1>. USE DEF WriterInv, Produce
<1>1. TypeOK'
  BY DEF TypeOK
<1>2. \A u \in Topics : /\ Len(log'[u]) >= Len(log[u])
                        /\ \A i \in 1..Len(log[u]) : log'[u][i] = log[u][i]
  BY DEF TypeOK
<1>3. OffsetsInRange'
  BY <1>1, <1>2 DEF TypeOK, OffsetsInRange
<1>4. \A k \in DOMAIN buffer : RecordAt(buffer[k])' = RecordAt(buffer[k])
  <2>. SUFFICES ASSUME NEW k \in DOMAIN buffer
                PROVE  RecordAt(buffer[k])' = RecordAt(buffer[k])
    OBVIOUS
  <2>1. buffer[k] \in Results
    BY DEF TypeOK
  <2>2. buffer[k].offset + 1 \in 1..Len(log[buffer[k].topic])
    BY <2>1 DEF BufferInLog, Results, TypeOK
  <2>. QED
    BY <1>2, <2>1, <2>2 DEF RecordAt, Results
<1>5. BufferInLog'
  <2>. SUFFICES ASSUME NEW k \in DOMAIN buffer
                PROVE  (buffer[k].offset < Len(log[buffer[k].topic])
                          /\ RecordAt(buffer[k]) \in Events)'
    BY DEF BufferInLog
  <2>1. buffer[k] \in Results
    BY DEF TypeOK
  <2>. QED
    BY <1>1, <1>2, <1>4, <2>1 DEF BufferInLog, Results, TypeOK
<1>6. LastInFlight'
  BY DEF LastInFlight
<1>7. CommitAfterSave'
  BY <1>4 DEF CommitAfterSave
<1>8. ASSUME NEW u \in Topics, NEW i \in 1..position[u]
      PROVE  log'[u][i] = log[u][i]
  <2>1. position[u] \in Nat /\ Len(log[u]) \in Nat /\ position[u] <= Len(log[u])
    BY DEF TypeOK, OffsetsInRange
  <2>2. i \in 1..Len(log[u])
    BY <2>1
  <2>. QED
    BY <1>2, <2>2
<1>9. ASSUME NEW u \in Topics, NEW i \in 1..committed[u]
      PROVE  i \in 1..position[u]
  <2>1. position[u] \in Nat /\ committed[u] \in Nat /\ committed[u] <= position[u]
    BY DEF TypeOK, OffsetsInRange
  <2>. QED
    BY <2>1
<1>. HIDE DEF Produce
<1>10. UNCHANGED <<position, committed, buffer, table>>
  BY DEF Produce
<1>11. CommittedIsStored'
  BY <1>8, <1>9, <1>10 DEF CommittedIsStored
<1>12. ReadIsStoredOrBuffered'
  BY <1>8, <1>10 DEF ReadIsStoredOrBuffered
<1>. QED
  BY <1>1, <1>3, <1>5, <1>6, <1>7, <1>11, <1>12

LEMMA PollNothingKeepsInv ==
    ASSUME WriterInv, PollNothing
    PROVE  WriterInv'
<1>. USE DEF WriterInv, PollNothing
<1>1. TypeOK'
  BY DEF TypeOK
<1>2. OffsetsInRange' /\ BufferInLog'
  BY DEF OffsetsInRange, BufferInLog, RecordAt
<1>3. LastInFlight' /\ CommitAfterSave'
  BY DEF LastInFlight, CommitAfterSave
<1>4. CommittedIsStored' /\ ReadIsStoredOrBuffered'
  BY DEF CommittedIsStored, ReadIsStoredOrBuffered
<1>. QED
  BY <1>1, <1>2, <1>3, <1>4

LEMMA PollEventKeepsInv ==
    ASSUME WriterInv, NEW t \in Topics, PollEvent(t)
    PROVE  WriterInv'
<1>. DEFINE result == [topic |-> t, offset |-> position[t]]
<1>. USE DEF WriterInv, PollEvent, Consume
<1>1. result \in Results
  BY DEF TypeOK, Results
<1>2. TypeOK'
  BY <1>1 DEF TypeOK
<1>3. OffsetsInRange'
  BY DEF TypeOK, OffsetsInRange
<1>4. /\ DOMAIN buffer' = DOMAIN buffer \cup {Len(buffer) + 1}
      /\ \A k \in DOMAIN buffer : buffer'[k] = buffer[k]
      /\ buffer'[Len(buffer) + 1] = result
  BY <1>1 DEF TypeOK
<1>5. BufferInLog'
  <2>. SUFFICES ASSUME NEW k \in DOMAIN buffer'
                PROVE  (buffer[k].offset < Len(log[buffer[k].topic])
                          /\ RecordAt(buffer[k]) \in Events)'
    BY DEF BufferInLog
  <2>1. CASE k \in DOMAIN buffer
    BY <1>4, <2>1 DEF BufferInLog, RecordAt
  <2>2. CASE k = Len(buffer) + 1
    BY <1>4, <2>2 DEF RecordAt
  <2>. QED
    BY <1>4, <2>1, <2>2
<1>6. LastInFlight'
  BY DEF LastInFlight, OffsetsInRange, TypeOK
<1>7. CommitAfterSave'
  BY DEF CommitAfterSave
<1>8. CommittedIsStored'
  BY DEF CommittedIsStored
<1>9. ReadIsStoredOrBuffered'
  <2>. SUFFICES ASSUME NEW u \in Topics, NEW i \in 1..position'[u]
                PROVE  \/ RowsOf[u][log[u][i]] \subseteq table
                       \/ \E k \in DOMAIN buffer' : buffer'[k] = [topic |-> u, offset |-> i - 1]
    BY DEF ReadIsStoredOrBuffered
  <2>1. CASE i \in 1..position[u]
    BY <1>4, <2>1 DEF ReadIsStoredOrBuffered
  <2>2. CASE i \notin 1..position[u]
    <3>1. u = t /\ i = position[t] + 1
      BY <2>2 DEF TypeOK
    <3>. QED
      BY <1>4, <3>1 DEF TypeOK
  <2>. QED
    BY <2>1, <2>2
<1>. QED
  BY <1>2, <1>3, <1>5, <1>6, <1>7, <1>8, <1>9

\* A record that is no event carries no row: reading past it forgets nothing.
LEMMA SkipKeepsReadInv ==
    ASSUME WriterInv, NEW t \in Topics, Consume(t),
           log[t][position[t] + 1] \in Messages \ Events,
           UNCHANGED <<log, committed, buffer, table, restarts>>
    PROVE  OffsetsInRange' /\ ReadIsStoredOrBuffered' /\ position' \in [Topics -> Nat]
<1>. USE DEF WriterInv, Consume
<1>1. OffsetsInRange' /\ position' \in [Topics -> Nat]
  BY DEF TypeOK, OffsetsInRange
<1>2. ReadIsStoredOrBuffered'
  <2>. SUFFICES ASSUME NEW u \in Topics, NEW i \in 1..position'[u]
                PROVE  \/ RowsOf[u][log[u][i]] \subseteq table
                       \/ \E k \in DOMAIN buffer : buffer[k] = [topic |-> u, offset |-> i - 1]
    BY DEF ReadIsStoredOrBuffered
  <2>1. CASE i \in 1..position[u]
    BY <2>1 DEF ReadIsStoredOrBuffered
  <2>2. CASE i \notin 1..position[u]
    <3>1. u = t /\ i = position[t] + 1
      BY <2>2 DEF TypeOK
    <3>. QED
      BY <3>1, RowsOfValue
  <2>. QED
    BY <2>1, <2>2
<1>. QED
  BY <1>1, <1>2

LEMMA PollNullKeepsInv ==
    ASSUME WriterInv, NEW t \in Topics, PollNull(t)
    PROVE  WriterInv'
<1>. DEFINE result == [topic |-> t, offset |-> position[t]]
<1>. USE DEF WriterInv, PollNull
<1>1. result \in Results /\ log[t][position[t] + 1] \in Messages \ Events
  BY MessageAssumption DEF TypeOK, Results, RecordAt, Messages
<1>2. OffsetsInRange' /\ ReadIsStoredOrBuffered' /\ position' \in [Topics -> Nat]
  BY <1>1, SkipKeepsReadInv
<1>3. TypeOK'
  BY <1>1, <1>2 DEF TypeOK, Consume
<1>4. BufferInLog' /\ CommittedIsStored'
  BY DEF BufferInLog, RecordAt, CommittedIsStored
<1>5. LastInFlight'
  BY DEF LastInFlight, OffsetsInRange, TypeOK, Consume
<1>6. CommitAfterSave'
  BY DEF CommitAfterSave, Consume
<1>. QED
  BY <1>2, <1>3, <1>4, <1>5, <1>6

LEMMA PollGarbageKeepsInv ==
    ASSUME WriterInv, NEW t \in Topics, PollGarbage(t)
    PROVE  WriterInv'
<1>. USE DEF WriterInv, PollGarbage
<1>1. log[t][position[t] + 1] \in Messages \ Events
  BY MessageAssumption DEF Messages
<1>2. OffsetsInRange' /\ ReadIsStoredOrBuffered' /\ position' \in [Topics -> Nat]
  BY <1>1, SkipKeepsReadInv
<1>3. TypeOK' /\ LastInFlight'
  BY <1>2 DEF TypeOK, LastInFlight, Consume
<1>4. BufferInLog' /\ CommittedIsStored' /\ CommitAfterSave'
  BY DEF BufferInLog, RecordAt, CommittedIsStored, CommitAfterSave
<1>. QED
  BY <1>2, <1>3, <1>4

\* More rows in the table and the same offsets and buffer break nothing.
LEMMA GrowingTableKeepsStored ==
    ASSUME WriterInv, table \subseteq table', UNCHANGED <<log, position, committed>>
    PROVE  /\ OffsetsInRange'
           /\ CommittedIsStored'
           /\ buffer' = buffer => BufferInLog' /\ ReadIsStoredOrBuffered'
  BY DEF WriterInv, OffsetsInRange, CommittedIsStored, BufferInLog, RecordAt,
         ReadIsStoredOrBuffered

\* When the rows of the whole buffer are in the table, nothing depends on the buffer.
LEMMA StoredBufferIsDispensable ==
    ASSUME WriterInv,
           \A k \in DOMAIN buffer : RowsOf[buffer[k].topic][RecordAt(buffer[k])] \subseteq table'
    PROVE  \A t \in Topics : \A i \in 1..position[t] :
               RowsOf[t][log[t][i]] \subseteq table \cup table'
<1>. SUFFICES ASSUME NEW t \in Topics, NEW i \in 1..position[t],
                     NEW k \in DOMAIN buffer, buffer[k] = [topic |-> t, offset |-> i - 1]
              PROVE  RowsOf[t][log[t][i]] \subseteq table'
  BY DEF WriterInv, ReadIsStoredOrBuffered
<1>1. i \in Nat
  BY DEF WriterInv, TypeOK
<1>. QED
  BY <1>1 DEF RecordAt

LEMMA SaveOkKeepsInv ==
    ASSUME WriterInv, SaveOk
    PROVE  WriterInv'
<1>. USE DEF SaveOk
<1>1. BatchRows \subseteq Topics \X Events \X (Items \cup {MissingKey})
  BY BatchIsKeys DEF WriterInv
<1>2. table \subseteq table'
  OBVIOUS
<1>3. \A k \in DOMAIN buffer : RowsOf[buffer[k].topic][RecordAt(buffer[k])] \subseteq table'
  BY BatchIsBuffered DEF WriterInv
<1>4. TypeOK'
  <2>1. buffer' \in Seq(Results) /\ pc' \in {"poll", "save", "commit"}
    <3>1. /\ buffer' = <<>> \/ buffer' = buffer
          /\ pc' = "poll" \/ pc' = "commit"
      OBVIOUS
    <3>2. buffer \in Seq(Results) /\ <<>> \in Seq(Results)
      BY DEF WriterInv, TypeOK
    <3>. QED
      BY <3>1, <3>2, Zenon
  <2>2. table' \subseteq Topics \X Events \X (Items \cup {MissingKey})
    BY <1>1 DEF WriterInv, TypeOK
  <2>. QED
    BY <2>1, <2>2 DEF WriterInv, TypeOK
<1>5. OffsetsInRange' /\ CommittedIsStored'
  BY <1>2, GrowingTableKeepsStored
<1>6. CASE last = NoResult
  <2>1. buffer' = <<>> /\ pc' = "poll"
    BY <1>6
  <2>2. BufferInLog' /\ LastInFlight' /\ CommitAfterSave'
    BY <2>1 DEF BufferInLog, LastInFlight, CommitAfterSave
  <2>3. \A t \in Topics : \A i \in 1..position[t] : RowsOf[t][log[t][i]] \subseteq table'
    BY <1>2, <1>3, StoredBufferIsDispensable
  <2>4. ReadIsStoredOrBuffered'
    BY <2>3 DEF ReadIsStoredOrBuffered
  <2>. QED
    BY <1>4, <1>5, <2>2, <2>4 DEF WriterInv
<1>7. CASE last # NoResult
  <2>1. buffer' = buffer /\ pc' = "commit"
    BY <1>7
  <2>2. BufferInLog' /\ ReadIsStoredOrBuffered'
    BY <1>2, <2>1, GrowingTableKeepsStored
  <2>3. LastInFlight'
    BY <1>7, <2>1 DEF WriterInv, LastInFlight
  <2>4. CommitAfterSave'
    BY <1>3, <1>7, <2>1 DEF CommitAfterSave, RecordAt
  <2>. QED
    BY <1>4, <1>5, <2>2, <2>3, <2>4 DEF WriterInv
<1>. QED
  BY <1>6, <1>7

LEMMA SaveFailKeepsInv ==
    ASSUME WriterInv, SaveFail
    PROVE  WriterInv'
<1>. USE DEF SaveFail
<1>1. table \subseteq table' /\ table' \subseteq table \cup BatchRows
  OBVIOUS
<1>2. TypeOK'
  BY <1>1, BatchIsKeys DEF WriterInv, TypeOK
<1>3. OffsetsInRange' /\ CommittedIsStored' /\ BufferInLog' /\ ReadIsStoredOrBuffered'
  BY <1>1, GrowingTableKeepsStored
<1>4. LastInFlight' /\ CommitAfterSave'
  BY DEF LastInFlight, CommitAfterSave
<1>. QED
  BY <1>2, <1>3, <1>4 DEF WriterInv

\* The broker takes the offset only of a record that was read, and by then every
\* record read is stored.
LEMMA CommitTakesStored ==
    ASSUME WriterInv, pc = "commit",
           committed' = [committed EXCEPT ![last.topic] = last.offset + 1],
           UNCHANGED <<log, position, table>>
    PROVE  /\ committed' \in [Topics -> Nat]
           /\ OffsetsInRange'
           /\ CommittedIsStored'
           /\ \A t \in Topics : committed[t] <= committed'[t]
<1>1. last \in Results
  BY DEF WriterInv, TypeOK, CommitAfterSave
<1>2. last.topic \in Topics /\ last.offset \in Nat
  BY <1>1 DEF Results
<1>3. last.offset < position[last.topic] /\ committed[last.topic] <= last.offset
  BY DEF WriterInv, LastInFlight, CommitAfterSave
<1>4. committed' \in [Topics -> Nat]
  BY <1>2 DEF WriterInv, TypeOK
<1>5. \A t \in Topics : committed[t] <= committed'[t] /\ committed'[t] <= position[t]
  BY <1>2, <1>3 DEF WriterInv, TypeOK, OffsetsInRange
<1>6. \A t \in Topics : \A i \in 1..position[t] : RowsOf[t][log[t][i]] \subseteq table
  BY StoredBufferIsDispensable DEF WriterInv, CommitAfterSave
<1>7. OffsetsInRange'
  BY <1>5 DEF WriterInv, OffsetsInRange
<1>8. CommittedIsStored'
  <2>. SUFFICES ASSUME NEW t \in Topics, NEW i \in 1..committed'[t]
                PROVE  RowsOf[t][log[t][i]] \subseteq table
    BY DEF CommittedIsStored
  <2>1. i \in 1..position[t]
    BY <1>4, <1>5 DEF WriterInv, TypeOK
  <2>. QED
    BY <1>6, <2>1
<1>. QED
  BY <1>4, <1>5, <1>7, <1>8

LEMMA CommitOkKeepsInv ==
    ASSUME WriterInv, CommitOk
    PROVE  WriterInv'
<1>. USE DEF CommitOk
<1>1. committed' \in [Topics -> Nat] /\ OffsetsInRange' /\ CommittedIsStored'
  BY CommitTakesStored
<1>2. TypeOK'
  BY <1>1 DEF WriterInv, TypeOK
<1>3. BufferInLog' /\ LastInFlight' /\ CommitAfterSave'
  BY DEF BufferInLog, LastInFlight, CommitAfterSave
<1>4. ReadIsStoredOrBuffered'
  BY StoredBufferIsDispensable DEF WriterInv, CommitAfterSave, ReadIsStoredOrBuffered
<1>. QED
  BY <1>1, <1>2, <1>3, <1>4 DEF WriterInv

LEMMA CommitFailKeepsInv ==
    ASSUME WriterInv, CommitFail
    PROVE  WriterInv'
<1>. USE DEF CommitFail
<1>1. committed' \in [Topics -> Nat] /\ OffsetsInRange' /\ CommittedIsStored'
  <2>1. CASE UNCHANGED committed
    BY <2>1 DEF WriterInv, TypeOK, OffsetsInRange, CommittedIsStored
  <2>2. CASE committed' = [committed EXCEPT ![last.topic] = last.offset + 1]
    BY <2>2, CommitTakesStored
  <2>. QED
    BY <2>1, <2>2
<1>2. TypeOK'
  <2>1. pc' = "poll" /\ UNCHANGED <<log, position, buffer, last, table, restarts>>
    OBVIOUS
  <2>. HIDE DEF CommitFail
  <2>. QED
    BY <1>1, <2>1 DEF WriterInv, TypeOK
<1>3. BufferInLog' /\ LastInFlight' /\ CommitAfterSave'
  BY DEF WriterInv, BufferInLog, RecordAt, LastInFlight, CommitAfterSave
<1>4. ReadIsStoredOrBuffered'
  BY DEF WriterInv, ReadIsStoredOrBuffered
<1>. QED
  BY <1>1, <1>2, <1>3, <1>4 DEF WriterInv

\* Reading again from the committed offsets is safe: all before them is stored.
LEMMA RewindKeepsInv ==
    ASSUME WriterInv, Restart \/ Rebalance
    PROVE  WriterInv'
<1>. USE DEF Restart, Rebalance
<1>1. position' = committed /\ UNCHANGED <<log, committed, table>> /\ pc' = "poll"
  OBVIOUS
<1>2. TypeOK'
  <2>1. /\ buffer' = <<>> \/ buffer' = buffer
        /\ last' = NoResult \/ last' = last
        /\ restarts' = restarts + 1
    OBVIOUS
  <2>2. /\ buffer \in Seq(Results) /\ <<>> \in Seq(Results)
        /\ last \in Results \cup {NoResult}
        /\ restarts + 1 \in Nat
    BY DEF WriterInv, TypeOK
  <2>3. buffer' \in Seq(Results) /\ last' \in Results \cup {NoResult} /\ restarts' \in Nat
    BY <2>1, <2>2, Zenon
  <2>. HIDE DEF Restart, Rebalance
  <2>. QED
    BY <1>1, <2>3 DEF WriterInv, TypeOK
<1>3. OffsetsInRange'
  BY <1>1 DEF WriterInv, TypeOK, OffsetsInRange
<1>4. BufferInLog'
  <2>1. buffer' = <<>> \/ buffer' = buffer
    OBVIOUS
  <2>. QED
    BY <1>1, <2>1 DEF WriterInv, BufferInLog, RecordAt
<1>5. LastInFlight' /\ CommitAfterSave'
  BY <1>1 DEF LastInFlight, CommitAfterSave
<1>6. CommittedIsStored' /\ ReadIsStoredOrBuffered'
  BY <1>1 DEF WriterInv, CommittedIsStored, ReadIsStoredOrBuffered
<1>. QED
  BY <1>2, <1>3, <1>4, <1>5, <1>6 DEF WriterInv

LEMMA StutterKeepsInv ==
    ASSUME WriterInv, UNCHANGED vars
    PROVE  WriterInv'
  BY DEF vars, WriterInv, TypeOK, OffsetsInRange, BufferInLog, RecordAt, LastInFlight,
         CommitAfterSave, CommittedIsStored, ReadIsStoredOrBuffered

LEMMA NextKeepsInv == WriterInv /\ [Next]_vars => WriterInv'
<1>. SUFFICES ASSUME WriterInv, [Next]_vars
              PROVE  WriterInv'
  OBVIOUS
<1>1. CASE UNCHANGED vars
  BY <1>1, StutterKeepsInv
<1>2. CASE \E t \in Topics, m \in Messages : Produce(t, m)
  BY <1>2, ProduceKeepsInv
<1>3. CASE PollNothing
  BY <1>3, PollNothingKeepsInv
<1>4. CASE \E t \in Topics : PollEvent(t)
  BY <1>4, PollEventKeepsInv
<1>5. CASE \E t \in Topics : PollNull(t)
  BY <1>5, PollNullKeepsInv
<1>6. CASE \E t \in Topics : PollGarbage(t)
  BY <1>6, PollGarbageKeepsInv
<1>7. CASE SaveOk
  BY <1>7, SaveOkKeepsInv
<1>8. CASE SaveFail
  BY <1>8, SaveFailKeepsInv
<1>9. CASE CommitOk
  BY <1>9, CommitOkKeepsInv
<1>10. CASE CommitFail
  BY <1>10, CommitFailKeepsInv
<1>11. CASE Restart \/ Rebalance
  BY <1>11, RewindKeepsInv
<1>. QED
  BY <1>1, <1>2, <1>3, <1>4, <1>5, <1>6, <1>7, <1>8, <1>9, <1>10, <1>11 DEF Next

LEMMA WriterInvInvariant == Spec => []WriterInv
  BY InitEstablishesInv, NextKeepsInv, PTL DEF Spec

--------------------------------------------------------------------------------
(* The theorems *)

\* Every variable of the worker stays in its type, for all topics, events and bounds.
THEOREM WriterTypeOK == Spec => []TypeOK
<1>1. WriterInv => TypeOK
  BY DEF WriterInv
<1>. QED
  BY <1>1, WriterInvInvariant, PTL

\* No offset is committed past a row that is missing from ClickHouse, whatever fails,
\* restarts or is rebalanced.
THEOREM CommittedIsAlwaysStored == Spec => []CommittedIsStored
<1>1. WriterInv => CommittedIsStored
  BY DEF WriterInv
<1>. QED
  BY <1>1, WriterInvInvariant, PTL

\* A record the worker has read is stored or still in batchBuffer.
THEOREM ReadIsNeverForgotten == Spec => []ReadIsStoredOrBuffered
<1>1. WriterInv => ReadIsStoredOrBuffered
  BY DEF WriterInv
<1>. QED
  BY <1>1, WriterInvInvariant, PTL

LEMMA NextNeverRewinds ==
    WriterInv /\ [Next]_vars => \A t \in Topics : committed[t] <= committed'[t]
<1>. SUFFICES ASSUME WriterInv, [Next]_vars
              PROVE  \A t \in Topics : committed[t] <= committed'[t]
  OBVIOUS
<1>1. CASE UNCHANGED committed
  BY <1>1 DEF WriterInv, TypeOK
<1>2. CASE CommitOk
  BY <1>2, CommitTakesStored DEF CommitOk
<1>3. CASE CommitFail /\ committed' # committed
  BY <1>3, CommitTakesStored DEF CommitFail
<1>. QED
  BY <1>1, <1>2, <1>3
     DEF Next, vars, Produce, PollNothing, Consume, PollEvent, PollNull, PollGarbage,
         SaveOk, SaveFail, Restart, Rebalance

\* The committed offset of a partition never moves back.
THEOREM CommitsNeverRewind == Spec => CommitNeverRewinds
  BY WriterInvInvariant, NextNeverRewinds, PTL DEF Spec, CommitNeverRewinds

--------------------------------------------------------------------------------
(* The worker implements SnapshotArchive *)

\* What a flush inserts was published.
LEMMA BatchIsPublished ==
    ASSUME WriterInv
    PROVE  BatchRows \subseteq Archive!PublishedRows
<1>1. ASSUME NEW k \in DOMAIN buffer
      PROVE  RowsOf[buffer[k].topic][RecordAt(buffer[k])] \subseteq Archive!PublishedRows
  <2>1. buffer[k] \in Results
    BY DEF WriterInv, TypeOK
  <2>2. buffer[k].topic \in Topics /\ buffer[k].offset + 1 \in 1..Len(log[buffer[k].topic])
    BY <2>1 DEF WriterInv, BufferInLog, Results, TypeOK
  <2>. QED
    BY <2>2 DEF RecordAt, Archive!PublishedRows
<1>. QED
  BY <1>1, BatchIsBuffered DEF WriterInv

LEMMA InitRefines == Init => Archive!Init
  BY DEF Init, Archive!Init

\* A commit acknowledges a prefix of the partition that is fully archived.
LEMMA CommitRefines ==
    ASSUME WriterInv, pc = "commit",
           committed' = [committed EXCEPT ![last.topic] = last.offset + 1],
           UNCHANGED <<log, position, table>>
    PROVE  Archive!Next
<1>. DEFINE t == last.topic
            n == last.offset + 1
<1>1. last \in Results
  BY DEF WriterInv, TypeOK, CommitAfterSave
<1>2. t \in Topics /\ last.offset \in Nat
  BY <1>1 DEF Results
<1>3. n \in committed[t]..Len(log[t]) /\ n <= position[t]
  BY <1>2 DEF WriterInv, TypeOK, LastInFlight, CommitAfterSave, OffsetsInRange
<1>4. Archive!FullyArchived(t, n)
  <2>1. \A i \in 1..position[t] : RowsOf[t][log[t][i]] \subseteq table
    BY <1>2, StoredBufferIsDispensable DEF WriterInv, CommitAfterSave
  <2>2. position[t] \in Nat
    BY <1>2 DEF WriterInv, TypeOK
  <2>3. \A i \in 1..n : i \in 1..position[t]
    BY <1>2, <1>3, <2>2
  <2>. QED
    BY <2>1, <2>3 DEF Archive!FullyArchived
<1>5. Archive!Acknowledge(t, n)
  BY <1>4 DEF Archive!Acknowledge
<1>. QED
  BY <1>2, <1>3, <1>5 DEF Archive!Next

LEMMA NextRefines == WriterInv /\ [Next]_vars => [Archive!Next]_(Archive!vars)
<1>. SUFFICES ASSUME WriterInv, [Next]_vars
              PROVE  [Archive!Next]_(Archive!vars)
  OBVIOUS
<1>1. CASE UNCHANGED <<log, committed, table>>
  BY <1>1 DEF Archive!vars
<1>2. ASSUME NEW t \in Topics, NEW m \in Messages, Produce(t, m)
      PROVE  Archive!Next
  BY <1>2 DEF Produce, Archive!Publish, Archive!Next
<1>3. CASE SaveOk
  <2>1. Archive!Archive(BatchRows)
    BY <1>3, BatchIsPublished DEF SaveOk, Archive!Archive
  <2>. QED
    BY <2>1, BatchIsPublished DEF Archive!Next
<1>4. CASE SaveFail
  <2>1. PICK rows \in SUBSET BatchRows : table' = table \cup rows
    BY <1>4 DEF SaveFail
  <2>2. rows \in SUBSET Archive!PublishedRows
    BY BatchIsPublished
  <2>3. Archive!Archive(rows)
    BY <1>4, <2>1, <2>2 DEF SaveFail, Archive!Archive
  <2>. QED
    BY <2>2, <2>3 DEF Archive!Next
<1>5. CASE CommitOk
  BY <1>5, CommitRefines DEF CommitOk
<1>6. CASE CommitFail /\ committed' # committed
  BY <1>6, CommitRefines DEF CommitFail
<1>. QED
  BY <1>1, <1>2, <1>3, <1>4, <1>5, <1>6
     DEF Next, vars, PollNothing, Consume, PollEvent, PollNull, PollGarbage,
         CommitFail, Restart, Rebalance

\* The worker keeps the archive's promise: rows come only from published scans and stay,
\* and an acknowledged scan is wholly in ClickHouse.
THEOREM WriterImplementsArchive == Spec => ArchiveSpec
  BY WriterInvInvariant, InitRefines, NextRefines, PTL DEF Spec, ArchiveSpec, Archive!Spec
================================================================================
