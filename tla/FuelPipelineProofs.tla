--------------------------- MODULE FuelPipelineProofs ---------------------------
(***************************************************************************)
(* Proofs about FuelPipeline, for every region, station list and bound.    *)
(*                                                                         *)
(* A row that was seen or committed stays in the archive, so the newest    *)
(* row of its station and fuel, which the page shows, is stamped no        *)
(* earlier; and by the promise of ScanFeed a later stamp of the scheduler  *)
(* never carries older data.                                               *)
(***************************************************************************)
EXTENDS FuelPipeline, TLAPS

\* What the region's topic holds: records in the order ScanFeed promises.
TopicInv ==
    /\ Len(topic) <= MaxTopic
    /\ \A i \in 1..Len(topic) : topic[i].data <= topic[i].occurredOn
    /\ \A i, j \in 1..Len(topic) : Feed!InOrder(topic[i], topic[j])

\* Rows come from published records, and the rows of committed ones are all there.
ArchiveInv ==
    /\ \A row \in archived : \E i \in 1..Len(topic) : topic[i] = row.record
    /\ acked[Region] <= Len(topic)
    /\ \A n \in 1..acked[Region] : RowsOf[Region][topic[n]] \subseteq archived

Known == seen \cup UNION {RowsOf[Region][topic[n]] : n \in 1..asOf}

\* The page has rows of the archive; its answer covers what was seen or committed before.
PageInv ==
    /\ seen \subseteq archived /\ answer \subseteq archived
    /\ asOf <= acked[Region]
    /\ page \in {"answered", "shown"} =>
           \A old \in Known : FuelOf[old.item] = fuel =>
               \E row \in answer : row.item = old.item /\ Stamp(old) <= Stamp(row)

PipelineInv == TypeOK /\ TopicInv /\ ArchiveInv /\ PageInv

--------------------------------------------------------------------------------
(* The archive as seen from here *)

\* A row that may be archived stands for an item of a record of the topic.
LEMMA PublishedRow ==
    ASSUME TypeOK, NEW row \in Archive!PublishedRows
    PROVE  \E i \in 1..Len(topic) : row \in RowsOf[Region][topic[i]]
<1>1. PICK i \in 1..Len(topic) : row \in RowsOf[Region][topic[i]]
  BY DEF Archive!PublishedRows
<1> QED BY <1>1

\* The rows of a record.
LEMMA RowsOfRecord ==
    ASSUME NEW r \in Records
    PROVE  /\ RowsOf[Region][r] = {[item |-> i, record |-> r] : i \in Listed[r.data]}
           /\ RowsOf[Region][r] \subseteq Rows
           /\ \A row \in RowsOf[Region][r] : row.record = r
<1>1. RowsOf[Region][r] = {[item |-> i, record |-> r] : i \in Listed[r.data]}
  BY DEF RowsOf
<1>2. Listed[r.data] \subseteq Items
  BY ItemAssumption DEF Records
<1> QED BY <1>1, <1>2 DEF Rows

LEMMA StoreStep ==
    ASSUME TypeOK, NEW rows, Store(rows)
    PROVE  /\ rows \subseteq Archive!PublishedRows
           /\ archived' = archived \cup rows
           /\ acked' = acked /\ UNCHANGED scan /\ UNCHANGED browser
  BY DEF Store, Archive!Archive

LEMMA AcknowledgeStep ==
    ASSUME TypeOK, NEW n \in acked[Region]..Len(topic), Acknowledge(n)
    PROVE  /\ \A i \in 1..n : RowsOf[Region][topic[i]] \subseteq archived
           /\ acked' = [acked EXCEPT ![Region] = n]
           /\ archived' = archived /\ UNCHANGED scan /\ UNCHANGED browser
<1>1. Archive!FullyArchived(Region, n)
  BY DEF Acknowledge, Archive!Acknowledge
<1>2. \A i \in 1..n : RowsOf[Region][topic[i]] \subseteq archived
  BY <1>1 DEF Archive!FullyArchived
<1> QED BY <1>2 DEF Acknowledge, Archive!Acknowledge

LEMMA PublishStep ==
    ASSUME TypeOK, TopicInv, NEW r \in Feed!Records, Publish(r)
    PROVE  /\ r \in Records /\ topic' = Append(topic, r) /\ topic' \in Seq(Records)
           /\ Len(topic') = Len(topic) + 1 /\ Len(topic) < MaxTopic
           /\ \A i \in 1..Len(topic) : topic'[i] = topic[i]
           /\ topic'[Len(topic) + 1] = r
           /\ now' = now /\ UNCHANGED archive /\ UNCHANGED browser
<1>1. /\ Len(topic) < MaxTopic /\ topic' = Append(topic, r) /\ now' = now
      /\ UNCHANGED archive /\ UNCHANGED browser
  BY DEF Publish, Feed!Publish
<1>2. r \in Records
  <2>1. now \in 0..MaxTime /\ MaxTime \in Nat /\ MaxScans \in Nat
    BY BoundAssumption DEF TypeOK
  <2>2. 0..now \subseteq 0..MaxTime /\ 1..MaxScans \subseteq 0..MaxScans /\ 0 \in 0..MaxScans
    BY <2>1
  <2> QED BY <2>2 DEF Feed!Records, Records
<1> QED BY <1>1, <1>2 DEF TypeOK

--------------------------------------------------------------------------------
(* Type correctness *)

LEMMA TypeInit == Init => TypeOK
  BY BoundAssumption DEF Init, Feed!Init, TypeOK

LEMMA TypeStep == TypeOK /\ TopicInv /\ [Next]_vars => TypeOK'
<1> SUFFICES ASSUME TypeOK, TopicInv, [Next]_vars PROVE TypeOK'
  OBVIOUS
<1>1. CASE Tick
  BY <1>1, BoundAssumption DEF Tick, Feed!Tick, TypeOK, archive, browser
<1>2. ASSUME NEW r \in Feed!Records, Publish(r) PROVE TypeOK'
  BY <1>2, PublishStep DEF TypeOK, archive, browser
<1>3. ASSUME NEW rows \in SUBSET Archive!PublishedRows, Store(rows) PROVE TypeOK'
  <2>1. rows \subseteq Rows
    <3> SUFFICES ASSUME NEW row \in rows PROVE row \in Rows
      OBVIOUS
    <3>1. PICK i \in 1..Len(topic) : row \in RowsOf[Region][topic[i]]
      BY PublishedRow
    <3>2. topic[i] \in Records
      BY DEF TypeOK
    <3> QED BY <3>1, <3>2, RowsOfRecord
  <2> QED BY <1>3, <2>1, StoreStep DEF TypeOK, scan, browser
<1>4. ASSUME NEW n \in acked[Region]..Len(topic), Acknowledge(n) PROVE TypeOK'
  <2>1. n \in 0..MaxTopic
    BY BoundAssumption DEF TypeOK, TopicInv
  <2> QED BY <1>4, <2>1, AcknowledgeStep DEF TypeOK, scan, browser
<1>5. ASSUME NEW f \in {FuelOf[i] : i \in Items}, Submit(f) PROVE TypeOK'
  BY <1>5 DEF Submit, TypeOK, scan, archive
<1>6. CASE Answer
  <2>1. answer' \subseteq Rows
    BY <1>6 DEF Answer, LatestSnapshots, Newest, TypeOK
  <2> QED BY <1>6, <2>1 DEF Answer, TypeOK, scan, archive
<1>7. CASE Render
  BY <1>7 DEF Render, TypeOK, scan, archive
<1>8. CASE Fail
  BY <1>8 DEF Fail, TypeOK, scan, archive
<1>9. CASE UNCHANGED vars
  BY <1>9 DEF vars, TypeOK, scan, archive, browser
<1> QED
  BY <1>1, <1>2, <1>3, <1>4, <1>5, <1>6, <1>7, <1>8, <1>9 DEF Next

--------------------------------------------------------------------------------
(* The topic *)

LEMMA TopicStep == TypeOK /\ TopicInv /\ [Next]_vars => TopicInv'
<1> SUFFICES ASSUME TypeOK, TopicInv, [Next]_vars PROVE TopicInv'
  OBVIOUS
<1>1. CASE topic' = topic
  BY <1>1 DEF TopicInv, Feed!InOrder
<1>2. ASSUME NEW r \in Feed!Records, Publish(r) PROVE TopicInv'
  <2>1. /\ topic' = Append(topic, r) /\ Len(topic') = Len(topic) + 1 /\ Len(topic) < MaxTopic
        /\ \A i \in 1..Len(topic) : topic'[i] = topic[i]
        /\ topic'[Len(topic) + 1] = r /\ r \in Records
    BY <1>2, PublishStep
  <2>2. /\ r.data <= r.occurredOn
        /\ \A i \in 1..Len(topic) : Feed!InOrder(r, topic[i]) /\ Feed!InOrder(topic[i], r)
    BY <1>2 DEF Publish, Feed!Publish
  <2>3. Len(topic) \in Nat /\ MaxTopic \in Nat
    BY BoundAssumption DEF TypeOK
  <2>4. Len(topic') <= MaxTopic
    BY <2>1, <2>3
  <2>5. ASSUME NEW i \in 1..Len(topic') PROVE topic'[i].data <= topic'[i].occurredOn
    <3>1. CASE i = Len(topic) + 1
      BY <2>1, <2>2, <3>1
    <3>2. CASE i \in 1..Len(topic)
      BY <2>1, <3>2 DEF TopicInv
    <3> QED BY <2>1, <2>3, <3>1, <3>2
  <2>6. Feed!InOrder(r, r)
    BY <2>1 DEF Records, Feed!InOrder
  <2>7. ASSUME NEW i \in 1..Len(topic'), NEW j \in 1..Len(topic')
        PROVE  Feed!InOrder(topic'[i], topic'[j])
    <3>1. CASE i \in 1..Len(topic) /\ j \in 1..Len(topic)
      <4>1. topic'[i] = topic[i] /\ topic'[j] = topic[j]
        BY <2>1, <3>1
      <4> QED BY <3>1, <4>1 DEF TopicInv, Feed!InOrder
    <3>2. CASE i = Len(topic) + 1 /\ j \in 1..Len(topic)
      BY <2>1, <2>2, <3>2 DEF Feed!InOrder
    <3>3. CASE i \in 1..Len(topic) /\ j = Len(topic) + 1
      BY <2>1, <2>2, <3>3 DEF Feed!InOrder
    <3>4. CASE i = Len(topic) + 1 /\ j = Len(topic) + 1
      BY <2>1, <2>6, <3>4 DEF Feed!InOrder
    <3> QED BY <2>1, <2>3, <3>1, <3>2, <3>3, <3>4
  <2> QED BY <2>4, <2>5, <2>7 DEF TopicInv, Feed!InOrder
<1>3. topic' = topic \/ \E r \in Feed!Records : Publish(r)
  BY DEF Next, Tick, Feed!Tick, Store, Acknowledge, Submit, Answer, Render, Fail, vars, scan
<1> QED BY <1>1, <1>2, <1>3

\* Records keep their places.
LEMMA TopicGrows ==
    ASSUME TypeOK, TopicInv, [Next]_vars
    PROVE  /\ Len(topic) \in Nat /\ Len(topic') \in Nat /\ Len(topic) <= Len(topic')
           /\ \A i \in 1..Len(topic) : topic'[i] = topic[i]
<1>1. CASE topic' = topic
  BY <1>1 DEF TypeOK
<1>2. ASSUME NEW r \in Feed!Records, Publish(r)
      PROVE  /\ Len(topic) \in Nat /\ Len(topic') = Len(topic) + 1
             /\ \A i \in 1..Len(topic) : topic'[i] = topic[i]
  BY <1>2, PublishStep DEF TypeOK
<1>3. topic' = topic \/ \E r \in Feed!Records : Publish(r)
  BY DEF Next, Tick, Feed!Tick, Store, Acknowledge, Submit, Answer, Render, Fail, vars, scan
<1> QED BY <1>1, <1>2, <1>3

\* ScanFeed's order, read off the stamps.
LEMMA OrderedStamps ==
    ASSUME TypeOK, TopicInv, NEW i \in 1..Len(topic), NEW j \in 1..Len(topic),
           topic[i].caller = Scheduler, topic[j].caller = Scheduler,
           topic[i].occurredOn < topic[j].occurredOn
    PROVE  topic[i].data <= topic[j].data
<1>1. topic[i] \in Records /\ topic[j] \in Records
  BY DEF TypeOK
<1>2. \A r \in Records : r.scan \in Nat /\ r.data \in Nat /\ r.occurredOn \in Nat
  BY BoundAssumption DEF Records
<1>3. /\ topic[i].data <= topic[i].occurredOn /\ topic[j].data <= topic[j].occurredOn
      /\ Feed!InOrder(topic[i], topic[j]) /\ Feed!InOrder(topic[j], topic[i])
  BY DEF TopicInv
<1>4. topic[i].scan # topic[j].scan
  BY <1>1, <1>2, <1>3 DEF Feed!InOrder
<1>5. CASE topic[j].scan < topic[i].scan
  <2>1. topic[j].occurredOn <= topic[i].data
    BY <1>3, <1>5 DEF Feed!InOrder
  <2> QED BY <1>1, <1>2, <1>3, <2>1
<1>6. CASE topic[i].scan < topic[j].scan
  <2>1. topic[i].occurredOn <= topic[j].data
    BY <1>3, <1>6 DEF Feed!InOrder
  <2> QED BY <1>1, <1>2, <1>3, <2>1
<1> QED BY <1>1, <1>2, <1>4, <1>5, <1>6

--------------------------------------------------------------------------------
(* The archive *)

LEMMA ArchiveStep == TypeOK /\ TopicInv /\ ArchiveInv /\ [Next]_vars => ArchiveInv'
<1> SUFFICES ASSUME TypeOK, TopicInv, ArchiveInv, [Next]_vars PROVE ArchiveInv'
  OBVIOUS
<1>1. /\ Len(topic) \in Nat /\ Len(topic') \in Nat /\ Len(topic) <= Len(topic')
      /\ \A i \in 1..Len(topic) : topic'[i] = topic[i]
  BY TopicGrows
<1>2. 1..Len(topic) \subseteq 1..Len(topic')
  BY <1>1
<1>3. /\ acked[Region] \in Nat /\ acked[Region] <= Len(topic)
      /\ 1..acked[Region] \subseteq 1..Len(topic)
  BY <1>1, BoundAssumption DEF TypeOK, ArchiveInv
<1>4. CASE UNCHANGED archive
  <2>1. archived' = archived /\ acked' = acked
    BY <1>4 DEF archive
  <2>2. ASSUME NEW row \in archived' PROVE \E i \in 1..Len(topic') : topic'[i] = row.record
    <3>1. PICK i \in 1..Len(topic) : topic[i] = row.record
      BY <2>1 DEF ArchiveInv
    <3> QED BY <1>1, <1>2, <3>1
  <2>3. acked'[Region] <= Len(topic')
    BY <1>1, <1>3, <2>1
  <2>4. \A n \in 1..acked'[Region] : RowsOf[Region][topic'[n]] \subseteq archived'
    BY <1>1, <1>3, <2>1 DEF ArchiveInv
  <2> QED BY <2>2, <2>3, <2>4 DEF ArchiveInv
<1>5. ASSUME NEW rows \in SUBSET Archive!PublishedRows, Store(rows) PROVE ArchiveInv'
  <2>1. archived' = archived \cup rows /\ acked' = acked /\ topic' = topic
    BY <1>5, StoreStep DEF scan
  <2>2. ASSUME NEW row \in archived' PROVE \E i \in 1..Len(topic) : topic[i] = row.record
    <3>1. CASE row \in archived
      BY <3>1 DEF ArchiveInv
    <3>2. CASE row \in rows
      <4>1. PICK i \in 1..Len(topic) : row \in RowsOf[Region][topic[i]]
        BY <3>2, PublishedRow
      <4>2. topic[i] \in Records
        BY DEF TypeOK
      <4> QED BY <4>1, <4>2, RowsOfRecord
    <3> QED BY <2>1, <3>1, <3>2
  <2>3. \A n \in 1..acked[Region] : RowsOf[Region][topic[n]] \subseteq archived'
    BY <2>1 DEF ArchiveInv
  <2> QED BY <1>3, <2>1, <2>2, <2>3 DEF ArchiveInv
<1>6. ASSUME NEW n \in acked[Region]..Len(topic), Acknowledge(n) PROVE ArchiveInv'
  <2>1. /\ \A i \in 1..n : RowsOf[Region][topic[i]] \subseteq archived
        /\ acked' = [acked EXCEPT ![Region] = n] /\ archived' = archived /\ topic' = topic
    BY <1>6, AcknowledgeStep DEF scan
  <2>2. acked'[Region] = n /\ n <= Len(topic)
    BY <1>1, <1>3, <2>1 DEF TypeOK
  <2> QED BY <2>1, <2>2 DEF ArchiveInv
<1> QED
  BY <1>4, <1>5, <1>6 DEF Next, Tick, Publish, Submit, Answer, Render, Fail, vars

--------------------------------------------------------------------------------
(* The page *)

LEMMA InvInit == Init => PipelineInv
<1> SUFFICES ASSUME Init PROVE PipelineInv
  OBVIOUS
<1>1. TypeOK
  BY TypeInit
<1>2. /\ topic = <<>> /\ acked[Region] = 0 /\ archived = {} /\ page = "ready"
      /\ answer = {} /\ asOf = 0 /\ seen = {}
  BY DEF Init, Feed!Init
<1>3. TopicInv
  BY <1>2, BoundAssumption DEF TopicInv
<1>4. ArchiveInv
  BY <1>2 DEF ArchiveInv
<1>5. PageInv
  BY <1>2 DEF PageInv
<1> QED BY <1>1, <1>3, <1>4, <1>5 DEF PipelineInv

\* What was seen or committed when the page asked is in the archive.
LEMMA KnownIsArchived ==
    ASSUME PipelineInv
    PROVE  seen \cup UNION {RowsOf[Region][topic[n]] : n \in 1..acked[Region]} \subseteq archived
  BY DEF PipelineInv, PageInv, ArchiveInv

\* The controller's choice covers every row of the archive.
LEMMA LatestCovers ==
    ASSUME NEW rows, NEW latest \in LatestSnapshots(rows), NEW old \in rows
    PROVE  \E row \in latest : row \in rows /\ row.item = old.item /\ Stamp(old) <= Stamp(row)
<1>1. PICK row \in latest : row.item = old.item
  BY DEF LatestSnapshots
<1>2. row \in Newest(rows)
  BY DEF LatestSnapshots
<1> QED BY <1>1, <1>2 DEF Newest

LEMMA AnswerStep == PipelineInv /\ Answer => PageInv'
<1> SUFFICES ASSUME PipelineInv, Answer PROVE PageInv'
  OBVIOUS
<1>1. PICK latest \in LatestSnapshots(archived) : answer' = {row \in latest : FuelOf[row.item] = fuel}
  BY DEF Answer
<1>2. /\ asOf' = acked[Region] /\ page' = "answered" /\ fuel' = fuel /\ seen' = seen
      /\ archived' = archived /\ acked' = acked /\ topic' = topic
  BY DEF Answer, scan, archive
<1>3. latest \subseteq archived
  BY DEF LatestSnapshots, Newest
<1>4. acked[Region] \in Nat
  BY BoundAssumption DEF PipelineInv, TypeOK
<1>5. ASSUME NEW old \in Known', FuelOf[old.item] = fuel
      PROVE  \E row \in answer' : row.item = old.item /\ Stamp(old) <= Stamp(row)
  <2>1. old \in archived
    BY <1>2, <1>5, KnownIsArchived DEF Known
  <2>2. PICK row \in latest : row.item = old.item /\ Stamp(old) <= Stamp(row)
    BY <2>1, LatestCovers
  <2>3. row \in answer'
    BY <1>1, <1>5, <2>2
  <2> QED BY <2>2, <2>3
<1>6. seen' \subseteq archived' /\ answer' \subseteq archived'
  BY <1>1, <1>2, <1>3 DEF PipelineInv, PageInv
<1>7. asOf' <= acked'[Region]
  BY <1>2, <1>4
<1> QED BY <1>2, <1>5, <1>6, <1>7 DEF PageInv, Stamp

\* A step that leaves the page alone: the archive and its offset only grow.
LEMMA PageKept ==
    ASSUME PipelineInv, UNCHANGED <<fuel, answer, asOf, seen>>,
           archived \subseteq archived', acked[Region] <= acked'[Region],
           acked'[Region] \in Nat,
           page' \in {"answered", "shown"} => page \in {"answered", "shown"},
           \A i \in 1..Len(topic) : topic'[i] = topic[i]
    PROVE  PageInv'
<1>1. /\ asOf \in Nat /\ acked[Region] \in Nat /\ Len(topic) \in Nat
      /\ asOf <= acked[Region] /\ acked[Region] <= Len(topic)
  BY BoundAssumption DEF PipelineInv, TypeOK, PageInv, ArchiveInv
<1>2. \A n \in 1..asOf : topic'[n] = topic[n]
  BY <1>1
<1>3. Known' = Known
  BY <1>2 DEF Known
<1>4. asOf' <= acked'[Region]
  BY <1>1
<1>5. seen' \subseteq archived' /\ answer' \subseteq archived'
  BY DEF PipelineInv, PageInv
<1>6. ASSUME page' \in {"answered", "shown"}, NEW old \in Known', FuelOf[old.item] = fuel'
      PROVE  \E row \in answer' : row.item = old.item /\ Stamp(old) <= Stamp(row)
  BY <1>3, <1>6 DEF PipelineInv, PageInv
<1> QED BY <1>4, <1>5, <1>6 DEF PageInv, Stamp

LEMMA PageStep == PipelineInv /\ [Next]_vars => PageInv'
<1> SUFFICES ASSUME PipelineInv, [Next]_vars PROVE PageInv'
  OBVIOUS
<1>1. TypeOK /\ TopicInv /\ ArchiveInv /\ PageInv
  BY DEF PipelineInv
<1>2. /\ acked[Region] \in Nat /\ Len(topic) \in Nat
      /\ \A i \in 1..Len(topic) : topic'[i] = topic[i]
  BY <1>1, TopicGrows, BoundAssumption DEF TypeOK
<1>3. acked[Region] <= acked[Region]
  BY <1>2
<1>4. CASE Tick
  BY <1>2, <1>3, <1>4, PageKept DEF Tick, archive, browser
<1>5. ASSUME NEW r \in Feed!Records, Publish(r) PROVE PageInv'
  BY <1>2, <1>3, <1>5, PageKept DEF Publish, archive, browser
<1>6. ASSUME NEW rows \in SUBSET Archive!PublishedRows, Store(rows) PROVE PageInv'
  <2>1. archived \subseteq archived' /\ acked' = acked /\ UNCHANGED browser
    BY <1>1, <1>6, StoreStep
  <2> QED BY <1>2, <1>3, <2>1, PageKept DEF browser
<1>7. ASSUME NEW n \in acked[Region]..Len(topic), Acknowledge(n) PROVE PageInv'
  <2>1. acked' = [acked EXCEPT ![Region] = n] /\ archived' = archived /\ UNCHANGED browser
    BY <1>1, <1>7, AcknowledgeStep
  <2>2. acked'[Region] = n /\ n \in Nat /\ acked[Region] <= n
    BY <1>1, <1>2, <2>1 DEF TypeOK
  <2> QED BY <1>2, <2>1, <2>2, PageKept DEF browser
<1>8. ASSUME NEW f \in {FuelOf[i] : i \in Items}, Submit(f) PROVE PageInv'
  <2>1. /\ page' = "asking" /\ answer' = {} /\ asOf' = asOf /\ acked' = acked
        /\ archived' = archived /\ seen' \subseteq seen \cup answer
    BY <1>8 DEF Submit, archive
  <2> QED BY <1>1, <2>1 DEF PageInv
<1>9. CASE Answer
  BY <1>9, AnswerStep
<1>10. CASE Render
  BY <1>2, <1>3, <1>10, PageKept DEF Render, archive
<1>11. CASE Fail
  <2>1. /\ page' = "error" /\ answer' = {} /\ asOf' = asOf /\ acked' = acked
        /\ archived' = archived /\ seen' = seen
    BY <1>11 DEF Fail, archive
  <2> QED BY <1>1, <2>1 DEF PageInv
<1>12. CASE UNCHANGED vars
  BY <1>2, <1>3, <1>12, PageKept DEF vars, archive, browser
<1> QED
  BY <1>4, <1>5, <1>6, <1>7, <1>8, <1>9, <1>10, <1>11, <1>12 DEF Next

LEMMA Invariance == Spec => []PipelineInv
<1>1. PipelineInv /\ [Next]_vars => PipelineInv'
  BY TypeStep, TopicStep, ArchiveStep, PageStep DEF PipelineInv
<1> QED BY <1>1, InvInit, PTL DEF Spec

--------------------------------------------------------------------------------
(* The drawing *)

\* A status that makes a row available is none of the words the two scripts look for.
LEMMA ClassesAgree == ASSUME NEW row \in Rows PROVE RowClass(row) = ChartClass(row)
<1>1. CASE IsAvailable(Offer[row.record.data][row.item].status)
  BY <1>1 DEF RowClass, ChartClass, StateOf, IsAvailable
<1>2. CASE ~IsAvailable(Offer[row.record.data][row.item].status)
  BY <1>2 DEF RowClass, ChartClass, StateOf
<1> QED BY <1>1, <1>2

LEMMA DistanceIs ==
    ASSUME NEW a \in Int, NEW b \in Int, NEW c \in Int
    PROVE  Distance(a, b) <= c <=> a - b <= c /\ b - a <= c
  BY DEF Distance

\* Multiplying out what the shares and the percentages have in common.
LEMMA Products ==
    ASSUME NEW p \in Nat, NEW q \in Nat, NEW total \in Nat \ {0}
    PROVE  /\ p * total \in Nat /\ q * total \in Nat
           /\ (p + q) * total = p * total + q * total
           /\ (100 - p - q) * total = 100 * total - p * total - q * total
           /\ p + q > 101 => p * total + q * total >= 102 * total
<1>1. p * total \in Nat /\ q * total \in Nat /\ (p + q) * total = p * total + q * total
  OBVIOUS
<1>2. (100 - p - q) * total = 100 * total - p * total - q * total
  OBVIOUS
<1>3. ASSUME p + q > 101 PROVE (p + q) * total >= 102 * total
  <2>1. \A m \in Nat : (102 + m) * total = 102 * total + m * total /\ m * total \in Nat
    OBVIOUS
  <2>2. p + q - 102 \in Nat /\ 102 + (p + q - 102) = p + q
    BY <1>3
  <2> QED BY <2>1, <2>2
<1> QED BY <1>1, <1>2, <1>3

LEMMA RoundedBars ==
    ASSUME NEW critical \in Nat, NEW warning \in Nat, NEW normal \in Nat,
           critical + warning + normal > 0, NEW bars \in Bars(critical, warning, normal)
    PROVE  Faithful(critical, warning, normal, bars)
<1> DEFINE total == critical + warning + normal
<1>1. PICK p \in Rounded(critical, total), q \in Rounded(warning, total) :
          bars = <<p, q, IF p + q < 100 THEN 100 - p - q ELSE 0>>
  BY DEF Bars
<1>2. p \in Nat /\ q \in Nat /\ total \in Nat \ {0}
  BY DEF Rounded
<1>3. /\ p * total \in Nat /\ q * total \in Nat
      /\ (100 - p - q) * total = 100 * total - p * total - q * total
      /\ p + q > 101 => p * total + q * total >= 102 * total
  BY <1>2, Products
<1>4. /\ Distance(100 * critical, p * total) \in Int /\ Distance(100 * warning, q * total) \in Int
      /\ 2 * Distance(100 * critical, p * total) <= total
      /\ 2 * Distance(100 * warning, q * total) <= total
  BY <1>2, <1>3 DEF Rounded, Distance
<1>5. /\ 2 * (100 * critical - p * total) <= total /\ 2 * (p * total - 100 * critical) <= total
      /\ 2 * (100 * warning - q * total) <= total /\ 2 * (q * total - 100 * warning) <= total
  BY <1>2, <1>3, <1>4 DEF Distance
<1>6. /\ Distance(100 * critical, p * total) <= total
      /\ Distance(100 * warning, q * total) <= total
  BY <1>2, <1>4
<1>7. p + q <= 101
  <2>1. p * total + q * total <= 101 * total
    BY <1>2, <1>3, <1>5
  <2> QED BY <1>2, <1>3, <2>1
<1>8. CASE p + q < 100
  <2>1. Distance(100 * normal, (100 - p - q) * total) <= total
    BY <1>2, <1>3, <1>5, DistanceIs
  <2> QED BY <1>1, <1>2, <1>6, <1>8, <2>1 DEF Faithful
<1>9. CASE p + q >= 100
  <2>1. (p + q) * total >= 100 * total
    BY <1>2, <1>9
  <2>2. 100 * normal <= total
    BY <1>2, <1>3, <1>5, <2>1
  <2>3. Distance(100 * normal, 0 * total) <= total
    BY <1>2, <2>2 DEF Distance
  <2>4. p + q \in {100, 101}
    BY <1>2, <1>7, <1>9
  <2> QED BY <1>1, <1>2, <1>6, <1>9, <2>3, <2>4 DEF Faithful
<1> QED BY <1>2, <1>8, <1>9

--------------------------------------------------------------------------------
(* Theorems *)

\* The variables keep their types, for all constants.
THEOREM PipelineTypeOK == Spec => []TypeOK
<1>1. PipelineInv => TypeOK
  BY DEF PipelineInv
<1> QED BY <1>1, Invariance, PTL

\* Of two rows of the archive the one stamped later is not older.
LEMMA LaterIsNotOlder ==
    ASSUME PipelineInv, NEW row \in archived, NEW earlier \in archived,
           Stamp(earlier) <= Stamp(row)
    PROVE  NotOlder(row, earlier)
<1>1. PICK i \in 1..Len(topic) : topic[i] = earlier.record
  BY DEF PipelineInv, ArchiveInv
<1>2. PICK j \in 1..Len(topic) : topic[j] = row.record
  BY DEF PipelineInv, ArchiveInv
<1> QED BY <1>1, <1>2, OrderedStamps DEF PipelineInv, NotOlder, Scheduled, Stamp

\* A page in view covers what was seen or committed with rows that are not older.
LEMMA PageCovers ==
    ASSUME PipelineInv, page = "shown", NEW old \in Known, FuelOf[old.item] = fuel
    PROVE  \E row \in answer : row.item = old.item /\ NotOlder(row, old)
<1>1. PICK row \in answer : row.item = old.item /\ Stamp(old) <= Stamp(row)
  BY DEF PipelineInv, PageInv
<1>2. 1..asOf \subseteq 1..acked[Region]
  BY BoundAssumption DEF PipelineInv, PageInv, TypeOK
<1>3. old \in archived /\ row \in archived
  BY <1>2, KnownIsArchived DEF Known, PipelineInv, PageInv
<1> QED BY <1>1, <1>3, LaterIsNotOlder

\* PageNeverGoesBack: what a page has shown is never followed by something older or nothing.
THEOREM PagesMoveForward == Spec => []PageNeverGoesBack
<1>1. PipelineInv => PageNeverGoesBack
  BY PageCovers DEF PageNeverGoesBack, Known
<1> QED BY <1>1, Invariance, PTL

\* CommittedIsVisible: a committed record is on every page asked for after its commit.
THEOREM CommittedIsShown == Spec => []CommittedIsVisible
<1>1. PipelineInv => CommittedIsVisible
  BY PageCovers DEF CommittedIsVisible, Known
<1> QED BY <1>1, Invariance, PTL

\* ChartAgreesWithTable: whatever the API says of a station, row and chart class it alike.
THEOREM DrawingsAgree == Spec => []ChartAgreesWithTable
<1>1. PipelineInv => ChartAgreesWithTable
  BY ClassesAgree DEF PipelineInv, TypeOK, ChartAgreesWithTable
<1> QED BY <1>1, Invariance, PTL

\* BarsMeasureShares: the bars are faithful for all numbers of stations.
THEOREM BarsAreShares == Spec => []BarsMeasureShares
<1>1. BarsMeasureShares
  <2>1. \A critical, warning, normal \in 0..MaxStations :
            critical \in Nat /\ warning \in Nat /\ normal \in Nat
    BY BoundAssumption
  <2> QED BY <2>1, RoundedBars DEF BarsMeasureShares, BarsAreFaithful
<1> QED BY <1>1, PTL
================================================================================
