---------------------------- MODULE FuelSystemProofs ----------------------------
(***************************************************************************)
(* The WebApi and the worker, put together as they are coded, implement    *)
(* FuelPipeline; so what the page promises there holds of the system.      *)
(*                                                                         *)
(* Each service is a behaviour of its own module, whose refinement theorem *)
(* gives the step its abstract specification takes.  These two steps, and  *)
(* that the services change nothing of each other's, make the pipeline's.  *)
(***************************************************************************)
EXTENDS FuelSystem, TLAPS

\* The proved modules, over the variables of the system.
ScanP == INSTANCE RegionScanProofs WITH pc <- calls
WriterP == INSTANCE ClickHouseWriterProofs
    WITH Topics <- {Region}, Events <- Records, Content <- [e \in Records |-> Catalogue[e.data]],
         MaxLog <- MaxTopic, log <- [t \in {Region} |-> topic], pc <- stage
PipelineP == INSTANCE FuelPipelineProofs
    WITH Items <- Keys, acked <- committed, archived <- Archived

\* The clock and the records stay within what the worker and the pages are instantiated with.
BoundInv ==
    /\ now \in 0..MaxTime
    /\ topic \in Seq(Records)

\* What the abstract specifications say of a step.
FeedStep == [Pipeline!Feed!Next]_(Pipeline!Feed!vars)
ArchiveStep == [WriterP!Archive!Next]_(WriterP!Archive!vars)

\* The worker's view of the topic, and the page's view of rows of the table.
Log == [t \in {Region} |-> topic]
Shown(rows) == {[item |-> row[3], record |-> row[2]] : row \in rows}

--------------------------------------------------------------------------------
(* A module says the same in each of its instances *)

\* The steps of the scan in FuelSystem are those its theorems are about.
LEMMA SameScan ==
    /\ Scan!Init => ScanP!Init
    /\ Scan!Next => ScanP!Next
<1>1. Scan!Init => ScanP!Init
  BY DEF Scan!Init, ScanP!Init, Scan!Callers, ScanP!Callers
<1>2. Scan!Next => ScanP!Next
  BY DEF Scan!Next, ScanP!Next, Scan!Callers, ScanP!Callers, Scan!Idle, ScanP!Idle,
         Scan!Running, ScanP!Running, Scan!Published, ScanP!Published, Scan!Advance,
         ScanP!Advance, Scan!Notify, ScanP!Notify, Scan!TimerTick, ScanP!TimerTick,
         Scan!StartScan, ScanP!StartScan, Scan!EndScan, ScanP!EndScan, Scan!FetchOk,
         ScanP!FetchOk, Scan!FetchEmpty, ScanP!FetchEmpty, Scan!Produce, ScanP!Produce,
         Scan!Send, ScanP!Send, Scan!PublishOk, ScanP!PublishOk, Scan!PublishFail,
         ScanP!PublishFail, Scan!Cancel, ScanP!Cancel, Scan!Forget, ScanP!Forget, Scan!Crash,
         ScanP!Crash
<1> QED BY <1>1, <1>2

\* The worker's steps in FuelSystem are those its theorems are about.
LEMMA SameWriter ==
    ASSUME WorkerStep PROVE WriterP!Next
  BY DEF WorkerStep, WriterP!Next, WriterP!Restart, Writer!Restart, WriterP!Rebalance,
         Writer!Rebalance, WriterP!PollNothing, Writer!PollNothing, WriterP!PollEvent,
         Writer!PollEvent, WriterP!SaveOk, Writer!SaveOk, WriterP!SaveFail, Writer!SaveFail,
         WriterP!CommitOk, Writer!CommitOk, WriterP!CommitFail, Writer!CommitFail,
         WriterP!Consume, Writer!Consume, WriterP!RecordAt, Writer!RecordAt, WriterP!Trackable,
         Writer!Trackable, WriterP!UniqueEntities, Writer!UniqueEntities, WriterP!BatchRows,
         Writer!BatchRows, WriterP!RawEntities, Writer!RawEntities, WriterP!KeyOf,
         Writer!KeyOf, WriterP!RowKey, Writer!RowKey

\* The behaviours of the pipeline FuelSystem refines are those its theorems are about.
LEMMA SamePipeline ==
    /\ Pipeline!Init => PipelineP!Init
    /\ [Pipeline!Next]_(Pipeline!vars) => [PipelineP!Next]_(PipelineP!vars)
<1>1. Pipeline!Init => PipelineP!Init
  BY DEF Pipeline!Init, PipelineP!Init, Pipeline!Feed!Init, PipelineP!Feed!Init
<1>2. UNCHANGED Pipeline!vars => UNCHANGED PipelineP!vars
  BY DEF Pipeline!vars, PipelineP!vars, Pipeline!scan, PipelineP!scan, Pipeline!archive,
         PipelineP!archive, Pipeline!browser, PipelineP!browser
<1>3. Pipeline!Next => PipelineP!Next
  BY DEF Pipeline!Next, PipelineP!Next, Pipeline!scan, PipelineP!scan, Pipeline!archive,
         PipelineP!archive, Pipeline!browser, PipelineP!browser, Pipeline!Tick, PipelineP!Tick,
         Pipeline!Publish, PipelineP!Publish, Pipeline!Store, PipelineP!Store,
         Pipeline!Acknowledge, PipelineP!Acknowledge, Pipeline!Submit, PipelineP!Submit,
         Pipeline!Answer, PipelineP!Answer, Pipeline!Render, PipelineP!Render, Pipeline!Fail,
         PipelineP!Fail, Pipeline!LatestSnapshots, PipelineP!LatestSnapshots, Pipeline!Newest,
         PipelineP!Newest, Pipeline!Stamp, PipelineP!Stamp, Pipeline!Feed!Records,
         PipelineP!Feed!Records, Pipeline!Feed!Tick, PipelineP!Feed!Tick,
         Pipeline!Feed!Publish, PipelineP!Feed!Publish, Pipeline!Feed!InOrder,
         PipelineP!Feed!InOrder, Pipeline!Archive!PublishedRows,
         PipelineP!Archive!PublishedRows, Pipeline!Archive!Archive, PipelineP!Archive!Archive,
         Pipeline!Archive!Acknowledge, PipelineP!Archive!Acknowledge,
         Pipeline!Archive!FullyArchived, PipelineP!Archive!FullyArchived, Pipeline!RowsOf,
         PipelineP!RowsOf, Pipeline!Records, PipelineP!Records
<1> QED BY <1>1, <1>2, <1>3

--------------------------------------------------------------------------------
(* The WebApi in the system *)

\* The page only reads.
LEMMA PageLeavesTopic == PageStep => topic' = topic
  BY DEF PageStep, Pipeline!Submit, Pipeline!Answer, Pipeline!Render, Pipeline!Fail, Pipeline!scan

\* The system is a behaviour of RegionScan.
LEMMA SystemScans == Spec => ScanP!Spec
<1>1. Init => ScanP!Init
  BY SameScan DEF Init
<1>2. [Next]_vars => [ScanP!Next]_(ScanP!vars)
  BY SameScan, PageLeavesTopic DEF Next, ScanStep, WorkerStep, PageStep, vars, webApi, ScanP!vars
<1> QED BY <1>1, <1>2, PTL DEF Spec, ScanP!Spec

\* By its refinement theorem the topic is a ScanFeed.
LEMMA SystemFeeds == Spec => Pipeline!Feed!Init /\ [][Pipeline!Feed!Next]_(Pipeline!Feed!vars)
<1>1. ScanP!SchedulerAssumption /\ ScanP!BoundAssumption
  BY IdentityAssumption, BoundAssumption DEF ScanP!SchedulerAssumption, ScanP!BoundAssumption
<1>2. ScanP!Feed!Init => Pipeline!Feed!Init
  BY DEF ScanP!Feed!Init, Pipeline!Feed!Init
<1>3. [ScanP!Feed!Next]_(ScanP!Feed!vars) => [Pipeline!Feed!Next]_(Pipeline!Feed!vars)
  BY DEF ScanP!Feed!Next, Pipeline!Feed!Next, ScanP!Feed!vars, Pipeline!Feed!vars,
         ScanP!Feed!Tick, Pipeline!Feed!Tick, ScanP!Feed!Publish, Pipeline!Feed!Publish,
         ScanP!Feed!InOrder, Pipeline!Feed!InOrder, ScanP!Feed!Records, Pipeline!Feed!Records
<1>4. ScanP!Spec => ScanP!FeedSpec
  BY <1>1, ScanP!ScanImplementsFeed
<1> QED BY <1>2, <1>3, <1>4, SystemScans, PTL DEF ScanP!FeedSpec, ScanP!Feed!Spec

\* The clock and the topic grow within their bounds only.
LEMMA ScanIsBounded ==
    BoundInv /\ ScanStep => /\ now' # now => now < MaxTime
                            /\ topic' # topic => Len(topic) < MaxTopic
  BY DEF ScanStep, Scan!Next, Scan!Advance, Scan!Notify, Scan!TimerTick, Scan!StartScan,
         Scan!EndScan, Scan!FetchOk, Scan!FetchEmpty, Scan!Produce, Scan!Send, Scan!PublishOk,
         Scan!PublishFail, Scan!Cancel, Scan!Forget, Scan!Crash

\* BoundInv holds initially.
LEMMA BoundInit == Init => BoundInv
  BY BoundAssumption DEF Init, Scan!Init, BoundInv

\* While BoundInv holds, a record of the feed is one of the system's.
LEMMA PublishedIsRecord ==
    ASSUME BoundInv, NEW r \in Pipeline!Feed!Records
    PROVE  r \in Records
  BY BoundAssumption DEF BoundInv, Pipeline!Feed!Records, Records

\* A step the feed allows keeps BoundInv.
LEMMA BoundStep == BoundInv /\ [Next]_vars /\ FeedStep => BoundInv'
<1> SUFFICES ASSUME BoundInv, [Next]_vars, FeedStep PROVE BoundInv'
  OBVIOUS
<1>1. now' # now => now < MaxTime
  BY ScanIsBounded DEF Next, vars, webApi, WorkerStep, PageStep
<1>2. now' \in 0..MaxTime
  BY <1>1, BoundAssumption DEF BoundInv, FeedStep, Pipeline!Feed!Next, Pipeline!Feed!Tick,
         Pipeline!Feed!Publish, Pipeline!Feed!vars
<1>3. topic' \in Seq(Records)
  <2>1. ASSUME NEW e \in Pipeline!Feed!Records, Pipeline!Feed!Publish(e)
        PROVE  topic' \in Seq(Records)
    BY <2>1, PublishedIsRecord DEF BoundInv, Pipeline!Feed!Publish
  <2> QED BY <2>1
             DEF BoundInv, FeedStep, Pipeline!Feed!Next, Pipeline!Feed!Tick, Pipeline!Feed!vars
<1> QED BY <1>2, <1>3 DEF BoundInv

\* So BoundInv always holds.
LEMMA Bounded == Spec => []BoundInv
<1>1. BoundInv /\ [Next]_vars /\ [Pipeline!Feed!Next]_(Pipeline!Feed!vars) => BoundInv'
  BY BoundStep DEF FeedStep
<1> QED BY <1>1, BoundInit, SystemFeeds, PTL DEF Spec

--------------------------------------------------------------------------------
(* The worker in the system *)

\* The WebApi leaves the topic alone or appends an event the worker knows.
LEMMA TopicStep ==
    ASSUME BoundInv, ScanStep, FeedStep
    PROVE  \/ topic' = topic
           \/ \E e \in Records : Len(topic) < MaxTopic /\ topic' = Append(topic, e)
<1>1. ASSUME NEW e \in Pipeline!Feed!Records, Pipeline!Feed!Publish(e)
      PROVE  e \in Records /\ topic' = Append(topic, e)
  BY <1>1, PublishedIsRecord DEF Pipeline!Feed!Publish
<1>2. topic' # topic => Len(topic) < MaxTopic
  BY ScanIsBounded
<1> QED BY <1>1, <1>2 DEF FeedStep, Pipeline!Feed!Next, Pipeline!Feed!Tick, Pipeline!Feed!vars

\* A step of the system is one of the worker, Produce included, or changes nothing of its.
LEMMA WriterStep ==
    ASSUME BoundInv, [Next]_vars, FeedStep
    PROVE  [WriterP!Next]_(WriterP!vars)
<1>1. CASE ScanStep
  <2>1. UNCHANGED worker
    BY <1>1 DEF ScanStep
  <2>2. CASE topic' = topic
    BY <2>1, <2>2 DEF worker, WriterP!vars
  <2>3. ASSUME NEW e \in Records, Len(topic) < MaxTopic, topic' = Append(topic, e)
        PROVE  WriterP!Produce(Region, e)
    BY <2>1, <2>3 DEF worker, WriterP!Produce
  <2> QED BY <1>1, <2>2, <2>3, TopicStep DEF WriterP!Next, WriterP!Messages
<1>2. CASE WorkerStep
  BY <1>2, SameWriter
<1>3. CASE PageStep \/ UNCHANGED vars
  BY <1>3, PageLeavesTopic DEF PageStep, vars, worker, WriterP!vars
<1> QED BY <1>1, <1>2, <1>3 DEF Next

\* The system is a behaviour of ClickHouseWriter over the region's topic.
LEMMA SystemWrites == Spec => WriterP!Spec
<1>1. Init => WriterP!Init
  BY DEF Init, Scan!Init, WriterP!Init
<1>2. BoundInv /\ [Next]_vars /\ [Pipeline!Feed!Next]_(Pipeline!Feed!vars)
          => [WriterP!Next]_(WriterP!vars)
  BY WriterStep DEF FeedStep
<1> QED BY <1>1, <1>2, Bounded, SystemFeeds, PTL DEF Spec, WriterP!Spec

\* What that module assumes of its constants holds of those it is given.
LEMMA WriterAssumptions ==
    /\ WriterP!MessageAssumption
    /\ WriterP!ContentAssumption
    /\ WriterP!ResultAssumption
    /\ WriterP!BoundAssumption
  BY IdentityAssumption, BoundAssumption, CatalogueAssumption
     DEF WriterP!MessageAssumption, WriterP!ContentAssumption, WriterP!ResultAssumption,
         WriterP!BoundAssumption, WriterP!Results, Writer!Results, Keys, Records

\* By its refinement theorem the table is a SnapshotArchive.
LEMMA SystemArchives ==
    Spec => WriterP!Archive!Init /\ [][WriterP!Archive!Next]_(WriterP!Archive!vars)
<1>1. WriterP!Spec => WriterP!ArchiveSpec
  BY WriterAssumptions, WriterP!WriterImplementsArchive
<1> QED BY <1>1, SystemWrites, PTL DEF WriterP!ArchiveSpec, WriterP!Archive!Spec

--------------------------------------------------------------------------------
(* The pipeline *)

\* The rows the worker makes of an event are, to the page, those the pipeline makes of it.
LEMMA SameRows ==
    ASSUME NEW e \in Records
    PROVE  Pipeline!RowsOf[Region][e] = Shown(WriterP!RowsOf[Region][e])
<1> DEFINE listed == DOMAIN Catalogue[e.data]
           row(j) == <<Region, e, Catalogue[e.data][j]>>
           view(j) == [item |-> Catalogue[e.data][j], record |-> e]
<1>1. e.data \in 0..MaxTime /\ Pipeline!Records = Records
  BY DEF Records, Pipeline!Records
<1>2. WriterP!RowsOf[Region][e] = {row(j) : j \in listed}
  BY DEF WriterP!RowsOf, WriterP!RowKey, WriterP!Messages
<1>3. Pipeline!RowsOf[Region][e] = {[item |-> i, record |-> e] : i \in Listed[e.data]}
  BY <1>1 DEF Pipeline!RowsOf
<1>4. Listed[e.data] = {Catalogue[e.data][j] : j \in listed}
  BY <1>1 DEF Listed
<1>5. Pipeline!RowsOf[Region][e] = {view(j) : j \in listed}
  BY <1>3, <1>4, Zenon
<1>6. \A j \in listed : [item |-> row(j)[3], record |-> row(j)[2]] = view(j)
  OBVIOUS
<1>7. Shown({row(j) : j \in listed}) = {view(j) : j \in listed}
  <2> HIDE DEF row, view, listed
  <2> QED BY <1>6 DEF Shown
<1> QED BY <1>2, <1>5, <1>7

\* Records of the topic are events.
LEMMA InLog ==
    ASSUME BoundInv, NEW i \in 1..Len(topic)
    PROVE  topic[i] \in Records
  BY DEF BoundInv

\* Rows the archive takes from the worker are a Store of the pipeline.
LEMMA StoreShown ==
    ASSUME BoundInv, UNCHANGED <<webApi, topic, browser>>,
           NEW rows, rows \subseteq WriterP!Archive!PublishedRows, WriterP!Archive!Archive(rows)
    PROVE  Pipeline!Next
<1>1. Archived' = Archived \cup Shown(rows) /\ committed' = committed
  BY DEF WriterP!Archive!Archive, Archived, Shown
<1>2. Shown(rows) \subseteq Pipeline!Archive!PublishedRows
  <2> SUFFICES ASSUME NEW row \in rows
               PROVE  [item |-> row[3], record |-> row[2]] \in Pipeline!Archive!PublishedRows
    BY DEF Shown
  <2>1. PICK i \in 1..Len(topic) : row \in WriterP!RowsOf[Region][topic[i]]
    BY DEF WriterP!Archive!PublishedRows
  <2>2. [item |-> row[3], record |-> row[2]] \in Pipeline!RowsOf[Region][topic[i]]
    BY <2>1, InLog, SameRows DEF Shown
  <2> QED BY <2>2 DEF Pipeline!Archive!PublishedRows
<1>3. Pipeline!Store(Shown(rows))
  BY <1>1, <1>2
     DEF Pipeline!Store, Pipeline!Archive!Archive, Pipeline!scan, Pipeline!browser, webApi,
         browser
<1> QED BY <1>2, <1>3 DEF Pipeline!Next

\* A commit of the worker is an Acknowledge of the pipeline.
LEMMA AcknowledgeShown ==
    ASSUME BoundInv, UNCHANGED <<webApi, topic, browser>>,
           NEW n \in committed[Region]..Len(topic), committed[Region] \in Nat,
           WriterP!Archive!Acknowledge(Region, n)
    PROVE  Pipeline!Next
<1>1. Archived' = Archived
  BY DEF WriterP!Archive!Acknowledge, Archived
<1>2. Pipeline!Archive!FullyArchived(Region, n)
  <2> SUFFICES ASSUME NEW i \in 1..n PROVE Pipeline!RowsOf[Region][topic[i]] \subseteq Archived
    BY DEF Pipeline!Archive!FullyArchived
  <2>1. WriterP!RowsOf[Region][topic[i]] \subseteq table
    BY DEF WriterP!Archive!Acknowledge, WriterP!Archive!FullyArchived
  <2>2. i \in 1..Len(topic)
    BY DEF BoundInv
  <2> QED BY <2>1, <2>2, InLog, SameRows DEF Shown, Archived
<1>3. Pipeline!Acknowledge(n)
  BY <1>1, <1>2
     DEF Pipeline!Acknowledge, Pipeline!Archive!Acknowledge, WriterP!Archive!Acknowledge,
         Pipeline!scan, Pipeline!browser, webApi, browser
<1> QED BY <1>3 DEF Pipeline!Next

\* The WebApi takes Tick, Publish or no step of the pipeline.
LEMMA ScanShown ==
    ASSUME BoundInv, ScanStep, FeedStep
    PROVE  [Pipeline!Next]_(Pipeline!vars)
<1>1. UNCHANGED <<Pipeline!archive, Pipeline!browser>>
  BY DEF ScanStep, worker, browser, Pipeline!archive, Pipeline!browser, Archived
<1>2. CASE Pipeline!Feed!Tick
  <2>1. now < MaxTime
    BY <1>2, ScanIsBounded DEF Pipeline!Feed!Tick, BoundInv
  <2> QED BY <1>1, <1>2, <2>1 DEF Pipeline!Next, Pipeline!Tick
<1>3. ASSUME NEW e \in Pipeline!Feed!Records, Pipeline!Feed!Publish(e) PROVE Pipeline!Next
  <2>1. topic' # topic
    BY <1>3, PublishedIsRecord DEF Pipeline!Feed!Publish, BoundInv
  <2>2. Len(topic) < MaxTopic
    BY <2>1, ScanIsBounded
  <2> QED BY <1>1, <1>3, <2>2 DEF Pipeline!Next, Pipeline!Publish
<1>4. CASE UNCHANGED Pipeline!Feed!vars
  BY <1>1, <1>4 DEF Pipeline!Feed!vars, Pipeline!vars, Pipeline!scan
<1> QED BY <1>2, <1>3, <1>4 DEF FeedStep, Pipeline!Feed!Next

\* The worker takes Store, Acknowledge or no step of the pipeline.
LEMMA WorkerShown ==
    ASSUME BoundInv, WriterP!TypeOK, WorkerStep, ArchiveStep
    PROVE  [Pipeline!Next]_(Pipeline!vars)
<1>1. UNCHANGED <<webApi, topic, browser>>
  BY DEF WorkerStep
<1>2. ASSUME NEW t \in {Region}, NEW m \in WriterP!Messages, WriterP!Archive!Publish(t, m)
      PROVE  FALSE
  <2>1. Log' = [Log EXCEPT ![Region] = Append(topic, m)]
    BY <1>2 DEF WriterP!Archive!Publish, Log
  <2>2. topic = Append(topic, m)
    BY <1>1, <2>1 DEF Log
  <2>3. topic \in Seq(WriterP!Messages)
    BY DEF BoundInv, WriterP!Messages
  <2> QED BY <2>2, <2>3
<1>3. ASSUME NEW t \in {Region}, NEW n \in committed[t]..Len(Log[t]),
             WriterP!Archive!Acknowledge(t, n)
      PROVE  Pipeline!Next
  <2>1. committed[Region] \in Nat
    BY DEF WriterP!TypeOK
  <2>2. n \in committed[Region]..Len(topic) /\ WriterP!Archive!Acknowledge(Region, n)
    BY <1>3 DEF Log
  <2> QED BY <1>1, <2>1, <2>2, AcknowledgeShown
<1>4. ASSUME NEW rows \in SUBSET WriterP!Archive!PublishedRows, WriterP!Archive!Archive(rows)
      PROVE  Pipeline!Next
  BY <1>1, <1>4, StoreShown
<1>5. CASE UNCHANGED WriterP!Archive!vars
  BY <1>1, <1>5
     DEF WriterP!Archive!vars, Pipeline!vars, Pipeline!scan, Pipeline!archive,
         Pipeline!browser, webApi, browser, Archived
<1> QED BY <1>2, <1>3, <1>4, <1>5 DEF ArchiveStep, WriterP!Archive!Next, Log

\* Every step of the system is a step of the pipeline or a stutter.
LEMMA PipelineStep ==
    ASSUME BoundInv, WriterP!TypeOK, [Next]_vars, FeedStep, ArchiveStep
    PROVE  [Pipeline!Next]_(Pipeline!vars)
<1>1. CASE ScanStep
  BY <1>1, ScanShown
<1>2. CASE WorkerStep
  BY <1>2, WorkerShown
<1>3. CASE PageStep
  BY <1>3 DEF PageStep, Pipeline!Next
<1>4. CASE UNCHANGED vars
  BY <1>4
     DEF vars, webApi, worker, browser, Pipeline!vars, Pipeline!scan, Pipeline!archive,
         Pipeline!browser, Archived
<1> QED BY <1>1, <1>2, <1>3, <1>4 DEF Next

\* PipelineSpec: with the services as they are coded, instead of their promises, the whole is
\* a behaviour of FuelPipeline, for all numbers of scans, records, deaths and restarts.
THEOREM SystemImplementsPipeline == Spec => PipelineSpec
<1>1. Init => Pipeline!Init
  BY DEF Init, Scan!Init, Pipeline!Init, Pipeline!Feed!Init, Archived
<1>2. BoundInv /\ WriterP!TypeOK /\ [Next]_vars /\ [Pipeline!Feed!Next]_(Pipeline!Feed!vars)
          /\ [WriterP!Archive!Next]_(WriterP!Archive!vars) => [Pipeline!Next]_(Pipeline!vars)
  BY PipelineStep DEF FeedStep, ArchiveStep
<1>3. WriterP!Spec => []WriterP!TypeOK
  BY WriterAssumptions, WriterP!WriterTypeOK
<1> QED BY <1>1, <1>2, <1>3, Bounded, SystemFeeds, SystemWrites, SystemArchives, PTL
        DEF Spec, PipelineSpec, Pipeline!Spec

--------------------------------------------------------------------------------
(* From the fuel API to the screen *)

\* So the theorems about FuelPipeline apply to the system.
LEMMA SystemIsPipeline == Spec => PipelineP!Spec
  BY SystemImplementsPipeline, SamePipeline, PTL DEF PipelineSpec, Pipeline!Spec, PipelineP!Spec

\* What FuelPipeline assumes of its constants holds of those it is given.
LEMMA PipelineAssumptions ==
    /\ PipelineP!ItemAssumption
    /\ PipelineP!OfferAssumption
    /\ PipelineP!CallerAssumption
    /\ PipelineP!BoundAssumption
<1>1. Listed \in [0..MaxTime -> SUBSET Keys]
  BY CatalogueAssumption DEF Listed
<1>2. PipelineP!ItemAssumption
  BY <1>1, FuelAssumption DEF PipelineP!ItemAssumption
<1>3. PipelineP!OfferAssumption
  BY OfferAssumption DEF PipelineP!OfferAssumption, PipelineP!Statuses, Pipeline!Statuses
<1> QED BY <1>2, <1>3, IdentityAssumption, BoundAssumption
           DEF PipelineP!CallerAssumption, PipelineP!BoundAssumption

\* PageNeverGoesBack: a page never shows less or older data than the page before, through
\* producer retries, failed inserts and commits, deaths and rebalances.
THEOREM SystemPagesMoveForward == Spec => []PageNeverGoesBack
<1>1. PipelineP!Spec => []PipelineP!PageNeverGoesBack
  BY PipelineAssumptions, PipelineP!PagesMoveForward
<1>2. PipelineP!PageNeverGoesBack => PageNeverGoesBack
  BY DEF PageNeverGoesBack, Pipeline!PageNeverGoesBack, PipelineP!PageNeverGoesBack,
         Pipeline!NotOlder, PipelineP!NotOlder, Pipeline!Stamp, PipelineP!Stamp,
         Pipeline!Scheduled, PipelineP!Scheduled
<1> QED BY <1>1, <1>2, SystemIsPipeline, PTL

\* CommittedIsVisible: a scan whose offset the worker has committed is on the pages asked for
\* from then on.
THEOREM SystemShowsCommitted == Spec => []CommittedIsVisible
<1>1. PipelineP!Spec => []PipelineP!CommittedIsVisible
  BY PipelineAssumptions, PipelineP!CommittedIsShown
<1>2. PipelineP!CommittedIsVisible => CommittedIsVisible
  BY DEF CommittedIsVisible, Pipeline!CommittedIsVisible, PipelineP!CommittedIsVisible,
         Pipeline!NotOlder, PipelineP!NotOlder, Pipeline!Stamp, PipelineP!Stamp,
         Pipeline!Scheduled, PipelineP!Scheduled, Pipeline!RowsOf, PipelineP!RowsOf,
         Pipeline!Records, PipelineP!Records
<1> QED BY <1>1, <1>2, SystemIsPipeline, PTL
================================================================================
