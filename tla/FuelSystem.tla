------------------------------- MODULE FuelSystem -------------------------------
(***************************************************************************)
(* FuelPipeline with the services as they are coded: a regional WebApi     *)
(* (RegionScan) publishes to the topic ClickHouseWorker (ClickHouseWriter) *)
(* reads, and the page reads the table the worker writes.  The three       *)
(* share nothing else and run concurrently.  Each variable is that of its  *)
(* module; calls is the pc of RegionScan, stage the pc of ClickHouseWriter *)
(* and Archived the archive of FuelPipeline.                               *)
(***************************************************************************)
EXTENDS Integers, Sequences

CONSTANTS
    Region,               \* the region whose page is open
    Requests, Scheduler,  \* callers of the scan
    NoEvent,              \* a call that has built no event yet
    Items, MissingKey,    \* StationId and FuelType of a row; one of them is null
    FuelOf,               \* FuelOf[i]: the FuelType of i, without regard to case
    Catalogue,            \* Catalogue[n]: the items the fuel API lists at time n, in order
    Offer,                \* Offer[n][i]: what the API says of item i at time n
    NoFuel,               \* nothing selected
    NoResult,             \* the null ConsumeResult
    JsonNull, Garbage,    \* records that hold no event
    MaxTime,              \* bound: the clock
    MaxScans,             \* bound: scans the scheduler starts
    MaxTopic,             \* bound: records of the topic
    MaxCrashes,           \* bound: deaths of the WebApi
    MaxRestarts,          \* bound: restarts and rebalances of the worker
    MaxStations           \* bound: stations of a kind in a chart

VARIABLES
    now, calls, fetched, event, outbox, sched, tick, scans, crashes,  \* WebApi
    topic,                                                            \* Kafka
    position, committed, buffer, last, stage, table, restarts,        \* ClickHouseWorker
    page, fuel, answer, asOf, seen                                    \* the page

webApi == <<now, calls, fetched, event, outbox, sched, tick, scans, crashes>>
worker == <<position, committed, buffer, last, stage, table, restarts>>
browser == <<page, fuel, answer, asOf, seen>>
vars == <<webApi, topic, worker, browser>>

Records == [caller : Requests \cup {Scheduler}, scan : 0..MaxScans,
            data : 0..MaxTime, occurredOn : 0..MaxTime]

Keys == Items \cup {MissingKey}

Listed == [n \in 0..MaxTime |-> {Catalogue[n][j] : j \in DOMAIN Catalogue[n]}]

\* What the query finds: the table's key is region, event and item.
Archived == {[item |-> row[3], record |-> row[2]] : row \in table}

Scan == INSTANCE RegionScan WITH pc <- calls
Writer == INSTANCE ClickHouseWriter
    WITH Topics <- {Region}, Events <- Records, Content <- [e \in Records |-> Catalogue[e.data]],
         MaxLog <- MaxTopic, log <- [t \in {Region} |-> topic], pc <- stage
Pipeline == INSTANCE FuelPipeline WITH Items <- Keys, acked <- committed, archived <- Archived

ASSUME CatalogueAssumption == Catalogue \in [0..MaxTime -> Seq(Keys)]
ASSUME FuelAssumption == DOMAIN FuelOf = Keys /\ \A i \in Keys : FuelOf[i] # NoFuel
ASSUME OfferAssumption ==
    Offer \in [0..MaxTime -> [Keys -> [status : Pipeline!Statuses, limited : BOOLEAN]]]
ASSUME IdentityAssumption ==
    /\ Scheduler \notin Requests
    /\ JsonNull \notin Records /\ Garbage \notin Records /\ JsonNull # Garbage
    /\ NoResult \notin Writer!Results
ASSUME BoundAssumption ==
    /\ MaxTime \in Nat /\ MaxScans \in Nat /\ MaxTopic \in Nat
    /\ MaxCrashes \in Nat /\ MaxRestarts \in Nat /\ MaxStations \in Nat

Init ==
    /\ Scan!Init
    /\ position = [t \in {Region} |-> 0]
    /\ committed = [t \in {Region} |-> 0]
    /\ buffer = <<>>
    /\ last = NoResult
    /\ stage = "poll"
    /\ table = {}
    /\ restarts = 0
    /\ page = "ready"
    /\ fuel = NoFuel
    /\ answer = {}
    /\ asOf = 0
    /\ seen = {}

\* A step of the WebApi: what its producer sends, the worker is handed.
ScanStep ==
    /\ UNCHANGED <<worker, browser>>
    /\ Scan!Next

\* A step of the worker's loop; the topic holds events only, so other records never reach it.
WorkerStep ==
    /\ UNCHANGED <<webApi, topic, browser>>
    /\ \/ Writer!PollNothing
       \/ Writer!PollEvent(Region)
       \/ Writer!SaveOk
       \/ Writer!SaveFail
       \/ Writer!CommitOk
       \/ Writer!CommitFail
       \/ Writer!Restart
       \/ Writer!Rebalance

\* A step of the page, which only reads.
PageStep ==
    /\ UNCHANGED <<webApi, worker>>
    /\ \/ \E f \in {FuelOf[i] : i \in Keys} : Pipeline!Submit(f)
       \/ Pipeline!Answer
       \/ Pipeline!Render
       \/ Pipeline!Fail

Next == ScanStep \/ WorkerStep \/ PageStep

Spec == Init /\ [][Next]_vars

--------------------------------------------------------------------------------
(* Properties *)

\* The services as they are coded keep the promises the page was checked against: the whole
\* is a behaviour of FuelPipeline, whose steps are the scan's publications, the worker's
\* inserts and commits, and the page's own.
PipelineSpec == Pipeline!Spec

\* From the fuel API to the screen: no page shows of a station less or older data than the
\* page before, whatever is delayed, repeated, lost or started again.
PageNeverGoesBack == Pipeline!PageNeverGoesBack

\* A scan whose offset the worker has committed is on every page asked for after that.
CommittedIsVisible == Pipeline!CommittedIsVisible
================================================================================
