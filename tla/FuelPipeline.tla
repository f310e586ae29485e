------------------------------ MODULE FuelPipeline ------------------------------
(***************************************************************************)
(* From the fuel API to the analytics page: a region's records (ScanFeed)  *)
(* are archived (SnapshotArchive), the Dashboard API reads the archive,    *)
(* the Mvc controller picks the newest row of each station and fuel, and   *)
(* a browser shows them.  The two services stand here by what they         *)
(* promise, which RegionScan and ClickHouseWriter are shown to keep.       *)
(***************************************************************************)
EXTENDS Integers, Sequences

CONSTANTS
    Region,               \* the region whose page is open
    Requests, Scheduler,  \* callers of the scan
    Items,                \* StationId and FuelType of a row
    FuelOf,               \* FuelOf[i]: the FuelType of i, without regard to case
    Listed,               \* Listed[n]: the items the fuel API lists at time n
    Offer,                \* Offer[n][i]: what the API says of item i at time n
    NoFuel,               \* nothing selected
    MaxTime,              \* bound: the clock
    MaxScans,             \* bound: scans the scheduler starts
    MaxTopic,             \* bound: records of the topic
    MaxStations           \* bound: stations of a kind in a chart

ASSUME ItemAssumption ==
    /\ DOMAIN FuelOf = Items
    /\ \A i \in Items : FuelOf[i] # NoFuel
    /\ Listed \in [0..MaxTime -> SUBSET Items]

\* availabilityStatus as far as anybody looks into it: the API's three words, null ("none"),
\* the words the chart takes for critical and for low, and any other.
Statuses == {"available", "stale", "unknown", "none", "critical", "low", "other"}

ASSUME OfferAssumption ==
    Offer \in [0..MaxTime -> [Items -> [status : Statuses, limited : BOOLEAN]]]
ASSUME CallerAssumption == Scheduler \notin Requests
ASSUME BoundAssumption ==
    MaxTime \in Nat /\ MaxScans \in Nat /\ MaxTopic \in Nat /\ MaxStations \in Nat

VARIABLES
    now, topic,       \* the scans of the region
    acked, archived,  \* ClickHouseWorker's offset and fuel_station_snapshots
    page,             \* "ready", "asking", "answered", "shown", "error"
    fuel,             \* fuelTypeSelect of the request under way, or of the last one
    answer,           \* the rows the controller has sent, then the table shows
    asOf,             \* history: the worker's offset when the archive was read
    seen              \* history: the rows of the tables shown before

scan == <<now, topic>>
archive == <<acked, archived>>
browser == <<page, fuel, answer, asOf, seen>>
vars == <<scan, archive, browser>>

Records == [caller : Requests \cup {Scheduler}, scan : 0..MaxScans,
            data : 0..MaxTime, occurredOn : 0..MaxTime]
Rows == [item : Items, record : Records]

Stamp(row) == row.record.occurredOn

\* A record becomes one row for each station and fuel the API listed.
RowsOf ==
    [t \in {Region} |-> [r \in Records |-> {[item |-> i, record |-> r] : i \in Listed[r.data]}]]

Feed == INSTANCE ScanFeed
Archive == INSTANCE SnapshotArchive
    WITH Topics <- {Region}, Messages <- Records, log <- [t \in {Region} |-> topic]

Init ==
    /\ Feed!Init
    /\ acked = [t \in {Region} |-> 0]
    /\ archived = {}
    /\ page = "ready"
    /\ fuel = NoFuel
    /\ answer = {}
    /\ asOf = 0
    /\ seen = {}

--------------------------------------------------------------------------------
(* The services, by their promises *)

Tick ==
    /\ now < MaxTime
    /\ Feed!Tick
    /\ UNCHANGED <<archive, browser>>

Publish(r) ==
    /\ Len(topic) < MaxTopic
    /\ Feed!Publish(r)
    /\ UNCHANGED <<archive, browser>>

Store(rows) ==
    /\ UNCHANGED <<scan, browser>>
    /\ Archive!Archive(rows)

Acknowledge(n) ==
    /\ UNCHANGED <<scan, browser>>
    /\ Archive!Acknowledge(Region, n)

--------------------------------------------------------------------------------
(* The page *)

\* The submit handler disables the button and clears the table.
Submit(f) ==
    /\ page \in {"ready", "shown", "error"}
    /\ page' = "asking"
    /\ fuel' = f
    /\ seen' = IF page = "shown" THEN seen \cup answer ELSE seen
    /\ answer' = {}
    /\ UNCHANGED <<scan, archive, asOf>>

\* Mutant: OrderBy instead of OrderByDescending.
MutantOldest(rows) ==
    {row \in rows : \A other \in rows : other.item = row.item => Stamp(row) <= Stamp(other)}

\* OrderByDescending(Timestamp): the rows of an item that none is newer than.
Newest(rows) ==
    {row \in rows : \A other \in rows : other.item = row.item => Stamp(other) <= Stamp(row)}

\* Mutant: First without an order.
MutantAnyRow(rows) ==
    {chosen \in SUBSET rows :
        /\ \A row \in rows : \E c \in chosen : c.item = row.item
        /\ \A c, d \in chosen : c.item = d.item => c = d}

\* GroupBy and First: one of the newest rows of each item.
LatestSnapshots(rows) ==
    {chosen \in SUBSET Newest(rows) :
        /\ \A row \in rows : \E c \in chosen : c.item = row.item
        /\ \A c, d \in chosen : c.item = d.item => c = d}

\* The repository reads the region's rows in one query, the controller filters the latest.
Answer ==
    /\ page = "asking"
    /\ \E latest \in LatestSnapshots(archived) :
           answer' = {row \in latest : FuelOf[row.item] = fuel}
    /\ asOf' = acked[Region]
    /\ page' = "answered"
    /\ UNCHANGED <<scan, archive, fuel, seen>>

\* The table is drawn and the button enabled.
Render ==
    /\ page = "answered"
    /\ page' = "shown"
    /\ UNCHANGED <<scan, archive, fuel, answer, asOf, seen>>

\* Mutant: without the finally branch the button stays disabled after an error.
MutantNoFinally ==
    /\ page \in {"asking", "answered"}
    /\ page' = "disabled"
    /\ answer' = {}
    /\ UNCHANGED <<scan, archive, fuel, asOf, seen>>

\* ClickHouse, the API or the controller fails, or the answer is lost on its way.
Fail ==
    /\ page \in {"asking", "answered"}
    /\ page' = "error"
    /\ answer' = {}
    /\ UNCHANGED <<scan, archive, fuel, asOf, seen>>

--------------------------------------------------------------------------------
(* What Render draws *)

\* Mutant: any status the API gives counts as available.
MutantAvailableIfKnown(status) == status \notin {"none", "unknown"}

\* The parser compares with "available", case ignored; null is not available.
IsAvailable(status) == status = "available"

\* The state stored for a row: the parser turns a missing status into "unknown".
StateOf(row) ==
    LET offer == Offer[row.record.data][row.item] IN
    [available |-> IsAvailable(offer.status),
     status |-> IF offer.status = "none" THEN "unknown" ELSE offer.status,
     limited |-> offer.limited]

\* renderTable: the colour of a row.
RowClass(row) ==
    LET state == StateOf(row) IN
    IF state.status = "stale" \/ ~state.available THEN "danger"
    ELSE IF state.status = "unknown" \/ state.limited THEN "warning"
    ELSE "success"

\* renderChart: what a row counts as.
ChartClass(row) ==
    LET state == StateOf(row) IN
    IF state.status = "critical" \/ ~state.available THEN "danger"
    ELSE IF state.status = "low" \/ state.limited THEN "warning"
    ELSE "success"

Distance(a, b) == IF a < b THEN b - a ELSE a - b

\* Math.round(part / whole * 100); a half, inexact in floating point, may go either way.
Rounded(part, whole) ==
    {p \in 0..100 : 2 * Distance(100 * part, p * whole) <= whole}

\* Mutant: the third percentage is rounded like the others.
MutantThirdRounded(critical, warning, normal) ==
    LET total == critical + warning + normal IN
    {<<p, q, r>> : p \in Rounded(critical, total), q \in Rounded(warning, total),
                   r \in Rounded(normal, total)}

\* The widths of the bars: the third takes what the others leave, and is drawn if positive.
Bars(critical, warning, normal) ==
    LET total == critical + warning + normal IN
    {<<p, q, IF p + q < 100 THEN 100 - p - q ELSE 0>> :
        p \in Rounded(critical, total), q \in Rounded(warning, total)}

Next ==
    \/ Tick
    \/ \E r \in Feed!Records : Publish(r)
    \/ \E rows \in SUBSET Archive!PublishedRows : Store(rows)
    \/ \E n \in acked[Region]..Len(topic) : Acknowledge(n)
    \/ \E f \in {FuelOf[i] : i \in Items} : Submit(f)
    \/ Answer
    \/ Render
    \/ Fail

Spec == Init /\ [][Next]_vars

--------------------------------------------------------------------------------
(* Properties *)

\* Every variable stays in its type.
TypeOK ==
    /\ now \in 0..MaxTime
    /\ topic \in Seq(Records)
    /\ acked \in [{Region} -> 0..MaxTopic]
    /\ archived \subseteq Rows
    /\ page \in {"ready", "asking", "answered", "shown", "error"}
    /\ fuel \in {FuelOf[i] : i \in Items} \cup {NoFuel}
    /\ answer \subseteq Rows
    /\ asOf \in 0..MaxTopic
    /\ seen \subseteq Rows

Scheduled(row) == row.record.caller = Scheduler

\* row says nothing older than earlier: its stamp is not, and between two scheduled scans
\* with different stamps neither is its data.
NotOlder(row, earlier) ==
    /\ Stamp(earlier) <= Stamp(row)
    /\ Scheduled(row) /\ Scheduled(earlier) /\ Stamp(earlier) < Stamp(row)
           => earlier.record.data <= row.record.data

\* What a page has shown of a station is never followed by something older, nor by nothing,
\* however late the rows of earlier scans are archived and however often they are repeated.
PageNeverGoesBack ==
    page = "shown" =>
        \A earlier \in seen : FuelOf[earlier.item] = fuel =>
            \E row \in answer : row.item = earlier.item /\ NotOlder(row, earlier)

\* Once the worker has committed a record, every page asked for after that shows each of
\* its stations at least as new, although insert, commit and query are not coordinated.
CommittedIsVisible ==
    page = "shown" =>
        \A n \in 1..asOf : \A committed \in RowsOf[Region][topic[n]] :
            FuelOf[committed.item] = fuel =>
                \E row \in answer : row.item = committed.item /\ NotOlder(row, committed)

\* Table and chart, which classify rows by different words, agree on every row, since the
\* parser calls only the status "available" available.
ChartAgreesWithTable ==
    page = "shown" => \A row \in answer : RowClass(row) = ChartClass(row)

Faithful(critical, warning, normal, bars) ==
    LET total == critical + warning + normal IN
    /\ Distance(100 * critical, bars[1] * total) <= total
    /\ Distance(100 * warning, bars[2] * total) <= total
    /\ Distance(100 * normal, bars[3] * total) <= total
    /\ bars[1] + bars[2] + bars[3] \in {100, 101}

BarsAreFaithful ==
    \A critical, warning, normal \in 0..MaxStations :
        critical + warning + normal > 0 =>
            \A bars \in Bars(critical, warning, normal) :
                Faithful(critical, warning, normal, bars)

\* However many stations there are of each kind, every bar of a chart on view is within a
\* percent of the share it stands for, and the bars fill the scale, overflowing by at most one.
BarsMeasureShares == page = "shown" => BarsAreFaithful

\* The page's badge says "at the present moment": what it shows was in the newest scan that
\* was committed when it asked, or in a newer one.
PageIsCurrent ==
    page = "shown" =>
        \A row \in answer : \A n \in 1..asOf : topic[n].occurredOn <= Stamp(row)
================================================================================
