-------------------------------- MODULE ScanFeed --------------------------------
(***************************************************************************)
(* What a regional WebApi promises to the readers of its snapshot topic,   *)
(* whatever its scheduler, its /notify calls and its Kafka producer do     *)
(* inside: a record is stamped between the moment its data shows and the   *)
(* moment it appears; of the scheduler's records those of one scan are     *)
(* copies, and a later scan has fetched after every earlier one was        *)
(* stamped.  They may appear in any order.  RegionScan implements this     *)
(* specification.                                                          *)
(***************************************************************************)
EXTENDS Naturals, Sequences

CONSTANTS
    Requests,    \* POST /notify calls
    Scheduler,   \* the caller FuelBackgroundScheduler
    MaxScans     \* bound: scans the scheduler starts

VARIABLES
    now,    \* the clock, and at once the state of the stations
    topic   \* the region's snapshot topic

vars == <<now, topic>>

\* The records that can exist at the present time.
Records ==
    [caller : Requests, scan : {0}, data : 0..now, occurredOn : 0..now]
        \cup [caller : {Scheduler}, scan : 1..MaxScans, data : 0..now, occurredOn : 0..now]

InOrder(e, f) ==
    e.caller = Scheduler /\ f.caller = Scheduler =>
        /\ e.scan = f.scan => e = f
        /\ e.scan < f.scan => e.occurredOn <= f.data

Init == now = 0 /\ topic = <<>>

Tick ==
    /\ now' = now + 1
    /\ UNCHANGED topic

Publish(e) ==
    /\ e.data <= e.occurredOn
    /\ \A i \in 1..Len(topic) : InOrder(e, topic[i]) /\ InOrder(topic[i], e)
    /\ topic' = Append(topic, e)
    /\ UNCHANGED now

Next == Tick \/ \E e \in Records : Publish(e)

Spec == Init /\ [][Next]_vars
================================================================================
