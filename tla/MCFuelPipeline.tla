----------------------------- MODULE MCFuelPipeline -----------------------------
(* The instances of FuelPipeline that TLC checks. *)
EXTENDS FuelPipeline

CONSTANTS r1, ai92, ai95, a92, a95

\* A station sells both fuels, and one of them is no longer listed at time 2.
MCFuelOf == [i \in Items |-> IF i = a92 THEN ai92 ELSE ai95]
MCListed == [n \in 0..MaxTime |-> IF n < 2 THEN Items ELSE {a92}]

\* Normal and limited, then what is not available: by each of the API's words or without one.
MCOffer ==
    [n \in 0..MaxTime |-> [i \in Items |->
        CASE i = a92 /\ n = 0 -> [status |-> "available", limited |-> FALSE]
          [] i = a92 /\ n = 1 -> [status |-> "available", limited |-> TRUE]
          [] i = a92 /\ n = 2 -> [status |-> "stale", limited |-> FALSE]
          [] i = a95 /\ n = 0 -> [status |-> "unknown", limited |-> FALSE]
          [] i = a95 /\ n > 0 -> [status |-> "none", limited |-> TRUE]]]
================================================================================
