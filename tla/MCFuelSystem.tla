------------------------------ MODULE MCFuelSystem ------------------------------
(* The instances of FuelSystem that TLC checks. *)
EXTENDS FuelSystem

CONSTANTS ai92, a92

MCFuelOf == [i \in Keys |-> ai92]

\* At first the API lists a station twice.
MCCatalogue == [n \in 0..MaxTime |-> IF n = 0 THEN <<a92, a92>> ELSE <<a92>>]

MCOffer == [n \in 0..MaxTime |-> [i \in Keys |-> [status |-> "available", limited |-> FALSE]]]
================================================================================
