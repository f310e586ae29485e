------------------------------ MODULE MCRegionScan ------------------------------
(* The instances of RegionScan that TLC checks. *)
EXTENDS RegionScan

CONSTANTS r1
================================================================================
