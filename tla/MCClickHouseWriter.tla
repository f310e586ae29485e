-------------------------- MODULE MCClickHouseWriter --------------------------
(* The instances of ClickHouseWriter that TLC checks. *)
EXTENDS ClickHouseWriter, TLC

CONSTANTS pskov, novgorod, e1, e2, i1, i2

\* e1 repeats an item, as an API answer may.
MCContent == (e1 :> <<i1, i1>>)

\* e2 lost the fuel type of its second item.
MCPoisonedContent == (e1 :> <<i1>>) @@ (e2 :> <<i2, MissingKey>>)
================================================================================
