---------------------------- MODULE SnapshotArchive ----------------------------
(***************************************************************************)
(* What the archive of fuel snapshots promises to the producers of the     *)
(* snapshot topics, whatever the worker does inside: rows reach the        *)
(* archive only from published messages and never leave it, and a message  *)
(* is acknowledged to Kafka (it will not be delivered again) only when     *)
(* every row it carries is in the archive.  ClickHouseWriter implements    *)
(* this specification.                                                     *)
(***************************************************************************)
EXTENDS Naturals, Sequences

CONSTANTS
    Topics,     \* partitions of the snapshot topics
    Messages,   \* what a record of a topic can hold
    RowsOf      \* RowsOf[t][m]: the archive rows message m of topic t stands for

VARIABLES
    log,        \* log[t]: the messages published to t, in order
    acked,      \* acked[t]: the messages before this offset are acknowledged
    archived    \* the rows the archive answers queries from

vars == <<log, acked, archived>>

PublishedRows ==
    UNION {UNION {RowsOf[t][log[t][i]] : i \in 1..Len(log[t])} : t \in Topics}

FullyArchived(t, n) == \A i \in 1..n : RowsOf[t][log[t][i]] \subseteq archived

Init ==
    /\ log = [t \in Topics |-> <<>>]
    /\ acked = [t \in Topics |-> 0]
    /\ archived = {}

Publish(t, m) ==
    /\ log' = [log EXCEPT ![t] = Append(@, m)]
    /\ UNCHANGED <<acked, archived>>

Archive(rows) ==
    /\ rows \subseteq PublishedRows
    /\ archived' = archived \cup rows
    /\ UNCHANGED <<log, acked>>

Acknowledge(t, n) ==
    /\ FullyArchived(t, n)
    /\ acked' = [acked EXCEPT ![t] = n]
    /\ UNCHANGED <<log, archived>>

Next ==
    \/ \E t \in Topics, m \in Messages : Publish(t, m)
    \/ \E t \in Topics : \E n \in acked[t]..Len(log[t]) : Acknowledge(t, n)
    \/ \E rows \in SUBSET PublishedRows : Archive(rows)

Spec == Init /\ [][Next]_vars
================================================================================
