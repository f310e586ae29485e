---------------------------- MODULE SnapshotPushes ----------------------------
(***************************************************************************)
(* What the subscribers of the regions' ntfy topics may rely on, whatever  *)
(* Kafka's offsets, commits and errors do inside the worker: the worker    *)
(* asks for one push at a time and, each time it has joined its group,     *)
(* for a region's snapshots in their order, none twice and none left out   *)
(* in between; each post is distributed once or not at all, and only a     *)
(* post nobody waits for any more may come late.                           *)
(* NotificationWorker implements this specification.                       *)
(***************************************************************************)
EXTENDS Naturals, Sequences

CONSTANTS
    Regions,     \* topics
    Records,     \* what a record of a topic can hold
    Snapshots,   \* the records to be announced
    Nothing      \* no post

VARIABLES
    log,       \* log[t]: the records of topic t
    join,      \* times the worker joined its group
    asked,     \* asked[t]: the records of t posted since it last joined
    waiting,   \* the post the worker waits for
    stray,     \* posts nobody waits for that may still be distributed
    pushes     \* pushes[t]: what was distributed, by offset

worker == <<join, asked, waiting>>
vars == <<log, worker, stray, pushes>>

Init ==
    /\ log = [t \in Regions |-> <<>>]
    /\ join = 0
    /\ asked = [t \in Regions |-> {}]
    /\ waiting = Nothing
    /\ stray = {}
    /\ pushes = [t \in Regions |-> <<>>]

Publish(t, r) ==
    /\ log' = [log EXCEPT ![t] = Append(@, r)]
    /\ UNCHANGED <<worker, stray, pushes>>

\* Record i comes after all those asked for, and no snapshot lies between.
IsNext(t, i) ==
    /\ \A j \in asked[t] : j < i
    /\ \A j \in asked[t] : \A k \in j + 1 .. i - 1 : log[t][k] \in Snapshots => k \in asked[t]

Ask(t, i) ==
    /\ waiting = Nothing
    /\ log[t][i] \in Snapshots
    /\ IsNext(t, i)
    /\ asked' = [asked EXCEPT ![t] = @ \cup {i}]
    /\ waiting' = [topic |-> t, offset |-> i, join |-> join]
    /\ UNCHANGED <<log, join, stray, pushes>>

Distribute(post) ==
    pushes' = [pushes EXCEPT ![post.topic] = Append(@, post.offset)]

Push ==
    /\ waiting # Nothing
    /\ Distribute(waiting)
    /\ waiting' = Nothing
    /\ UNCHANGED <<log, join, asked, stray>>

\* The post is lost, or it may still come.
GiveUp ==
    /\ waiting # Nothing
    /\ waiting' = Nothing
    /\ stray' \in {stray, stray \cup {waiting}}
    /\ UNCHANGED <<log, join, asked, pushes>>

PushLate(post) ==
    /\ Distribute(post)
    /\ stray' = stray \ {post}
    /\ UNCHANGED <<log, worker>>

\* The worker is gone and forgets what it asked for.
Die ==
    /\ waiting' = Nothing
    /\ stray' \in {stray, stray \cup ({waiting} \ {Nothing})}
    /\ asked' = [t \in Regions |-> {}]
    /\ UNCHANGED <<log, join, pushes>>

\* The worker is back, or its client joins again while it waits: it may ask anew.
Join ==
    /\ join' = join + 1
    /\ asked' = [t \in Regions |-> {}]
    /\ UNCHANGED <<log, waiting, stray, pushes>>

Next ==
    \/ \E t \in Regions, r \in Records : Publish(t, r)
    \/ \E t \in Regions : \E i \in 1..Len(log[t]) : Ask(t, i)
    \/ Push
    \/ GiveUp
    \/ \E post \in stray : PushLate(post)
    \/ Die
    \/ Join

Spec == Init /\ [][Next]_vars
================================================================================
