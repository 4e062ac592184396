--------------------------- MODULE RestoreHistory ---------------------------
(***************************************************************************)
(* What a node's offsite backup promises about its history (BACKUP-058):   *)
(* once a history is the node's, the node adds to that one only and starts *)
(* no other, until an operator decides to.  The destination may be lost or *)
(* replaced by others at any time; the promise is that the node never      *)
(* covers it up.  NodeBackup implements it.                                *)
(***************************************************************************)
CONSTANTS Ids, NoId

VARIABLES
    destination,    \* the repository at the destination, or NoId
    kept,           \* it holds a restore point
    pinned          \* the repository the node holds to: NoId while it has none

vars == <<destination, kept, pinned>>

Init == destination = NoId /\ kept = FALSE /\ pinned = NoId

\* A history starts only where there is none, for a node that holds to none.
Start ==
    /\ destination = NoId /\ pinned = NoId
    /\ destination' \in Ids
    /\ kept' = FALSE
    /\ UNCHANGED pinned

\* A restore point is added, to the history the node holds to if it holds to one.
Grow ==
    /\ destination \in Ids
    /\ pinned \in {NoId, destination}
    /\ kept' = TRUE
    /\ UNCHANGED <<destination, pinned>>

\* The node holds to a history only once it has a restore point.
Pin ==
    /\ pinned = NoId /\ kept
    /\ pinned' = destination
    /\ UNCHANGED <<destination, kept>>

\* Others delete the repository, or put another in its place.
Disaster ==
    /\ destination \in Ids
    /\ destination' \in (Ids \cup {NoId}) \ {destination}
    /\ kept' = FALSE
    /\ UNCHANGED pinned

\* Others write over the node's record: what it then holds is no repository.
Tamper ==
    /\ pinned' \notin Ids \cup {NoId}
    /\ UNCHANGED <<destination, kept>>

\* The operator's decision to let a new history start.
Accept == pinned' = NoId /\ UNCHANGED <<destination, kept>>

Next == Start \/ Grow \/ Pin \/ Disaster \/ Tamper \/ Accept

Spec == Init /\ [][Next]_vars
=============================================================================
