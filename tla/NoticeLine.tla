----------------------------- MODULE NoticeLine -----------------------------
(***************************************************************************)
(* What a node's notices are promised on their way to n8n: a unit's        *)
(* notices stand in line in the order they were made, n8n is given the     *)
(* oldest, perhaps more than once, and one leaves the line untaken only    *)
(* when it is the oldest and too old, or the newest and its script died.   *)
(* NodeNotify implements it.                                               *)
(***************************************************************************)
EXTENDS Integers

CONSTANTS Units, Kinds, Pages

VARIABLES
    made,       \* made[u]: how many notices of the unit were made
    line,       \* line[u]: those n8n may still be given
    newest,     \* newest[u]: the latest one n8n took
    alarm,      \* alarm[u]: what that one says
    dropped,    \* dropped[u]: one was dropped for its age
    deaths      \* how often a script or the node died

vars == <<made, line, newest, alarm, dropped, deaths>>

Init ==
    /\ made = [u \in Units |-> 0]
    /\ line = [u \in Units |-> {}]
    /\ newest = [u \in Units |-> 0]
    /\ alarm = [u \in Units |-> "closed"]
    /\ dropped = [u \in Units |-> FALSE]
    /\ deaths = 0

\* A notice joins the end of the line.
Make(u) ==
    /\ made' = [made EXCEPT ![u] = @ + 1]
    /\ \E kind \in Kinds :
          line' = [line EXCEPT ![u] = @ \cup {[kind |-> kind, id |-> made[u] + 1]}]
    /\ UNCHANGED <<newest, alarm, dropped, deaths>>

First(u, m) == m \in line[u] /\ \A o \in line[u] : m.id <= o.id
Last(u, m) == m \in line[u] /\ \A o \in line[u] : o.id <= m.id

\* n8n is given the first notice of the line, which leaves it once n8n is known to have it.
Deliver(u) == \E m \in line[u] :
    /\ First(u, m)
    /\ newest' = [newest EXCEPT ![u] = m.id]
    /\ alarm' = [alarm EXCEPT ![u] = IF m.kind \in Pages THEN "open" ELSE "closed"]
    /\ line' = line \/ line' = [line EXCEPT ![u] = @ \ {m}]
    /\ UNCHANGED <<made, dropped, deaths>>

\* The first notice leaves: n8n has it.
Leave(u) == \E m \in line[u] :
    /\ First(u, m)
    /\ newest[u] = m.id
    /\ line' = [line EXCEPT ![u] = @ \ {m}]
    /\ UNCHANGED <<made, newest, alarm, dropped, deaths>>

\* The first notice is too old.
Drop(u) == \E m \in line[u] :
    /\ First(u, m)
    /\ line' = [line EXCEPT ![u] = @ \ {m}]
    /\ dropped' = [dropped EXCEPT ![u] = TRUE]
    /\ UNCHANGED <<made, newest, alarm, deaths>>

\* Scripts die, at most one of each unit with a notice in hand, which is the last.
Crash ==
    /\ deaths' = deaths + 1
    /\ line' \in [Units -> SUBSET UNION {line[u] : u \in Units}]
    /\ \A u \in Units :
          \/ line'[u] = line[u]
          \/ \E m \in line[u] : Last(u, m) /\ line'[u] = line[u] \ {m}
    /\ UNCHANGED <<made, newest, alarm, dropped>>

Next ==
    \/ \E u \in Units : Make(u) \/ Deliver(u) \/ Leave(u) \/ Drop(u)
    \/ Crash

Spec == Init /\ [][Next]_vars
=============================================================================
