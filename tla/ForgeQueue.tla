----------------------------- MODULE ForgeQueue -----------------------------
(***************************************************************************)
(* The console's queue: the keyset pages the API serves from forge_item,   *)
(* and the page in the browser that loads them one by one while the        *)
(* reconciler and the projector change the table underneath.               *)
(*                                                                         *)
(* An item is its place in the queue: the time it was updated at and, to   *)
(* break ties, its identity, here a number.  Only the rows of declared     *)
(* sources are modelled; the others are out of every answer.               *)
(***************************************************************************)
EXTENDS Integers, Sequences, FiniteSets

CONSTANTS
    Items,          \* identities, (forge, owner, repo, number) in their order
    PageSize,       \* maxPage
    MaxTime,        \* bounds
    MaxChanges

ASSUME ItemsAssumption == Items \subseteq Nat \ {0} /\ IsFiniteSet(Items)
ASSUME NumbersAssumption == PageSize \in Nat \ {0} /\ MaxTime \in Nat /\ MaxChanges \in Nat

Keys == [t : 1..MaxTime, i : Items]

\* The queue's order, newest first.
Newer(a, b) == a.t > b.t \/ (a.t = b.t /\ a.i > b.i)

Top == [t |-> MaxTime + 1, i |-> 0]     \* `after` of the first page: newer than every item
End == [t |-> 0, i |-> 0]               \* no `next`: older than every item

VARIABLES
    open,       \* open[i]: the row exists and its state is open
    updated,    \* updated[i]: its updated_at
    changes,
    request,    \* the page's one request, and the server's answer to it so far
    shown,      \* the rows loaded, page by page
    total,      \* the page's `total`
    next,       \* its `next`
    touched     \* history: items changed since the first page shown was asked for

table == <<open, updated, changes>>
page  == <<shown, total, next, touched>>
vars  == <<table, request, page>>

NoRequest == [at |-> "none", more |-> FALSE, keep |-> FALSE, after |-> Top, total |-> 0,
              rows |-> {}, next |-> End, touched |-> {}]

Key(i) == [t |-> updated[i], i |-> i]
Open == {i \in Items : open[i]}

-----------------------------------------------------------------------------
\* A row is written: inserted, updated forward or backward, closed or opened again.
Write(i) ==
    /\ changes < MaxChanges
    /\ changes' = changes + 1
    /\ \E t \in 1..MaxTime, o \in BOOLEAN :
        /\ open' = [open EXCEPT ![i] = o]
        /\ updated' = [updated EXCEPT ![i] = t]
    /\ touched' = touched \cup {i}
    /\ request' = [request EXCEPT !.touched = @ \cup {i}]
    /\ UNCHANGED <<shown, total, next>>

-----------------------------------------------------------------------------
(* The server: three queries, and no transaction around them.              *)

\* Mutant: the count is of every row.
CountAll ==
    /\ request.at = "counting"
    /\ request' = [request EXCEPT !.at = "paging", !.total = Cardinality(Items)]
    /\ UNCHANGED <<table, page>>

\* count(*) of the open items.
Count ==
    /\ request.at = "counting"
    /\ request' = [request EXCEPT !.at = "paging", !.total = Cardinality(Open)]
    /\ UNCHANGED <<table, page>>

\* Mutants: the comparison is of the times alone, or keeps the key itself.
PastTime(after, k) == after.t > k.t
PastInclusive(after, k) == Newer(after, k) \/ after = k

\* WHERE (updated_at, forge, owner, repo, number) < the cursor.
Past(after, k) == Newer(after, k)

Matching(after) == {i \in Open : Past(after, Key(i))}

\* ORDER BY ... LIMIT n: what it may answer from S, the n newest or all of S.
Newest(S, n) ==
    {R \in SUBSET S : /\ \A i \in R, j \in S \ R : Newer(Key(i), Key(j))
                     /\ Cardinality(R) = IF Cardinality(S) < n THEN Cardinality(S) ELSE n}

\* The place of the oldest item of S.
Oldest(S) == {k \in {Key(i) : i \in S} : \A i \in S : ~Newer(k, Key(i))}

Answer(rows, last) ==
    /\ request.at = "paging"
    /\ request' = [request EXCEPT !.at = "answered", !.next = last,
                                  !.rows = {Key(i) : i \in rows}]
    /\ UNCHANGED <<table, page>>

\* Mutant: the extra item is not cut off.
ReadPageUncut ==
    \E got \in Newest(Matching(request.after), PageSize + 1) :
        IF Cardinality(got) > PageSize
        THEN \E last \in Oldest(got) : Answer(got, last)
        ELSE Answer(got, End)

\* The handler asks for one item more than the page, which tells whether another follows,
\* and cuts it off.
ReadPage ==
    \E got \in Newest(Matching(request.after), PageSize + 1) :
        IF Cardinality(got) > PageSize
        THEN \E rows \in Newest(got, PageSize) : \E last \in Oldest(rows) : Answer(rows, last)
        ELSE Answer(got, End)

-----------------------------------------------------------------------------
(* The page: load(more), one read at a time.                               *)

\* The timer asks for the first page; the button, shown while there is a next page, for it.
Ask(more) ==
    /\ request.at = "none"
    /\ more => next # End
    /\ request' = [NoRequest EXCEPT !.at = "counting", !.more = more,
                                    !.keep = ~more /\ Len(shown) > 1,
                                    !.after = IF more THEN next ELSE Top]
    /\ UNCHANGED <<table, page>>

\* The answer arrives: it replaces the rows or is appended to them, unless this is the
\* first page again and more than one is loaded.
Arrive ==
    /\ request.at = "answered"
    /\ total' = request.total
    /\ IF request.keep
       THEN UNCHANGED <<shown, next, touched>>
       ELSE /\ shown' = IF request.more THEN Append(shown, request.rows) ELSE <<request.rows>>
            /\ touched' = IF request.more THEN touched ELSE request.touched
            /\ next' = request.next
    /\ request' = NoRequest
    /\ UNCHANGED table

\* The answer is lost, refused or an error: the rows stay, shown as stale.
Lose ==
    /\ request.at # "none"
    /\ request' = NoRequest
    /\ UNCHANGED <<table, shown, total, next, touched>>

-----------------------------------------------------------------------------
Init ==
    /\ open \in [Items -> BOOLEAN]
    /\ updated \in [Items -> 1..MaxTime]
    /\ changes = 0
    /\ request = NoRequest
    /\ shown = <<>> /\ total = 0 /\ next = End
    /\ touched = {}

Next ==
    \/ \E i \in Items : Write(i)
    \/ Count \/ ReadPage
    \/ \E more \in BOOLEAN : Ask(more)
    \/ Arrive \/ Lose

Spec == Init /\ [][Next]_vars

-----------------------------------------------------------------------------
(* Properties.                                                             *)

Requests == [at : {"none", "counting", "paging", "answered"}, more : BOOLEAN, keep : BOOLEAN,
             after : Keys \cup {Top}, total : Nat, rows : SUBSET Keys,
             next : Keys \cup {End}, touched : SUBSET Items]

\* Every variable holds a value of its type, and no page is longer than the limit.
TypeOK ==
    /\ open \in [Items -> BOOLEAN] /\ updated \in [Items -> 1..MaxTime]
    /\ changes \in Nat
    /\ request \in Requests
    /\ shown \in Seq(SUBSET Keys) /\ total \in Nat /\ next \in Keys \cup {End}
    /\ touched \subseteq Items
    /\ \A n \in 1..Len(shown) : Cardinality(shown[n]) <= PageSize

\* The rows run from newest to oldest across pages, each as it was when its page was read,
\* so no place in the queue is shown twice, whatever is written between two pages.
RowsDescend ==
    \A m, n \in 1..Len(shown) : m < n =>
        \A a \in shown[m], b \in shown[n] : Newer(a, b)

\* An item nobody wrote to since the first page was asked for is shown once if the pages
\* loaded reach it, and not at all if they do not (postgres.go, "a page boundary between
\* items that share an update time neither skips nor repeats one").
NeitherSkippedNorRepeated ==
    shown # <<>> => \A i \in Open \ touched :
        LET on == {n \in 1..Len(shown) : \E k \in shown[n] : k.i = i}
        IN  IF Newer(next, Key(i)) THEN on = {} ELSE \E n \in on : on = {n}

\* With every page loaded and nothing written since, the page's "N of M" says M of M.
CountAddsUp ==
    (shown # <<>> /\ next = End /\ touched = {}) =>
        total = Cardinality(UNION {shown[n] : n \in 1..Len(shown)})
=============================================================================
