-------------------------- MODULE ForgeQueueProofs --------------------------
(* Theorems about ForgeQueue, for every value of its constants. *)
EXTENDS ForgeQueue, FiniteSetTheorems, TLAPS

-----------------------------------------------------------------------------
(* The inductive invariant.                                                *)

\* The rows of an answer fit a page.
RowsFit == Cardinality(request.rows) <= PageSize

\* A request for more starts where the last page shown ended, and replaces nothing.
AskedFor ==
    /\ next # End => shown # <<>>
    /\ request.at # "none" =>
        /\ request.after = IF request.more THEN next ELSE Top
        /\ request.more => next # End /\ ~request.keep

\* An answer's rows are the items between the cursor and `next`, those written since aside.
Answered ==
    request.at = "answered" =>
        /\ Newer(request.after, request.next)
        /\ \A k \in request.rows : Newer(request.after, k) /\ ~Newer(request.next, k)
        /\ \A i \in Open \ request.touched :
              (\E k \in request.rows : k.i = i) <=>
                  Newer(request.after, Key(i)) /\ ~Newer(request.next, Key(i))

\* `next` is no newer than any row shown.
NextIsLast == \A n \in 1..Len(shown) : \A k \in shown[n] : ~Newer(next, k)

\* What is written during a request is written since the first page was asked for.
TouchedTogether == request.touched \subseteq touched

IInv ==
    /\ TypeOK /\ RowsFit /\ AskedFor /\ Answered /\ NextIsLast /\ TouchedTogether
    /\ RowsDescend /\ NeitherSkippedNorRepeated

-----------------------------------------------------------------------------
(* The queue's order. *)

Places == [t : Nat, i : Nat]

\* The order is strict, total and transitive.
LEMMA NewerIsAnOrder ==
    ASSUME NEW a \in Places, NEW b \in Places
    PROVE  /\ ~(Newer(a, b) /\ Newer(b, a))
           /\ a # b => Newer(a, b) \/ Newer(b, a)
           /\ \A c \in Places : Newer(a, b) /\ Newer(b, c) => Newer(a, c)
           /\ \A c \in Places : Newer(a, b) /\ ~Newer(c, b) => Newer(a, c)
           /\ \A c \in Places : ~Newer(b, a) /\ Newer(b, c) => Newer(a, c)
BY DEF Newer, Places

\* Every item lies between the two ends of the queue.
LEMMA Ends ==
    /\ Keys \subseteq Places /\ Top \in Places /\ End \in Places
    /\ Top # End /\ Newer(Top, End)
    /\ \A k \in Keys : Newer(Top, k) /\ Newer(k, End)
<1>1. Top \in Places /\ End \in Places /\ Top # End /\ Newer(Top, End)
  BY NumbersAssumption DEF Places, Top, End, Newer
<1>2. ASSUME NEW k \in Keys
      PROVE  k \in Places /\ Newer(Top, k) /\ Newer(k, End)
  <2>1. k.t \in 1..MaxTime /\ k.i \in Items /\ k = [t |-> k.t, i |-> k.i]
    BY DEF Keys
  <2>3. k \in Places /\ k.t >= 1 /\ k.t < MaxTime + 1
    <3>1. k.t \in Nat /\ k.i \in Nat /\ k.t >= 1 /\ k.t < MaxTime + 1
      BY <2>1, ItemsAssumption, NumbersAssumption
    <3> QED BY <3>1, <2>1 DEF Places
  <2>2. MaxTime + 1 \in Nat /\ Top.t = MaxTime + 1 /\ End.t = 0
    BY NumbersAssumption DEF Top, End
  <2> QED BY <2>3, <2>2 DEF Newer, Places
<1> QED BY <1>1, <1>2

\* An item's place is in the queue.
LEMMA KeyType ==
    ASSUME TypeOK, NEW i \in Items
    PROVE  Key(i) \in Keys /\ Key(i).i = i
BY DEF TypeOK, Key, Keys

\* A set of items has no more places than items.
LEMMA PlacesOfItems ==
    ASSUME NEW S \in SUBSET Items
    PROVE  Cardinality({Key(i) : i \in S}) \in Nat
           /\ Cardinality(S) \in Nat
           /\ Cardinality({Key(i) : i \in S}) <= Cardinality(S)
<1> DEFINE T == {Key(i) : i \in S}
           f == [i \in S |-> Key(i)]
<1>1. IsFiniteSet(S)
  BY ItemsAssumption, FS_Subset
<1>2. f \in Surjection(S, T)
  BY DEF Surjection
<1>3. IsFiniteSet(T) /\ Cardinality(T) <= Cardinality(S)
  BY <1>1, <1>2, FS_Surjection
<1> QED BY <1>1, <1>3, FS_CardinalityType

-----------------------------------------------------------------------------
(* What the server answers. *)

\* A page R and its `last` split what follows the cursor: R's items are at or before it,
\* the rest after.
Splits(R, last) ==
    /\ R \subseteq Matching(request.after)
    /\ last \in Keys \cup {End}
    /\ Cardinality({Key(i) : i \in R}) <= PageSize
    /\ Newer(request.after, last)
    /\ \A i \in R : ~Newer(last, Key(i))
    /\ \A i \in Matching(request.after) \ R : Newer(last, Key(i))

\* What a page leaves out comes after it, whether or not the extra item was there.
LEMMA PageSplits ==
    ASSUME TypeOK, ReadPage
    PROVE  \E R \in SUBSET Items : \E last \in Keys \cup {End} :
              Answer(R, last) /\ Splits(R, last)
<1> DEFINE all == Matching(request.after)
<1>1. PICK got \in Newest(all, PageSize + 1) :
        IF Cardinality(got) > PageSize
        THEN \E rows \in Newest(got, PageSize) : \E last \in Oldest(rows) : Answer(rows, last)
        ELSE Answer(got, End)
  BY DEF ReadPage
<1>2. /\ got \subseteq all /\ all \subseteq Items /\ PageSize \in Nat \ {0}
      /\ \A i \in all : Newer(request.after, Key(i)) /\ Key(i) \in Keys
      /\ \A i \in got, j \in all \ got : Newer(Key(i), Key(j))
  BY NumbersAssumption, KeyType DEF Newest, Matching, Open, Past
<1>3. /\ IsFiniteSet(all) /\ IsFiniteSet(got)
      /\ Cardinality(all) \in Nat /\ Cardinality(got) \in Nat
  BY <1>2, ItemsAssumption, FS_Subset, FS_CardinalityType
<1>4. CASE Cardinality(got) > PageSize
  <2>1. PICK rows \in Newest(got, PageSize) : \E last \in Oldest(rows) : Answer(rows, last)
    BY <1>1, <1>4
  <2>2. PICK last \in Oldest(rows) : Answer(rows, last)
    BY <2>1
  <2>3. PICK j \in rows : last = Key(j)
    BY <2>2 DEF Oldest
  <2>4. rows \subseteq got /\ \A i \in rows, k \in got \ rows : Newer(Key(i), Key(k))
    BY <2>1 DEF Newest
  <2>5. Cardinality({Key(i) : i \in rows}) <= PageSize
    <3>1. Cardinality(rows) = PageSize
      BY <2>1, <1>2, <1>3, <1>4 DEF Newest
    <3> QED BY <3>1, <2>4, <1>2, PlacesOfItems
  <2>6. \A i \in rows : ~Newer(last, Key(i))
    BY <2>2 DEF Oldest
  <2>7. \A i \in all \ rows : Newer(last, Key(i))
    BY <2>3, <2>4, <1>2
  <2>8. Newer(request.after, last) /\ last \in Keys /\ rows \in SUBSET Items /\ rows \subseteq all
    BY <2>3, <2>4, <1>2
  <2>9. Splits(rows, last)
    BY <2>5, <2>6, <2>7, <2>8 DEF Splits
  <2> QED BY <2>2, <2>8, <2>9
<1>5. CASE ~(Cardinality(got) > PageSize)
  <2>1. Answer(got, End)
    BY <1>1, <1>5
  <2>2. Cardinality(got) = IF Cardinality(all) < PageSize + 1
                           THEN Cardinality(all) ELSE PageSize + 1
    BY <1>1 DEF Newest
  <2>3. Cardinality(got) = Cardinality(all)
    BY <2>2, <1>2, <1>3, <1>5
  <2>4. got = all
    BY <2>3, <1>2, <1>3, FS_Subset
  <2>5. Cardinality({Key(i) : i \in got}) <= PageSize
    BY <1>2, <1>3, <1>5, PlacesOfItems
  <2>6. Newer(request.after, End)
    BY Ends DEF TypeOK, Requests
  <2>7. \A i \in got : ~Newer(End, Key(i))
    BY <1>2, Ends, NewerIsAnOrder
  <2>8. Splits(got, End)
    BY <2>4, <2>5, <2>6, <2>7 DEF Splits
  <2> QED BY <2>1, <2>8, <1>2
<1> QED BY <1>4, <1>5

-----------------------------------------------------------------------------
(* Each action preserves the invariant. *)

\* The initial state satisfies it.
LEMMA InitInvariant == Init => IInv
<1> SUFFICES ASSUME Init PROVE IInv
  OBVIOUS
<1>1. request \in Requests /\ request.at = "none" /\ request.touched = {} /\ request.rows = {}
  BY Ends DEF Init, NoRequest, Requests
<1>2. TypeOK
  <2>1. shown \in Seq(SUBSET Keys) /\ Len(shown) = 0 /\ next \in Keys \cup {End}
    BY DEF Init
  <2>2. open \in [Items -> BOOLEAN] /\ updated \in [Items -> 1..MaxTime] /\ changes \in Nat
    BY DEF Init
  <2>3. total \in Nat /\ touched \subseteq Items
    BY DEF Init
  <2>4. \A n \in 1..Len(shown) : Cardinality(shown[n]) <= PageSize
    BY <2>1
  <2> QED BY <1>1, <2>1, <2>2, <2>3, <2>4, Zenon DEF TypeOK
<1>3. RowsFit
  BY <1>1, FS_EmptySet, NumbersAssumption DEF RowsFit
<1>4. AskedFor /\ Answered /\ NextIsLast /\ TouchedTogether
  BY <1>1 DEF Init, AskedFor, Answered, NextIsLast, TouchedTogether
<1>5. RowsDescend /\ NeitherSkippedNorRepeated
  BY DEF Init, RowsDescend, NeitherSkippedNorRepeated
<1> QED BY <1>2, <1>3, <1>4, <1>5 DEF IInv

\* A row written is a row touched, and no other row moves.
LEMMA WriteInvariant ==
    ASSUME IInv, NEW i \in Items, Write(i)
    PROVE  IInv'
<1> USE DEF IInv
<1>1. /\ request \in Requests /\ touched' = touched \cup {i}
      /\ request' = [request EXCEPT !.touched = @ \cup {i}]
      /\ UNCHANGED <<shown, total, next>>
  BY DEF Write, TypeOK
<1>2. /\ request'.at = request.at /\ request'.more = request.more /\ request'.keep = request.keep
      /\ request'.after = request.after /\ request'.total = request.total
      /\ request'.rows = request.rows /\ request'.next = request.next
      /\ request'.touched = request.touched \cup {i} /\ request' \in Requests
  BY <1>1 DEF Requests
<1>3. \A j \in Items : j # i => Key(j)' = Key(j) /\ open'[j] = open[j]
  BY DEF Write, TypeOK, Key
<1>4. TypeOK'
  BY <1>1, <1>2 DEF Write, TypeOK
<1>5. RowsFit' /\ AskedFor' /\ NextIsLast' /\ TouchedTogether' /\ RowsDescend'
  BY <1>1, <1>2 DEF RowsFit, AskedFor, NextIsLast, TouchedTogether, RowsDescend
<1>6. Answered'
  BY <1>2, <1>3 DEF Answered, Open
<1>7. NeitherSkippedNorRepeated'
  BY <1>1, <1>3 DEF NeitherSkippedNorRepeated, Open
<1> QED BY <1>4, <1>5, <1>6, <1>7

\* Counting changes the total alone.
LEMMA CountInvariant ==
    ASSUME IInv, Count
    PROVE  IInv'
<1> USE DEF IInv
<1>1. Cardinality(Open) \in Nat
  BY ItemsAssumption, FS_Subset, FS_CardinalityType DEF Open
<1>2. /\ request'.at = "paging" /\ request'.more = request.more /\ request'.keep = request.keep
      /\ request'.after = request.after /\ request'.rows = request.rows
      /\ request'.touched = request.touched /\ request' \in Requests
      /\ UNCHANGED <<table, page>>
  BY <1>1 DEF Count, TypeOK, Requests
<1>3. Key(1)' = Key(1) /\ \A j \in Items : Key(j)' = Key(j)
  BY <1>2 DEF Key, table
<1>4. TypeOK'
  BY <1>2 DEF TypeOK, table, page
<1>5. RowsFit' /\ AskedFor' /\ NextIsLast' /\ TouchedTogether' /\ RowsDescend' /\ Answered'
  BY <1>2 DEF RowsFit, AskedFor, NextIsLast, TouchedTogether, RowsDescend, Answered, Count, page
<1>6. NeitherSkippedNorRepeated'
  BY <1>2, <1>3 DEF NeitherSkippedNorRepeated, Open, table, page
<1> QED BY <1>4, <1>5, <1>6

\* The page read is what the cursor and `next` enclose.
LEMMA ReadPageInvariant ==
    ASSUME IInv, ReadPage
    PROVE  IInv'
<1> USE DEF IInv
<1>1. PICK R \in SUBSET Items, last \in Keys \cup {End} : Answer(R, last) /\ Splits(R, last)
  BY PageSplits
<1> DEFINE rows == {Key(i) : i \in R}
<1>2. /\ request'.at = "answered" /\ request'.more = request.more /\ request'.keep = request.keep
      /\ request'.after = request.after /\ request'.next = last /\ request'.rows = rows
      /\ request'.touched = request.touched /\ request' \in Requests
      /\ request.at = "paging" /\ UNCHANGED <<table, page>>
  <2>1. rows \subseteq Keys
    BY KeyType
  <2> QED BY <1>1, <2>1 DEF Answer, TypeOK, Requests
<1>3. \A j \in Items : Key(j)' = Key(j)
  BY <1>2 DEF Key, table
<1>4. TypeOK'
  BY <1>2 DEF TypeOK, table, page
<1>5. RowsFit' /\ AskedFor' /\ NextIsLast' /\ TouchedTogether' /\ RowsDescend'
  BY <1>1, <1>2 DEF RowsFit, AskedFor, NextIsLast, TouchedTogether, RowsDescend, Splits, page
<1>6. Answered'
  <2>1. Newer(request.after, last)
    BY <1>1 DEF Splits
  <2>2. \A k \in rows : Newer(request.after, k) /\ ~Newer(last, k)
    BY <1>1 DEF Splits, Matching, Past
  <2>3. ASSUME NEW i \in Open
        PROVE  (\E k \in rows : k.i = i) <=> Newer(request.after, Key(i)) /\ ~Newer(last, Key(i))
    <3>1. (\E k \in rows : k.i = i) <=> i \in R
      BY KeyType DEF Open
    <3>2. i \in R <=> Newer(request.after, Key(i)) /\ ~Newer(last, Key(i))
      BY <1>1 DEF Splits, Matching, Past
    <3> QED BY <3>1, <3>2
  <2>4. Open' = Open
    BY <1>2 DEF Open, table
  <2>5. ASSUME NEW i \in Open' \ request'.touched
        PROVE  (\E k \in rows : k.i = i) <=> Newer(request.after, Key(i)') /\ ~Newer(last, Key(i)')
    <3>1. Key(i)' = Key(i) /\ i \in Open
      BY <2>4, <1>3 DEF Open
    <3> QED BY <3>1, <2>3
  <2> QED BY <1>2, <2>1, <2>2, <2>5 DEF Answered
<1>7. NeitherSkippedNorRepeated'
  BY <1>2, <1>3 DEF NeitherSkippedNorRepeated, Open, table, page
<1> QED BY <1>4, <1>5, <1>6, <1>7

\* A request starts: the first page's from the top, the next one's from `next`.
LEMMA AskInvariant ==
    ASSUME IInv, NEW more \in BOOLEAN, Ask(more)
    PROVE  IInv'
<1> USE DEF IInv
<1>1. /\ request'.at = "counting" /\ request'.more = more
      /\ request'.keep = (~more /\ Len(shown) > 1)
      /\ request'.after = (IF more THEN next ELSE Top) /\ request'.rows = {}
      /\ request'.touched = {} /\ UNCHANGED <<table, page>> /\ (more => next # End)
  BY DEF Ask, NoRequest
<1>2. request' \in Requests
  <2>1. (IF more THEN next ELSE Top) \in Keys \cup {Top}
    BY <1>1 DEF TypeOK
  <2>2. (~more /\ Len(shown) > 1) \in BOOLEAN
    OBVIOUS
  <2>3. NoRequest \in Requests
    BY DEF NoRequest, Requests
  <2>4. request' = [NoRequest EXCEPT !.at = "counting", !.more = more,
                                     !.keep = ~more /\ Len(shown) > 1,
                                     !.after = IF more THEN next ELSE Top]
    BY DEF Ask
  <2> HIDE DEF IInv
  <2> QED BY <2>1, <2>2, <2>3, <2>4 DEF Requests
<1>3. TypeOK'
  BY <1>1, <1>2 DEF TypeOK, table, page
<1>4. \A j \in Items : Key(j)' = Key(j)
  BY <1>1 DEF Key, table
<1>5. RowsFit'
  BY <1>1, FS_EmptySet, NumbersAssumption DEF RowsFit
<1>6. AskedFor' /\ NextIsLast' /\ TouchedTogether' /\ RowsDescend' /\ Answered'
  BY <1>1 DEF AskedFor, NextIsLast, TouchedTogether, RowsDescend, Answered, page
<1>7. NeitherSkippedNorRepeated'
  BY <1>1, <1>4 DEF NeitherSkippedNorRepeated, Open, table, page
<1> QED BY <1>3, <1>5, <1>6, <1>7

\* A lost answer changes nothing that is shown.
LEMMA LoseInvariant ==
    ASSUME IInv, Lose
    PROVE  IInv'
<1> USE DEF IInv
<1>1. /\ request' = NoRequest
      /\ UNCHANGED <<table, shown, total, next, touched>>
  BY DEF Lose
<1>2. NoRequest \in Requests /\ NoRequest.at = "none" /\ NoRequest.rows = {} /\ NoRequest.touched = {}
  BY DEF NoRequest, Requests
<1>3. TypeOK'
  BY <1>1, <1>2 DEF TypeOK, table
<1>4. \A j \in Items : Key(j)' = Key(j)
  BY <1>1 DEF Key, table
<1>5. RowsFit'
  BY <1>1, <1>2, FS_EmptySet, NumbersAssumption DEF RowsFit
<1>6. AskedFor' /\ NextIsLast' /\ TouchedTogether' /\ RowsDescend' /\ Answered'
  BY <1>1, <1>2 DEF AskedFor, NextIsLast, TouchedTogether, RowsDescend, Answered
<1>7. NeitherSkippedNorRepeated'
  BY <1>1, <1>4 DEF NeitherSkippedNorRepeated, Open, table
<1> QED BY <1>3, <1>5, <1>6, <1>7

\* An answer that is kept out changes no row; one that is shown replaces the rows or
\* continues them.
LEMMA ArriveInvariant ==
    ASSUME IInv, Arrive
    PROVE  IInv'
<1> USE DEF IInv
<1>1. /\ request.at = "answered" /\ request' = NoRequest /\ total' = request.total
      /\ UNCHANGED table
  BY DEF Arrive
<1>2. NoRequest \in Requests /\ NoRequest.at = "none" /\ NoRequest.rows = {} /\ NoRequest.touched = {}
  BY DEF NoRequest, Requests
<1>3. \A j \in Items : Key(j)' = Key(j)
  BY <1>1 DEF Key, table
<1>4. Open' = Open
  BY <1>1 DEF Open, table
<1>5. RowsFit' /\ Answered'
  BY <1>1, <1>2, FS_EmptySet, NumbersAssumption DEF RowsFit, Answered
<1>6. request \in Requests /\ shown \in Seq(SUBSET Keys) /\ next \in Keys \cup {End}
  BY DEF TypeOK
<1>7. CASE request.keep
  <2>1. UNCHANGED <<shown, next, touched>>
    BY <1>7 DEF Arrive
  <2>2. TypeOK'
    BY <1>1, <1>2, <1>6, <2>1 DEF TypeOK, table, Requests
  <2>3. AskedFor' /\ NextIsLast' /\ TouchedTogether' /\ RowsDescend'
    BY <1>1, <1>2, <2>1 DEF AskedFor, NextIsLast, TouchedTogether, RowsDescend
  <2>4. NeitherSkippedNorRepeated'
    BY <1>3, <1>4, <2>1 DEF NeitherSkippedNorRepeated, Open
  <2> QED BY <1>5, <2>2, <2>3, <2>4
<1>8. CASE ~request.keep /\ ~request.more
  <2>1. shown' = <<request.rows>> /\ touched' = request.touched /\ next' = request.next
    BY <1>8 DEF Arrive
  <2>2. Len(shown') = 1 /\ shown'[1] = request.rows /\ shown' # <<>> /\ shown' \in Seq(SUBSET Keys)
    BY <1>6, <2>1 DEF Requests
  <2>3. TypeOK'
    <3>1. \A n \in 1..Len(shown') : Cardinality(shown'[n]) <= PageSize
      BY <2>2 DEF RowsFit
    <3> QED BY <1>1, <1>2, <1>6, <2>1, <2>2, <3>1 DEF TypeOK, table, Requests
  <2>4. AskedFor' /\ TouchedTogether' /\ RowsDescend'
    BY <1>1, <1>2, <2>1, <2>2 DEF AskedFor, TouchedTogether, RowsDescend
  <2>5. NextIsLast'
    BY <1>1, <2>1, <2>2 DEF NextIsLast, Answered
  <2>6. ASSUME NEW i \in (Open \ touched)'
        PROVE  IF Newer(next', Key(i)') THEN {n \in 1..Len(shown') : \E k \in shown'[n] : k.i = i} = {}
               ELSE {n \in 1..Len(shown') : \E k \in shown'[n] : k.i = i} = {1}
    <3>1. i \in Open \ request.touched /\ Key(i)' = Key(i) /\ Key(i) \in Keys
      BY <1>3, <1>4, <2>1, KeyType DEF Open
    <3>2. (\E k \in request.rows : k.i = i) <=>
              Newer(request.after, Key(i)) /\ ~Newer(request.next, Key(i))
      BY <1>1, <3>1 DEF Answered
    <3>3. Newer(request.after, Key(i))
      BY <1>1, <1>8, <3>1, Ends DEF AskedFor
    <3> QED BY <2>1, <2>2, <3>1, <3>2, <3>3
  <2>7. NeitherSkippedNorRepeated'
    BY <2>6, <2>2 DEF NeitherSkippedNorRepeated
  <2> QED BY <1>5, <2>3, <2>4, <2>5, <2>7
<1>9. CASE ~request.keep /\ request.more
  <2>1. shown' = Append(shown, request.rows) /\ touched' = touched /\ next' = request.next
    BY <1>9 DEF Arrive
  <2> DEFINE L == Len(shown)
  <2>2. /\ L \in Nat /\ Len(shown') = L + 1 /\ shown'[L + 1] = request.rows
        /\ \A n \in 1..L : shown'[n] = shown[n]
        /\ shown' # <<>> /\ shown' \in Seq(SUBSET Keys)
        /\ \A n \in 1..L + 1 : shown'[n] \subseteq Keys
    BY <1>6, <2>1 DEF Requests
  <2>3. TypeOK'
    <3>1. \A n \in 1..Len(shown') : Cardinality(shown'[n]) <= PageSize
      BY <2>2 DEF TypeOK, RowsFit
    <3> QED BY <1>1, <1>2, <1>6, <2>1, <2>2, <3>1 DEF TypeOK, table, Requests
  <2>4. AskedFor' /\ TouchedTogether'
    BY <1>1, <1>2, <2>1, <2>2 DEF AskedFor, TouchedTogether
  <2>5. /\ request.after = next /\ shown # <<>> /\ Newer(next, request.next)
        /\ \A k \in request.rows : Newer(next, k) /\ ~Newer(request.next, k)
        /\ next \in Places /\ request.next \in Places /\ request.rows \subseteq Places
    BY <1>1, <1>6, <1>9, Ends DEF AskedFor, Answered, Requests
  <2>6. \A n \in 1..L : \A k \in shown[n] : k \in Places /\ ~Newer(next, k)
    BY <1>6, Ends DEF NextIsLast
  <2>7. NextIsLast'
    <3>1. ASSUME NEW n \in 1..L, NEW k \in shown[n] PROVE ~Newer(request.next, k)
      BY <2>5, <2>6, NewerIsAnOrder
    <3> QED BY <2>1, <2>2, <2>5, <3>1 DEF NextIsLast
  <2>8. RowsDescend'
    <3>1. ASSUME NEW m \in 1..L, NEW a \in shown[m], NEW b \in request.rows PROVE Newer(a, b)
      BY <2>5, <2>6, NewerIsAnOrder
    <3> QED BY <2>2, <3>1 DEF RowsDescend
  <2>9. ASSUME NEW i \in (Open \ touched)'
        PROVE  LET on == {n \in 1..L + 1 : \E k \in shown'[n] : k.i = i}
               IN  IF Newer(request.next, Key(i)) THEN on = {} ELSE \E n \in on : on = {n}
    <3> DEFINE old == {n \in 1..L : \E k \in shown[n] : k.i = i}
               on == {n \in 1..L + 1 : \E k \in shown'[n] : k.i = i}
    <3>1. i \in Open \ touched /\ i \in Open \ request.touched /\ Key(i) \in Places
      BY <1>4, <2>1, KeyType, Ends DEF TouchedTogether, Open
    <3>2. (\E k \in request.rows : k.i = i) <=> Newer(next, Key(i)) /\ ~Newer(request.next, Key(i))
      BY <1>1, <2>5, <3>1 DEF Answered
    <3>3. IF Newer(next, Key(i)) THEN old = {} ELSE \E n \in old : old = {n}
      BY <2>5, <3>1 DEF NeitherSkippedNorRepeated
    <3>4. Newer(request.next, Key(i)) => Newer(next, Key(i))
      BY <2>5, <3>1, NewerIsAnOrder
    <3>5. on = old \cup (IF \E k \in request.rows : k.i = i THEN {L + 1} ELSE {})
      BY <2>2
    <3> QED BY <3>2, <3>3, <3>4, <3>5
  <2>10. NeitherSkippedNorRepeated'
    BY <1>3, <2>1, <2>2, <2>9 DEF NeitherSkippedNorRepeated, Open
  <2> QED BY <1>5, <2>3, <2>4, <2>7, <2>8, <2>10
<1> QED BY <1>7, <1>8, <1>9 DEF TypeOK, Requests

-----------------------------------------------------------------------------
(* The theorems. *)

\* Every step preserves the invariant.
LEMMA NextInvariant == IInv /\ [Next]_vars => IInv'
<1> SUFFICES ASSUME IInv, [Next]_vars PROVE IInv'
  OBVIOUS
<1>1. CASE \E i \in Items : Write(i)
  BY <1>1, WriteInvariant
<1>2. CASE Count
  BY <1>2, CountInvariant
<1>3. CASE ReadPage
  BY <1>3, ReadPageInvariant
<1>4. CASE \E more \in BOOLEAN : Ask(more)
  BY <1>4, AskInvariant
<1>5. CASE Arrive
  BY <1>5, ArriveInvariant
<1>6. CASE Lose
  BY <1>6, LoseInvariant
<1>7. CASE UNCHANGED vars
  <2>1. UNCHANGED <<open, updated, changes, request, shown, total, next, touched>>
    BY <1>7 DEF vars, table, page
  <2>2. TypeOK'
    BY <2>1 DEF IInv, TypeOK
  <2>3. RowsFit' /\ AskedFor' /\ NextIsLast' /\ TouchedTogether' /\ RowsDescend'
    BY <2>1 DEF IInv, RowsFit, AskedFor, NextIsLast, TouchedTogether, RowsDescend
  <2>4. Open' = Open /\ \A i : Key(i)' = Key(i)
    BY <2>1 DEF Open, Key
  <2>5. Answered'
    BY <2>1, <2>4 DEF IInv, Answered
  <2>6. NeitherSkippedNorRepeated'
    BY <2>1, <2>4 DEF IInv, NeitherSkippedNorRepeated
  <2> QED BY <2>2, <2>3, <2>5, <2>6 DEF IInv
<1> QED BY <1>1, <1>2, <1>3, <1>4, <1>5, <1>6, <1>7 DEF Next

\* The invariant holds in every reachable state.
LEMMA Invariance == Spec => []IInv
<1>1. Init => IInv
  BY InitInvariant
<1>2. IInv /\ [Next]_vars => IInv'
  BY NextInvariant
<1> QED BY <1>1, <1>2, PTL DEF Spec

\* Every variable keeps its type and no page outgrows the limit, however many items there
\* are and however often they are written.
THEOREM TypeCorrect == Spec => []TypeOK
<1>1. IInv => TypeOK
  BY DEF IInv
<1> QED BY <1>1, Invariance, PTL

\* The rows of a page all come after those of the pages before it, whatever is written
\* between the queries (postgres.go, Queue; console.html, load).
THEOREM PagesDescend == Spec => []RowsDescend
<1>1. IInv => RowsDescend
  BY DEF IInv
<1> QED BY <1>1, Invariance, PTL

\* Paging neither skips nor repeats an item that is left alone while it goes on, for any
\* items, page size and number of writes to the others (postgres.go, Queue).
THEOREM PagingIsExact == Spec => []NeitherSkippedNorRepeated
<1>1. IInv => NeitherSkippedNorRepeated
  BY DEF IInv
<1> QED BY <1>1, Invariance, PTL

-----------------------------------------------------------------------------
(* The count and the rows. *)

OpenKeys == {Key(i) : i \in Open}

\* A count is of the open items, and the rows are their places, as long as nothing was
\* written since the first page was asked for.
Counts ==
    /\ request.at \in {"paging", "answered"} /\ request.touched = {} =>
          request.total = Cardinality(Open)
    /\ request.at = "answered" /\ request.touched = {} => request.rows \subseteq OpenKeys
    /\ shown # <<>> /\ touched = {} =>
          /\ total = Cardinality(Open)
          /\ \A n \in 1..Len(shown) : shown[n] \subseteq OpenKeys

\* A step that writes no row keeps the open items and their places.
LEMMA TableKept ==
    ASSUME UNCHANGED table
    PROVE  Open' = Open /\ OpenKeys' = OpenKeys
BY DEF table, Open, OpenKeys, Key

LEMMA CountsKept == IInv /\ Counts /\ [Next]_vars => Counts'
<1> SUFFICES ASSUME IInv, Counts, [Next]_vars PROVE Counts'
  OBVIOUS
<1>1. request \in Requests /\ touched \subseteq Items /\ shown \in Seq(SUBSET Keys)
      /\ request.touched \subseteq touched
  BY DEF IInv, TypeOK, TouchedTogether
<1>2. ASSUME NEW i \in Items, Write(i) PROVE Counts'
  <2>1. touched' # {} /\ request'.touched # {}
    BY <1>1, <1>2 DEF Write, Requests
  <2> QED BY <2>1 DEF Counts
<1>3. CASE Count
  <2>1. /\ request'.at = "paging" /\ request'.total = Cardinality(Open)
        /\ UNCHANGED <<table, page>>
    BY <1>1, <1>3 DEF Count, Requests
  <2> QED BY <2>1, TableKept DEF Counts, page
<1>4. CASE ReadPage
  <2>1. PICK R \in SUBSET Items, last \in Keys \cup {End} : Answer(R, last) /\ Splits(R, last)
    BY <1>4, PageSplits DEF IInv
  <2>2. /\ request.at = "paging" /\ request'.at = "answered"
        /\ request'.total = request.total /\ request'.touched = request.touched
        /\ request'.rows = {Key(i) : i \in R} /\ UNCHANGED <<table, page>>
    BY <1>1, <2>1 DEF Answer, Requests
  <2>3. {Key(i) : i \in R} \subseteq OpenKeys
    BY <2>1 DEF Splits, Matching, OpenKeys
  <2> QED BY <2>2, <2>3, TableKept DEF Counts, page
<1>5. ASSUME NEW more \in BOOLEAN, Ask(more) PROVE Counts'
  <2>1. request'.at = "counting" /\ UNCHANGED <<table, page>>
    BY <1>5 DEF Ask, NoRequest
  <2> QED BY <2>1, TableKept DEF Counts, page
<1>6. CASE Arrive
  <2>1. /\ request.at = "answered" /\ total' = request.total /\ request'.at = "none"
        /\ UNCHANGED table
    BY <1>6 DEF Arrive, NoRequest
  <2>2. CASE request.keep
    BY <1>1, <1>6, <2>1, <2>2, TableKept DEF Arrive, Counts
  <2>3. CASE ~request.keep /\ ~request.more
    <3>1. shown' = <<request.rows>> /\ touched' = request.touched
      BY <1>6, <2>3 DEF Arrive
    <3>2. Len(shown') = 1 /\ shown'[1] = request.rows
      BY <3>1
    <3> QED BY <2>1, <3>1, <3>2, TableKept DEF Counts
  <2>4. CASE ~request.keep /\ request.more
    <3>1. shown' = Append(shown, request.rows) /\ touched' = touched /\ shown # <<>>
      BY <1>6, <2>1, <2>4 DEF Arrive, IInv, AskedFor
    <3>2. /\ Len(shown) \in Nat /\ Len(shown') = Len(shown) + 1
          /\ shown'[Len(shown) + 1] = request.rows
          /\ \A n \in 1..Len(shown) : shown'[n] = shown[n]
      BY <1>1, <3>1 DEF Requests
    <3>3. SUFFICES ASSUME touched = {}
                   PROVE  /\ request.total = Cardinality(Open)
                          /\ \A n \in 1..Len(shown) + 1 : shown'[n] \subseteq OpenKeys
      BY <2>1, <3>1, <3>2, TableKept DEF Counts
    <3>4. request.touched = {}
      BY <1>1, <3>3
    <3> QED BY <2>1, <3>1, <3>2, <3>3, <3>4 DEF Counts
  <2> QED BY <1>1, <2>2, <2>3, <2>4 DEF Requests
<1>7. CASE Lose
  <2>1. request'.at = "none" /\ UNCHANGED <<table, shown, total, touched>>
    BY <1>7 DEF Lose, NoRequest
  <2> QED BY <2>1, TableKept DEF Counts
<1>8. CASE UNCHANGED vars
  <2>1. UNCHANGED <<table, request, shown, total, touched>>
    BY <1>8 DEF vars, page
  <2> QED BY <2>1, TableKept DEF Counts
<1> QED BY <1>2, <1>3, <1>4, <1>5, <1>6, <1>7, <1>8 DEF Next

\* There are as many places as items.
LEMMA AsManyPlaces ==
    ASSUME TypeOK
    PROVE  Cardinality(OpenKeys) = Cardinality(Open)
<1> DEFINE f == [i \in Open |-> Key(i)]
<1>1. IsFiniteSet(Open) /\ Open \subseteq Items
  BY ItemsAssumption, FS_Subset DEF Open
<1>2. f \in Surjection(Open, OpenKeys)
  BY DEF Surjection, OpenKeys
<1>3. f \in Injection(Open, OpenKeys)
  <2>1. \A i, j \in Open : f[i] = f[j] => i = j
    BY <1>1, KeyType
  <2>2. f \in [Open -> OpenKeys]
    BY DEF OpenKeys
  <2> QED BY <2>1, <2>2 DEF Injection, IsInjective
<1>4. ExistsBijection(Open, OpenKeys)
  BY <1>2, <1>3 DEF Bijection, ExistsBijection
<1> QED BY <1>1, <1>4, FS_Bijection

\* With every page loaded and nothing written since the first was asked for, the page's
\* count is that of the rows on it, though three queries with no transaction around them
\* gave it (postgres.go, Queue; console.html, load).
THEOREM CountsAgree == Spec => []CountAddsUp
<1>1. Init => Counts
  BY DEF Init, NoRequest, Counts
<1>2. IInv /\ Counts => CountAddsUp
  <2> SUFFICES ASSUME IInv, Counts, shown # <<>>, next = End, touched = {}
               PROVE  total = Cardinality(UNION {shown[n] : n \in 1..Len(shown)})
    BY DEF CountAddsUp
  <2> DEFINE all == UNION {shown[n] : n \in 1..Len(shown)}
  <2>1. TypeOK /\ total = Cardinality(Open)
    BY DEF IInv, Counts
  <2>2. all \subseteq OpenKeys
    BY DEF Counts
  <2>3. ASSUME NEW i \in Open PROVE Key(i) \in all
    <3>1. Key(i) \in Places /\ ~Newer(End, Key(i))
      BY <2>1, KeyType, Ends, NewerIsAnOrder DEF Open
    <3>2. PICK n \in 1..Len(shown) : \E k \in shown[n] : k.i = i
      BY <3>1 DEF IInv, NeitherSkippedNorRepeated
    <3>3. PICK k \in shown[n] : k.i = i
      BY <3>2
    <3>4. PICK j \in Open : k = Key(j)
      BY <2>2, <3>3 DEF OpenKeys
    <3>5. j = i
      BY <2>1, <3>3, <3>4, KeyType DEF Open
    <3> QED BY <3>3, <3>4, <3>5
  <2>4. all = OpenKeys
    BY <2>2, <2>3 DEF OpenKeys
  <2> QED BY <2>1, <2>4, AsManyPlaces
<1> QED BY <1>1, <1>2, Invariance, CountsKept, PTL DEF Spec
=============================================================================
