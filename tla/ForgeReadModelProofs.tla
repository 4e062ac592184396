------------------------ MODULE ForgeReadModelProofs ------------------------
(* Theorems about ForgeReadModel, for every value of its constants. *)
EXTENDS ForgeReadModel, FiniteSetTheorems, TLAPS

-----------------------------------------------------------------------------
(* The second a time falls in. *)

\* The second of a time is a natural number.
LEMMA SecondIsNat ==
    ASSUME NEW t \in Nat PROVE Second(t) \in Nat
BY NumbersAssumption DEF Second

\* A later time never falls in an earlier second.
LEMMA SecondMonotone ==
    ASSUME NEW t \in Int, NEW u \in Int, t <= u
    PROVE  Second(t) <= Second(u) /\ Second(t) \in Int
<1> DEFINE K == TicksPerSecond
           q == t \div K
           r == u \div K
<1>1. K \in Nat \ {0}
  BY NumbersAssumption
<1>2. q \in Int /\ r \in Int /\ K * q <= t /\ u < K * r + K
  BY <1>1
<1>3. CASE q <= r
  BY <1>3, <1>2 DEF Second
<1>4. CASE r + 1 <= q
  <2>1. K * (r + 1) <= K * q
    BY <1>1, <1>2, <1>4
  <2>2. K * (r + 1) = K * r + K
    BY <1>1, <1>2
  <2> QED BY <2>1, <2>2, <1>1, <1>2
<1> QED BY <1>2, <1>3, <1>4

-----------------------------------------------------------------------------
(* Ranks in a listing. *)

\* An item's rank never falls when the listing grows.
LEMMA RankMonotone ==
    ASSUME NEW i \in Items, NEW S \in SUBSET Items, NEW T \in SUBSET Items, S \subseteq T
    PROVE  Rank(i, S) \in Nat /\ Rank(i, T) \in Nat /\ Rank(i, S) <= Rank(i, T)
<1> DEFINE A == {j \in S : j > i}
           B == {j \in T : j > i}
<1>1. A \subseteq B /\ B \subseteq Items
  OBVIOUS
<1>2. IsFiniteSet(B)
  BY <1>1, ItemsAssumption, FS_Subset
<1>3. IsFiniteSet(A) /\ Cardinality(A) <= Cardinality(B)
  BY <1>1, <1>2, FS_Subset
<1>4. Cardinality(A) \in Nat /\ Cardinality(B) \in Nat
  BY <1>2, <1>3, FS_CardinalityType
<1> QED BY <1>3, <1>4 DEF Rank

\* An item that is in a listing has a rank below the listing's length.
LEMMA RankBelow ==
    ASSUME NEW S \in SUBSET Items, NEW i \in S
    PROVE  Cardinality(S) \in Nat /\ Rank(i, S) < Cardinality(S)
<1> DEFINE A == {j \in S : j > i}
<1>1. IsFiniteSet(S) /\ IsFiniteSet(S \ {i})
  BY ItemsAssumption, FS_Subset
<1>2. Cardinality(S \ {i}) = Cardinality(S) - 1
  BY <1>1, FS_RemoveElement
<1>3. A \subseteq S \ {i}
  BY ItemsAssumption
<1>4. IsFiniteSet(A) /\ Cardinality(A) <= Cardinality(S \ {i})
  BY <1>1, <1>3, FS_Subset
<1>5. Cardinality(A) \in Nat /\ Cardinality(S) \in Nat /\ Cardinality(S \ {i}) \in Nat
  BY <1>1, <1>4, FS_CardinalityType
<1> QED BY <1>2, <1>4, <1>5 DEF Rank

-----------------------------------------------------------------------------
(* Type correctness. *)

\* A goroutine that is not reading holds a well-typed reading.
LEMMA IdleType == Idle \in Reading /\ Idle.pc = "idle" /\ Idle.started = Never
                  /\ Idle.since = Never /\ Idle.offset = 0
                  /\ Idle.listed = [i \in Items |-> 0]
BY SourcesAssumption, NumbersAssumption DEF Idle, Reading, Never

\* The initial tables are well typed.
LEMMA InitTypes == Init => Types
BY IdleType, NumbersAssumption, SwitchesAssumption
   DEF Init, Types, Tables, Never

\* There are finitely many deliveries, so the rank of the next one is a number.
LEMMA DeliveriesFinite == IsFiniteSet(Deliveries)
<1> DEFINE S == (Items \X (1..MaxRev)) \X BOOLEAN
           f == [x \in S |-> [item |-> x[1][1], rev |-> x[1][2], deleted |-> x[2]]]
<1>1. IsFiniteSet(BOOLEAN)
  <2>1. IsFiniteSet({TRUE})
    BY FS_Singleton
  <2>2. IsFiniteSet({TRUE} \cup {FALSE})
    BY <2>1, FS_AddElement
  <2>3. BOOLEAN = {TRUE} \cup {FALSE}
    OBVIOUS
  <2> QED BY <2>2, <2>3
<1>2. IsFiniteSet(1..MaxRev)
  BY NumbersAssumption, FS_Interval
<1>3. IsFiniteSet(S)
  BY <1>1, <1>2, ItemsAssumption, FS_Product
<1>4. f \in Surjection(S, Deliveries)
  <2>1. f \in [S -> Deliveries]
    BY DEF Deliveries
  <2>2. ASSUME NEW d \in Deliveries PROVE \E x \in S : f[x] = d
    <3>1. <<<<d.item, d.rev>>, d.deleted>> \in S
      BY DEF Deliveries
    <3>2. f[<<<<d.item, d.rev>>, d.deleted>>] = d
      BY <3>1 DEF Deliveries
    <3> QED BY <3>1, <3>2
  <2> QED BY <2>1, <2>2 DEF Surjection
<1> QED BY <1>3, <1>4, FS_Surjection

LEMMA StoredFinite == Cardinality(Stored) \in Nat
BY DeliveriesFinite, FS_Subset, FS_CardinalityType DEF Stored

\* Every step keeps the types.
LEMMA NextTypes == Types /\ [Next]_vars => Types'
<1> SUFFICES ASSUME Types, [Next]_vars PROVE Types'
  OBVIOUS
<1> USE DEF Types
<1>1. CASE UNCHANGED vars
  BY <1>1 DEF vars, forgeVars, tables, podVars
<1>2. CASE Tick
  BY <1>2 DEF Tick, tables, podVars
<1>3. ASSUME NEW i \in Items, Change(i) PROVE Types'
  <2>1. Second(now) \in Nat
    BY SecondIsNat
  <2>2. rev[i] + 1 \in 0..MaxRev
    BY <1>3, NumbersAssumption DEF Change
  <2> QED BY <1>3, <2>1, <2>2 DEF Change, tables, podVars
<1>4. ASSUME NEW i \in Items, Delete(i) PROVE Types'
  BY <1>4 DEF Delete, tables, podVars
<1>5. ASSUME NEW p \in Pods, NEW d \in Deliveries, Receive(p, d) PROVE Types'
  BY <1>5, StoredFinite DEF Receive, forgeVars, podVars
<1>6. ASSUME NEW p \in Pods, TakeBatch(p) PROVE Types'
  BY <1>6 DEF TakeBatch, forgeVars, tables, OldestPending, Pending, Stored
<1>7. ASSUME NEW p \in Pods, ProjectHead(p) PROVE Types'
  <2>1. PICK d \in batch[p] :
            /\ row' = IF ~d.deleted /\ NotOlder(d) THEN [row EXCEPT ![d.item] = d.rev] ELSE row
            /\ projected' = projected \cup ({d} \cap Stored)
            /\ batch' = [batch EXCEPT ![p] = @ \ {d}]
    BY <1>7 DEF ProjectHead
  <2>2. d \in Deliveries /\ d.item \in Items /\ d.rev \in 0..MaxRev
    <3>1. d \in Deliveries
      OBVIOUS
    <3> QED BY <3>1, NumbersAssumption DEF Deliveries
  <2>3. row' \in [Items -> 0..MaxRev]
    BY <2>1, <2>2
  <2>4. projected' \subseteq Deliveries /\ batch' \in [Pods -> SUBSET Deliveries]
    BY <2>1, <2>2
  <2>5. UNCHANGED <<forgeVars, asOf, reachable, arrival, dump, declared, read, faults, restores>>
    BY <1>7 DEF ProjectHead
  <2> QED BY <2>3, <2>4, <2>5 DEF forgeVars
<1>8. ASSUME NEW p \in Pods, MarkHead(p) PROVE Types'
  BY <1>8 DEF MarkHead, forgeVars
<1>9. ASSUME NEW p \in Pods, GiveUp(p) PROVE Types'
  BY <1>9 DEF GiveUp, forgeVars, tables
<1>10. ASSUME NEW p \in Pods, NEW s \in Sources, LastRead(p, s) PROVE Types'
  <2>1. [Idle EXCEPT !.pc = "asked", !.src = s, !.since = asOf[s]] \in Reading
    BY IdleType DEF Reading
  <2> QED BY <1>10, <2>1 DEF LastRead, forgeVars, tables
<1>11. ASSUME NEW p \in Pods, StartListing(p) PROVE Types'
  <2>1. NodeNow \in Int
    BY NumbersAssumption DEF NodeNow
  <2>2. [read[p] EXCEPT !.pc = "listing", !.started = NodeNow] \in Reading
    BY <2>1 DEF Reading
  <2> QED BY <1>11, <2>2 DEF StartListing, forgeVars, tables
<1>12. ASSUME NEW p \in Pods, FetchPage(p) PROVE Types'
  <2> DEFINE r == read[p]
             all == Matching(r.src, r.since)
             next == r.offset + PerPage
             L == [i \in Items |-> IF i \in Page(all, r.offset) THEN rev[i] ELSE r.listed[i]]
             C == IF next < Cardinality(all) THEN "listing" ELSE "saving"
             O == IF next < Cardinality(all) THEN next ELSE r.offset
  <2>1. read'[p] \in Reading
    <3>1. r \in Reading /\ next \in Nat
      BY NumbersAssumption DEF Reading
    <3>2. L \in [Items -> 0..MaxRev]
      BY <3>1 DEF Reading
    <3>3. C \in {"listing", "saving"} /\ O \in Nat
      BY <3>1 DEF Reading
    <3>4. read' = [read EXCEPT ![p] = [r EXCEPT !.listed = L, !.pc = C, !.offset = O]]
      BY <1>12 DEF FetchPage
    <3> HIDE DEF r, L, C, O
    <3> QED BY <3>1, <3>2, <3>3, <3>4 DEF Reading
  <2>2. read' = [read EXCEPT ![p] = read'[p]]
    BY <1>12 DEF FetchPage
  <2> QED BY <1>12, <2>1, <2>2 DEF FetchPage, forgeVars, tables
<1>13. ASSUME NEW p \in Pods, SaveRead(p) PROVE Types'
  BY <1>13, IdleType DEF SaveRead, forgeVars, Reading
<1>14. ASSUME NEW p \in Pods, FailRead(p) PROVE Types'
  <2>1. reachable' \in [Sources -> BOOLEAN]
    BY <1>14 DEF FailRead
  <2> QED BY <1>14, <2>1, IdleType DEF FailRead, forgeVars
<1>15. ASSUME NEW p \in Pods, Restart(p) PROVE Types'
  BY <1>15, IdleType, SwitchesAssumption DEF Restart, forgeVars, tables
<1>16. CASE TakeDump
  BY <1>16 DEF TakeDump, forgeVars, tables, podVars, Tables
<1>17. CASE Restore
  BY <1>17 DEF Restore, forgeVars, podVars, Tables
<1> QED BY <1>1, <1>2, <1>3, <1>4, <1>5, <1>6, <1>7, <1>8, <1>9, <1>10, <1>11, <1>12,
           <1>13, <1>14, <1>15, <1>16, <1>17 DEF Next, Forge, Pod

-----------------------------------------------------------------------------
(* What the tables, a running read and a held batch know is something the  *)
(* forge made, and no recorded time is ahead of the node's clock.          *)

Made(d) == d.deleted \/ d.rev <= rev[d.item]

Versions ==
    /\ \A i \in Items : row[i] <= rev[i] /\ dump.row[i] <= rev[i]
    /\ \A p \in Pods, i \in Items : read[p].listed[i] <= rev[i]
    /\ \A d \in Deliveries : arrival[d] > 0 \/ dump.arrival[d] > 0 => Made(d)
    /\ \A p \in Pods : \A d \in batch[p] : Made(d)

Past(t) == t = Never \/ t <= NodeNow

Clocks ==
    /\ \A s \in Sources : Past(asOf[s]) /\ Past(dump.asOf[s])
    /\ \A p \in Pods : Past(read[p].started) /\ Past(read[p].since)

TypeInv == Types /\ Versions /\ Clocks

LEMMA InitVersions == Init => Versions /\ Clocks
BY IdleType, NumbersAssumption DEF Init, Versions, Clocks, Past

\* A step of a read keeps Versions when what it lists is something the forge made.
LEMMA NewListing ==
    ASSUME Types, Versions, UNCHANGED <<rev, row, dump, arrival, batch>>,
           NEW p \in Pods, read' = [read EXCEPT ![p] = read'[p]],
           \A i \in Items : read'[p].listed[i] \in {0, rev[i], read[p].listed[i]}
    PROVE  Versions'
<1>1. \A q \in Pods, i \in Items : read'[q].listed[i] <= rev[i]
  <2> TAKE q \in Pods, i \in Items
  <2>1. rev[i] \in Nat
    BY NumbersAssumption DEF Types
  <2>2. read[q].listed[i] <= rev[i]
    BY DEF Versions
  <2>3. CASE q = p
    BY <2>1, <2>2, <2>3
  <2>4. CASE q # p
    <3>1. read'[q] = read[q]
      BY <2>4 DEF Types
    <3> QED BY <2>2, <3>1
  <2> QED BY <2>3, <2>4
<1> QED BY <1>1 DEF Versions, Made

\* Every step keeps what is held within what was made.
LEMMA NextVersions == Types /\ Versions /\ [Next]_vars => Versions'
<1> SUFFICES ASSUME Types, Versions, [Next]_vars PROVE Versions'
  OBVIOUS
<1> USE NumbersAssumption DEF Types, Versions, Made
<1>1. CASE UNCHANGED vars
  BY <1>1 DEF vars, forgeVars, tables, podVars
<1>2. CASE Tick
  BY <1>2 DEF Tick, tables, podVars
<1>3. ASSUME NEW i \in Items, Change(i) PROVE Versions'
  <2>1. /\ \A j \in Items : rev'[j] \in Int /\ rev[j] \in Int /\ rev[j] <= rev'[j]
        /\ UNCHANGED <<row, dump, read, arrival, batch>>
    <3>1. rev' = [rev EXCEPT ![i] = @ + 1] /\ UNCHANGED <<row, dump, read, arrival, batch>>
      BY <1>3 DEF Change, tables, podVars
    <3>2. rev \in [Items -> 0..MaxRev]
      BY DEF Types
    <3> QED BY ONLY <3>1, <3>2, NumbersAssumption
  <2>2. \A j \in Items : row[j] <= rev'[j] /\ dump.row[j] <= rev'[j]
    <3> TAKE j \in Items
    <3>1. row[j] \in Int /\ dump.row[j] \in Int
      BY DEF Types, Tables
    <3>2. row[j] <= rev[j] /\ dump.row[j] <= rev[j]
      BY DEF Versions
    <3> QED BY ONLY <2>1, <3>1, <3>2
  <2>3. \A p \in Pods, j \in Items : read[p].listed[j] <= rev'[j]
    <3> TAKE p \in Pods, j \in Items
    <3>1. read[p].listed[j] \in Int
      BY DEF Types, Reading
    <3>2. read[p].listed[j] <= rev[j]
      BY DEF Versions
    <3> QED BY ONLY <2>1, <3>1, <3>2
  <2>4. \A d \in Deliveries : Made(d) => Made(d)'
    <3> TAKE d \in Deliveries
    <3>1. d.item \in Items /\ d.rev \in Int
      BY NumbersAssumption DEF Deliveries
    <3> QED BY ONLY <2>1, <3>1 DEF Made
  <2> QED BY <2>1, <2>2, <2>3, <2>4 DEF Versions, Types
<1>4. ASSUME NEW i \in Items, Delete(i) PROVE Versions'
  BY <1>4 DEF Delete, tables, podVars
<1>5. ASSUME NEW p \in Pods, NEW d \in Deliveries, Receive(p, d) PROVE Versions'
  BY <1>5, StoredFinite DEF Receive, Emitted, Made, forgeVars, podVars
<1>6. ASSUME NEW p \in Pods, TakeBatch(p) PROVE Versions'
  BY <1>6 DEF TakeBatch, forgeVars, tables, OldestPending, Pending, Stored
<1>7. ASSUME NEW p \in Pods, ProjectHead(p) PROVE Versions'
  BY <1>7 DEF ProjectHead, Made, forgeVars, Deliveries
<1>8. ASSUME NEW p \in Pods, MarkHead(p) PROVE Versions'
  BY <1>8 DEF MarkHead, forgeVars
<1>9. ASSUME NEW p \in Pods, GiveUp(p) PROVE Versions'
  BY <1>9 DEF GiveUp, forgeVars, tables
<1>10. ASSUME NEW p \in Pods, NEW s \in Sources, LastRead(p, s) PROVE Versions'
  <2>1. read' = [read EXCEPT ![p] = read'[p]] /\ read'[p].listed = [i \in Items |-> 0]
    BY <1>10, IdleType DEF LastRead, Reading
  <2>2. UNCHANGED <<rev, row, dump, arrival, batch>>
    BY <1>10 DEF LastRead, forgeVars, tables
  <2> QED BY <2>1, <2>2, NewListing
<1>11. ASSUME NEW p \in Pods, StartListing(p) PROVE Versions'
  <2>1. read' = [read EXCEPT ![p] = read'[p]] /\ read'[p].listed = read[p].listed
    BY <1>11 DEF StartListing, Reading
  <2>2. UNCHANGED <<rev, row, dump, arrival, batch>>
    BY <1>11 DEF StartListing, forgeVars, tables
  <2> QED BY <2>1, <2>2, NewListing
<1>12. ASSUME NEW p \in Pods, FetchPage(p) PROVE Versions'
  <2>1. /\ read' = [read EXCEPT ![p] = read'[p]]
        /\ \A i \in Items : read'[p].listed[i] \in {0, rev[i], read[p].listed[i]}
    BY <1>12 DEF FetchPage, Reading
  <2>2. UNCHANGED <<rev, row, dump, arrival, batch>>
    BY <1>12 DEF FetchPage, forgeVars, tables
  <2> QED BY <2>1, <2>2, NewListing
<1>13. ASSUME NEW p \in Pods, SaveRead(p) PROVE Versions'
  BY <1>13, IdleType DEF SaveRead, forgeVars, Reading
<1>14. ASSUME NEW p \in Pods, FailRead(p) PROVE Versions'
  <2>1. read' = [read EXCEPT ![p] = read'[p]] /\ read'[p].listed = [i \in Items |-> 0]
    BY <1>14, IdleType DEF FailRead, Reading
  <2>2. UNCHANGED <<rev, row, dump, arrival, batch>>
    BY <1>14 DEF FailRead, forgeVars
  <2> QED BY <2>1, <2>2, NewListing
<1>15. ASSUME NEW p \in Pods, Restart(p) PROVE Versions'
  BY <1>15, IdleType DEF Restart, forgeVars, tables
<1>16. CASE TakeDump
  BY <1>16 DEF TakeDump, forgeVars, tables, podVars, Tables
<1>17. CASE Restore
  BY <1>17 DEF Restore, forgeVars, podVars, Tables
<1> QED BY <1>1, <1>2, <1>3, <1>4, <1>5, <1>6, <1>7, <1>8, <1>9, <1>10, <1>11, <1>12,
           <1>13, <1>14, <1>15, <1>16, <1>17 DEF Next, Forge, Pod

\* A step of a read keeps recorded times in the past if those it records are.
LEMMA NewTimes ==
    ASSUME Types, Clocks, UNCHANGED <<now, dump>>,
           NEW p \in Pods, read' = [read EXCEPT ![p] = read'[p]],
           Past(read'[p].started), Past(read'[p].since),
           \A s \in Sources : asOf'[s] \in {asOf[s], read[p].started}
    PROVE  Clocks'
<1>1. \A t : Past(t)' <=> Past(t)
  BY DEF Past, NodeNow
<1>2. \A s \in Sources : Past(asOf'[s]) /\ Past(dump.asOf[s])
  BY DEF Clocks
<1>3. \A q \in Pods : Past(read'[q].started) /\ Past(read'[q].since)
  BY DEF Clocks, Types
<1> QED BY <1>1, <1>2, <1>3 DEF Clocks

\* Every step keeps recorded times in the past.
LEMMA NextClocks == Types /\ Clocks /\ [Next]_vars => Clocks'
<1> SUFFICES ASSUME Types, Clocks, [Next]_vars PROVE Clocks'
  OBVIOUS
<1> USE NumbersAssumption DEF Types, Clocks, Past, NodeNow
<1>1. CASE UNCHANGED vars
  BY <1>1 DEF vars, forgeVars, tables, podVars
<1>2. CASE Tick
  BY <1>2 DEF Tick, tables, podVars, Reading, Tables
<1>3. ASSUME NEW i \in Items, Change(i) PROVE Clocks'
  BY <1>3 DEF Change, tables, podVars
<1>4. ASSUME NEW i \in Items, Delete(i) PROVE Clocks'
  BY <1>4 DEF Delete, tables, podVars
<1>5. ASSUME NEW p \in Pods, NEW d \in Deliveries, Receive(p, d) PROVE Clocks'
  BY <1>5 DEF Receive, forgeVars, podVars
<1>6. ASSUME NEW p \in Pods, TakeBatch(p) PROVE Clocks'
  BY <1>6 DEF TakeBatch, forgeVars, tables
<1>7. ASSUME NEW p \in Pods, ProjectHead(p) PROVE Clocks'
  BY <1>7 DEF ProjectHead, forgeVars
<1>8. ASSUME NEW p \in Pods, MarkHead(p) PROVE Clocks'
  BY <1>8 DEF MarkHead, forgeVars
<1>9. ASSUME NEW p \in Pods, GiveUp(p) PROVE Clocks'
  BY <1>9 DEF GiveUp, forgeVars, tables
<1>10. ASSUME NEW p \in Pods, NEW s \in Sources, LastRead(p, s) PROVE Clocks'
  <2>1. read' = [read EXCEPT ![p] = read'[p]] /\ Past(read'[p].started) /\ Past(read'[p].since)
    BY <1>10, IdleType DEF LastRead, Reading
  <2>2. UNCHANGED <<now, dump, asOf>>
    BY <1>10 DEF LastRead, forgeVars, tables
  <2> QED BY <2>1, <2>2, NewTimes
<1>11. ASSUME NEW p \in Pods, StartListing(p) PROVE Clocks'
  <2>1. read' = [read EXCEPT ![p] = read'[p]] /\ Past(read'[p].started) /\ Past(read'[p].since)
    BY <1>11 DEF StartListing, Reading
  <2>2. UNCHANGED <<now, dump, asOf>>
    BY <1>11 DEF StartListing, forgeVars, tables
  <2> QED BY <2>1, <2>2, NewTimes
<1>12. ASSUME NEW p \in Pods, FetchPage(p) PROVE Clocks'
  <2>1. /\ read' = [read EXCEPT ![p] = read'[p]]
        /\ read'[p].started = read[p].started /\ read'[p].since = read[p].since
    BY <1>12 DEF FetchPage, Reading
  <2>2. UNCHANGED <<now, dump, asOf>>
    BY <1>12 DEF FetchPage, forgeVars, tables
  <2> QED BY <2>1, <2>2, NewTimes
<1>13. ASSUME NEW p \in Pods, SaveRead(p) PROVE Clocks'
  <2>1. read' = [read EXCEPT ![p] = read'[p]] /\ Past(read'[p].started) /\ Past(read'[p].since)
    BY <1>13, IdleType DEF SaveRead, Reading
  <2>2. UNCHANGED <<now, dump>> /\ \A s \in Sources : asOf'[s] \in {asOf[s], read[p].started}
    BY <1>13 DEF SaveRead, forgeVars, Reading
  <2> QED BY <2>1, <2>2, NewTimes
<1>14. ASSUME NEW p \in Pods, FailRead(p) PROVE Clocks'
  <2>1. read' = [read EXCEPT ![p] = read'[p]] /\ Past(read'[p].started) /\ Past(read'[p].since)
    BY <1>14, IdleType DEF FailRead, Reading
  <2>2. UNCHANGED <<now, dump, asOf>>
    BY <1>14 DEF FailRead, forgeVars
  <2> QED BY <2>1, <2>2, NewTimes
<1>15. ASSUME NEW p \in Pods, Restart(p) PROVE Clocks'
  BY <1>15, IdleType DEF Restart, forgeVars, tables
<1>16. CASE TakeDump
  BY <1>16 DEF TakeDump, forgeVars, tables, podVars, Tables
<1>17. CASE Restore
  BY <1>17 DEF Restore, forgeVars, podVars, Tables
<1> QED BY <1>1, <1>2, <1>3, <1>4, <1>5, <1>6, <1>7, <1>8, <1>9, <1>10, <1>11, <1>12,
           <1>13, <1>14, <1>15, <1>16, <1>17 DEF Next, Forge, Pod

\* Every variable holds a value of its type, no table holds a revision the forge has not
\* made, and as_of is never ahead of the node's clock.
THEOREM TypeCorrect == Spec => []TypeOK
<1>1. Init => TypeInv
  BY InitTypes, InitVersions DEF TypeInv
<1>2. TypeInv /\ [Next]_vars => TypeInv'
  BY NextTypes, NextVersions, NextClocks DEF TypeInv
<1>3. TypeInv => TypeOK
  BY DEF TypeInv, Types, Tables, Versions, Clocks, Past, TypeOK
<1> QED BY <1>1, <1>2, <1>3, PTL DEF Spec

-----------------------------------------------------------------------------
(* No change is lost.  What the proof assumes of the forge, the clocks and *)
(* the operator: without any one of these a change can be lost.            *)

Calm ==
    /\ ~SameSecond              \* an item changes at most once a second
    /\ ~Deletes                 \* no page shifts under a listing
    /\ Skew <= 0                \* the node's clock is not ahead of the forge's
    /\ ~RestoreWhileReading     \* the tables are restored between reads
    /\ \A p, q \in Pods : p = q \* rollouts do not overlap

\* Revisions of an item are made in different seconds, none in the future.
History ==
    /\ \A i \in Items : \A r \in 0..rev[i] : at[i][r] <= Second(now)
    /\ \A i \in Items : \A r, q \in 0..rev[i] : r < q => at[i][r] < at[i][q]

\* What the tables lack changed at or after as_of.
Fresh(rows, asOfs) ==
    \A i \in Items : rev[i] > 0 =>
        \/ rows[i] = rev[i]
        \/ ChangedAt(i) >= Second(asOfs[SourceOf[i]])

\* Before its first page, a read will list whatever its source's rows lack.
AskedSound(r) ==
    /\ r.offset = 0
    /\ \A i \in Items : r.listed[i] = 0
    /\ \A i \in Items : SourceOf[i] = r.src /\ rev[i] > 0 =>
           ChangedAt(i) >= Second(r.since) \/ row[i] = rev[i]

\* A page still to come holds the item.
ToCome(r, i) ==
    /\ r.pc = "listing"
    /\ i \in Matching(r.src, r.since)
    /\ Rank(i, Matching(r.src, r.since)) >= r.offset

\* The read accounts for an item: it changed since the read started, was read as it is
\* now, needs no reading, or is on a page to come.
Accounted(r, i) ==
    \/ ChangedAt(i) >= Second(r.started)
    \/ r.listed[i] = rev[i]
    \/ r.listed[i] = 0 /\ row[i] = rev[i]
    \/ r.listed[i] = 0 /\ ToCome(r, i)

\* From then on, it accounts for every item of its source and holds no other.
ListingSound(r) ==
    /\ \A i \in Items : SourceOf[i] = r.src /\ rev[i] > 0 => Accounted(r, i)
    /\ \A i \in Items : SourceOf[i] # r.src => r.listed[i] = 0

ReadSound == \A p \in Pods :
    /\ read[p].pc = "asked" => AskedSound(read[p])
    /\ read[p].pc \in {"listing", "saving"} => ListingSound(read[p])

IInv == TypeInv /\ History /\ gone = {} /\ Fresh(row, asOf) /\ Fresh(dump.row, dump.asOf) /\ ReadSound

\* A recorded time falls in a second that has come.
LEMMA PastSecond ==
    ASSUME Calm, now \in Nat, NEW t \in Int, Past(t)
    PROVE  Second(t) <= Second(now)
<1>1. t <= now
  BY NumbersAssumption DEF Calm, Past, NodeNow, Never
<1> QED BY <1>1, SecondMonotone

\* The calm assumptions make the projection's guard compare revisions: a row that is
\* current stays current, and every row that is written to moves forward.
LEMMA ProjectForward ==
    ASSUME TypeInv, History, NEW p \in Pods, ProjectHead(p), NEW i \in Items
    PROVE  row[i] <= row'[i] /\ row'[i] <= rev[i] /\ rev' = rev /\ row'[i] \in Int /\ row[i] \in Int
<1>1. PICK d \in batch[p] :
        /\ row' = IF ~d.deleted /\ NotOlder(d) THEN [row EXCEPT ![d.item] = d.rev] ELSE row
        /\ UNCHANGED forgeVars
  BY DEF ProjectHead
<1>2. d \in Deliveries /\ Made(d)
  BY DEF TypeInv, Types, Versions
<1>3. row[i] \in Int /\ row[i] >= 0 /\ rev[i] \in Int /\ row[i] <= rev[i]
  BY DEF TypeInv, Types, Versions
<1>4. CASE ~d.deleted /\ NotOlder(d) /\ d.item = i
  <2>1. row'[i] = d.rev /\ d.rev \in Int /\ d.rev >= 0 /\ d.rev <= rev[i]
    BY <1>1, <1>2, <1>4 DEF TypeInv, Types, Made, Deliveries
  <2>2. at[i][row[i]] <= at[i][d.rev]
    BY <1>4 DEF NotOlder
  <2>3. row[i] \in 0..rev[i] /\ d.rev \in 0..rev[i]
    BY <2>1, <1>3
  <2>4. ~(d.rev < row[i])
    <3>1. d.rev < row[i] => at[i][d.rev] < at[i][row[i]]
      BY <2>3 DEF History
    <3>2. at[i][d.rev] \in Nat /\ at[i][row[i]] \in Nat
      <4>1. d.rev \in 0..MaxRev /\ row[i] \in 0..MaxRev
        BY <2>3, <1>2, NumbersAssumption DEF TypeInv, Types, Deliveries
      <4>2. at \in [Items -> [0..MaxRev -> Nat]]
        BY DEF TypeInv, Types
      <4>3. at[i] \in [0..MaxRev -> Nat]
        BY <4>2
      <4>4. ASSUME NEW f \in [0..MaxRev -> Nat], NEW k \in 0..MaxRev PROVE f[k] \in Nat
        OBVIOUS
      <4> QED BY ONLY <4>1, <4>3, <4>4
    <3> QED BY <3>1, <3>2, <2>2
  <2> QED BY <1>1, <2>1, <2>4, <1>3 DEF forgeVars
<1>5. CASE ~(~d.deleted /\ NotOlder(d) /\ d.item = i)
  <2>1. row'[i] = row[i]
    BY <1>1, <1>2, <1>5 DEF TypeInv, Types, Deliveries
  <2> QED BY <1>1, <1>3, <2>1 DEF forgeVars
<1> QED BY <1>4, <1>5

\* Only the forge makes history.
LEMMA ForgeSteps ==
    [Next]_vars => \/ Tick
                   \/ \E i \in Items : Change(i) \/ Delete(i)
                   \/ UNCHANGED forgeVars
BY DEF Next, Forge, Pod, vars, Receive, TakeBatch, ProjectHead, MarkHead, GiveUp, LastRead,
       StartListing, FetchPage, SaveRead, FailRead, Restart, TakeDump, Restore

\* What a change does to the history of each item.
LEMMA ChangeEffect ==
    ASSUME ~SameSecond, TypeInv, History, NEW i \in Items, Change(i)
    PROVE  /\ rev'[i] = rev[i] + 1 /\ rev[i] \in Nat /\ at'[i][rev'[i]] = Second(now)
           /\ ChangedAt(i) < Second(now) /\ ChangedAt(i)' = Second(now)
           /\ \A r \in 0..rev[i] : at'[i][r] = at[i][r]
           /\ \A j \in Items \ {i} : rev'[j] = rev[j] /\ at'[j] = at[j]
           /\ UNCHANGED <<now, gone, row, asOf, dump, read>>
<1>1. /\ i \notin gone /\ rev[i] < MaxRev /\ ChangedAt(i) < Second(now)
      /\ rev' = [rev EXCEPT ![i] = @ + 1]
      /\ at' = [at EXCEPT ![i][rev[i] + 1] = Second(now)]
      /\ UNCHANGED <<now, gone, row, asOf, dump, read>>
  BY DEF Change, tables, podVars
<1>2. rev \in [Items -> 0..MaxRev] /\ at \in [Items -> [0..MaxRev -> Nat]]
  BY DEF TypeInv, Types
<1>3. rev[i] \in Nat /\ rev[i] + 1 \in 0..MaxRev /\ 0..rev[i] \subseteq 0..MaxRev
  BY <1>1, <1>2, NumbersAssumption
<1>4. rev'[i] = rev[i] + 1 /\ \A j \in Items \ {i} : rev'[j] = rev[j] /\ at'[j] = at[j]
  BY <1>1, <1>2
<1>5. at'[i] = [at[i] EXCEPT ![rev[i] + 1] = Second(now)] /\ at[i] \in [0..MaxRev -> Nat]
  BY <1>1, <1>2
<1>6. at'[i][rev[i] + 1] = Second(now)
  BY <1>3, <1>5
<1>7. \A r \in 0..rev[i] : at'[i][r] = at[i][r]
  BY <1>3, <1>5
<1> QED BY <1>1, <1>3, <1>4, <1>6, <1>7 DEF ChangedAt

\* Nothing has happened yet.
LEMMA InitHistory == Init => History
BY NumbersAssumption, InitTypes, SecondIsNat DEF Init, History, Types

\* Every step keeps the order of history.
LEMMA NextHistory ==
    ASSUME ~SameSecond, TypeInv, History, [Next]_vars PROVE History'
<1>1. CASE Tick
  <2>1. now \in Nat /\ now' = now + 1 /\ UNCHANGED <<rev, at, gone>>
    BY <1>1 DEF Tick, TypeInv, Types
  <2>2. Second(now) <= Second(now)' /\ Second(now) \in Int /\ Second(now)' \in Int
    BY <2>1, SecondMonotone, SecondIsNat DEF Second
  <2>3. \A i \in Items : \A r \in 0..rev[i] : at[i][r] <= Second(now)'
    <3> TAKE i \in Items
    <3> TAKE r \in 0..rev[i]
    <3>1. at[i][r] \in Nat
      <4>1. at[i] \in [0..MaxRev -> Nat] /\ r \in 0..MaxRev
        BY NumbersAssumption DEF TypeInv, Types
      <4> QED BY <4>1
    <3>2. at[i][r] <= Second(now)
      BY DEF History
    <3> QED BY ONLY <3>1, <3>2, <2>2
  <2> QED BY <2>1, <2>3 DEF History
<1>2. ASSUME NEW i \in Items, Change(i) PROVE History'
  <2>1. /\ rev'[i] = rev[i] + 1 /\ rev[i] \in Nat /\ at'[i][rev'[i]] = Second(now)
        /\ at[i][rev[i]] < Second(now)
        /\ \A r \in 0..rev[i] : at'[i][r] = at[i][r]
        /\ \A j \in Items \ {i} : rev'[j] = rev[j] /\ at'[j] = at[j]
        /\ now' = now /\ gone' = gone
    BY <1>2, ChangeEffect DEF ChangedAt
  <2>2. Second(now)' = Second(now) /\ Second(now) \in Nat
    BY <2>1, SecondIsNat DEF Second, TypeInv, Types
  <2>3. ASSUME NEW r \in 0..rev[i] PROVE at[i][r] \in Nat /\ at[i][r] < Second(now)
    <3>1. at[i] \in [0..MaxRev -> Nat] /\ r \in 0..MaxRev /\ rev[i] \in 0..MaxRev
      BY NumbersAssumption DEF TypeInv, Types
    <3>2. at[i][r] \in Nat /\ at[i][rev[i]] \in Nat
      BY <3>1
    <3>3. r = rev[i] \/ at[i][r] < at[i][rev[i]]
      BY <2>1 DEF History
    <3> QED BY <3>2, <3>3, <2>1, <2>2
  <2>4. \A r \in 0..rev'[i] : r \in 0..rev[i] \/ r = rev'[i]
    BY <2>1
  <2>5. \A r \in 0..rev'[i] : at'[i][r] <= Second(now)
    BY <2>1, <2>2, <2>3, <2>4
  <2>6. \A r, q \in 0..rev'[i] : r < q => at'[i][r] < at'[i][q]
    <3> SUFFICES ASSUME NEW r \in 0..rev'[i], NEW q \in 0..rev'[i], r < q
                 PROVE  at'[i][r] < at'[i][q]
      OBVIOUS
    <3>1. r \in 0..rev[i]
      BY <2>1
    <3>2. CASE q = rev'[i]
      BY <3>1, <3>2, <2>1, <2>3
    <3>3. CASE q \in 0..rev[i]
      BY <3>1, <3>3, <2>1 DEF History
    <3> QED BY <3>2, <3>3, <2>4
  <2>7. \A j \in Items \ {i} :
            /\ \A r \in 0..rev'[j] : at'[j][r] <= Second(now)
            /\ \A r, q \in 0..rev'[j] : r < q => at'[j][r] < at'[j][q]
    BY <2>1 DEF History
  <2> QED BY <2>1, <2>2, <2>5, <2>6, <2>7 DEF History
<1>3. ASSUME NEW i \in Items, Delete(i) PROVE History'
  BY <1>3 DEF Delete, History, Second
<1>4. CASE UNCHANGED forgeVars
  BY <1>4 DEF forgeVars, History, Second
<1> QED BY <1>1, <1>2, <1>3, <1>4, ForgeSteps

\* A change leaves fresh tables fresh: the item it touches changed just now.
LEMMA FreshAfterChange ==
    ASSUME Calm, TypeInv, History, NEW i \in Items, Change(i),
           NEW rows, NEW asOfs \in [Sources -> Int],
           \A s \in Sources : Past(asOfs[s]), Fresh(rows, asOfs)
    PROVE  \A j \in Items : rev'[j] > 0 =>
               rows[j] = rev'[j] \/ ChangedAt(j)' >= Second(asOfs[SourceOf[j]])
<1>1. /\ ChangedAt(i)' = Second(now)
      /\ \A j \in Items \ {i} : rev'[j] = rev[j] /\ at'[j] = at[j]
  BY ChangeEffect DEF Calm
<1>2. ASSUME NEW j \in Items PROVE Second(now) >= Second(asOfs[SourceOf[j]])
  <2>1. SourceOf[j] \in Sources
    BY SourceOfAssumption
  <2>2. now \in Nat
    BY DEF TypeInv, Types
  <2>3. asOfs[SourceOf[j]] \in Int /\ Past(asOfs[SourceOf[j]])
    BY <2>1
  <2>4. Second(asOfs[SourceOf[j]]) <= Second(now)
    BY <2>2, <2>3, PastSecond
  <2> QED BY <2>4
<1>3. \A j \in Items \ {i} : ChangedAt(j)' = ChangedAt(j)
  BY <1>1 DEF ChangedAt
<1> QED BY <1>1, <1>2, <1>3 DEF Fresh

\* A save puts into the table what the read accounted for.
LEMMA FreshAfterSave ==
    ASSUME TypeInv, Fresh(row, asOf), ReadSound, NEW p \in Pods, SaveRead(p)
    PROVE  Fresh(row, asOf)'
<1> DEFINE r == read[p]
<1>1. /\ asOf' = [asOf EXCEPT ![r.src] = r.started]
      /\ row' = [j \in Items |-> IF r.listed[j] > 0 THEN r.listed[j] ELSE row[j]]
      /\ UNCHANGED <<rev, at>> /\ r.pc = "saving"
  BY DEF SaveRead, forgeVars
<1>2. ListingSound(r) /\ r.src \in Sources
  BY <1>1 DEF ReadSound, TypeInv, Types, Reading
<1>3. SUFFICES ASSUME NEW i \in Items, rev[i] > 0
               PROVE  row'[i] = rev[i] \/ ChangedAt(i) >= Second(asOf'[SourceOf[i]])
  BY <1>1 DEF Fresh, ChangedAt, Second
<1>4. CASE SourceOf[i] = r.src
  <2>1. asOf'[SourceOf[i]] = r.started
    BY <1>1, <1>2, <1>4 DEF TypeInv, Types
  <2>2. Accounted(r, i) /\ ~ToCome(r, i)
    BY <1>1, <1>2, <1>3, <1>4 DEF ListingSound, ToCome
  <2> QED BY <1>1, <1>3, <2>1, <2>2 DEF Accounted
<1>5. CASE SourceOf[i] # r.src
  <2>1. row'[i] = row[i] /\ asOf'[SourceOf[i]] = asOf[SourceOf[i]]
    BY <1>1, <1>2, <1>5, SourceOfAssumption DEF ListingSound, TypeInv, Types
  <2> QED BY <1>3, <2>1 DEF Fresh
<1> QED BY <1>4, <1>5

\* A step that leaves the forge and the tables alone leaves them fresh.
LEMMA FreshUntouched ==
    ASSUME UNCHANGED <<rev, at, row, asOf, dump>>, Fresh(row, asOf), Fresh(dump.row, dump.asOf)
    PROVE  Fresh(row, asOf)' /\ Fresh(dump.row, dump.asOf)'
BY DEF Fresh, ChangedAt, Second

\* Every step leaves the tables, and the last dump of them, fresh.
LEMMA NextFresh ==
    ASSUME Calm, IInv, [Next]_vars
    PROVE  Fresh(row, asOf)' /\ Fresh(dump.row, dump.asOf)'
<1> USE DEF IInv
<1>1. ASSUME NEW i \in Items, Change(i) PROVE Fresh(row, asOf)' /\ Fresh(dump.row, dump.asOf)'
  <2>1. UNCHANGED <<row, asOf, dump>>
    BY <1>1, ChangeEffect DEF Calm
  <2>2. asOf \in [Sources -> Int] /\ dump.asOf \in [Sources -> Int]
    BY DEF TypeInv, Types, Tables
  <2>3. \A s \in Sources : Past(asOf[s]) /\ Past(dump.asOf[s])
    BY DEF TypeInv, Clocks
  <2>4. \A j \in Items : rev'[j] > 0 =>
            row[j] = rev'[j] \/ ChangedAt(j)' >= Second(asOf[SourceOf[j]])
    BY <1>1, <2>2, <2>3, FreshAfterChange
  <2>5. \A j \in Items : rev'[j] > 0 =>
            dump.row[j] = rev'[j] \/ ChangedAt(j)' >= Second(dump.asOf[SourceOf[j]])
    BY <1>1, <2>2, <2>3, FreshAfterChange
  <2> QED BY <2>1, <2>4, <2>5 DEF Fresh, Second
<1>2. ASSUME NEW p \in Pods, ProjectHead(p) PROVE Fresh(row, asOf)' /\ Fresh(dump.row, dump.asOf)'
  <2>1. UNCHANGED <<rev, at, asOf, dump>>
    BY <1>2 DEF ProjectHead, forgeVars
  <2>2. ASSUME NEW i \in Items, row[i] = rev[i] PROVE row'[i] = rev[i]
    <3>1. row[i] <= row'[i] /\ row'[i] <= rev[i] /\ row'[i] \in Int /\ row[i] \in Int
      BY <1>2, ProjectForward
    <3> QED BY <3>1, <2>2
  <2> QED BY <2>1, <2>2 DEF Fresh, ChangedAt, Second
<1>3. ASSUME NEW p \in Pods, SaveRead(p) PROVE Fresh(row, asOf)' /\ Fresh(dump.row, dump.asOf)'
  <2>1. UNCHANGED <<rev, at, dump>>
    BY <1>3 DEF SaveRead, forgeVars
  <2> QED BY <1>3, <2>1, FreshAfterSave DEF Fresh, ChangedAt, Second
<1>4. CASE TakeDump
  <2>1. UNCHANGED <<rev, at, row, asOf>> /\ dump'.row = row /\ dump'.asOf = asOf
    BY <1>4 DEF TakeDump, forgeVars, tables
  <2> QED BY <2>1 DEF Fresh, ChangedAt, Second
<1>5. CASE Restore
  <2>1. UNCHANGED <<rev, at, dump>> /\ row' = dump.row /\ asOf' = dump.asOf
    BY <1>5 DEF Restore, forgeVars
  <2> QED BY <2>1 DEF Fresh, ChangedAt, Second
<1>6. CASE Tick
  BY <1>6, FreshUntouched DEF Tick, tables, podVars
<1>7. ASSUME NEW i \in Items, Delete(i) PROVE Fresh(row, asOf)' /\ Fresh(dump.row, dump.asOf)'
  BY <1>7, FreshUntouched DEF Delete, tables, podVars
<1>8. CASE UNCHANGED vars
  BY <1>8, FreshUntouched DEF vars, forgeVars, tables
<1>9. ASSUME NEW p \in Pods, Pod(p), ~ProjectHead(p), ~SaveRead(p)
      PROVE  Fresh(row, asOf)' /\ Fresh(dump.row, dump.asOf)'
  <2>1. UNCHANGED <<rev, at, row, asOf, dump>>
    BY <1>9 DEF Pod, forgeVars, tables, Receive, TakeBatch, MarkHead, GiveUp, LastRead,
                StartListing, FetchPage, FailRead, Restart
  <2> QED BY <2>1, FreshUntouched
<1> QED BY <1>1, <1>2, <1>3, <1>4, <1>5, <1>6, <1>7, <1>8, <1>9 DEF Next, Forge

\* A page still to come stays to come when another item of the source changes.
LEMMA ChangeListing ==
    ASSUME Calm, TypeInv, History, NEW i \in Items, Change(i), NEW p \in Pods,
           ListingSound(read[p])
    PROVE  ListingSound(read[p])'
<1> DEFINE r == read[p]
           S == Matching(r.src, r.since)
           T == Matching(r.src, r.since)'
<1>1. /\ rev'[i] = rev[i] + 1 /\ rev[i] \in Nat
      /\ ChangedAt(i) < Second(now) /\ ChangedAt(i)' = Second(now)
      /\ \A j \in Items \ {i} : rev'[j] = rev[j] /\ at'[j] = at[j]
      /\ UNCHANGED <<now, gone, row, asOf, dump, read>>
  BY ChangeEffect DEF Calm
<1>2. /\ r.offset \in Nat /\ r.started \in Int /\ r.since \in Int
      /\ Past(r.started) /\ Past(r.since)
  BY DEF TypeInv, Types, Reading, Clocks
<1>3. Second(now) >= Second(r.started) /\ Second(now) >= Second(r.since)
  <2>1. Second(r.started) <= Second(now)
    BY <1>2, PastSecond DEF TypeInv, Types
  <2>2. Second(r.since) <= Second(now)
    BY <1>2, PastSecond DEF TypeInv, Types
  <2> QED BY <2>1, <2>2
<1>4. r' = r /\ \A t : Second(t)' = Second(t)
  BY <1>1 DEF Second
<1>5. \A j \in Items \ {i} : ChangedAt(j)' = ChangedAt(j) /\ Exists(j)' = Exists(j)
  BY <1>1 DEF ChangedAt, Exists
<1>6. S \subseteq T /\ S \subseteq Items /\ T \subseteq Items
  <2>1. T = {j \in Items : SourceOf[j] = r.src /\ Exists(j)' /\ ChangedAt(j)' >= Second(r.since)}
    BY <1>4 DEF Matching
  <2>2. S = {j \in Items : SourceOf[j] = r.src /\ Exists(j) /\ ChangedAt(j) >= Second(r.since)}
    BY DEF Matching
  <2>3. Exists(i) => Exists(i)'
    BY <1>1 DEF Exists
  <2> QED BY <2>1, <2>2, <2>3, <1>1, <1>3, <1>5
<1>7. ASSUME NEW j \in Items, ToCome(r, j), j # i PROVE ToCome(r, j)'
  <2>1. j \in S /\ Rank(j, S) >= r.offset /\ r.pc = "listing"
    BY <1>7 DEF ToCome
  <2>2. Rank(j, S) \in Nat /\ Rank(j, T) \in Nat /\ Rank(j, S) <= Rank(j, T)
    BY <1>6, RankMonotone
  <2>3. Rank(j, T) >= r.offset /\ j \in T
    BY <2>1, <2>2, <1>2, <1>6
  <2>4. ToCome(r, j)' = (r.pc = "listing" /\ j \in T /\ Rank(j, T) >= r.offset)
    BY <1>4 DEF ToCome, Rank
  <2> QED BY <2>1, <2>3, <2>4
<1>8. ASSUME NEW j \in Items, SourceOf[j] = r.src, rev'[j] > 0
      PROVE  Accounted(r, j)'
  <2>1. CASE j = i
    BY <2>1, <1>1, <1>3, <1>4 DEF Accounted
  <2>2. CASE j # i
    <3>1. rev'[j] = rev[j] /\ ChangedAt(j)' = ChangedAt(j) /\ row'[j] = row[j]
      BY <2>2, <1>1, <1>5
    <3>2. Accounted(r, j)
      BY <3>1, <1>8 DEF ListingSound
    <3>3. ToCome(r, j) => ToCome(r, j)'
      BY <2>2, <1>7
    <3>4. Accounted(r, j)' = \/ ChangedAt(j) >= Second(r.started)
                             \/ r.listed[j] = rev[j]
                             \/ r.listed[j] = 0 /\ row[j] = rev[j]
                             \/ r.listed[j] = 0 /\ ToCome(r, j)'
      BY <3>1, <1>4 DEF Accounted
    <3> HIDE DEF r
    <3> QED BY <3>2, <3>3, <3>4 DEF Accounted
  <2> QED BY <2>1, <2>2
<1> QED BY <1>4, <1>8 DEF ListingSound

\* A page read is a page accounted for: an item met on it is held as it is now, and an
\* item that was still to come is on a later page.
LEMMA FetchListing ==
    ASSUME TypeInv, NEW p \in Pods, FetchPage(p), ListingSound(read[p])
    PROVE  ListingSound(read[p])'
<1> DEFINE r == read[p]
           s == read'[p]
           all == Matching(r.src, r.since)
           next == r.offset + PerPage
<1>1. r \in Reading /\ r.pc = "listing"
  BY DEF FetchPage, TypeInv, Types
<1>2. /\ \A i \in Items : s.listed[i] = IF i \in Page(all, r.offset) THEN rev[i] ELSE r.listed[i]
      /\ s.pc = IF next < Cardinality(all) THEN "listing" ELSE "saving"
      /\ s.offset = IF next < Cardinality(all) THEN next ELSE r.offset
      /\ s.src = r.src /\ s.since = r.since /\ s.started = r.started
  <2>1. read' = [read EXCEPT ![p] = [r EXCEPT
          !.listed = [i \in Items |-> IF i \in Page(all, r.offset) THEN rev[i] ELSE r.listed[i]],
          !.pc = IF next < Cardinality(all) THEN "listing" ELSE "saving",
          !.offset = IF next < Cardinality(all) THEN next ELSE r.offset]]
    BY DEF FetchPage
  <2>2. read \in [Pods -> Reading]
    BY DEF TypeInv, Types
  <2> HIDE DEF all, next
  <2> QED BY <2>1, <2>2, <1>1 DEF Reading
<1>3. UNCHANGED <<rev, at, gone, row>>
  BY DEF FetchPage, forgeVars, tables
<1>4. all \subseteq Items /\ Cardinality(all) \in Nat /\ r.offset \in Nat /\ next \in Nat
  <2>1. all \subseteq Items
    BY DEF Matching
  <2>2. IsFiniteSet(all)
    BY <2>1, ItemsAssumption, FS_Subset
  <2> QED BY <1>1, <2>1, <2>2, FS_CardinalityType, NumbersAssumption DEF Reading
<1>5. \A i \in all : SourceOf[i] = r.src
  BY DEF Matching
<1>6. ASSUME NEW i \in Items, ToCome(r, i)
      PROVE  i \in Page(all, r.offset) \/ (s.pc = "listing" /\ Rank(i, all) >= s.offset)
  <2>1. i \in all /\ Rank(i, all) >= r.offset
    BY <1>6 DEF ToCome
  <2>2. Rank(i, all) \in Nat /\ Rank(i, all) < Cardinality(all)
    BY <2>1, <1>4, RankBelow, RankMonotone
  <2>3. CASE Rank(i, all) < next
    BY <2>1, <2>3 DEF Page
  <2>4. CASE Rank(i, all) >= next
    <3>1. next < Cardinality(all)
      BY <2>2, <2>4, <1>4
    <3> QED BY <2>4, <3>1, <1>2
  <2> QED BY <2>2, <2>3, <2>4, <1>4
<1>7. \A i \in Items : ToCome(read[p], i)' =
        (s.pc = "listing" /\ i \in all /\ Rank(i, all) >= s.offset)
  <2>1. Matching(read[p].src, read[p].since)' = all
    BY <1>2, <1>3 DEF Matching, Exists, ChangedAt, Second
  <2> QED BY <2>1 DEF ToCome, Rank
<1>8. ASSUME NEW i \in Items, SourceOf[i] = r.src, rev[i] > 0
      PROVE  Accounted(read[p], i)'
  <2>1. Accounted(r, i)
    BY <1>8 DEF ListingSound
  <2>2. Accounted(read[p], i)' <=>
            \/ ChangedAt(i) >= Second(r.started)
            \/ s.listed[i] = rev[i]
            \/ s.listed[i] = 0 /\ row[i] = rev[i]
            \/ s.listed[i] = 0 /\ ToCome(read[p], i)'
    BY <1>2, <1>3 DEF Accounted, ChangedAt, Second
  <2>3. CASE i \in Page(all, r.offset)
    BY <2>2, <2>3, <1>2
  <2>4. CASE i \notin Page(all, r.offset)
    <3>1. s.listed[i] = r.listed[i]
      BY <2>4, <1>2
    <3>2. ToCome(r, i) => ToCome(read[p], i)'
      BY <2>4, <1>6, <1>7 DEF ToCome
    <3> HIDE DEF r, s
    <3> QED BY <2>1, <2>2, <3>1, <3>2 DEF Accounted
  <2> QED BY <2>3, <2>4
<1>9. ASSUME NEW i \in Items, SourceOf[i] # r.src PROVE s.listed[i] = 0
  <2>1. i \notin Page(all, r.offset)
    BY <1>5, <1>9 DEF Page
  <2> QED BY <2>1, <1>2, <1>9 DEF ListingSound
<1> QED BY <1>2, <1>3, <1>8, <1>9 DEF ListingSound

\* A step that leaves the forge and the rows alone leaves a goroutine it does not touch
\* as sound as it was.
LEMMA SoundUntouched ==
    ASSUME UNCHANGED <<rev, at, gone, row>>, NEW p \in Pods, read'[p] = read[p]
    PROVE  /\ AskedSound(read[p]) => AskedSound(read[p])'
           /\ ListingSound(read[p]) => ListingSound(read[p])'
BY DEF AskedSound, ListingSound, Accounted, ToCome, Rank, Matching, Exists, ChangedAt, Second

\* Every step keeps every read sound.
LEMMA NextReadSound ==
    ASSUME Calm, IInv, [Next]_vars PROVE ReadSound'
<1> USE DEF IInv
<1> SUFFICES ASSUME NEW p \in Pods
             PROVE  /\ read'[p].pc = "asked" => AskedSound(read[p])'
                    /\ read'[p].pc \in {"listing", "saving"} => ListingSound(read[p])'
  BY DEF ReadSound
<1> DEFINE Goal == /\ read'[p].pc = "asked" => AskedSound(read[p])'
                   /\ read'[p].pc \in {"listing", "saving"} => ListingSound(read[p])'
<1>0. \A q \in Pods : q = p
  BY DEF Calm
<1>1. CASE UNCHANGED <<rev, at, gone, row, read>>
  BY <1>1, SoundUntouched DEF ReadSound
<1>2. CASE read'[p] = Idle
  BY <1>2, IdleType
<1>3. ASSUME NEW i \in Items, Change(i) PROVE Goal
  <2>1. read' = read /\ row' = row
    BY <1>3, ChangeEffect DEF Calm
  <2>2. ListingSound(read[p]) => ListingSound(read[p])'
    BY <1>3, ChangeListing
  <2>3. ASSUME AskedSound(read[p]) PROVE AskedSound(read[p])'
    <3>1. /\ \A j \in Items \ {i} : rev'[j] = rev[j] /\ at'[j] = at[j]
          /\ ChangedAt(i)' = Second(now)
      BY <1>3, ChangeEffect DEF Calm
    <3>2. Past(read[p].since) /\ read[p].since \in Int /\ now \in Nat
      BY DEF TypeInv, Types, Reading, Clocks
    <3>3. Second(read[p].since) <= Second(now)
      BY <3>2, PastSecond
    <3> QED BY <2>1, <2>3, <3>1, <3>3 DEF AskedSound, ChangedAt, Second
  <2> QED BY <2>1, <2>2, <2>3 DEF ReadSound
<1>4. CASE ProjectHead(p)
  <2>1. UNCHANGED <<rev, at, gone, read>>
    BY <1>4 DEF ProjectHead, forgeVars
  <2>2. ASSUME NEW i \in Items, row[i] = rev[i] PROVE row'[i] = rev[i]
    <3>1. row[i] <= row'[i] /\ row'[i] <= rev[i] /\ row'[i] \in Int /\ row[i] \in Int
      BY <1>4, ProjectForward
    <3> QED BY <3>1, <2>2
  <2>3. AskedSound(read[p]) => AskedSound(read[p])'
    BY <2>1, <2>2 DEF AskedSound, ChangedAt, Second
  <2>4. ListingSound(read[p]) => ListingSound(read[p])'
    <3>1. \A i \in Items : ToCome(read[p], i) => ToCome(read[p], i)'
      BY <2>1 DEF ToCome, Rank, Matching, Exists, ChangedAt, Second
    <3> QED BY <2>1, <2>2, <3>1 DEF ListingSound, Accounted, ChangedAt, Second
  <2> QED BY <2>1, <2>3, <2>4 DEF ReadSound
<1>5. ASSUME NEW s \in Sources, LastRead(p, s) PROVE Goal
  <2>1. /\ read'[p].pc = "asked" /\ read'[p].src = s /\ read'[p].since = asOf[s]
        /\ read'[p].offset = 0 /\ \A i \in Items : read'[p].listed[i] = 0
    BY <1>5, IdleType DEF LastRead, TypeInv, Types, Reading
  <2>2. UNCHANGED <<rev, at, gone, row, asOf>>
    BY <1>5 DEF LastRead, forgeVars, tables
  <2> QED BY <2>1, <2>2 DEF AskedSound, Fresh, ChangedAt, Second
<1>6. CASE StartListing(p)
  <2>1. /\ read[p].pc = "asked" /\ read'[p].pc = "listing" /\ read'[p].src = read[p].src
        /\ read'[p].since = read[p].since /\ read'[p].offset = read[p].offset
        /\ read'[p].listed = read[p].listed
    BY <1>6 DEF StartListing, TypeInv, Types, Reading
  <2>2. UNCHANGED <<rev, at, gone, row>>
    BY <1>6 DEF StartListing, forgeVars, tables
  <2>3. AskedSound(read[p])
    BY <2>1 DEF ReadSound
  <2>4. ASSUME NEW i \in Items, SourceOf[i] = read[p].src, rev[i] > 0, row[i] # rev[i]
        PROVE  ToCome(read[p], i)'
    <3>1. i \in Matching(read[p].src, read[p].since)'
      BY <2>1, <2>2, <2>3, <2>4 DEF AskedSound, Matching, Exists, ChangedAt, Second
    <3>2. Rank(i, Matching(read[p].src, read[p].since)') \in Nat
      <4>1. Matching(read[p].src, read[p].since)' \subseteq Items
        BY DEF Matching
      <4> QED BY <4>1, RankMonotone
    <3> QED BY <2>1, <2>3, <3>1, <3>2 DEF ToCome, AskedSound, Rank
  <2> QED BY <2>1, <2>2, <2>3, <2>4 DEF ListingSound, Accounted, AskedSound
<1>7. CASE FetchPage(p)
  <2>1. ListingSound(read[p]) /\ read'[p].pc \in {"listing", "saving"}
    BY <1>7 DEF FetchPage, ReadSound, TypeInv, Types, Reading
  <2> QED BY <1>7, <2>1, FetchListing
<1>8. CASE SaveRead(p) \/ FailRead(p) \/ Restart(p)
  BY <1>2, <1>8 DEF SaveRead, FailRead, Restart, TypeInv, Types
<1>9. CASE Restore
  <2>1. read'[p] = read[p] /\ read[p].pc = "idle"
    BY <1>9 DEF Restore, Calm, podVars
  <2> QED BY <2>1
<1>10. ASSUME NEW i \in Items, Delete(i) PROVE Goal
  BY <1>10 DEF Delete, Calm
<1>11. CASE Tick \/ TakeDump \/ UNCHANGED vars
  BY <1>1, <1>11 DEF Tick, TakeDump, vars, forgeVars, tables, podVars
<1>12. CASE \/ \E d \in Deliveries : Receive(p, d)
            \/ TakeBatch(p) \/ MarkHead(p) \/ GiveUp(p)
  BY <1>1, <1>12 DEF Receive, TakeBatch, MarkHead, GiveUp, forgeVars, tables, podVars
<1>13. Pod(p) \/ (\A q \in Pods : ~Pod(q))
  BY <1>0
<1> QED BY <1>3, <1>4, <1>5, <1>6, <1>7, <1>8, <1>9, <1>10, <1>11, <1>12, <1>13
        DEF Next, Forge, Pod

\* The tables start empty, and a first read lists everything.
LEMMA InitIInv == Calm /\ Init => IInv
<1> SUFFICES ASSUME Calm, Init PROVE IInv
  OBVIOUS
<1>1. TypeInv
  BY InitTypes, InitVersions DEF TypeInv
<1>2. History
  BY <1>1, InitHistory
<1>3. Fresh(row, asOf) /\ Fresh(dump.row, dump.asOf)
  BY DEF Init, Fresh
<1>4. ReadSound
  BY IdleType DEF Init, ReadSound
<1> QED BY <1>1, <1>2, <1>3, <1>4 DEF IInv, Init

\* No change is lost: an item the table does not hold as the forge does changed at or
\* after as_of, so the next read of its source lists it.  For any items, sources, page
\* and batch size, and any number of failed calls and restarts.
THEOREM NothingLost ==
    ASSUME Calm PROVE Spec => []NoLostChange
<1>1. Init => IInv
  BY InitIInv
<1>2. IInv /\ [Next]_vars => IInv'
  <2>1. ASSUME IInv, [Next]_vars PROVE TypeInv'
    BY <2>1, NextTypes, NextVersions, NextClocks DEF IInv, TypeInv
  <2>2. ASSUME IInv, [Next]_vars PROVE History' /\ gone' = {}
    <3>1. History'
      BY <2>2, NextHistory DEF IInv, Calm
    <3>2. gone' = {}
      BY <2>2, ForgeSteps DEF IInv, Calm, Tick, Change, Delete, forgeVars
    <3> QED BY <3>1, <3>2
  <2>3. ASSUME IInv, [Next]_vars PROVE Fresh(row, asOf)' /\ Fresh(dump.row, dump.asOf)'
    BY <2>3, NextFresh
  <2>4. ASSUME IInv, [Next]_vars PROVE ReadSound'
    BY <2>4, NextReadSound
  <2> QED BY <2>1, <2>2, <2>3, <2>4 DEF IInv
<1>3. IInv => NoLostChange
  BY DEF IInv, Fresh, NoLostChange, Exists
<1> QED BY <1>1, <1>2, <1>3, PTL DEF Spec

-----------------------------------------------------------------------------
(* What a step may never do. *)

\* Projecting never takes an item back to an older revision, if the forge never changes
\* an item twice in a second: postgres.go compares updated_at alone.  Only a read that
\* was overtaken while it ran, or a restored dump, takes one back.
THEOREM ProjectionGoesForward ==
    ASSUME ~SameSecond PROVE Spec => OnlyReadsGoBack
<1> DEFINE HInv == TypeInv /\ History
           Back == (\E i \in Items : row'[i] < row[i]) =>
                     \/ restores' # restores
                     \/ \E p \in Pods : read[p].pc = "saving" /\ read'[p].pc = "idle"
<1>1. Init => HInv
  BY InitTypes, InitVersions, InitHistory DEF TypeInv
<1>2. HInv /\ [Next]_vars => HInv'
  BY NextTypes, NextVersions, NextClocks, NextHistory DEF TypeInv
<1>3. HInv /\ [Next]_vars => [Back]_vars
  <2> SUFFICES ASSUME HInv, [Next]_vars, NEW i \in Items, row'[i] < row[i]
               PROVE  \/ restores' # restores
                      \/ \E p \in Pods : read[p].pc = "saving" /\ read'[p].pc = "idle"
    OBVIOUS
  <2>1. row[i] \in Int
    BY NumbersAssumption DEF TypeInv, Types
  <2>2. row' # row
    BY <2>1
  <2>3. ASSUME NEW p \in Pods, ProjectHead(p) PROVE FALSE
    <3>1. row[i] <= row'[i] /\ row'[i] \in Int /\ row[i] \in Int
      BY <2>3, ProjectForward
    <3> QED BY <3>1
  <2>4. \/ Restore
        \/ \E p \in Pods : SaveRead(p)
    BY <2>2, <2>3 DEF Next, Forge, Pod, vars, tables, Tick, Change, Delete, Receive, TakeBatch,
         MarkHead, GiveUp, LastRead, StartListing, FetchPage, FailRead, Restart, TakeDump
  <2>5. CASE Restore
    BY <2>5 DEF Restore, TypeInv, Types
  <2>6. ASSUME NEW p \in Pods, SaveRead(p)
        PROVE  read[p].pc = "saving" /\ read'[p].pc = "idle"
    BY <2>6, IdleType DEF SaveRead, TypeInv, Types
  <2> QED BY <2>4, <2>5, <2>6
<1> QED BY <1>1, <1>2, <1>3, PTL DEF Spec, OnlyReadsGoBack
=============================================================================
