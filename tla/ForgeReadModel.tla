--------------------------- MODULE ForgeReadModel ---------------------------
(***************************************************************************)
(* The forge read model of apps/api: the webhook receiver, the projector,  *)
(* the reconciler and the three Postgres tables they share.                *)
(*                                                                         *)
(* The forge is the environment.  It holds numbered items, and every       *)
(* change makes a new revision of one of them, stamped with the second it  *)
(* was made in (updated_at).  Each revision is also a webhook delivery,    *)
(* which may arrive late, out of order, more than once or never.           *)
(*                                                                         *)
(* An item's content is abstracted to its revision number, which the code  *)
(* never sees: the code compares updated_at.  row[i] is the revision the   *)
(* forge_item row holds, 0 when there is no row.                           *)
(***************************************************************************)
EXTENDS Integers, FiniteSets

CONSTANTS
    Items,              \* item numbers
    Sources,            \* repositories
    Declarations,       \* the declarations a pod may be configured with
    SourceOf,           \* the repository of each item
    Pods,               \* processes of the API running at the same time
    Batch,              \* projectBatch
    PerPage,            \* items per page of a listing
    TicksPerSecond,     \* the node's clock is finer than updated_at
    Skew,               \* how far the node's clock is ahead of the forge's
    Refused,            \* deliveries whose item the store always refuses
    SameSecond,         \* may the forge change an item twice in a second?
    Deletes,            \* may the forge delete an item?
    RestoreWhileReading,\* may the tables be restored under a running read?
    MaxTime, MaxRev, MaxFaults, MaxRestores     \* bounds

Deliveries == [item : Items, rev : 1..MaxRev, deleted : BOOLEAN]

ASSUME ItemsAssumption == Items \subseteq Nat /\ IsFiniteSet(Items)
ASSUME SourcesAssumption == Sources # {}
ASSUME SourceOfAssumption == SourceOf \in [Items -> Sources]
ASSUME NumbersAssumption ==
    /\ Batch \in Nat \ {0}
    /\ PerPage \in Nat \ {0}
    /\ TicksPerSecond \in Nat \ {0}
    /\ Skew \in Int
    /\ MaxTime \in Nat /\ MaxRev \in Nat
    /\ MaxFaults \in Nat /\ MaxRestores \in Nat
ASSUME SwitchesAssumption ==
    /\ Declarations \subseteq SUBSET Sources
    /\ SameSecond \in BOOLEAN /\ Deletes \in BOOLEAN
    /\ RestoreWhileReading \in BOOLEAN
    /\ Refused \subseteq Deliveries

VARIABLES
    now,        \* the forge's clock, in ticks
    rev,        \* rev[i]: the item's newest revision on the forge, 0 before it exists
    at,         \* at[i][r]: the second revision r was made in; 0 for revision 0, which is none
    gone,       \* items deleted on the forge
    row,        \* forge_item
    asOf,       \* forge_source.as_of, Never when NULL
    reachable,  \* forge_source.source_reachable
    arrival,    \* forge_event.received_at as a rank, 0 when not stored
    projected,  \* forge_event.projected_at is set
    dump,       \* the last pg_dumpall of the four above
    declared,   \* declared[p]: the sources pod p was configured with
    read,       \* read[p]: the reconciler's goroutine
    batch,      \* batch[p]: deliveries the projector's goroutine still holds
    faults,     \* failed calls and restarts so far, up to MaxFaults
    restores

forgeVars == <<now, rev, at, gone>>
tables    == <<row, asOf, reachable, arrival, projected>>
podVars   == <<declared, read, batch>>
vars == <<forgeVars, tables, dump, podVars, faults, restores>>

-----------------------------------------------------------------------------
(* Helpers.                                                                *)

Never == 0                       \* the zero time: lists everything
Second(t) == t \div TicksPerSecond
NodeNow == now + Skew

Exists(i) == rev[i] > 0 /\ i \notin gone
ChangedAt(i) == at[i][rev[i]]
Stored == {d \in Deliveries : arrival[d] > 0}
Pending == Stored \ projected

\* The `limit` oldest of the unprojected deliveries.
OldestPending ==
    {d \in Pending : Cardinality({e \in Pending : arrival[e] < arrival[d]}) < Batch}

Idle == [pc |-> "idle", src |-> CHOOSE s \in Sources : TRUE, since |-> Never,
         started |-> Never, offset |-> 0, listed |-> [i \in Items |-> 0]]

\* Mutant: a listing that leaves out the second it is asked from.
MatchingAfter(s, since) ==
    {i \in Items : SourceOf[i] = s /\ Exists(i) /\ ChangedAt(i) > Second(since)}

\* What the forge lists for a source and a point in time: `since` is formatted to
\* whole seconds, and compared with updated_at.
Matching(s, since) ==
    {i \in Items : SourceOf[i] = s /\ Exists(i) /\ ChangedAt(i) >= Second(since)}

\* A page is a range of ranks in the forge's order, newest number first.
Rank(i, S) == Cardinality({j \in S : j > i})
Page(S, offset) == {i \in S : Rank(i, S) >= offset /\ Rank(i, S) < offset + PerPage}

\* Mutant: the upsert without its WHERE clause.
NotOlderUnguarded(d) == TRUE

\* The projection's upsert inserts, or updates where forge_item.updated_at <= the delivery's.
NotOlder(d) == at[d.item][row[d.item]] <= at[d.item][d.rev]

-----------------------------------------------------------------------------
(* The forge and its clock.                                                *)

Tick ==
    /\ now < MaxTime
    /\ now' = now + 1
    /\ UNCHANGED <<rev, at, gone, tables, dump, podVars, faults, restores>>

\* An item is opened or changed.
Change(i) ==
    /\ i \notin gone
    /\ rev[i] < MaxRev
    /\ SameSecond \/ ChangedAt(i) < Second(now)
    /\ rev' = [rev EXCEPT ![i] = @ + 1]
    /\ at' = [at EXCEPT ![i][rev[i] + 1] = Second(now)]
    /\ UNCHANGED <<now, gone, tables, dump, podVars, faults, restores>>

Delete(i) ==
    /\ Deletes
    /\ Exists(i)
    /\ gone' = gone \cup {i}
    /\ UNCHANGED <<now, rev, at, tables, dump, podVars, faults, restores>>

\* Deliveries the forge has made so far.
Emitted(d) ==
    IF d.deleted THEN d.item \in gone /\ d.rev = rev[d.item]
                 ELSE d.rev <= rev[d.item]

-----------------------------------------------------------------------------
(* Receiver.Handle: a delivery about a declared repository is stored, and  *)
(* a delivery already stored changes nothing.                              *)

Receive(p, d) ==
    /\ Emitted(d)
    /\ SourceOf[d.item] \in declared[p]
    /\ d \notin Stored
    /\ arrival' = [arrival EXCEPT ![d] = Cardinality(Stored) + 1]
    /\ UNCHANGED <<forgeVars, row, asOf, reachable, projected, dump, podVars,
                   faults, restores>>

-----------------------------------------------------------------------------
(* The projector.                                                          *)

TakeBatch(p) ==
    /\ declared[p] # {}      \* StartForgeReconcile starts neither loop without sources
    /\ batch[p] = {}
    /\ Pending # {}
    /\ batch' = [batch EXCEPT ![p] = OldestPending]
    /\ UNCHANGED <<forgeVars, tables, dump, declared, read, faults, restores>>

\* The delivery the loop over the batch is at.
Head(p, d) ==
    /\ d \in batch[p]
    /\ \A e \in batch[p] : arrival[d] <= arrival[e]

\* Project(e, item): one transaction writes the item and marks the delivery.
ProjectHead(p) == \E d \in batch[p] :
    /\ Head(p, d)
    /\ d \notin Refused
    /\ row' = IF ~d.deleted /\ NotOlder(d) THEN [row EXCEPT ![d.item] = d.rev] ELSE row
    /\ projected' = projected \cup ({d} \cap Stored)
    /\ batch' = [batch EXCEPT ![p] = @ \ {d}]
    /\ UNCHANGED <<forgeVars, asOf, reachable, arrival, dump, declared, read,
                   faults, restores>>

\* Mutant: a delivery whose item is refused is left for the next cycle.
MarkHeadLater(p) == \E d \in batch[p] :
    /\ Head(p, d)
    /\ d \in Refused
    /\ batch' = [batch EXCEPT ![p] = @ \ {d}]
    /\ UNCHANGED <<forgeVars, tables, dump, declared, read, faults, restores>>

\* Project(e, item) failed, and Project(e, nil) marks the delivery without its item.
MarkHead(p) == \E d \in batch[p] :
    /\ Head(p, d)
    /\ \/ d \in Refused /\ UNCHANGED faults
       \/ d \notin Refused /\ faults < MaxFaults /\ faults' = faults + 1
    /\ projected' = projected \cup ({d} \cap Stored)
    /\ batch' = [batch EXCEPT ![p] = @ \ {d}]
    /\ UNCHANGED <<forgeVars, row, asOf, reachable, arrival, dump, declared, read,
                   restores>>

\* Both failed: the rest of the batch stays pending.
GiveUp(p) ==
    /\ batch[p] # {}
    /\ faults < MaxFaults
    /\ faults' = faults + 1
    /\ batch' = [batch EXCEPT ![p] = {}]
    /\ UNCHANGED <<forgeVars, tables, dump, declared, read, restores>>

-----------------------------------------------------------------------------
(* The reconciler: readSource, one source at a time.                       *)

LastRead(p, s) ==
    /\ read[p].pc = "idle"
    /\ s \in declared[p]
    /\ read' = [read EXCEPT ![p] = [Idle EXCEPT !.pc = "asked", !.src = s, !.since = asOf[s]]]
    /\ UNCHANGED <<forgeVars, tables, dump, declared, batch, faults, restores>>

\* Mutant: the time is rounded up to the next second.
StartListingAhead(p) ==
    /\ read[p].pc = "asked"
    /\ read' = [read EXCEPT ![p] = [@ EXCEPT !.pc = "listing",
                                             !.started = NodeNow + TicksPerSecond]]
    /\ UNCHANGED <<forgeVars, tables, dump, declared, batch, faults, restores>>

\* The time as_of will move to is taken before the first page is asked for.
StartListing(p) ==
    /\ read[p].pc = "asked"
    /\ read' = [read EXCEPT ![p] = [@ EXCEPT !.pc = "listing", !.started = NodeNow]]
    /\ UNCHANGED <<forgeVars, tables, dump, declared, batch, faults, restores>>

\* One page; the answer says whether another follows.  An item met on two pages
\* keeps its later reading, as the upserts run in the listing's order.
FetchPage(p) ==
    LET r == read[p]
        all == Matching(r.src, r.since)
        next == r.offset + PerPage
    IN  /\ r.pc = "listing"
        /\ read' = [read EXCEPT ![p] = [r EXCEPT
                !.listed = [i \in Items |-> IF i \in Page(all, r.offset) THEN rev[i] ELSE r.listed[i]],
                !.pc = IF next < Cardinality(all) THEN "listing" ELSE "saving",
                !.offset = IF next < Cardinality(all) THEN next ELSE r.offset]]
        /\ UNCHANGED <<forgeVars, tables, dump, declared, batch, faults, restores>>

\* Mutant: the read is stamped with the time it is saved at.
SaveReadStampedLate(p) ==
    LET r == read[p]
    IN  /\ r.pc = "saving"
        /\ asOf' = [asOf EXCEPT ![r.src] = NodeNow]
        /\ reachable' = [reachable EXCEPT ![r.src] = TRUE]
        /\ row' = [i \in Items |-> IF r.listed[i] > 0 THEN r.listed[i] ELSE row[i]]
        /\ read' = [read EXCEPT ![p] = Idle]
        /\ UNCHANGED <<forgeVars, arrival, projected, dump, declared, batch, faults, restores>>

\* One transaction: as_of moves and every item read is written, whatever its row holds.
SaveRead(p) ==
    LET r == read[p]
    IN  /\ r.pc = "saving"
        /\ asOf' = [asOf EXCEPT ![r.src] = r.started]
        /\ reachable' = [reachable EXCEPT ![r.src] = TRUE]
        /\ row' = [i \in Items |-> IF r.listed[i] > 0 THEN r.listed[i] ELSE row[i]]
        /\ read' = [read EXCEPT ![p] = Idle]
        /\ UNCHANGED <<forgeVars, arrival, projected, dump, declared, batch, faults, restores>>

\* Any step of the read failed: the source is marked unreachable and as_of stays,
\* unless the database refuses that too.
FailRead(p) ==
    LET r == read[p]
    IN  /\ r.pc # "idle"
        /\ faults < MaxFaults
        /\ faults' = faults + 1
        /\ \/ reachable' = [reachable EXCEPT ![r.src] = FALSE]
           \/ UNCHANGED reachable
        /\ read' = [read EXCEPT ![p] = Idle]
        /\ UNCHANGED <<forgeVars, row, asOf, arrival, projected, dump, declared, batch, restores>>

-----------------------------------------------------------------------------
(* Restarts, and the operator's backups.                                   *)

\* A pod starts again with what it held in memory gone, perhaps with another declaration.
Restart(p) ==
    /\ faults < MaxFaults
    /\ faults' = faults + 1
    /\ \E ss \in Declarations : declared' = [declared EXCEPT ![p] = ss]
    /\ read' = [read EXCEPT ![p] = Idle]
    /\ batch' = [batch EXCEPT ![p] = {}]
    /\ UNCHANGED <<forgeVars, tables, dump, restores>>

TakeDump ==
    /\ restores < MaxRestores
    /\ dump' = [row |-> row, asOf |-> asOf, reachable |-> reachable,
                arrival |-> arrival, projected |-> projected]
    /\ UNCHANGED <<forgeVars, tables, podVars, faults, restores>>

\* Mutant: forge_source is kept when the other two tables are restored.
RestoreKeepsSources ==
    /\ restores < MaxRestores
    /\ RestoreWhileReading \/ \A p \in Pods : read[p].pc = "idle"
    /\ restores' = restores + 1
    /\ row' = dump.row /\ arrival' = dump.arrival /\ projected' = dump.projected
    /\ UNCHANGED <<forgeVars, asOf, reachable, dump, podVars, faults>>

\* The whole dump is restored.  Before any dump was taken this empties the tables.
Restore ==
    /\ restores < MaxRestores
    /\ RestoreWhileReading \/ \A p \in Pods : read[p].pc = "idle"
    /\ restores' = restores + 1
    /\ row' = dump.row /\ asOf' = dump.asOf /\ reachable' = dump.reachable
    /\ arrival' = dump.arrival /\ projected' = dump.projected
    /\ UNCHANGED <<forgeVars, dump, podVars, faults>>

-----------------------------------------------------------------------------
Init ==
    /\ now = TicksPerSecond
    /\ rev = [i \in Items |-> 0]
    /\ at = [i \in Items |-> [r \in 0..MaxRev |-> 0]]
    /\ gone = {}
    /\ row = [i \in Items |-> 0]
    /\ asOf = [s \in Sources |-> Never]
    /\ reachable = [s \in Sources |-> FALSE]
    /\ arrival = [d \in Deliveries |-> 0]
    /\ projected = {}
    /\ dump = [row |-> row, asOf |-> asOf, reachable |-> reachable,
               arrival |-> arrival, projected |-> projected]
    /\ declared \in [Pods -> Declarations]
    /\ read = [p \in Pods |-> Idle]
    /\ batch = [p \in Pods |-> {}]
    /\ faults = 0
    /\ restores = 0

Forge == Tick \/ \E i \in Items : Change(i) \/ Delete(i)

Pod(p) ==
    \/ \E d \in Deliveries : Receive(p, d)
    \/ TakeBatch(p) \/ ProjectHead(p) \/ MarkHead(p) \/ GiveUp(p)
    \/ \E s \in Sources : LastRead(p, s)
    \/ StartListing(p) \/ FetchPage(p) \/ SaveRead(p) \/ FailRead(p)
    \/ Restart(p)

Next == Forge \/ (\E p \in Pods : Pod(p)) \/ TakeDump \/ Restore

Spec == Init /\ [][Next]_vars

\* Both loops run on tickers, and neither blocks the other.  A source is read again in
\* every cycle; failed calls end with MaxFaults.  Nothing is assumed of the forge, of
\* the delivery of webhooks or of the operator.
Fairness == \A p \in Pods :
    /\ WF_vars(TakeBatch(p))
    /\ WF_vars(ProjectHead(p) \/ MarkHead(p))
    /\ \A s \in Sources : SF_vars(LastRead(p, s))
    /\ WF_vars(StartListing(p))
    /\ WF_vars(FetchPage(p))
    /\ WF_vars(SaveRead(p))

FairSpec == Spec /\ Fairness

-----------------------------------------------------------------------------
(* Properties.                                                             *)

Reading == [pc : {"idle", "asked", "listing", "saving"}, src : Sources, since : Int,
            started : Int, offset : Nat, listed : [Items -> 0..MaxRev]]

Tables == [row : [Items -> 0..MaxRev], asOf : [Sources -> Int],
           reachable : [Sources -> BOOLEAN], arrival : [Deliveries -> Nat],
           projected : SUBSET Deliveries]

Types ==
    /\ now \in Nat
    /\ rev \in [Items -> 0..MaxRev]
    /\ at \in [Items -> [0..MaxRev -> Nat]]
    /\ gone \subseteq Items
    /\ row \in [Items -> 0..MaxRev]
    /\ asOf \in [Sources -> Int]
    /\ reachable \in [Sources -> BOOLEAN]
    /\ arrival \in [Deliveries -> Nat]
    /\ projected \subseteq Deliveries
    /\ dump \in Tables
    /\ declared \in [Pods -> SUBSET Sources]
    /\ read \in [Pods -> Reading]
    /\ batch \in [Pods -> SUBSET Deliveries]
    /\ faults \in Nat
    /\ restores \in Nat

\* Every variable holds a value of its type, no row holds a revision the forge has not
\* made, and as_of is never ahead of the node's clock.
TypeOK ==
    /\ Types
    /\ \A i \in Items : row[i] <= rev[i]
    /\ \A s \in Sources : asOf[s] = Never \/ asOf[s] <= NodeNow

\* No change is lost: an item the table does not hold as the forge does changed at or
\* after as_of, so the next read of its source lists it (reconcile.go, "a webhook that
\* never arrived costs a delay and not a lost item").
NoLostChange ==
    \A i \in Items : Exists(i) =>
        \/ row[i] = rev[i]
        \/ ChangedAt(i) >= Second(asOf[SourceOf[i]])

\* Projecting never takes an item back to an older revision; only a read that was
\* overtaken while it ran, or a restored dump, does (postgres.go, "an older delivery
\* arriving late does not overwrite a newer read of the same item").
OnlyReadsGoBack ==
    [][(\E i \in Items : row'[i] < row[i]) =>
          \/ restores' # restores
          \/ \E p \in Pods : read[p].pc = "saving" /\ read'[p].pc = "idle"]_vars

\* A stored delivery is projected in the end, also behind deliveries the store always
\* refuses, if a pod goes on running the projector.
StoredIsProjected ==
    \A d \in Deliveries :
        (d \in Pending) ~> (d \in projected \/ d \notin Stored \/ \A p \in Pods : declared[p] = {})

\* When the forge stops changing, the view ends as the forge is, with no webhook at all.
ViewConverges ==
    \A i \in Items :
        <>[](Exists(i) /\ (\A p \in Pods : SourceOf[i] \in declared[p]) => row[i] = rev[i])
=============================================================================
