-------------------------- MODULE NodeBackupProofs --------------------------
(***************************************************************************)
(* What the capture, the ships and the prune of NodeBackup keep, for any   *)
(* sources and any repository ids: the types, and the promise about the    *)
(* node's history, RestoreHistory; a ship that no capture got in the way   *)
(* of saves every source whole; and restic prunes and checks alone.        *)
(***************************************************************************)
EXTENDS NodeBackup, TLAPS

USE BackupAssumption

Places == {"idle", "queued", "probing", "init", "reading id", "unlock", "open", "copying",
           "record", "check", "checking"}

AllLocks == [by : Units \cup {Prune}, kind : {"shared", "exclusive"}, live : BOOLEAN]

\* The staging directory is as a step left it; the same for the rest.
LEMMA IdleType == Idle \in Scripts
BY DEF Idle, Scripts, Amounts

\* A script that goes on to a place changes nothing else.
LEMMA GotoIs ==
    ASSUME ship \in [Units -> Scripts], NEW u \in Units, NEW pc \in Places, Goto(u, pc)
    PROVE  /\ ship' \in [Units -> Scripts]
           /\ ship'[u].pc = pc
           /\ ship'[u].recorded = ship[u].recorded /\ ship'[u].id = ship[u].id
           /\ ship'[u].disturbed = ship[u].disturbed
           /\ \A v \in Units \ {u} : ship'[v] = ship[v]
<1> DEFINE script == [ship[u] EXCEPT !.pc = pc]
<1>1. /\ script \in Scripts /\ script.pc = pc
      /\ script.recorded = ship[u].recorded /\ script.id = ship[u].id
      /\ script.disturbed = ship[u].disturbed
  BY DEF Scripts, Places
<1>2. ship' = [ship EXCEPT ![u] = script]
  BY DEF Goto
<1> HIDE DEF script
<1> QED
  BY <1>1, <1>2

\* Locks are only taken away, or marked as nobody's, by these.
LEMMA LockTypes ==
    ASSUME locks \subseteq AllLocks, NEW p
    PROVE  LeftBy(p) \subseteq AllLocks /\ ReleasedBy(p) \subseteq AllLocks /\ LiveLocks \subseteq AllLocks
BY ZenonT(60) DEF LeftBy, ReleasedBy, LiveLocks, LocksOf, AllLocks

\* A script that ends is idle again, and its locks are taken away.
LEMMA EndsType ==
    ASSUME ship \in [Units -> Scripts], locks \subseteq AllLocks, NEW u \in Units, Ends(u)
    PROVE  ship' \in [Units -> Scripts] /\ locks' \subseteq AllLocks
BY IdleType, LockTypes DEF Ends

LEMMA StartedType ==
    ASSUME NEW w \in [Units -> Scripts]
    PROVE  Started(w) \in [Units -> Scripts]
BY ZenonT(60) DEF Started, Scripts

\* Each step of the capture keeps the types.
LEMMA CaptureKeepsTypes == TypeOK /\ Capture => TypeOK'
<1> SUFFICES ASSUME TypeOK, Capture PROVE TypeOK'
  OBVIOUS
<1>1. CASE CaptureStarts
  BY <1>1, StartedType DEF CaptureStarts, TypeOK, destination
<1>2. CASE Removes
  BY <1>2 DEF Removes, TypeOK, destination, Amounts
<1>3. CASE Removed
  BY <1>3 DEF Removed, TypeOK, destination
<1>4. ASSUME NEW s \in Sources, Stages(s) PROVE TypeOK'
  BY <1>4 DEF Stages, TypeOK, destination, Amounts
<1>5. CASE Completes
  BY <1>5 DEF Completes, TypeOK, destination
<1>6. CASE CaptureFails
  BY <1>6 DEF CaptureFails, TypeOK, destination
<1> QED
  BY <1>1, <1>2, <1>3, <1>4, <1>5, <1>6 DEF Capture

\* Each step of a ship keeps the types.
LEMMA ShipKeepsTypes == ASSUME NEW u \in Units PROVE TypeOK /\ Ship(u) => TypeOK'
<1> SUFFICES ASSUME TypeOK, Ship(u) PROVE TypeOK'
  OBVIOUS
<1>t. /\ ship \in [Units -> Scripts] /\ locks \subseteq AllLocks
      /\ marker \in Ids \cup {NoId, Blank} /\ repo \in Ids \cup {NoId}
      /\ staged \in [Sources -> Amounts] /\ sentinel \in BOOLEAN
  BY DEF TypeOK, AllLocks
<1>1. CASE Tick(u)
  <2> DEFINE queued == [ship EXCEPT ![u].pc = "queued"]
  <2>1. queued \in [Units -> Scripts]
    <3>1. [ship[u] EXCEPT !.pc = "queued"] \in Scripts
      BY ZenonT(60), <1>t DEF Scripts
    <3>2. queued = [ship EXCEPT ![u] = [ship[u] EXCEPT !.pc = "queued"]]
      OBVIOUS
    <3> QED
      BY <1>t, <3>1, <3>2
  <2>2. ship' \in [Units -> Scripts] /\ capture' \in {"idle", "removing", "filling"}
    BY <1>1, <2>1, StartedType DEF Tick, TypeOK
  <2> QED
    BY <1>1, <2>2 DEF Tick, TypeOK, destination
<1>2. CASE Begins(u)
  <2>1. MayShip => [Idle EXCEPT !.pc = "probing", !.recorded = marker] \in Scripts
    BY <1>t, IdleType DEF MayShip, Scripts
  <2>2. ship' \in [Units -> Scripts]
    BY <1>2, <1>t, <2>1, IdleType DEF Begins
  <2> QED
    BY <1>2, <2>2 DEF Begins, TypeOK, destination, staging
<1>3. CASE Probes(u)
  BY <1>3, <1>t, GotoIs DEF Probes, TypeOK, destination, staging, Places
<1>4. CASE Inits(u)
  BY <1>4, <1>t, GotoIs DEF Inits, TypeOK, staging, Places
<1>5. CASE ReadsId(u)
  <2>1. ship' \in [Units -> Scripts]
    <3>1. [ship[u] EXCEPT !.pc = "unlock", !.id = repo] \in Scripts
      BY ZenonT(60), <1>t, <1>5 DEF ReadsId, Scripts
    <3>2. ship' = [ship EXCEPT ![u] = [ship[u] EXCEPT !.pc = "unlock", !.id = repo]]
      BY <1>5 DEF ReadsId
    <3> QED
      BY <1>t, <3>1, <3>2
  <2> QED
    BY <1>5, <2>1 DEF ReadsId, TypeOK, destination, staging
<1>6. CASE Unlocks(u)
  BY <1>6, <1>t, GotoIs, LockTypes DEF Unlocks, TypeOK, destination, staging, Places, AllLocks
<1>7. CASE Opens(u)
  <2>1. ship' \in [Units -> Scripts]
    <3> DEFINE script == [ship[u] EXCEPT !.pc = "copying", !.proof = sentinel,
                                         !.listed = {s \in Sources : staged[s] # "none"}]
    <3>1. script \in Scripts
      BY ZenonT(60), <1>t DEF Scripts
    <3>2. ship' = [ship EXCEPT ![u] = script]
      BY <1>7 DEF Opens
    <3> QED
      BY <1>t, <3>1, <3>2
  <2>2. locks' \subseteq AllLocks
    <3>1. Lock(u, "shared") \in AllLocks
      BY DEF Lock, AllLocks
    <3> QED
      BY <1>7, <1>t, <3>1 DEF Opens
  <2> QED
    BY <1>7, <2>1, <2>2 DEF Opens, TypeOK, destination, staging, AllLocks
<1>8. ASSUME NEW s \in Sources, Copies(u, s) PROVE TypeOK'
  <2>1. ship' \in [Units -> Scripts]
    <3> DEFINE script == [ship[u] EXCEPT !.copy = [@ EXCEPT ![s] = staged[s]], !.listed = @ \ {s},
                                         !.error = @ \/ staged[s] = "none"]
    <3>1. script \in Scripts
      BY ZenonT(60), <1>t DEF Scripts
    <3>2. ship' = [ship EXCEPT ![u] = script]
      BY <1>8 DEF Copies
    <3> QED
      BY <1>t, <3>1, <3>2
  <2> QED
    BY <1>8, <2>1 DEF Copies, TypeOK, destination, staging
<1>9. CASE Saves(u)
  <2>1. [Idle EXCEPT !.pc = "record", !.recorded = ship[u].recorded, !.id = ship[u].id] \in Scripts
    BY <1>t, IdleType DEF Scripts
  <2>2. ship' \in [Units -> Scripts]
    BY <1>9, <1>t, <2>1, IdleType DEF Saves
  <2> QED
    BY <1>9, <1>t, <2>2, LockTypes DEF Saves, TypeOK, staging, AllLocks
<1>10. CASE Records(u)
  <2>1. [Idle EXCEPT !.pc = "check"] \in Scripts
    BY IdleType DEF Scripts
  <2>2. ship' \in [Units -> Scripts]
    BY <1>10, <1>t, <2>1, IdleType DEF Records
  <2>3. marker' \in Ids \cup {NoId, Blank}
    BY <1>10, <1>t DEF Records, Scripts
  <2> QED
    BY <1>10, <2>2, <2>3 DEF Records, TypeOK, destination, staging
<1>11. CASE Checks(u)
  <2>1. locks' \subseteq AllLocks
    BY <1>11 DEF Checks, Lock, AllLocks
  <2> QED
    BY <1>11, <1>t, <2>1, GotoIs DEF Checks, TypeOK, destination, staging, Places, AllLocks
<1>12. CASE Checked(u) \/ ShipFails(u)
  BY <1>12, <1>t, EndsType DEF Checked, ShipFails, TypeOK, destination, staging, AllLocks
<1>13. CASE ShipDies(u)
  BY <1>13, <1>t, IdleType, LockTypes DEF ShipDies, TypeOK, destination, staging, AllLocks
<1> QED
  BY <1>1, <1>2, <1>3, <1>4, <1>5, <1>6, <1>7, <1>8, <1>9, <1>10, <1>11, <1>12, <1>13 DEF Ship

\* Each step of the prune, of others and of the operator keeps the types.
LEMMA OthersKeepTypes == TypeOK /\ (Pruning \/ Outside) => TypeOK'
<1> SUFFICES ASSUME TypeOK, Pruning \/ Outside PROVE TypeOK'
  OBVIOUS
<1>t. locks \subseteq AllLocks
  BY DEF TypeOK, AllLocks
<1>1. CASE PruneBegins
  BY <1>1 DEF PruneBegins, TypeOK, destination, staging
<1>2. CASE PruneUnlocks
  BY <1>2, <1>t, LockTypes DEF PruneUnlocks, TypeOK, destination, staging, AllLocks
<1>3. CASE PruneLocks
  <2>1. locks' \subseteq AllLocks
    BY <1>3 DEF PruneLocks, Lock, AllLocks
  <2> QED
    BY <1>3, <2>1 DEF PruneLocks, TypeOK, destination, staging, AllLocks
<1>4. CASE PruneEnds \/ PruneDies
  BY <1>4, <1>t, LockTypes DEF PruneEnds, PruneDies, TypeOK, destination, staging, AllLocks
<1>5. CASE RepositoryLost
  BY <1>5 DEF RepositoryLost, TypeOK, staging
<1>6. CASE MarkerBlanked \/ Reinit
  BY <1>6 DEF MarkerBlanked, Reinit, TypeOK, destination, staging
<1> QED
  BY <1>1, <1>2, <1>3, <1>4, <1>5, <1>6 DEF Pruning, Outside

LEMMA TypesInductive == TypeOK /\ [Next]_vars => TypeOK'
<1>1. TypeOK /\ UNCHANGED vars => TypeOK'
  BY DEF TypeOK, vars, staging, destination
<1> QED
  BY <1>1, CaptureKeepsTypes, ShipKeepsTypes, OthersKeepTypes DEF Next

\* Every variable keeps its type, for any sources and ids.
THEOREM TypeCorrect == Spec => []TypeOK
<1>1. Init => TypeOK
  BY IdleType DEF Init, TypeOK, Amounts
<1> QED
  BY <1>1, TypesInductive, PTL DEF Spec

-----------------------------------------------------------------------------
(* What a capture that is not under way leaves, and what a ship takes.     *)

BeforeSaving == {"probing", "init", "reading id", "unlock", "open", "copying"}

\* While a capture fills the directory the sentinel is not there; when none is
\* under way and the last was not cut while it removed, the sentinel says all is there.
SentinelTrue ==
    /\ capture = "filling" => ~sentinel
    /\ capture = "idle" /\ sentinel /\ ~torn => AllWhole(staged)

\* A ship that no capture disturbed runs beside none, from a completed one.
Undisturbed ==
    \A u \in Units : ship[u].pc \in BeforeSaving /\ ~ship[u].disturbed => capture = "idle" /\ sentinel

\* What such a ship has copied, it has copied whole.
CopiedWhole ==
    \A u \in Units : ship[u].pc = "copying" /\ ~ship[u].disturbed /\ ~torn =>
        \A s \in Sources : s \in ship[u].listed \/ ship[u].copy[s] = "whole"

StagingInv == TypeOK /\ SentinelTrue /\ Undisturbed /\ CopiedWhole

\* The ships that are running when a capture starts are disturbed from then on.
LEMMA StartedDisturbs ==
    ASSUME NEW w \in [Units -> Scripts], NEW u \in Units
    PROVE  /\ Started(w)[u].pc = w[u].pc
           /\ Started(w)[u].recorded = w[u].recorded /\ Started(w)[u].id = w[u].id
           /\ Started(w)[u].pc \in BeforeSaving => Started(w)[u].disturbed
BY DEF Started, Scripts, BeforeSaving

\* A step of the capture keeps what the ships rely on.
LEMMA CaptureKeepsStaging == StagingInv /\ Capture => SentinelTrue' /\ Undisturbed' /\ CopiedWhole'
<1> SUFFICES ASSUME StagingInv, Capture PROVE SentinelTrue' /\ Undisturbed' /\ CopiedWhole'
  OBVIOUS
<1>t. ship \in [Units -> Scripts]
  BY DEF StagingInv, TypeOK
<1>1. CASE CaptureStarts
  <2>1. SentinelTrue'
    BY <1>1 DEF CaptureStarts, SentinelTrue
  <2>2. \A u \in Units : ship'[u].pc \in BeforeSaving => ship'[u].disturbed
    BY <1>1, <1>t, StartedDisturbs DEF CaptureStarts
  <2> QED
    BY <2>1, <2>2 DEF Undisturbed, CopiedWhole, BeforeSaving
<1>2. CASE Removes \/ Removed \/ (\E s \in Sources : Stages(s)) \/ Completes \/ CaptureFails
  <2>1. capture # "idle" /\ UNCHANGED ship
    BY <1>2 DEF Removes, Removed, Stages, Completes, CaptureFails
  <2>2. \A u \in Units : ship[u].pc \in BeforeSaving => ship[u].disturbed
    BY <2>1 DEF StagingInv, Undisturbed
  <2>3. SentinelTrue'
    BY <1>2 DEF StagingInv, SentinelTrue, Removes, Removed, Stages, Completes, CaptureFails
  <2> QED
    BY <2>1, <2>2, <2>3 DEF Undisturbed, CopiedWhole, BeforeSaving
<1> QED
  BY <1>1, <1>2 DEF Capture

\* A step of a ship keeps it: it begins from a completed capture, and lists and
\* copies what that capture staged.
LEMMA ShipKeepsStaging ==
    ASSUME NEW u \in Units
    PROVE  StagingInv /\ Ship(u) => SentinelTrue' /\ Undisturbed' /\ CopiedWhole'
<1> SUFFICES ASSUME StagingInv, Ship(u) PROVE SentinelTrue' /\ Undisturbed' /\ CopiedWhole'
  OBVIOUS
<1>t. ship \in [Units -> Scripts] /\ sentinel \in BOOLEAN
  BY DEF StagingInv, TypeOK
<1>i. Idle.pc = "idle"
  BY DEF Idle
<1>1. CASE Tick(u)
  <2> DEFINE queued == [ship EXCEPT ![u].pc = "queued"]
  <2>1. queued \in [Units -> Scripts]
    <3>1. [ship[u] EXCEPT !.pc = "queued"] \in Scripts
      BY <1>t DEF Scripts
    <3>2. queued = [ship EXCEPT ![u] = [ship[u] EXCEPT !.pc = "queued"]]
      OBVIOUS
    <3> QED
      BY <1>t, <3>1, <3>2
  <2>2. CASE capture = "idle" /\ capture' = "removing" /\ ship' = Started(queued)
    <3>1. SentinelTrue'
      BY <2>2 DEF SentinelTrue
    <3>2. \A v \in Units : ship'[v].pc \in BeforeSaving => ship'[v].disturbed
      BY <2>1, <2>2, StartedDisturbs
    <3> QED
      BY <3>1, <3>2 DEF Undisturbed, CopiedWhole, BeforeSaving
  <2>3. CASE capture # "idle" /\ ship' = queued /\ UNCHANGED capture
    <3>1. SentinelTrue'
      BY <1>1, <2>3 DEF Tick, StagingInv, SentinelTrue
    <3>2. \A v \in Units : ship'[v].pc \in BeforeSaving => v # u /\ ship'[v] = ship[v]
      BY <2>3, <1>t DEF BeforeSaving, Scripts
    <3>3. UNCHANGED <<sentinel, torn>>
      BY <1>1 DEF Tick
    <3> QED
      BY <3>1, <3>2, <3>3, <2>3 DEF StagingInv, Undisturbed, CopiedWhole, BeforeSaving
  <2> QED
    BY <1>1, <2>2, <2>3 DEF Tick
<1>2. CASE ~Tick(u)
  <2>1. UNCHANGED staging /\ \A v \in Units \ {u} : ship'[v] = ship[v]
    BY <1>2, <1>t DEF Ship, Begins, Probes, Inits, ReadsId, Unlocks, Opens, Copies, Saves, Records, Checks,
       Checked, ShipFails, ShipDies, Goto, Ends, destination
  <2>2. SentinelTrue'
    BY <2>1 DEF StagingInv, SentinelTrue, staging, AllWhole
  <2>3. SUFFICES
          /\ ship'[u].pc \in BeforeSaving /\ ~ship'[u].disturbed => capture = "idle" /\ sentinel
          /\ ship'[u].pc = "copying" /\ ~ship'[u].disturbed /\ ~torn =>
                \A s \in Sources : s \in ship'[u].listed \/ ship'[u].copy[s] = "whole"
    BY <2>1, <2>2 DEF StagingInv, Undisturbed, CopiedWhole, staging
  <2>4. CASE Begins(u)
    <3>1. ship'[u].pc \in BeforeSaving => MayShip /\ ship'[u].pc = "probing"
      BY <2>4, <1>t, <1>i DEF Begins, BeforeSaving, Idle
    <3> QED
      BY <2>4, <3>1 DEF Begins, MayShip, BeforeSaving
  <2>5. CASE Probes(u) \/ Inits(u) \/ ReadsId(u) \/ Unlocks(u)
    <3>1. /\ ship[u].pc \in BeforeSaving /\ ship'[u].disturbed = ship[u].disturbed
          /\ ship'[u].pc # "copying"
      <4>1. CASE Probes(u)
        BY <4>1, <1>t, GotoIs DEF Probes, Places, BeforeSaving
      <4>2. CASE Inits(u)
        BY <4>2, <1>t, GotoIs DEF Inits, Places, BeforeSaving
      <4>3. CASE ReadsId(u)
        BY <4>3, <1>t DEF ReadsId, Scripts, BeforeSaving
      <4>4. CASE Unlocks(u)
        BY <4>4, <1>t, GotoIs DEF Unlocks, Places, BeforeSaving
      <4> QED
        BY <2>5, <4>1, <4>2, <4>3, <4>4
    <3> QED
      BY <3>1 DEF StagingInv, Undisturbed
  <2>6. CASE Opens(u)
    <3>1. /\ ship[u].pc \in BeforeSaving /\ ship'[u].disturbed = ship[u].disturbed
          /\ ship'[u].listed = {s \in Sources : staged[s] # "none"}
      BY <2>6, <1>t DEF Opens, Scripts, BeforeSaving
    <3>2. ~ship[u].disturbed => capture = "idle" /\ sentinel
      BY <3>1 DEF StagingInv, Undisturbed
    <3>3. ~ship[u].disturbed /\ ~torn => \A s \in Sources : s \in ship'[u].listed
      BY <3>1, <3>2 DEF StagingInv, SentinelTrue, AllWhole
    <3> QED
      BY <3>1, <3>2, <3>3
  <2>7. ASSUME NEW r \in Sources, Copies(u, r)
        PROVE  /\ ship'[u].pc \in BeforeSaving /\ ~ship'[u].disturbed => capture = "idle" /\ sentinel
               /\ ship'[u].pc = "copying" /\ ~ship'[u].disturbed /\ ~torn =>
                     \A s \in Sources : s \in ship'[u].listed \/ ship'[u].copy[s] = "whole"
    <3>1. /\ ship[u].pc = "copying" /\ ship'[u].disturbed = ship[u].disturbed
          /\ ship'[u].listed = ship[u].listed \ {r}
          /\ \A s \in Sources : ship'[u].copy[s] = IF s = r THEN staged[r] ELSE ship[u].copy[s]
      BY ZenonT(60), <2>7, <1>t DEF Copies, Scripts
    <3>2. ~ship[u].disturbed => capture = "idle" /\ sentinel
      BY <3>1 DEF StagingInv, Undisturbed, BeforeSaving
    <3>3. ~ship[u].disturbed /\ ~torn => staged[r] = "whole"
      BY <3>2 DEF StagingInv, SentinelTrue, AllWhole
    <3> QED
      BY <3>1, <3>2, <3>3 DEF StagingInv, CopiedWhole
  <2>8. CASE Saves(u) \/ Records(u) \/ Checks(u) \/ Checked(u) \/ ShipFails(u) \/ ShipDies(u)
    <3>1. ship'[u].pc \in {"idle", "record", "check", "checking"}
      <4>1. CASE Saves(u)
        <5>1. [Idle EXCEPT !.pc = "record", !.recorded = ship[u].recorded, !.id = ship[u].id].pc = "record"
          BY DEF Idle
        <5> QED
          BY <4>1, <5>1, <1>t, <1>i DEF Saves
      <4>2. CASE Records(u)
        <5>1. [Idle EXCEPT !.pc = "check"].pc = "check"
          BY DEF Idle
        <5> QED
          BY <4>2, <5>1, <1>t, <1>i DEF Records
      <4>3. CASE Checks(u)
        BY <4>3, <1>t, GotoIs DEF Checks, Places
      <4>4. CASE Checked(u) \/ ShipFails(u) \/ ShipDies(u)
        BY <4>4, <1>t, <1>i DEF Checked, ShipFails, ShipDies, Ends
      <4> QED
        BY <2>8, <4>1, <4>2, <4>3, <4>4
    <3> QED
      BY <3>1 DEF BeforeSaving
  <2> QED
    BY <1>2, <2>4, <2>5, <2>6, <2>7, <2>8 DEF Ship
<1> QED
  BY <1>1, <1>2

LEMMA StagingInductive == StagingInv /\ [Next]_vars => StagingInv'
<1> SUFFICES ASSUME StagingInv, [Next]_vars PROVE StagingInv'
  OBVIOUS
<1>1. CASE (Pruning \/ Outside) \/ UNCHANGED vars
  <2>1. UNCHANGED <<staging, ship>>
    BY <1>1 DEF Pruning, Outside, PruneBegins, PruneUnlocks, PruneLocks, PruneEnds, PruneDies,
       RepositoryLost, MarkerBlanked, Reinit, vars
  <2>2. SentinelTrue' /\ Undisturbed' /\ CopiedWhole'
    BY <2>1 DEF StagingInv, SentinelTrue, Undisturbed, CopiedWhole, AllWhole, staging
  <2> QED
    BY <2>2, TypesInductive DEF StagingInv
<1> QED
  BY <1>1, TypesInductive, CaptureKeepsStaging, ShipKeepsStaging DEF StagingInv, Next

\* A ship no capture got in the way of saves every source whole: no capture that
\* failed, or was killed at a source, is ever shipped, for any sources.
THEOREM ShipsWhole == Spec => []PartialOnlyIfDisturbed
<1>1. Init => StagingInv
  <2>1. Init => TypeOK
    BY IdleType DEF Init, TypeOK, Amounts
  <2>2. Idle.pc = "idle"
    BY DEF Idle
  <2>3. Init => \A u \in Units : ship[u].pc = "idle"
    BY <2>2 DEF Init
  <2>4. Init => SentinelTrue /\ Undisturbed /\ CopiedWhole
    BY <2>3 DEF Init, SentinelTrue, Undisturbed, CopiedWhole, BeforeSaving
  <2> QED
    BY <2>1, <2>4 DEF StagingInv
<1>2. StagingInv => PartialOnlyIfDisturbed
  BY DEF StagingInv, CopiedWhole, PartialOnlyIfDisturbed, ReadyToSave, AllWhole
<1> QED
  BY <1>1, <1>2, StagingInductive, PTL DEF Spec

-----------------------------------------------------------------------------
(* The node's history.  The strengthening is about the ships under way: what a *)
(* ship read before may no longer be so when it acts on it.                    *)

Working == BeforeSaving \cup {"record"}
Compared == {"unlock", "open", "copying", "record"}

\* While a ship works the marker is what the ship read, or was forgotten by the
\* operator since, or names the repository that is there; one that compared the
\* ids works on that repository; one that is to record it has saved to it.
HistoryInv ==
    /\ TypeOK
    /\ repo # NoId => repo \in used
    /\ \A u \in Units : ship[u].pc \in Working => marker \in {NoId, ship[u].recorded, repo}
    /\ \A u \in Units : ship[u].pc = "init" => ship[u].recorded = NoId
    /\ \A u \in Units : ship[u].pc \in Compared =>
          repo # NoId /\ ship[u].id = repo /\ ship[u].recorded \in {NoId, repo}
    /\ \A u \in Units : ship[u].pc = "record" => kept

\* A step that touches neither the destination nor the marker, and brings no ship
\* on, keeps it.
LEMMA BystandersKeepHistory ==
    ASSUME HistoryInv, TypeOK', UNCHANGED <<destination, marker>>,
           \A v \in Units : ship'[v].pc \in Working =>
               /\ ship'[v].pc = ship[v].pc
               /\ ship'[v].recorded = ship[v].recorded /\ ship'[v].id = ship[v].id
    PROVE  HistoryInv'
BY DEF HistoryInv, destination, Working, BeforeSaving, Compared

\* Neither the capture nor the prune brings a ship on.
LEMMA CaptureAndPruneAreBystanders ==
    ASSUME TypeOK, Capture \/ Pruning
    PROVE  /\ UNCHANGED <<destination, marker>>
           /\ \A v \in Units : /\ ship'[v].pc = ship[v].pc
                              /\ ship'[v].recorded = ship[v].recorded /\ ship'[v].id = ship[v].id
<1>t. ship \in [Units -> Scripts]
  BY DEF TypeOK
<1>1. CASE CaptureStarts
  BY <1>1, <1>t, StartedDisturbs DEF CaptureStarts
<1>2. CASE Removes \/ Removed \/ (\E s \in Sources : Stages(s)) \/ Completes \/ CaptureFails
  BY <1>2 DEF Removes, Removed, Stages, Completes, CaptureFails
<1>3. CASE Pruning
  BY <1>3 DEF Pruning, PruneBegins, PruneUnlocks, PruneLocks, PruneEnds, PruneDies
<1> QED
  BY <1>1, <1>2, <1>3 DEF Capture

\* What each step of a ship does to its script, and to no other ship's.
LEMMA ShipGoesOn ==
    ASSUME NEW u \in Units, ship \in [Units -> Scripts], Ship(u), ~Tick(u)
    PROVE  /\ \A v \in Units \ {u} : ship'[v] = ship[v]
           /\ Begins(u) => ship'[u].pc = "idle" \/ (ship'[u].pc = "probing" /\ ship'[u].recorded = marker)
           /\ Probes(u) \/ Inits(u) \/ ReadsId(u) \/ Unlocks(u) \/ Opens(u) \/ (\E s \in Sources : Copies(u, s)) =>
                 ship'[u].recorded = ship[u].recorded
           /\ Probes(u) => (ship'[u].pc = "init" /\ Missing(u)) \/ ship'[u].pc = "reading id"
           /\ Inits(u) => ship[u].pc = "init" /\ ship'[u].pc = "reading id"
           /\ ReadsId(u) => ship'[u].pc = "unlock" /\ ship'[u].id = repo
           /\ Unlocks(u) => ship[u].pc = "unlock" /\ ship'[u].pc = "open" /\ ship'[u].id = ship[u].id
           /\ Opens(u) => ship[u].pc = "open" /\ ship'[u].pc = "copying" /\ ship'[u].id = ship[u].id
           /\ (\E s \in Sources : Copies(u, s)) =>
                 ship[u].pc = "copying" /\ ship'[u].pc = "copying" /\ ship'[u].id = ship[u].id
           /\ Saves(u) => \/ ship'[u].pc = "idle"
                          \/ /\ ship'[u].pc = "record" /\ ship'[u].recorded = ship[u].recorded
                             /\ ship'[u].id = ship[u].id
           /\ Records(u) \/ Checks(u) \/ Checked(u) \/ ShipFails(u) \/ ShipDies(u) =>
                 ship'[u].pc \in {"idle", "check", "checking"}
<1>i. Idle.pc = "idle" /\ [Idle EXCEPT !.pc = "check"].pc = "check"
  BY DEF Idle
<1>1. \A v \in Units \ {u} : ship'[v] = ship[v]
  BY DEF Ship, Begins, Probes, Inits, ReadsId, Unlocks, Opens, Copies, Saves, Records, Checks,
     Checked, ShipFails, ShipDies, Goto, Ends
<1>2. Begins(u) => ship'[u].pc = "idle" \/ (ship'[u].pc = "probing" /\ ship'[u].recorded = marker)
  BY <1>i DEF Begins, Idle
<1>3. Probes(u) => /\ ship'[u].recorded = ship[u].recorded
                   /\ (ship'[u].pc = "init" /\ Missing(u)) \/ ship'[u].pc = "reading id"
  BY GotoIs DEF Probes, Places
<1>4. Inits(u) => /\ ship'[u].recorded = ship[u].recorded
                  /\ ship[u].pc = "init" /\ ship'[u].pc = "reading id"
  BY GotoIs DEF Inits, Places
<1>5. ReadsId(u) => /\ ship'[u].recorded = ship[u].recorded
                    /\ ship'[u].pc = "unlock" /\ ship'[u].id = repo
  <2> DEFINE script == [ship[u] EXCEPT !.pc = "unlock", !.id = repo]
  <2>1. script.recorded = ship[u].recorded /\ script.pc = "unlock" /\ script.id = repo
    BY DEF Scripts
  <2>2. ReadsId(u) => ship' = [ship EXCEPT ![u] = script]
    BY DEF ReadsId
  <2> HIDE DEF script
  <2> QED
    BY <2>1, <2>2
<1>6. Unlocks(u) => /\ ship'[u].recorded = ship[u].recorded
                    /\ ship[u].pc = "unlock" /\ ship'[u].pc = "open" /\ ship'[u].id = ship[u].id
  BY GotoIs DEF Unlocks, Places
<1>7. Opens(u) => /\ ship'[u].recorded = ship[u].recorded
                  /\ ship[u].pc = "open" /\ ship'[u].pc = "copying" /\ ship'[u].id = ship[u].id
  <2> DEFINE script == [ship[u] EXCEPT !.pc = "copying", !.proof = sentinel,
                                       !.listed = {s \in Sources : staged[s] # "none"}]
  <2>1. script.recorded = ship[u].recorded /\ script.pc = "copying" /\ script.id = ship[u].id
    BY DEF Scripts
  <2>2. Opens(u) => ship' = [ship EXCEPT ![u] = script] /\ ship[u].pc = "open"
    BY DEF Opens
  <2> HIDE DEF script
  <2> QED
    BY <2>1, <2>2
<1>8. ASSUME NEW s \in Sources, Copies(u, s)
      PROVE  /\ ship'[u].recorded = ship[u].recorded
             /\ ship[u].pc = "copying" /\ ship'[u].pc = "copying" /\ ship'[u].id = ship[u].id
  BY <1>8 DEF Copies, Scripts
<1>9. Saves(u) => \/ ship'[u].pc = "idle"
                  \/ /\ ship'[u].pc = "record" /\ ship'[u].recorded = ship[u].recorded
                     /\ ship'[u].id = ship[u].id
  <2> DEFINE saved == [Idle EXCEPT !.pc = "record", !.recorded = ship[u].recorded, !.id = ship[u].id]
  <2>1. saved.pc = "record" /\ saved.recorded = ship[u].recorded /\ saved.id = ship[u].id
    BY DEF Idle
  <2> QED
    BY <2>1, <1>i DEF Saves
<1>10. Records(u) \/ Checks(u) \/ Checked(u) \/ ShipFails(u) \/ ShipDies(u) =>
          ship'[u].pc \in {"idle", "check", "checking"}
  <2>1. Checks(u) => ship'[u].pc = "checking"
    BY GotoIs DEF Checks, Places
  <2> QED
    BY <2>1, <1>i DEF Records, Checked, ShipFails, ShipDies, Ends
<1> QED
  BY <1>1, <1>2, <1>3, <1>4, <1>5, <1>6, <1>7, <1>8, <1>9, <1>10

\* A step of a ship keeps the strengthening.
LEMMA ShipKeepsHistory ==
    ASSUME NEW u \in Units, HistoryInv, Ship(u)
    PROVE  HistoryInv'
<1>t. ship \in [Units -> Scripts] /\ TypeOK'
  BY ShipKeepsTypes DEF HistoryInv, TypeOK
<1>1. CASE Tick(u)
  <2> DEFINE queued == [ship EXCEPT ![u].pc = "queued"]
  <2>1. queued \in [Units -> Scripts]
    <3>1. [ship[u] EXCEPT !.pc = "queued"] \in Scripts
      BY <1>t DEF Scripts
    <3>2. queued = [ship EXCEPT ![u] = [ship[u] EXCEPT !.pc = "queued"]]
      OBVIOUS
    <3> QED
      BY <1>t, <3>1, <3>2
  <2>2. queued[u].pc = "queued" /\ \A v \in Units \ {u} : queued[v] = ship[v]
    BY <1>t DEF Scripts
  <2>3. ship' = queued \/ ship' = Started(queued)
    BY <1>1 DEF Tick
  <2> HIDE DEF queued
  <2>4. \A v \in Units : ship'[v].pc \in Working =>
            /\ ship'[v].pc = ship[v].pc
            /\ ship'[v].recorded = ship[v].recorded /\ ship'[v].id = ship[v].id
    <3>1. \A v \in Units : queued[v].pc \in Working => v # u
      BY <2>2 DEF Working, BeforeSaving
    <3>2. ASSUME NEW v \in Units
          PROVE  /\ ship'[v].pc = queued[v].pc
                 /\ ship'[v].recorded = queued[v].recorded /\ ship'[v].id = queued[v].id
      BY <2>1, <2>3, StartedDisturbs
    <3> QED
      BY <2>2, <3>1, <3>2
  <2> QED
    BY <1>1, <1>t, <2>4, BystandersKeepHistory DEF Tick
<1>2. CASE ~Tick(u)
  <2>o. \A v \in Units \ {u} : ship'[v] = ship[v]
    BY <1>2, <1>t, ShipGoesOn
  <2>1. CASE Begins(u)
    <3>1. UNCHANGED <<destination, marker>>
      BY <2>1 DEF Begins
    <3>2. ship'[u].pc = "idle" \/ (ship'[u].pc = "probing" /\ ship'[u].recorded = marker)
      BY <2>1, <1>2, <1>t, ShipGoesOn
    <3> QED
      BY <3>1, <3>2, <2>o, <1>t DEF HistoryInv, destination, Working, BeforeSaving, Compared
  <2>2. CASE Probes(u)
    <3>1. UNCHANGED <<destination, marker>> /\ ship[u].pc = "probing"
      BY <2>2 DEF Probes
    <3>2. /\ ship'[u].recorded = ship[u].recorded
          /\ (ship'[u].pc = "init" /\ ship[u].recorded = NoId) \/ ship'[u].pc = "reading id"
      BY <2>2, <1>2, <1>t, ShipGoesOn DEF Missing
    <3> QED
      BY <3>1, <3>2, <2>o, <1>t DEF HistoryInv, destination, Working, BeforeSaving, Compared
  <2>3. CASE Inits(u)
    <3>1. /\ repo = NoId /\ repo' \in Ids /\ repo' \in used' /\ UNCHANGED marker
      BY <2>3 DEF Inits
    <3>2. /\ ship'[u].recorded = ship[u].recorded
          /\ ship[u].pc = "init" /\ ship'[u].pc = "reading id"
      BY <2>3, <1>2, <1>t, ShipGoesOn
    <3>3. \A v \in Units : ship[v].pc \notin Compared
      BY <3>1 DEF HistoryInv
    <3> QED
      BY <3>1, <3>2, <3>3, <2>o, <1>t DEF HistoryInv, Working, BeforeSaving, Compared
  <2>4. CASE ReadsId(u)
    <3>1. /\ UNCHANGED <<destination, marker>> /\ ship[u].pc = "reading id"
          /\ repo # NoId /\ ship[u].recorded \in {NoId, repo}
      BY <2>4 DEF ReadsId, Same
    <3>2. /\ ship'[u].recorded = ship[u].recorded
          /\ ship'[u].pc = "unlock" /\ ship'[u].id = repo
      BY <2>4, <1>2, <1>t, ShipGoesOn
    <3> QED
      BY <3>1, <3>2, <2>o, <1>t DEF HistoryInv, destination, Working, BeforeSaving, Compared
  <2>5. CASE Unlocks(u) \/ Opens(u) \/ (\E s \in Sources : Copies(u, s))
    <3>1. UNCHANGED <<destination, marker>>
      BY <2>5 DEF Unlocks, Opens, Copies
    <3>2. /\ ship'[u].recorded = ship[u].recorded /\ ship'[u].id = ship[u].id
          /\ ship[u].pc \in Compared \ {"record"} /\ ship'[u].pc \in {"open", "copying"}
      BY <2>5, <1>2, <1>t, ShipGoesOn DEF Compared
    <3> QED
      BY <3>1, <3>2, <2>o, <1>t DEF HistoryInv, destination, Working, BeforeSaving, Compared
  <2>6. CASE Saves(u)
    <3>1. UNCHANGED <<repo, used, marker>> /\ kept' = TRUE /\ ship[u].pc = "copying"
      BY <2>6 DEF Saves, ReadyToSave
    <3>2. \/ ship'[u].pc = "idle"
          \/ /\ ship'[u].pc = "record" /\ ship'[u].recorded = ship[u].recorded
             /\ ship'[u].id = ship[u].id
      BY <2>6, <1>2, <1>t, ShipGoesOn
    <3> QED
      BY <3>1, <3>2, <2>o, <1>t DEF HistoryInv, Working, BeforeSaving, Compared
  <2>7. CASE Records(u)
    <3>1. /\ UNCHANGED destination /\ ship[u].pc = "record"
          /\ marker' = IF ship[u].recorded = NoId THEN ship[u].id ELSE marker
      BY <2>7 DEF Records
    <3>2. ship'[u].pc \in {"idle", "check", "checking"}
      BY <2>7, <1>2, <1>t, ShipGoesOn
    <3>3. marker' \in {marker, repo}
      BY <3>1 DEF HistoryInv, Compared
    <3> QED
      BY <3>1, <3>2, <3>3, <2>o, <1>t DEF HistoryInv, destination, Working, BeforeSaving, Compared
  <2>8. CASE Checks(u) \/ Checked(u) \/ ShipFails(u) \/ ShipDies(u)
    <3>1. UNCHANGED <<destination, marker>>
      BY <2>8 DEF Checks, Checked, ShipFails, ShipDies
    <3>2. ship'[u].pc \in {"idle", "check", "checking"}
      BY <2>8, <1>2, <1>t, ShipGoesOn
    <3> QED
      BY <3>1, <3>2, <2>o, <1>t, BystandersKeepHistory DEF Working, BeforeSaving
  <2> QED
    BY <1>2, <2>1, <2>2, <2>3, <2>4, <2>5, <2>6, <2>7, <2>8 DEF Ship
<1> QED
  BY <1>1, <1>2

\* While a script is at work nobody else touches the repository or the marker.
LEMMA OthersKeepHistory ==
    ASSUME HistoryInv, Outside, ~MidRun
    PROVE  HistoryInv'
<1>t. TypeOK'
  BY OthersKeepTypes DEF HistoryInv
<1>1. CASE RepositoryLost \/ MarkerBlanked
  <2>1. Quiet /\ UNCHANGED ship
    BY <1>1 DEF RepositoryLost, MarkerBlanked
  <2>2. \A u \in Units : ship[u].pc \notin Working
    BY <2>1 DEF Quiet, Running, Working, BeforeSaving
  <2>3. \A u \in Units : ship[u].pc \notin Compared /\ ship[u].pc # "init" /\ ship[u].pc # "record"
    BY <2>2 DEF Compared, Working, BeforeSaving
  <2>4. repo' # NoId => repo' \in used'
    BY <1>1 DEF RepositoryLost, MarkerBlanked, destination, HistoryInv
  <2> QED
    BY <1>t, <2>1, <2>2, <2>3, <2>4 DEF HistoryInv
<1>2. CASE Reinit
  BY <1>2, <1>t DEF Reinit, HistoryInv, destination
<1> QED
  BY <1>1, <1>2 DEF Outside

LEMMA HistoryInductive ==
    ASSUME HistoryInv, [Next]_vars, ~MidRun
    PROVE  HistoryInv'
<1>1. CASE UNCHANGED vars
  BY <1>1, TypesInductive, BystandersKeepHistory DEF vars, HistoryInv
<1>2. CASE Capture \/ Pruning
  BY <1>2, TypesInductive, CaptureAndPruneAreBystanders, BystandersKeepHistory DEF HistoryInv
<1> QED
  BY <1>1, <1>2, ShipKeepsHistory, OthersKeepHistory DEF Next

\* Every step is one the promise allows, or touches nothing it speaks of.
LEMMA StepsKeepThePromise ==
    ASSUME HistoryInv, [Next]_vars, ~MidRun
    PROVE  [History!Next]_History!vars
<1>t. /\ repo \in Ids \cup {NoId} /\ used \subseteq Ids /\ kept \in BOOLEAN
      /\ ship \in [Units -> Scripts]
  BY DEF HistoryInv, TypeOK
<1>1. CASE UNCHANGED vars \/ Capture \/ Pruning
  BY <1>1, CaptureAndPruneAreBystanders DEF HistoryInv, vars, destination, History!vars
<1>2. ASSUME NEW u \in Units, Ship(u) PROVE [History!Next]_History!vars
  <2>1. CASE Inits(u)
    <3>1. marker = NoId
      <4>1. ship[u].pc = "init" /\ repo = NoId
        BY <2>1 DEF Inits
      <4>2. ship[u].pc \in Working
        BY <4>1 DEF Working, BeforeSaving
      <4>3. marker \in {NoId, ship[u].recorded, repo} /\ ship[u].recorded = NoId
        BY <4>1, <4>2 DEF HistoryInv
      <4> QED
        BY <4>1, <4>3
    <3>2. repo' \in Ids /\ repo = NoId /\ kept' = FALSE /\ UNCHANGED marker
      BY <2>1, <1>t DEF Inits
    <3> QED
      BY <3>1, <3>2 DEF History!Next, History!Start
  <2>2. CASE Saves(u)
    <3>1. /\ ship[u].pc = "copying" /\ kept' = TRUE
          /\ UNCHANGED <<repo, marker>>
      BY <2>2 DEF Saves, ReadyToSave
    <3>2. repo # NoId /\ marker \in {NoId, repo}
      BY <3>1 DEF HistoryInv, Compared, Working, BeforeSaving
    <3> QED
      BY <3>1, <3>2, <1>t DEF History!Next, History!Grow
  <2>3. CASE Records(u)
    <3>1. /\ ship[u].pc = "record" /\ UNCHANGED <<repo, kept>>
          /\ marker' = IF ship[u].recorded = NoId THEN ship[u].id ELSE marker
      BY <2>3 DEF Records, destination
    <3>2. kept /\ repo # NoId /\ ship[u].id = repo /\ marker \in {NoId, ship[u].recorded, repo}
      BY <3>1 DEF HistoryInv, Compared, Working
    <3>3. UNCHANGED marker \/ (marker = NoId /\ marker' = repo)
      BY <3>1, <3>2
    <3> QED
      BY <3>1, <3>2, <3>3 DEF History!Next, History!Pin, History!vars
  <2>4. CASE ~(Inits(u) \/ Saves(u) \/ Records(u))
    <3>1. UNCHANGED <<repo, kept, marker>>
      BY <1>2, <2>4 DEF Ship, Tick, Begins, Probes, ReadsId, Unlocks, Opens, Copies, Checks, Checked,
         ShipFails, ShipDies, destination
    <3> QED
      BY <3>1 DEF History!vars
  <2> QED
    BY <2>1, <2>2, <2>3, <2>4
<1>3. CASE RepositoryLost
  <2>1. repo \in Ids /\ repo \in used
    BY <1>3, <1>t DEF RepositoryLost, HistoryInv
  <2>2. repo' \in (Ids \cup {NoId}) \ {repo} /\ kept' = FALSE /\ UNCHANGED marker
    BY <1>3, <2>1, <1>t DEF RepositoryLost
  <2> QED
    BY <2>1, <2>2 DEF History!Next, History!Disaster
<1>4. CASE MarkerBlanked
  BY <1>4 DEF MarkerBlanked, destination, History!Next, History!Tamper
<1>5. CASE Reinit
  BY <1>5 DEF Reinit, destination, History!Next, History!Accept
<1> QED
  BY <1>1, <1>2, <1>3, <1>4, <1>5 DEF Next, Outside

\* For any sources and ids, if nobody else touches the repository or the marker
\* while a script is at work, a node starts a history only where there is none and
\* it holds to none, and adds to no other than the one it holds to.
THEOREM HistoryKept ==
    ASSUME ~MidRun
    PROVE  Spec => KeepsItsHistory
<1>1. Init => HistoryInv /\ History!Init
  <2>1. Init => TypeOK
    BY IdleType DEF Init, TypeOK, Amounts
  <2>2. Idle.pc = "idle"
    BY DEF Idle
  <2>3. Init => \A u \in Units : ship[u].pc = "idle"
    BY <2>2 DEF Init
  <2>4. Init => HistoryInv
    BY <2>1, <2>3 DEF Init, HistoryInv, Working, BeforeSaving, Compared
  <2> QED
    BY <2>4 DEF Init, History!Init
<1>2. HistoryInv /\ [Next]_vars => HistoryInv'
  BY HistoryInductive
<1>3. HistoryInv /\ [Next]_vars => [History!Next]_History!vars
  BY StepsKeepThePromise
<1> QED
  BY <1>1, <1>2, <1>3, PTL DEF Spec, KeepsItsHistory, History!Spec

-----------------------------------------------------------------------------
(* restic's locks.                                                         *)

\* Who writes, checks or prunes holds its lock, and it is not a stale one.
LockInv ==
    /\ TypeOK /\ PrunesAlone
    /\ \A u \in Units : ship[u].pc = "copying" => Lock(u, "shared") \in locks
    /\ \A u \in Units : ship[u].pc = "checking" => Lock(u, "exclusive") \in locks
    /\ prune = "forgetting" => Lock(Prune, "exclusive") \in locks

\* The locks of the others, and those that are not stale, outlive a step.
LEMMA LocksOutlive ==
    ASSUME NEW p, NEW q, NEW kind, p # q, Lock(q, kind) \in locks
    PROVE  Lock(q, kind) \in ReleasedBy(p) /\ Lock(q, kind) \in LeftBy(p) /\ Lock(q, kind) \in LiveLocks
BY DEF Lock, ReleasedBy, LeftBy, LiveLocks, LocksOf

LEMMA PruneIsNoUnit == Prune \notin Units
BY DEF Prune, Units

\* A step in which no one starts to write, check or prune, and the others' locks outlive it.
LEMMA NoneMoreAtWork ==
    ASSUME LockInv, TypeOK',
           \A u \in Units : ship'[u].pc \in {"copying", "checking"} =>
               /\ ship[u].pc = ship'[u].pc
               /\ \A kind \in {"shared", "exclusive"} : Lock(u, kind) \in locks => Lock(u, kind) \in locks',
           prune' = "forgetting" =>
               prune = "forgetting" /\ (Lock(Prune, "exclusive") \in locks => Lock(Prune, "exclusive") \in locks')
    PROVE  LockInv'
BY DEF LockInv, PrunesAlone, Lock

\* A step of a ship.
LEMMA ShipKeepsLocks ==
    ASSUME NEW u \in Units, LockInv, Ship(u)
    PROVE  LockInv'
<1>t. ship \in [Units -> Scripts] /\ TypeOK'
  BY ShipKeepsTypes DEF LockInv, TypeOK
<1>1. CASE Tick(u)
  <2> DEFINE queued == [ship EXCEPT ![u].pc = "queued"]
  <2>1. queued \in [Units -> Scripts] /\ queued[u].pc = "queued" /\ \A v \in Units \ {u} : queued[v] = ship[v]
    <3> DEFINE script == [ship[u] EXCEPT !.pc = "queued"]
    <3>1. script \in Scripts /\ script.pc = "queued"
      BY <1>t DEF Scripts
    <3>2. queued = [ship EXCEPT ![u] = script]
      OBVIOUS
    <3> HIDE DEF script, queued
    <3> QED
      BY <1>t, <3>1, <3>2
  <2>2. ship' = queued \/ ship' = Started(queued)
    BY <1>1 DEF Tick
  <2> HIDE DEF queued
  <2>3. ASSUME NEW v \in Units PROVE ship'[v].pc = queued[v].pc
    BY <2>1, <2>2, StartedDisturbs
  <2>4. \A v \in Units : ship'[v].pc \in {"copying", "checking"} => ship[v].pc = ship'[v].pc
    BY <2>1, <2>3
  <2> QED
    BY <1>1, <1>t, <2>4, NoneMoreAtWork DEF Tick
<1>2. CASE ~Tick(u)
  <2>o. \A v \in Units \ {u} : ship'[v] = ship[v]
    BY <1>2, <1>t, ShipGoesOn
  <2>p. UNCHANGED prune
    BY <1>2 DEF Ship, Begins, Probes, Inits, ReadsId, Unlocks, Opens, Copies, Saves, Records, Checks,
       Checked, ShipFails, ShipDies
  <2>1. CASE Begins(u) \/ Probes(u) \/ Inits(u) \/ ReadsId(u)
    <3>1. ship'[u].pc \notin {"copying", "checking"}
      BY <2>1, <1>2, <1>t, ShipGoesOn
    <3>2. UNCHANGED locks
      BY <2>1 DEF Begins, Probes, Inits, ReadsId
    <3> QED
      BY <3>1, <3>2, <2>o, <2>p, <1>t, NoneMoreAtWork
  <2>2. CASE Unlocks(u) \/ Saves(u) \/ Checked(u) \/ ShipFails(u) \/ ShipDies(u)
    <3>1. ship'[u].pc \notin {"copying", "checking"}
      <4>i. Idle.pc = "idle"
        BY DEF Idle
      <4>1. CASE Unlocks(u) \/ Saves(u)
        BY <4>1, <1>2, <1>t, ShipGoesOn
      <4>2. CASE Checked(u) \/ ShipFails(u) \/ ShipDies(u)
        BY <4>2, <4>i, <1>t DEF Checked, ShipFails, ShipDies, Ends
      <4> QED
        BY <2>2, <4>1, <4>2
    <3>2. locks' = LiveLocks \/ locks' = ReleasedBy(u) \/ locks' = LeftBy(u)
      BY <2>2 DEF Unlocks, Saves, Checked, ShipFails, ShipDies, Ends
    <3>3. \A q \in (Units \cup {Prune}) \ {u} : \A kind \in {"shared", "exclusive"} :
              Lock(q, kind) \in locks => Lock(q, kind) \in locks'
      BY <3>2, LocksOutlive
    <3> QED
      BY <3>1, <3>3, <2>o, <2>p, <1>t, PruneIsNoUnit, NoneMoreAtWork
  <2>3. CASE Opens(u)
    <3>1. /\ \A l \in locks : l.kind # "exclusive"
          /\ locks' = locks \cup {Lock(u, "shared")} /\ ship'[u].pc = "copying"
      BY <2>3, <1>2, <1>t, ShipGoesOn DEF Opens
    <3>2. prune # "forgetting" /\ \A v \in Units : ship[v].pc # "checking"
      BY <3>1 DEF LockInv, Lock
    <3> QED
      BY <3>1, <3>2, <2>o, <2>p, <1>t DEF LockInv, PrunesAlone, Lock
  <2>4. ASSUME NEW s \in Sources, Copies(u, s) PROVE LockInv'
    <3>1. ship[u].pc = "copying" /\ ship'[u].pc = "copying" /\ UNCHANGED locks
      BY <2>4, <1>2, <1>t, ShipGoesOn DEF Copies
    <3> QED
      BY <3>1, <2>o, <2>p, <1>t, NoneMoreAtWork
  <2>5. CASE Records(u)
    <3>1. ship'[u].pc \in {"idle", "check"} /\ UNCHANGED locks
      BY <2>5, <1>t DEF Records, Idle
    <3> QED
      BY <3>1, <2>o, <2>p, <1>t, NoneMoreAtWork
  <2>6. CASE Checks(u)
    <3>1. locks = {} /\ locks' = {Lock(u, "exclusive")} /\ ship'[u].pc = "checking"
      BY <2>6, <1>t, GotoIs DEF Checks, Places
    <3>2. prune # "forgetting" /\ \A v \in Units : ship[v].pc \notin {"copying", "checking"}
      BY <3>1 DEF LockInv
    <3> QED
      BY <3>1, <3>2, <2>o, <2>p, <1>t DEF LockInv, PrunesAlone, Lock
  <2> QED
    BY <1>2, <2>1, <2>2, <2>3, <2>4, <2>5, <2>6 DEF Ship
<1> QED
  BY <1>1, <1>2

\* A step of the capture, of the prune or of others.
LEMMA RestKeepsLocks ==
    ASSUME LockInv, Capture \/ Pruning \/ Outside \/ UNCHANGED vars, ~MidRun
    PROVE  LockInv'
<1>t. ship \in [Units -> Scripts] /\ TypeOK'
  BY TypesInductive DEF LockInv, TypeOK, Next
<1>1. CASE Capture \/ UNCHANGED vars
  <2>1. UNCHANGED <<locks, prune>>
    BY <1>1 DEF Capture, CaptureStarts, Removes, Removed, Stages, Completes, CaptureFails, vars
  <2>2. \A v \in Units : ship'[v].pc = ship[v].pc
    BY <1>1, CaptureAndPruneAreBystanders DEF LockInv, vars
  <2> QED
    BY <2>1, <2>2, <1>t, NoneMoreAtWork
<1>2. CASE PruneBegins \/ MarkerBlanked \/ Reinit
  BY <1>2, <1>t, NoneMoreAtWork DEF PruneBegins, MarkerBlanked, Reinit
<1>3. CASE PruneUnlocks \/ PruneEnds \/ PruneDies
  <2>1. locks' = LiveLocks \/ locks' = ReleasedBy(Prune) \/ locks' = LeftBy(Prune)
    BY <1>3 DEF PruneUnlocks, PruneEnds, PruneDies
  <2>2. UNCHANGED ship /\ prune' # "forgetting"
    BY <1>3 DEF PruneUnlocks, PruneEnds, PruneDies
  <2>3. \A u \in Units : \A kind \in {"shared", "exclusive"} :
            Lock(u, kind) \in locks => Lock(u, kind) \in locks'
    BY <2>1, PruneIsNoUnit, LocksOutlive
  <2> QED
    BY <2>2, <2>3, <1>t, NoneMoreAtWork
<1>4. CASE PruneLocks
  <2>1. locks = {} /\ locks' = {Lock(Prune, "exclusive")} /\ UNCHANGED ship
    BY <1>4 DEF PruneLocks
  <2>2. \A v \in Units : ship[v].pc \notin {"copying", "checking"}
    BY <2>1 DEF LockInv
  <2> QED
    BY <2>1, <2>2, <1>t DEF LockInv, PrunesAlone
<1>5. CASE RepositoryLost
  <2>1. prune = "idle" /\ UNCHANGED <<ship, prune>> /\ \A u \in Units : ship[u].pc \in {"idle", "queued"}
    BY <1>5 DEF RepositoryLost, Quiet, Running
  <2> QED
    BY <2>1, <1>t, NoneMoreAtWork
<1> QED
  BY <1>1, <1>2, <1>3, <1>4, <1>5 DEF Pruning, Outside

\* For any sources and ids, if nobody else touches the repository while a script is
\* at work, restic prunes and checks alone.
THEOREM NoneBesideAPrune ==
    ASSUME ~MidRun
    PROVE  Spec => []PrunesAlone
<1>1. Init => LockInv
  <2>1. Init => TypeOK
    BY IdleType DEF Init, TypeOK, Amounts
  <2>2. Idle.pc = "idle"
    BY DEF Idle
  <2>3. Init => \A u \in Units : ship[u].pc = "idle"
    BY <2>2 DEF Init
  <2> QED
    BY <2>1, <2>3 DEF Init, LockInv, PrunesAlone
<1>2. LockInv /\ [Next]_vars => LockInv'
  BY ShipKeepsLocks, RestKeepsLocks DEF Next
<1>3. LockInv => PrunesAlone
  BY DEF LockInv
<1> QED
  BY <1>1, <1>2, <1>3, PTL DEF Spec
=============================================================================
