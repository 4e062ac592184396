----------------------------- MODULE NodeBackup -----------------------------
(***************************************************************************)
(* The offsite backup of one node (role node_backup): the capture, which   *)
(* stages every declared source; the two units that ship the staging       *)
(* directory to the node's restic repository, the frequent one and the     *)
(* weekly one that checks it too; and the daily prune.                     *)
(*                                                                         *)
(* systemd runs one job of a unit at a time.  A ship's start pulls the     *)
(* capture in and waits for it, and for a prune (Wants=, After=); nothing  *)
(* makes a capture wait for a ship that is running.  Any process may be    *)
(* killed at any step: its unit's timeout, the memory ceiling, or a power  *)
(* cut, which is the death of all of them before any takes another step.   *)
(***************************************************************************)
EXTENDS FiniteSets

CONSTANTS
    Sources,        \* backup.sources of the node
    Ids,            \* repository ids: restic makes a new one at every init
    NoId, Blank,    \* the marker: absent, or there and holding no id
    MidRun,         \* may others touch the repository or the marker while a script is at work?
    Dies            \* may a process be killed?

ASSUME BackupAssumption ==
    /\ NoId \notin Ids /\ Blank \notin Ids /\ NoId # Blank
    /\ MidRun \in BOOLEAN /\ Dies \in BOOLEAN

Units == {"ship", "check"}
Prune == "prune"

VARIABLES
    staged,     \* staged[s]: what of source s is in the staging directory
    sentinel,   \* .capture-complete is there
    capture,    \* where the capture is
    torn,       \* history: the last capture died while it was removing the old staging
    repo,       \* the repository at the destination, or NoId
    used,       \* the ids given out so far
    kept,       \* it holds a restore point
    marker,     \* node_backup_r2_repository_id_file
    locks,      \* restic's locks in the repository
    ship,       \* ship[u]: where unit u's script is, and its variables
    prune       \* where the prune is

staging == <<staged, sentinel, capture, torn>>
destination == <<repo, used, kept>>
vars == <<staging, destination, marker, locks, ship, prune>>

Amounts == {"none", "part", "whole"}

\* A ship: what it read in the marker, the repository's id, what restic listed and
\* has copied of it, whether the sentinel is in the snapshot, whether a file was
\* gone; and, history, whether a capture started under it.
Idle == [pc |-> "idle", recorded |-> NoId, id |-> NoId, listed |-> {},
         copy |-> [s \in Sources |-> "none"], proof |-> FALSE, error |-> FALSE, disturbed |-> FALSE]

Running(u) == ship[u].pc \notin {"idle", "queued"}
Quiet == prune = "idle" /\ \A u \in Units : ~Running(u)
ReadyToSave(u) == ship[u].pc = "copying" /\ ship[u].listed = {}
AllWhole(f) == \A s \in Sources : f[s] = "whole"

LocksOf(p) == {l \in locks : l.by = p}
Lock(p, kind) == [by |-> p, kind |-> kind, live |-> TRUE]
LiveLocks == {l \in locks : l.live}

\* What a killed process leaves: its lock, and nobody behind it.
LeftBy(p) == (locks \ LocksOf(p)) \cup {[l EXCEPT !.live = FALSE] : l \in LocksOf(p)}
\* restic takes its lock away when it ends by itself; a stale one is not its own.
ReleasedBy(p) == locks \ {l \in LocksOf(p) : l.live}

Goto(u, pc) == ship' = [ship EXCEPT ![u].pc = pc]
Ends(u) == ship' = [ship EXCEPT ![u] = Idle] /\ locks' = ReleasedBy(u)

-----------------------------------------------------------------------------
(* node-backup-capture.sh.                                                 *)

\* The ships that are running as a capture starts have been disturbed by it.
Started(w) ==
    [u \in Units |-> IF w[u].pc \in {"idle", "queued"} THEN w[u] ELSE [w[u] EXCEPT !.disturbed = TRUE]]

CaptureStarts ==
    /\ capture = "idle"
    /\ capture' = "removing"
    /\ ship' = Started(ship)
    /\ UNCHANGED <<staged, sentinel, torn, destination, marker, locks, prune>>

\* rm -rf takes the directory apart in no order of its own.
Removes ==
    /\ capture = "removing"
    /\ \/ \E s \in Sources : /\ staged[s] # "none"
                             /\ staged' = [staged EXCEPT ![s] = "none"]
                             /\ UNCHANGED sentinel
       \/ sentinel /\ sentinel' = FALSE /\ UNCHANGED staged
    /\ UNCHANGED <<capture, torn, destination, marker, locks, ship, prune>>

Removed ==
    /\ capture = "removing"
    /\ ~sentinel /\ \A s \in Sources : staged[s] = "none"
    /\ capture' = "filling"
    /\ torn' = FALSE
    /\ UNCHANGED <<staged, sentinel, destination, marker, locks, ship, prune>>

\* One source after the other: its directory is made, then filled.
Stages(s) ==
    /\ capture = "filling"
    /\ \/ /\ staged[s] = "none"
          /\ \A r \in Sources : staged[r] # "part"
          /\ staged' = [staged EXCEPT ![s] = "part"]
       \/ /\ staged[s] = "part"
          /\ staged' = [staged EXCEPT ![s] = "whole"]
    /\ UNCHANGED <<sentinel, capture, torn, destination, marker, locks, ship, prune>>

\* Mutant: the sentinel is written before the last source is whole.
CompletesEarly ==
    /\ capture = "filling"
    /\ \A s \in Sources : staged[s] # "none"
    /\ sentinel' = TRUE
    /\ capture' = "idle"
    /\ UNCHANGED <<staged, torn, destination, marker, locks, ship, prune>>

Completes ==
    /\ capture = "filling"
    /\ AllWhole(staged)
    /\ sentinel' = TRUE
    /\ capture' = "idle"
    /\ UNCHANGED <<staged, torn, destination, marker, locks, ship, prune>>

\* A source refuses (set -e), or the capture is killed.
CaptureFails ==
    /\ capture = "filling" \/ (capture = "removing" /\ Dies)
    /\ torn' = (capture = "removing")
    /\ capture' = "idle"
    /\ UNCHANGED <<staged, sentinel, destination, marker, locks, ship, prune>>

-----------------------------------------------------------------------------
(* node-backup-ship.sh.                                                    *)

\* The timer: the capture is pulled in, or the one that is running is waited for.
Tick(u) ==
    /\ ship[u].pc = "idle"
    /\ LET queued == [ship EXCEPT ![u].pc = "queued"] IN
       \/ /\ capture = "idle"
          /\ capture' = "removing"
          /\ ship' = Started(queued)
       \/ /\ capture # "idle"
          /\ ship' = queued
          /\ UNCHANGED capture
    /\ UNCHANGED <<staged, sentinel, torn, destination, marker, locks, prune>>

\* Mutant: a marker that holds no id is read as one.
MayShipAnyMarker == sentinel

\* The capture completed, and the marker holds an id or is absent.
MayShip == sentinel /\ marker # Blank

Begins(u) ==
    /\ ship[u].pc = "queued"
    /\ capture = "idle" /\ prune = "idle"
    /\ ship' = [ship EXCEPT ![u] = IF MayShip THEN [Idle EXCEPT !.pc = "probing", !.recorded = marker]
                                              ELSE Idle]
    /\ UNCHANGED <<staging, destination, marker, locks, prune>>

\* Mutant: a missing repository is made again, whatever is recorded.
MissingAlways(u) == repo = NoId

\* restic's exit 10, on a node that has recorded no repository.
Missing(u) == repo = NoId /\ ship[u].recorded = NoId

Probes(u) ==
    /\ ship[u].pc = "probing"
    /\ \/ repo # NoId /\ Goto(u, "reading id")
       \/ Missing(u) /\ Goto(u, "init")
    /\ UNCHANGED <<staging, destination, marker, locks, prune>>

\* restic init refuses where a repository is.
Inits(u) ==
    /\ ship[u].pc = "init"
    /\ repo = NoId
    /\ \E i \in Ids \ used :
          /\ repo' = i
          /\ used' = used \cup {i}
    /\ kept' = FALSE
    /\ Goto(u, "reading id")
    /\ UNCHANGED <<staging, marker, locks, prune>>

Same(u) == ship[u].recorded \in {NoId, repo}

ReadsId(u) ==
    /\ ship[u].pc = "reading id"
    /\ repo # NoId /\ Same(u)
    /\ ship' = [ship EXCEPT ![u].pc = "unlock", ![u].id = repo]
    /\ UNCHANGED <<staging, destination, marker, locks, prune>>

\* Mutant: unlock --remove-all.
UnlocksAll(u) ==
    /\ ship[u].pc = "unlock"
    /\ locks' = {}
    /\ Goto(u, "open")
    /\ UNCHANGED <<staging, destination, marker, prune>>

\* Only the locks nobody is behind.
Unlocks(u) ==
    /\ ship[u].pc = "unlock"
    /\ locks' = LiveLocks
    /\ Goto(u, "open")
    /\ UNCHANGED <<staging, destination, marker, prune>>

\* restic backup takes its lock and lists the staging directory, where the
\* sentinel's name comes first.
Opens(u) ==
    /\ ship[u].pc = "open"
    /\ repo # NoId
    /\ \A l \in locks : l.kind # "exclusive"
    /\ locks' = locks \cup {Lock(u, "shared")}
    /\ ship' = [ship EXCEPT ![u].pc = "copying", ![u].proof = sentinel,
                            ![u].listed = {s \in Sources : staged[s] # "none"}]
    /\ UNCHANGED <<staging, destination, marker, prune>>

\* A file that is gone since it was listed is an error, and restic goes on.
Copies(u, s) ==
    /\ ship[u].pc = "copying" /\ s \in ship[u].listed
    /\ ship' = [ship EXCEPT ![u].copy[s] = staged[s], ![u].listed = @ \ {s},
                            ![u].error = @ \/ staged[s] = "none"]
    /\ UNCHANGED <<staging, destination, marker, locks, prune>>

\* The snapshot is saved with or without errors; with them restic exits 3.
Saves(u) ==
    /\ ReadyToSave(u)
    /\ repo # NoId
    /\ kept' = TRUE
    /\ ship' = [ship EXCEPT ![u] = IF @.error THEN Idle
                                   ELSE [Idle EXCEPT !.pc = "record", !.recorded = ship[u].recorded, !.id = ship[u].id]]
    /\ locks' = ReleasedBy(u)
    /\ UNCHANGED <<staging, repo, used, marker, prune>>

\* The marker is written, by rename, if this ship found none; then the frequent
\* unit is done, but for its receipt and heartbeat, which fail nothing, and the
\* weekly one checks the repository.
Records(u) ==
    /\ ship[u].pc = "record"
    /\ marker' = IF ship[u].recorded = NoId THEN ship[u].id ELSE marker
    /\ ship' = [ship EXCEPT ![u] = IF u = "check" THEN [Idle EXCEPT !.pc = "check"] ELSE Idle]
    /\ UNCHANGED <<staging, destination, locks, prune>>

Checks(u) ==
    /\ ship[u].pc = "check"
    /\ locks = {}
    /\ locks' = {Lock(u, "exclusive")}
    /\ Goto(u, "checking")
    /\ UNCHANGED <<staging, destination, marker, prune>>

Checked(u) ==
    /\ ship[u].pc = "checking"
    /\ Ends(u)
    /\ UNCHANGED <<staging, destination, marker, prune>>

\* A step of restic fails or is refused, and the script exits.
ShipFails(u) ==
    /\ Running(u)
    /\ Ends(u)
    /\ UNCHANGED <<staging, destination, marker, prune>>

ShipDies(u) ==
    /\ Dies /\ Running(u)
    /\ ship' = [ship EXCEPT ![u] = Idle]
    /\ locks' = LeftBy(u)
    /\ UNCHANGED <<staging, destination, marker, prune>>

-----------------------------------------------------------------------------
(* node-backup-prune.sh.  It forgets older restore points, never the newest. *)

PruneBegins ==
    /\ prune = "idle" /\ marker # NoId
    /\ prune' = "listing"
    /\ UNCHANGED <<staging, destination, marker, locks, ship>>

PruneUnlocks ==
    /\ prune = "listing" /\ repo # NoId
    /\ locks' = LiveLocks
    /\ prune' = "waiting"
    /\ UNCHANGED <<staging, destination, marker, ship>>

\* --retry-lock: it waits for the other locks to go.
PruneLocks ==
    /\ prune = "waiting" /\ locks = {}
    /\ locks' = {Lock(Prune, "exclusive")}
    /\ prune' = "forgetting"
    /\ UNCHANGED <<staging, destination, marker, ship>>

\* It is done, it waits for another day, or a step of restic fails.
PruneEnds ==
    /\ prune # "idle"
    /\ prune' = "idle"
    /\ locks' = ReleasedBy(Prune)
    /\ UNCHANGED <<staging, destination, marker, ship>>

PruneDies ==
    /\ Dies /\ prune # "idle"
    /\ prune' = "idle"
    /\ locks' = LeftBy(Prune)
    /\ UNCHANGED <<staging, destination, marker, ship>>

-----------------------------------------------------------------------------
(* Others, and the operator.                                               *)

\* The repository is deleted, or another one is put in its place; its locks go with it.
RepositoryLost ==
    /\ MidRun \/ Quiet
    /\ repo # NoId
    /\ \/ repo' = NoId /\ UNCHANGED used
       \/ \E i \in Ids \ used : repo' = i /\ used' = used \cup {i}
    /\ kept' = FALSE
    /\ locks' = {}
    /\ UNCHANGED <<staging, marker, ship, prune>>

MarkerBlanked ==
    /\ MidRun \/ Quiet
    /\ marker # Blank
    /\ marker' = Blank
    /\ UNCHANGED <<staging, destination, locks, ship, prune>>

\* make backup-repo-reinit
Reinit ==
    /\ marker # NoId
    /\ marker' = NoId
    /\ UNCHANGED <<staging, destination, locks, ship, prune>>

-----------------------------------------------------------------------------
Init ==
    /\ staged = [s \in Sources |-> "none"] /\ sentinel = FALSE
    /\ capture = "idle" /\ torn = FALSE
    /\ repo = NoId /\ used = {} /\ kept = FALSE
    /\ marker = NoId /\ locks = {}
    /\ ship = [u \in Units |-> Idle]
    /\ prune = "idle"

Capture == CaptureStarts \/ Removes \/ Removed \/ (\E s \in Sources : Stages(s)) \/ Completes \/ CaptureFails

Ship(u) ==
    \/ Tick(u) \/ Begins(u) \/ Probes(u) \/ Inits(u) \/ ReadsId(u) \/ Unlocks(u) \/ Opens(u)
    \/ (\E s \in Sources : Copies(u, s)) \/ Saves(u) \/ Records(u) \/ Checks(u) \/ Checked(u)
    \/ ShipFails(u) \/ ShipDies(u)

Pruning == PruneBegins \/ PruneUnlocks \/ PruneLocks \/ PruneEnds \/ PruneDies

Outside == RepositoryLost \/ MarkerBlanked \/ Reinit

Next == Capture \/ (\E u \in Units : Ship(u)) \/ Pruning \/ Outside

Spec == Init /\ [][Next]_vars

-----------------------------------------------------------------------------
Scripts ==
    [pc : {"idle", "queued", "probing", "init", "reading id", "unlock", "open", "copying",
           "record", "check", "checking"},
     recorded : Ids \cup {NoId}, id : Ids \cup {NoId}, listed : SUBSET Sources,
     copy : [Sources -> Amounts], proof : BOOLEAN, error : BOOLEAN, disturbed : BOOLEAN]

\* Every variable keeps its type.
TypeOK ==
    /\ staged \in [Sources -> Amounts] /\ sentinel \in BOOLEAN
    /\ capture \in {"idle", "removing", "filling"} /\ torn \in BOOLEAN
    /\ repo \in Ids \cup {NoId} /\ used \subseteq Ids
    /\ kept \in BOOLEAN
    /\ marker \in Ids \cup {NoId, Blank}
    /\ locks \subseteq [by : Units \cup {Prune}, kind : {"shared", "exclusive"}, live : BOOLEAN]
    /\ ship \in [Units -> Scripts]
    /\ prune \in {"idle", "listing", "waiting", "forgetting"}

\* A snapshot that a ship is about to save without an error holds every source
\* whole, unless a capture started under the ship or the last one died while it
\* was removing the old staging directory: a capture that fails on a source, or
\* is killed at one, is never shipped.
PartialOnlyIfDisturbed ==
    \A u \in Units :
        ReadyToSave(u) /\ ~ship[u].error /\ ~ship[u].disturbed /\ ~torn => AllWhole(ship[u].copy)

\* node-backup-capture.sh.j2:245: "a restored snapshot carries its own proof that
\* the capture behind it finished": one that is about to be saved with the
\* sentinel in it holds every source whole.
ProofOfCompletion ==
    \A u \in Units : ReadyToSave(u) /\ ship[u].proof => AllWhole(ship[u].copy)

\* restic prunes and checks alone: no ship writes to the repository while one of
\* them goes on, nor do the two together, whoever was killed holding a lock and
\* whoever removes it.
PrunesAlone ==
    \A u \in Units :
        /\ prune = "forgetting" => ship[u].pc \notin {"copying", "checking"}
        /\ ship[u].pc = "checking" => \A v \in Units : ship[v].pc # "copying"

\* The node never adds to a history that is not the one it recorded, never starts
\* one while it has one recorded, and never records one that holds nothing
\* (BACKUP-058), however the two units, the deaths, the losses at the
\* destination and the operator's reinits interleave.
History == INSTANCE RestoreHistory WITH
    destination <- repo, pinned <- marker

KeepsItsHistory == History!Spec
=============================================================================
