# kubelab in TLA+

A verification project for kubelab: TLA+ modules of the parts whose correctness depends on
order, time and failure, TLC configurations that check them on small instances, and TLAPS
proofs of what matters most, for every value of the constants.

Paths are relative to the repository (`src/`). `PROJECT.json` maps every definition to the
lines it models, lists the runs, the mutants each property is tested with, the hazards and
the theorems.

    tlc -workers 2 -config NodeNotify_core.cfg MCNodeNotify      # one run
    tlapm NodeBackupProofs.tla                                   # one module's proofs

## 1. The system

kubelab is one person's platform on k3s: a Go API, a Python operations CLI (`toolkit`),
Ansible roles with shell scripts that run on the nodes, and the Kubernetes and Terraform
declarations they apply. Six places hold state that several actors change.

**The API (`apps/api/src`)**, one Go process per pod, two pods for a moment in a rolling
update (`infra/k8s/.../deployments.yaml`).

| part | state | operations | interacts with |
|---|---|---|---|
| webhook receiver (`internal/forge/receiver.go`) | none | check, deduplicate, store a delivery | the forges; `forge_event` |
| projector (`project.go`) | the batch it took | take the oldest pending, write the item and mark the delivery in one transaction, or mark it alone | `forge_event`, `forge_item` |
| reconciler (`reconcile.go`, `pager.go`, `api/forge_reconcile.go`) | the read it is in, the list to retry, `Ceiling.calls` | read every declared source each period, retry the failed ones, refuse calls past the ceiling | the forges' APIs; `forge_source`, `forge_item` |
| store (`internal/store/postgres.go`, the migration) | `forge_item`, `forge_source`, `forge_event` | upsert, mark, page, count | all of the above, the console |
| queue page (`console/console.html`, `api/console.go`) | the rows loaded, the cursor, the time of the last good answer | load, load more, refresh | the store, through HTTP |
| readiness (`internal/health/health.go`) | the cached verdict, its time, `refreshing` | answer from the cache, or refresh it for everybody | the kubelet and other callers, Beehiiv, Postgres |
| App tokens (`apptoken.go`), signatures, newsletter, wiring | a cached token; otherwise none | | the forges, Beehiiv |

**The nodes (`infra/ansible/roles`)**, shell scripts that systemd starts.

| part | state | operations | interacts with |
|---|---|---|---|
| node_notify | the incident of each unit (`state/<unit>`), the spool, two locks | notify a failure, notify a recovery, keep, flush | systemd, n8n |
| node_backup | the staging directory, restic's repository and its locks, the marker with its id | capture, ship, check, prune, reinit | object storage, node_notify |
| edge gateway checks | counters of failed checks | check, restart | Traefik, node_notify |
| agent stack jobs, preemption, kill switch | repositories on disk | mirror, stop | GCP, Gitea |

**The CLI (`toolkit`)** runs one sequence of steps at a time against systems that move
underneath: the rotation of the break-glass passwords, the merge of a bot's pull request, hub
pause and resume, the preflight of an upgrade and its snapshot, backup tokens, secrets, Gitea,
Argo CD, n8n workflows.
Its state is mostly in what it talks to; a run may stop between any two steps.

**Declarations and generators**: manifests, Terraform, code generators, repository gates.
They have no state of their own.

### What is hard, and what makes each part correct

* *Read model.* Two paths write the same rows: deliveries in any order, and reads that take
  many calls and are stale when they are saved. Correct: no change is ever lost, a late
  delivery does not win over a newer one, one poisoned delivery does not stop the rest, and
  what the tables lose a later read makes up for.
* *Reconcile loop.* Cycles, retries, a ceiling and an alert share one clock. Correct: each
  source is read on time whatever the others do, within the calls allowed, with no alarm for
  a source that answers.
* *Queue.* Pages are cut from a table that changes between them, by three queries outside a
  transaction. Correct: nothing is skipped, repeated or passed off as current.
* *Readiness.* Many callers, one refresh, and callers that hang up. Correct: the verdict is
  Beehiiv's and recent, and no outage of a third party takes the pod out of rotation.
* *Notices.* Processes that start each other, two locks, files that survive a crash, and an
  n8n that may take a notice without saying so. Correct: order per unit, no silence before a
  page was taken or kept, no pile of reminders, an alarm that ends up true.
* *Backups.* Two ship units, a capture they pull in, a prune, and restic's locks, any of which
  may be killed, against a repository others may lose or replace. Correct: the node keeps to the
  history it recorded, ships no failed capture, and prunes alone.
* *Break-glass rotation.* A file, a service and a git commit that must agree, changed one after
  the other by a run that may stop anywhere, and by an operator who follows its advice. Correct:
  the outcome says what file and service hold, and no password is lost but in the ways that
  are known (section 3).

## 2. Modules

| module | models | instance | proofs |
|---|---|---|---|
| `ForgeReadModel` | receiver, projector, a source's read, store, restarts, dump and restore | `MCForgeReadModel` | `ForgeReadModelProofs` |
| `ForgeReconcileLoop` | `Reconciler.Run`, `read`, the ceiling, the alert's bound | `MCForgeReconcileLoop` | `ForgeReconcileLoopProofs` |
| `ForgeQueue` | `Queue`, its handler, the page that loads it | `MCForgeQueue` | `ForgeQueueProofs` |
| `HealthCache` | `beehiivCheck`, `/ready`, the kubelet's probe | `MCHealthCache` | `HealthCacheProofs` |
| `NoticeLine` | what a unit's notices are promised on their way to n8n (abstract) | | |
| `NodeNotify` | `kubelab-notify.sh.j2` and its units; implements `NoticeLine` | `MCNodeNotify` | `NodeNotifyProofs`, `NodeNotifyAlarmProofs` |
| `RestoreHistory` | what a node promises about its offsite history (abstract) | | |
| `NodeBackup` | the capture, ship and prune scripts and their units; implements `RestoreHistory` | `MCNodeBackup` | `NodeBackupProofs` |
| `BreakGlassRotation` | `break_glass_rotation.py`, the command, the operator between runs | `MCBreakGlassRotation` | `BreakGlassRotationProofs` |

The first two split one goroutine by question: what a read does to the tables, and when
reads happen. In `ForgeReconcileLoop` a read succeeds or fails after some calls; in
`ForgeReadModel` it may start at any moment, which covers every schedule.

### ForgeReadModel

The forge is the environment: numbered items, a revision per change, the second it was made
in. An item's content is its revision number. The code never sees that number, it compares
`updated_at`, which is `at[i][r]`.

| in the model | in the code |
|---|---|
| `row`, `asOf`, `reachable` | `forge_item`, `forge_source.as_of`, `.source_reachable` |
| `arrival`, `projected` | `forge_event.received_at` as a rank, `projected_at` |
| `read[p]`, `batch[p]`, `declared[p]` | the two goroutines of pod p, and its configuration |
| `Receive` | `Receiver.Handle` and `SaveEvent`, with ON CONFLICT DO NOTHING |
| `TakeBatch`, `ProjectHead`, `MarkHead`, `GiveUp` | the projector's query and the three outcomes of each delivery |
| `LastRead`, `StartListing`, `FetchPage`, `SaveRead`, `FailRead` | `readSource` between its awaits: the watermark, the time, each page, the one transaction, the failure |
| `Restart` | a pod replaced, with another declaration or the same |
| `TakeDump`, `Restore` | the nightly dump and the runbook's restore |

`Restart` with another declaration also stands for one that drops a source. The pods'
clock runs in ticks, finer than the second `updated_at` has, so `since` is rounded as the
code rounds it; `Skew` is how far it is ahead of the forge's.

### ForgeReconcileLoop

`phase`, `kind`, `todo`, `failed`, `wait` and `untilNext` are the locals of `Run` and `read`;
`calls` is the ceiling's count; `age[s]` is how old `as_of` is, which the alert compares with
two periods. `Call` is one request through the ceiling, `ReadOk` and `ReadFail` the end of a
source's read, `Hang` a call that never returns, `Wake` the timer. Ages are capped just past
the alert's bound, so the behaviours are infinite and the states are not.

### ForgeQueue

An item is its place in the order: a time and an identity that breaks ties. `Count` and
`ReadPage` are two of the three queries (the third, of the sources, reads nothing modelled
here); `Write` may come between any two. `Ask`, `Arrive` and `Lose` are `load(more)` in the
page, with its one request at a time and its `keepRows`. When the page last read, which it shows
beside the rows, is left out.

### HealthCache

The sections of `beehiivCheck` under the mutex are one step each, the round trip between them
is not. `HangUp` at the round trip leaves it running without its caller
(`context.WithoutCancel`); at Postgres it cancels the query. A round trip without credentials
ends at once with "degraded"; a caller that meets another's refresh before there is a verdict is
told that the first check is in progress (`told[c]`). `wasSick` is history: whether Beehiiv was
anything but up at some time of the last round trip. The 503 of a configuration that does not load
is left out: the server does not start without one (`cmd/server/main.go:18-21`), and `GetConfig`
keeps the one it has (`pkg/config/env.go:61-65`).

### NodeNotify and NoticeLine

| in the model | in the script |
|---|---|
| `incident[u]` | `state/<unit>`: it exists, SENT, and the age of LAST (FIRST while LAST is 0) |
| `spool` | the kept files, oldest first, with what they say and their age |
| `Free`, `Holds` | the unit's lock, held from reading the state to the end |
| `lock` | the spool's lock |
| `Page`, `Silent`, `Fold`, `Exercise`, `Recover` | what a notifier decides under the unit's lock |
| `Choose`, `SendTaken`, `SendFailed`, `Keep`, `Record` | sent directly or kept, and then the state file |
| `FlushDue` to `FlushRemoves` | the flush service, its timer and its lock |
| `Die`, `FlushDies`, `Reboot` | a kill, a failing write under `set -e`, a power cut |

What a process does under a lock without waiting for n8n is one step. `SendFailed` has both
outcomes of a curl that gives up: n8n did not take the notice, or took it and was late.
`pageOut[u]` and `since[u]` are history: what became of the pages of the unit's incident, which
are the notices made after it began.

`NoticeLine` is the promise to a unit's notices: they stand in one line in the order they were
made, n8n is only ever given the first, and one leaves untaken only from the front for its age,
or from the end, still in hand, with the script that died. `NodeNotify!Line` maps the line to
`OnTheirWay(u)`, what the spool holds of the unit and what its notifiers carry; the direct send
and the flush are both its `Deliver`, the flush's removal its `Leave`, the two deaths and the
reboot its `Crash`.

### NodeBackup and RestoreHistory

`RestoreHistory` is the promise of BACKUP-058 in three variables: a history starts only where
there is none for a node that holds to none, a restore point is added only to the history the
node holds to, and a history is held to only once it has a restore point. Losses at the
destination, a marker somebody truncates and the operator's reinit are its other actions.
`NodeBackup!History` maps the repository to `destination` and the marker to `pinned`.

| in the model | in the scripts |
|---|---|
| `staged`, `sentinel` | the staging directory, source by source, and `.capture-complete` |
| `CaptureStarts`, `Removes`, `Removed`, `Stages`, `Completes`, `CaptureFails` | `rm -rf`, which is no single step, and the capture of each source |
| `ship[u]` | unit u's script: what it read in the marker, restic's id, what restic has listed and copied |
| `Tick`, `Begins` | the timer, `Wants=` and `After=` of the units, the sentinel and the marker read |
| `Probes`, `Inits`, `ReadsId` | the probe of the repository, init where none is and none is recorded, the comparison of ids |
| `Unlocks`, `Opens`, `Copies`, `Saves` | `restic unlock` and `restic backup`, which lists the directory and then reads it |
| `Records`, `Checks`, `Checked` | the marker by rename, and the weekly unit's check |
| `PruneBegins` to `PruneEnds` | the prune, which waits for the locks |
| `locks`, `LeftBy` | restic's locks, and what a killed process leaves of them |
| `RepositoryLost`, `MarkerBlanked`, `Reinit` | others, and `make backup-repo-reinit` |

A power cut is the death of every process before any takes another step, so it needs no action of
its own.

### BreakGlassRotation

A password is a number, 0 for the first. `working`, `committed` and `past` are a service's
password in the SOPS file on disk, in the last commit and in all of them; `holds` is what the
service takes. A file holds the passwords of several services, and git knows it as a whole:
`dirty` is what `git status` says of its bytes, so a value that was written and restored still
leaves a change, as sops encrypts the file anew (`SetSecret`).

`Drifts`, `Writes`, `Sets`, `Verifies`, `Reverts`, `Restores` and their failures are the steps of
`rotate_one`, one per call it makes; `Says` is the outcome and the loop's next service. A service
may keep the old password though it said it took the new one, which is what the verification is
for; the services in `Flaky` may also answer an error, or nothing, to what they did. `Stops` is a
hard kill or an exception nobody catches. `Commit` and `Checkout` are what the tool tells the
operator to do. He may do either, in any order, or neither and run it again.

## 3. What the runs check

Twelve runs; each property has a mutant, a plausible bug in one mapped definition, that TLC
finds under the same configuration.

| run | question | properties |
|---|---|---|
| `forge_core` | deliveries in any order, projected while a read runs, with a failure or a restart anywhere | `TypeOK`, `NoLostChange`, `OnlyReadsGoBack` |
| `forge_live` | no webhook is promised, one delivery is always refused, items are deleted, declarations change, the tables are restored from a dump taken at any moment or emptied | `NoLostChange`, `StoredIsProjected`, `ViewConverges` |
| `forge_same_second` | two changes in one second (**violated**) | `OnlyReadsGoBack` |
| `queue_core` | writes anywhere between queries and pages | `TypeOK`, `RowsDescend`, `NeitherSkippedNorRepeated`, `CountAddsUp` |
| `health` | the deployed numbers, two callers, a Beehiiv that comes and goes, credentials or none | `TypeOK`, `OneRoundTrip`, `VerdictIsBeehiivs`, `FirstCheckOnce`, `VerdictIsRecent`, `StaysInRotation` |
| `loop_core` | sources that fail, hang or meet the ceiling, and a restart | `TypeOK`, `WithinCeiling`, `NoFalseAlarm`, `FailedIsRetried`, `HealthyLeftAlone`, `OnlyAHangStopsReads` |
| `loop_hang` | one call is never answered (**violated**) | `EverySourceIsRead` |
| `notify_core` | one unit, three runs, a hand start, a death anywhere, an n8n that may refuse for good | `TypeOK`, `NoOvertaking`, `SilencedOnlyIfSent`, `RemindersAreFolded`, `AlarmIsTrue`, `OneIncident`, `NoneSkipped` (the refinement), `SpoolDrains` |
| `backup_core` | every script killed or failing anywhere, a repository lost or replaced, a marker truncated, a reinit | `TypeOK`, `PartialOnlyIfDisturbed`, `PrunesAlone`, `KeepsItsHistory` (the refinement) |
| `backup_overlap` | a capture started under a ship of the other unit (**violated**) | `ProofOfCompletion` |
| `rotation_core` | three services in one file, one that answers falsely, a run stopped anywhere and run again at once | `TypeOK`, `OutcomeIsTrue`, `LostOnlySo` |
| `rotation_checkout` | a checkout of a file another service was rotated in (**violated**) | `CheckoutRestores` |

`NoLostChange` is the heart of the read model: an item the table does not hold as the forge
does changed at or after `as_of`, so the next read lists it. It relates the rows, the
watermark and the forge's clock, and it is why `StartListing` takes the time before the
first page and `since` is inclusive. `NeitherSkippedNorRepeated` is its counterpart for the
console: only items written to while the pages were loaded may be missed. `NoOvertaking` and
`AlarmIsTrue` are the two halves of the notices: what n8n takes of a unit is in order, and
what it ends up showing is what the last run was; `NoneSkipped` lies between them: none is left
behind on the way, but for age or with a killed script. `KeepsItsHistory` says that the node never
covers up a lost history by a new one.

`SilencedOnlyIfSent` follows a page from the hand to the state file: nothing silences a unit but
a page of its incident that n8n took, or that is kept, or that was kept until it was too old. The
last is the code's: dropping a notice (`kubelab-notify.sh.j2:188-192`) leaves the state file as it
is, so the unit stays silent until a reminder is due though nobody was paged.

`LostOnlySo` counts the ways in which the password a service takes can end up nowhere, and there
are three: a checkout of the file (finding 4); a restore under a service that took the new password
and did not give it back, because its answer was lost or the revert failed too; and a run that
starts from a password nobody committed and is stopped, or cannot restore it. Each of the three is
needed: without it TLC finds a loss. `OutcomeIsTrue` is what the operator may rely on meanwhile:
`ok`, `not written`, `refused` and `reverted` say what file and service hold, also after the run
went on to the other services of the same file. `drift`, `not reverted` and `not restored` promise
nothing, and the first is also what an error for an answer looks like.

### Findings

Four places where the text promises more than the code does; each is a run TLC violates.

1. `OnlyReadsGoBack`, `apps/api/src/internal/store/postgres.go:176`. The guard is
   `updated_at <= $12` and
   forges date to the second, so of two changes in one second the older delivery, arriving
   late, is written over the newer one. The comment (:158-159) says it is not. If `as_of` has
   moved past that second by then, no read lists the item and the row stays old until the
   item changes again: with `SameSecond` on, `NoLostChange` fails as well.
2. `EverySourceIsRead`, `apps/api/src/internal/api/forge_reconcile.go:24`. The HTTP client has
   no timeout and the context no deadline: one call that is never answered stops the one loop,
   against "One failing source neither stops the others nor fails the cycle"
   (`internal/forge/reconcile.go:40-41`). `OnlyAHangStopsReads` in `loop_core` shows that nothing
   else does.
3. `ProofOfCompletion`, `node-backup-capture.sh.j2:62`. Both ship units pull in the one capture,
   and nothing makes a capture wait for a ship that runs: its `rm -rf` takes the staging
   directory away under a ship that has checked the sentinel, and restic saves what is left,
   sentinel included. The script (:245-246) says the sentinel in a snapshot proves that its
   capture finished. `PartialOnlyIfDisturbed` in `backup_core` shows that only this, or a capture
   killed while it removes, makes a partial snapshot.
4. `CheckoutRestores`, `toolkit/features/break_glass_rotation.py:311`. The checkout the tool
   advises for a service a kill left behind is of the whole file, and `prod.enc.yaml` holds the
   passwords of several: done after the same run rotated another one, it drops the only copy of
   that one's new password. The module's text (:20-21) says the checkout restores the value the
   service still holds.

Also met and not counted as a finding: the console stamps its rows with the time of a refresh that did not
replace them (`console.html:85`, in the list of hazards).

## 4. Bounds, and why they are enough

* **Read model.** Two items on pages of one is the least with which a listing has a second
  page that changes under it; two revisions, the least with which a delivery can be late;
  two ticks to a second, the least with which rounding shows; five ticks leave room for a
  change before, during and after a read. A batch of one makes every delivery a batch
  boundary. One failure or restart reaches every partial failure, as each leaves
  the pod idle. `forge_live` has one item, one revision and a deletion: its questions are about
  one row, its deliveries and its watermark. There is one source, as a source's rows and
  watermark meet no other's; the theorems hold for any number.
* **Loop.** Two sources, period 4, retry 1, a read of at most 1: `CycleAssumption` holds with
  equality, so a cycle may be as slow as the alert allows. An hour of five ticks and a ceiling of
  four let it be met in the middle of a read and at the hour's turn, from any phase
  of the hour. The states are finite without a bound on time.
* **Queue.** Three items, two times and pages of one give ties on and off the boundary and
  up to three pages; two writes are enough to move an item across the cursor and back.
  `Items` and `MaxTime` are the table's, not a bound on how long the page is used.
* **Health.** No bound: the numbers are the code's and the manifest's, in seconds.
* **Notices.** Reminder 1, TTL 2 and maximum age 1 keep their order. Three runs are a
  failure, another or a recovery, and a new failure; a hand start reaches the path that is
  exercised; one death stands anywhere. One unit: the spool and its lock are shared with others,
  which the theorems cover for any number of units, deaths and runs.
* **Backup.** No bound on time or on deaths: the states are finite. Two sources are the least
  with which a partial capture exists, two repositories the least with which one is replaced by
  another. `SYMMETRY Alike` permutes the sources and the ids, which no definition tells apart;
  all the properties checked under it are safety.
* **Rotation.** Three services in one file are what `prod.enc.yaml` has: one to be left behind, one
  to be rotated and one that answers falsely. Two passwords made for each are two runs that change
  it, one stopped and one that goes on from what it left. Stops, runs, commits and checkouts are
  not bounded. `rotation_checkout` needs two services and no false answer.

`CHECK_DEADLOCK FALSE` is only in `forge_live`, where time ends at `MaxTime` and a pod that
declares nothing has nothing to do. It costs nothing to liveness: a behaviour that stops
there stutters, and the properties are checked on it.

## 5. Fairness

* `ForgeReadModel`: the projector and the reconciler run on tickers of their own
  (`api/forge_reconcile.go`), so each step of either is weakly fair; `LastRead` is strongly
  fair per source, as a cycle goes through every declared one and the step is disabled while
  another source is read. Nothing is assumed of the forge, of webhooks or of the
  operator; failures end with `MaxFaults`.
* `ForgeReconcileLoop`: time passes, a timer that has run out fires, and a read that is
  answered ends. `loop_hang` keeps the same fairness: the hung call is a state with nothing
  enabled but time.
* `NodeNotify`: processes that run go on (systemd neither stops them nor starves them), the
  flush's timer fires and time passes. Nothing is assumed of n8n: a notice it refuses for good is
  dropped for its age, which `SpoolDrains` shows is enough.
* `HealthCache`, `ForgeQueue`, `NodeBackup` and `BreakGlassRotation` have no liveness properties.

## 6. Assumptions

Each is a constant or a named `ASSUME`, or a sentence here where it is neither.

* The forge's `since` filter includes the second it is asked from (`Matching`); the mutant
  that excludes it loses changes.
* `Skew` is 0 in the runs and at most 0 in `NothingLost`: with the node's clock ahead of the
  forge's, `as_of` is a time the forge has not reached, and changes before it are lost.
* `SameSecond` is FALSE but in the run that violates (finding 1); `Deletes` is FALSE but in
  `forge_live`, whose one item no page shift can hide.
  With deletions on and two items, an item may shift from a page still to come to one already
  read, and
  `NoLostChange` fails: a listing by offset cannot do better, and no document claims it.
* One pod. With two, a slow `SaveRead` writes an old watermark and old rows over newer ones
  (hazard at `postgres.go:90`). It takes two reads by one pod within one save by the other,
  in the overlap of a rolling update.
* `RestoreWhileReading` is FALSE: tables are restored between reads. The runbook stops the
  app to restore one database (`docs/runbooks/offsite-backup-restore.md:440-465`); for the
  loss of the whole cluster the order is the operator's.
* `Merges` is FALSE: systemd merges the start of a running instance into it, so a failure
  while the same unit's notifier exercises the path would be announced by nobody. The timers
  do not produce it; a hand start may.
* The node's clock does not jump, and the waits for the locks outlast what they wait for (the
  role's tests assert their order).
* `AlarmIsTrue` and `OneIncident` are about behaviours without deaths: a notifier killed
  between curl's exit and the state file leaves an alarm that is wrong until the next
  notice. `NoOvertaking`, `SilencedOnlyIfSent` and `NoneSkipped`, what the script's comments
  promise across crashes, hold with deaths. Of the theorems only `AlarmEndsTrue` assumes
  `~Merges`.
* A request to Beehiiv and one to Postgres fit in a probe period (`TimesAssumption`).
* `MidRun` is FALSE: nobody deletes or replaces the repository, or truncates the marker, while
  a script of the node is at work; in between they may at any time. restic compares no id of its own,
  so with `MidRun` on a ship can add to a repository put there after its comparison. A reinit is
  allowed at any moment.
* Passwords are made anew and never repeat. An exception in the rotation's verification or in
  opening a path ends the run like a kill (`Stops`). A service takes one password at a time.

## 7. What is proved

TLAPS checks, with no step taken on trust, for every value of the constants:

| theorem | says | assumes |
|---|---|---|
| `ForgeReadModelProofs!TypeCorrect` | `Spec => []TypeOK`, with "no row holds a revision the forge has not made" and "as_of is never ahead of the node's clock" | only the module's ASSUMEs |
| `ForgeReadModelProofs!NothingLost` | `Spec => []NoLostChange` | `Calm`: one pod, no deletions, `Skew <= 0`, one change of an item per second, restores between reads |
| `ForgeReadModelProofs!ProjectionGoesForward` | `Spec => OnlyReadsGoBack` | `~SameSecond`; any number of pods, deletions, restores and any skew |
| `ForgeQueueProofs!TypeCorrect`, `!PagesDescend`, `!PagingIsExact`, `!CountsAgree` | `Spec => []TypeOK`, `[]RowsDescend`, `[]NeitherSkippedNorRepeated`, `[]CountAddsUp` | only the module's ASSUMEs |
| `HealthCacheProofs!TypeCorrect`, `!OneCallerAtBeehiiv`, `!BeehiivsVerdict`, `!FirstCheckIsFirst`, `!RecentVerdict` | `Spec => []TypeOK`, `[]OneRoundTrip`, `[]VerdictIsBeehiivs`, `[]FirstCheckOnce`, `[]VerdictIsRecent` | only the module's ASSUMEs |
| `HealthCacheProofs!PodStaysInRotation` | `Spec => []StaysInRotation` | `DeployedTimes`: the probe waits longer than Postgres may take, comes back before the verdict expires and is forgiven once |
| `ForgeReconcileLoopProofs!TypeCorrect`, `!CeilingHolds`, `!RetriesSpareTheRest`, `!FailedReadAgain`, `!NoAlarmWithoutCause` | `Spec => []TypeOK`, `[]WithinCeiling`, `HealthyLeftAlone`, `[]FailedIsRetried`, `[]NoFalseAlarm` | only the module's ASSUMEs, `CycleAssumption` among them |
| `NodeNotifyProofs!TypeCorrect`, `!InOrder`, `!PageBeforeSilence`, `!NoPile` | `Spec => []TypeOK`, `[]NoOvertaking`, `[]SilencedOnlyIfSent`, `[]RemindersAreFolded` | only the module's ASSUMEs; any deaths and reboots, `Merges` either way |
| `NodeNotifyAlarmProofs!StaysOneIncident`, `!LineKept` | `Spec => OneIncident`, `Spec => NoneSkipped` (`NodeNotify` implements `NoticeLine`) | only the module's ASSUMEs; `LineKept` with any deaths and reboots, `Merges` either way |
| `NodeNotifyAlarmProofs!AlarmEndsTrue` | `Spec => []AlarmIsTrue` | `~Merges` |
| `NodeBackupProofs!TypeCorrect`, `!ShipsWhole` | `Spec => []TypeOK`, `[]PartialOnlyIfDisturbed` | only the module's ASSUMEs |
| `NodeBackupProofs!HistoryKept`, `!NoneBesideAPrune` | `Spec => KeepsItsHistory` (`NodeBackup` implements `RestoreHistory`), `[]PrunesAlone` | `~MidRun` |
| `BreakGlassRotationProofs!TypeCorrect`, `!OutcomesAreSo`, `!PasswordsAreKept` | `Spec => []TypeOK`, `[]OutcomeIsTrue`, `LostOnlySo` | only the module's ASSUMEs: any number of services, any sharing of files, any that answer falsely |

Each part of `Calm` is needed: with any of them dropped, TLC finds a change lost. On
`forge_core` with one item, set `SameSecond`, `Skew = 1`, or `RestoreWhileReading` and
`MaxRestores = 1`; with its two items, `Deletes`; with one item, two pods and `MaxTime = 7`,
the overlapping rollout (706 thousand states). So are `~Merges` and
`~MidRun`: on `notify_core` with `Merges`, on `backup_core` with `MidRun`.

**NothingLost.** `NoLostChange` is not inductive: it says nothing of a read under way, whose
`SaveRead` moves `as_of` to a time taken long before. `IInv` adds `ReadSound`: before its
first page a read will list whatever its rows lack; from then on every item of the source is listed as it is, or stands on a page
to come, or changed in or after the second of `started`, or is in its row as it is. The page case is
the crux: items that join the listing while it goes on only push
others to later pages, so the rank of an item not yet read never falls below the offset
(`Rank`'s lemmas, by cardinality of subsets). `History` says that revisions are dated in
order and not in the future, which makes the projection's `<=` compare revisions.
`Fresh(dump...)` carries the same through a restore, and `gone = {}` the absence of
deletions.

**ProjectionGoesForward** needs only types and `History`: at most one change a second makes
`NotOlder(d)` imply `row[d.item] <= d.rev`, so of all steps only a save or a restore can
lower a row.

**ForgeQueue.** The invariant ties the request under way to the pages loaded: `AskedFor` (it
continues where the pages end, or starts over), `RowsFit` and `NextIsLast` (an answer fits a
page, and the cursor is newer than no row shown), `Answered` (what the server answered is,
for items left alone since, exactly what matches between the cursor and the next), and
`TouchedTogether` (what was written since the request was asked is known). `ReadPage` then
follows from `Newest` being a prefix of a strict total order, and `Arrive` from
concatenating two exact ranges. `Counts`, on top of it, says that a count stands for the open
items, and every row shown for one of them, until something is written; with every page loaded
the rows and the open items then correspond one to one.

**HealthCache.** `OneTrip` (the mark of a refresh and the one caller at Beehiiv come and go
together), `SickIsSeen` (a trip remembers an outage it met), `AgeIsBounded` (left alone, a
verdict is no older than its life and the time since the kubelet asked; while refreshed, than
that and the round trip so far) and `InTime` (each call ends by its timeout); `FirstCheckOnce` is
inductive beside them. For the pod's rotation, `OneFailure` says that at most one probe failed, and that after it a
verdict is there or on its way (`VerdictComes`), so the next probe is answered from the cache.

**ForgeReconcileLoop.** `Counted` adds up the calls of the pods that ran in the hour. `Passes`
says what a pass is: its sources in the order, none twice, none both failed and still to read,
retries of failed ones only. `Timely` adds the clock: `FailedSoon` bounds how long ago a failed
source failed by its place in the pass, and `ReadOften` how old a source's last read is by what
is left of the cycle, the sleep and the retry that may overrun it; `CycleAssumption` closes
the sum. They need the lists' lengths times the read's time, products the provers are given as an
operator `T` with two lemmas.

**NodeNotify.** `Jobs` and `Exclusive` say who carries a notice: one notifier of a unit at most,
past the unit's lock. `Ordered` numbers a unit's notices: what n8n has, then what the spool
holds, then what is carried, and a notice is sent directly only while the spool holds none of
its unit. `Folded` makes a
reminder only for a unit the spool holds nothing of. `Locked` ties the spool's lock to who sends
or flushes, so the flush and a direct send never meet.

`SilencedOnlyIfSent` takes an invariant of its own on top, `Recorded`: a page about to be recorded
is out already (`RecordingOut`), the one the flush is about to remove n8n has (`RemovingOut`), and
what a notifier carries was made after its incident began (`Numbered`), so a page of an older
incident never passes for one of this. With these, a step that shortens the spool takes nothing
that is only there (`TailOut`).

`OneIncident` needs what a state file's age is worth (`AgeInv`): as long as no script died, a page
that was sent is older than its unit has been quiet by less than a reminder (`Renewed`), so it
expires only after a quiet of nearly its whole life.
`AlarmInv` follows the last run to the alarm: `Followed` says that what the unit's last notifier
was started for is still to be decided, or is what the state file and the unit's last notice say;
`Reported` that n8n's alarm, or the newest notice on its way, says the same, unless one was
dropped for its age. `Confirmed` makes the flush remove only the notice n8n took last.

**LineKept** is the refinement, over `IInv` and `Confirmed`. A few lemmas about the line, all from
`Ordered`, carry it: what a notifier makes is newer than all of its unit (`MadeJoins`), what it
carries is the last (`HandIsLast`), and first too when it is sent directly, as the spool then holds
none of its unit, and the spool's first is the unit's oldest (`OldestIsFirst`). Moving a notice
from hand to spool changes no line (`KeptStays`); the rest take one off it.

**NodeBackup.** For the refinement, `HistoryInv`: what a running ship knows of the repository is
still so, as only a ship of the node changes it then, and init is refused where one is; each
step of a script then is a step of `RestoreHistory` or a stutter. `StagingInv` says what a ship
that nothing disturbed has listed and copied; `LockInv` that a lock with a living owner is in the
repository exactly while its owner is at work, so unlocking removes no one's.

**BreakGlassRotation.** `KnownInHand` is what the run knows of the service in hand: its new password
is in the file, the service takes that or the old one, and the old one after a refusal or a revert
that was answered truly. With `YetToCome` (services not reached have no outcome) it makes
`OutcomeIsTrue` inductive: a service done with is touched by no later step, whatever its file.
`LostOnlySo` follows from it step by step: while in hand, old and new are both known; letting go of
the service (`LetGo`) loses neither but in the ways it names.

**Only model-checked.** Liveness (`StoredIsProjected`, `ViewConverges`, `OnlyAHangStopsReads`,
`EverySourceIsRead`, `SpoolDrains`) is out of the prover's reach.
Every invariant, action property and refinement of the passing runs is proved.

## 8. What is not modelled, and why

Left out of the modelled parts, by module:

* *ForgeReadModel*: signatures and envelopes of deliveries, the pager's link header, item fields
  no property reads.
* *ForgeQueue*: the other filters' wording, the HTML, the login, the time shown beside the rows.
* *NodeNotify*: a notice's severity and excerpt, a node whose clock is not set or jumps, a lock
  wait that expires for a notifier, a notice left empty by a power cut.
* *NodeBackup*: the unit that captures at shutdown, the receipt and the heartbeat, the days
  the prune waits while a copied history is under the bucket's lock.
* *BreakGlassRotation*: how a path to a service is opened, the commands that use an account.

The remaining components, each with its reason in `PROJECT.json`:

* Without state of their own, or pure functions: webhook signatures, the newsletter API, server
  wiring, generators, manifests, repository gates, the upgrade's preflight, the Terraform
  runner.
* One call or one short sequence by one operator, with nobody beside him in the repository's
  code: hub pause (that the other hub starts only then is the operator's order), backup tokens,
  the VPS snapshot, secrets, the preemption unit and the kill switch, the agent stack's mirrors.
* Converging declared state by API calls, where what may interleave is the service's own state,
  of which the repository says little: Gitea, Argo CD, n8n's workflows, the deploy merge, which
  is pinned to the head it judged (`--match-head-commit`).
* App tokens: a cached token is asked for again by every request under one mutex and renewed five
  minutes early, so only a page that takes longer could use an expired one.
