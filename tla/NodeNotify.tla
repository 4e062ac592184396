----------------------------- MODULE NodeNotify -----------------------------
(***************************************************************************)
(* Failure notices of one node (role node_notify): the script systemd      *)
(* starts after each run of a unit, its incident state, and the spool it   *)
(* keeps notices in while n8n does not take them.                          *)
(*                                                                         *)
(* A process is an instance of kubelab-notify@ or kubelab-notify-recovered@ *)
(* for a unit, one of each at a time, or the flush.  What a process does   *)
(* under one lock, without waiting for n8n, is a step.  Time is in ticks   *)
(* and kept as ages.  The clock does not jump; the waits for the locks are *)
(* longer than what they wait for, as the role's tests assert.             *)
(***************************************************************************)
EXTENDS Integers, Sequences

CONSTANTS
    Units,      \* the units wired to both notifiers
    Reminder,   \* node_notify_reminder_seconds
    TTL,        \* node_notify_state_ttl_seconds
    MaxAge,     \* node_notify_spool_max_age_seconds
    Merges,     \* may a unit fail while its failure notifier is exercising the path?
    MaxRuns,    \* bounds
    MaxHands,
    MaxDeaths

ASSUME TimesAssumption ==
    /\ Reminder \in Nat \ {0} /\ TTL \in Nat /\ Reminder < TTL /\ MaxAge \in Nat
    /\ Merges \in BOOLEAN
    /\ MaxRuns \in Nat /\ MaxHands \in Nat /\ MaxDeaths \in Nat

Notifiers == Units \X {"failure", "recovered"}
Flusher == <<"flush">>
NoOne == <<>>

VARIABLES
    running,    \* running[u]: the unit is running
    result,     \* result[u]: what systemctl shows as its Result
    job,        \* job[n]: where the notifier is, and the notice it has made
    flush,      \* where the flush is
    lock,       \* who holds the spool's lock
    spool,      \* the notices kept, oldest first
    incident,   \* incident[u]: the state file; age runs from LAST, or FIRST while LAST is 0
    alarm,      \* n8n: alarm[u], by the last notice of the unit it took
    newest,     \* n8n: newest[u], the latest made of the notices of the unit it took
    made,       \* made[u]: how many notices of the unit were made
    since,      \* history: how many notices of the unit were made before its incident
    pageOut,    \* history: whether n8n took a page of the incident, or else one was dropped
    quiet,      \* history: while a page is out, how long ago the last failure was handled
    dropped,    \* history: a notice of the unit was dropped
    runs, hands, deaths

systemd == <<running, result, runs, hands>>
node == <<spool, incident>>
n8n == <<alarm, newest>>
history == <<since, pageOut, quiet, dropped>>
vars == <<systemd, job, flush, lock, node, n8n, made, history, deaths>>

Off == [pc |-> "off", kind |-> "none", id |-> 0]
Closed == [open |-> FALSE, sent |-> FALSE, age |-> 0]
Pages == {"first", "again"}

Older(a, bound) == IF a <= bound THEN a + 1 ELSE a

Kept(u) == \E k \in DOMAIN spool : spool[k].unit = u

Holds(n) == job[n].pc \notin {"off", "waiting"}

\* Mutant: a notifier does not wait for the unit's other one.
FreeAlways(u) == TRUE

\* The unit's own lock: held from the reading of the state to the end of the script.
Free(u) == \A n \in Notifiers : n[1] = u => ~Holds(n)

\* A start of an instance that is starting is merged into it.
Started(n) == IF job[n].pc = "off" THEN [job EXCEPT ![n].pc = "waiting"] ELSE job
FlushStarted == IF flush = "off" THEN "waiting" ELSE flush

Unlocked(n) == IF lock = n THEN NoOne ELSE lock

Exit(n) == job' = [job EXCEPT ![n] = Off] /\ lock' = Unlocked(n)

-----------------------------------------------------------------------------
(* The units, systemd, n8n and the clock.                                  *)

RunStarts(u) ==
    /\ ~running[u]
    /\ runs < MaxRuns
    /\ running' = [running EXCEPT ![u] = TRUE]
    /\ result' = [result EXCEPT ![u] = "success"]
    /\ UNCHANGED <<job, flush, lock, node, n8n, made, history, runs, hands, deaths>>

\* OnSuccess= and OnFailure= start the notifiers.
RunEnds(u, r) ==
    LET n == <<u, IF r = "success" THEN "recovered" ELSE "failure">>
    IN  /\ running[u]
        /\ r = "failed" /\ ~Merges => job[n].pc # "exercising"
        /\ running' = [running EXCEPT ![u] = FALSE]
        /\ result' = [result EXCEPT ![u] = r]
        /\ runs' = runs + 1
        /\ UNCHANGED hands
        /\ job' = Started(n)
        /\ UNCHANGED <<flush, lock, node, n8n, made, history, deaths>>

\* Someone starts a notifier by hand.
Hand(n) ==
    /\ hands < MaxHands
    /\ job[n].pc = "off"
    /\ hands' = hands + 1
    /\ job' = Started(n)
    /\ UNCHANGED <<running, result, runs, flush, lock, node, n8n, made, history, deaths>>

Tick ==
    /\ incident' = [u \in Units |-> [incident[u] EXCEPT !.age = IF incident[u].open
                                                               THEN Older(@, TTL) ELSE 0]]
    /\ spool' = [k \in DOMAIN spool |-> [spool[k] EXCEPT !.age = Older(@, MaxAge)]]
    /\ quiet' = [u \in Units |-> IF incident[u].sent THEN Older(quiet[u], TTL) ELSE 0]
    /\ UNCHANGED <<systemd, job, flush, lock, n8n, made, since, pageOut, dropped, deaths>>

\* The notice is a page of the incident the unit's state file holds.
PageOfIncident(u, kind, id) == kind \in Pages /\ id > since[u]

\* n8n takes a notice.
Take(u, kind, id) ==
    /\ alarm' = [alarm EXCEPT ![u] = IF kind \in Pages THEN "open" ELSE "closed"]
    /\ newest' = [newest EXCEPT ![u] = id]
    /\ pageOut' = [pageOut EXCEPT ![u] = IF PageOfIncident(u, kind, id) THEN "taken" ELSE @]

-----------------------------------------------------------------------------
(* The notifier: what to say, decided under the unit's lock.               *)

Makes(n, kind) ==
    /\ job' = [job EXCEPT ![n] = [pc |-> "made", kind |-> kind, id |-> made[n[1]] + 1]]
    /\ made' = [made EXCEPT ![n[1]] = @ + 1]

\* A failure ignores a state older than the TTL; a recovery does not.
Live(u) == incident[u].open /\ incident[u].age <= TTL

\* Mutant: the page is recorded as sent before it is.
FailsSent(u) ==
    /\ result[u] = "failed"
    /\ quiet' = [quiet EXCEPT ![u] = 0]
    /\ IF Live(u)
       THEN UNCHANGED <<incident, since, pageOut>>
       ELSE /\ incident' = [incident EXCEPT ![u] = [Closed EXCEPT !.open = TRUE, !.sent = TRUE]]
            /\ since' = [since EXCEPT ![u] = made[u]]
            /\ pageOut' = [pageOut EXCEPT ![u] = "no"]

\* The failure is counted, in the incident the state file holds or in a new one.
Fails(u) ==
    /\ result[u] = "failed"
    /\ quiet' = [quiet EXCEPT ![u] = 0]
    /\ IF Live(u)
       THEN UNCHANGED <<incident, since, pageOut>>
       ELSE /\ incident' = [incident EXCEPT ![u] = [Closed EXCEPT !.open = TRUE]]
            /\ since' = [since EXCEPT ![u] = made[u]]
            /\ pageOut' = [pageOut EXCEPT ![u] = "no"]

\* A page of the incident is out, so the next failure is at most a reminder.
Silenced(u) == Live(u) /\ incident[u].sent

Waiting(n) == job[n].pc = "waiting" /\ Free(n[1])

\* Mutant: no reminder is folded.
PageUnfolded(u) ==
    LET n == <<u, "failure">>
    IN  /\ Waiting(n)
        /\ Fails(u)
        /\ \/ ~Silenced(u) /\ Makes(n, "first")
           \/ Silenced(u) /\ incident[u].age >= Reminder /\ Makes(n, "again")
        /\ UNCHANGED <<systemd, flush, lock, spool, n8n, dropped, deaths>>

\* The failure is counted, and is the incident's first page or a reminder.
Page(u) ==
    LET n == <<u, "failure">>
    IN  /\ Waiting(n)
        /\ Fails(u)
        /\ \/ ~Silenced(u) /\ Makes(n, "first")
           \/ Silenced(u) /\ incident[u].age >= Reminder /\ ~Kept(u) /\ Makes(n, "again")
        /\ UNCHANGED <<systemd, flush, lock, spool, n8n, dropped, deaths>>

\* The failure is counted and nothing is said.
Silent(u) ==
    LET n == <<u, "failure">>
    IN  /\ Waiting(n)
        /\ Fails(u)
        /\ Silenced(u) /\ incident[u].age < Reminder
        /\ Exit(n)
        /\ UNCHANGED <<systemd, flush, spool, n8n, made, dropped, deaths>>

\* Mutant: a reminder that is folded leaves the state as it was.
FoldOnly(u) ==
    LET n == <<u, "failure">>
    IN  /\ Waiting(n)
        /\ result[u] = "failed"
        /\ Silenced(u) /\ incident[u].age >= Reminder /\ Kept(u)
        /\ quiet' = [quiet EXCEPT ![u] = 0]
        /\ Exit(n)
        /\ UNCHANGED <<systemd, flush, node, n8n, made, since, pageOut, dropped, deaths>>

\* A reminder while a notice of the unit is kept is folded into it, and renews the state.
Fold(u) ==
    LET n == <<u, "failure">>
    IN  /\ Waiting(n)
        /\ result[u] = "failed"
        /\ Silenced(u) /\ incident[u].age >= Reminder /\ Kept(u)
        /\ incident' = [incident EXCEPT ![u].age = 0]
        /\ quiet' = [quiet EXCEPT ![u] = 0]
        /\ Exit(n)
        /\ UNCHANGED <<systemd, flush, spool, n8n, made, since, pageOut, dropped, deaths>>

\* The failure notifier finds the unit not failed: the notice says that the path was
\* exercised, is sent without the spool's lock and never kept.
Exercise(u) ==
    LET n == <<u, "failure">>
    IN  /\ Waiting(n)
        /\ result[u] # "failed"
        /\ job' = [job EXCEPT ![n].pc = "exercising"]
        /\ UNCHANGED <<systemd, flush, lock, node, n8n, made, history, deaths>>

Exercised(u) ==
    LET n == <<u, "failure">>
    IN  /\ job[n].pc = "exercising"
        /\ Exit(n)
        /\ UNCHANGED <<systemd, flush, node, n8n, made, history, deaths>>

\* Mutant: the result is read before the unit's lock is waited for, so a page is closed by
\* the success that was before it.
RecoverStale(u) ==
    LET n == <<u, "recovered">>
    IN  /\ Waiting(n)
        /\ IF incident[u].open
           THEN Makes(n, "recovered") /\ UNCHANGED lock
           ELSE Exit(n) /\ UNCHANGED made
        /\ UNCHANGED <<systemd, flush, node, n8n, history, deaths>>

\* A success closes an open incident, however old, unless the unit has failed since.
Recover(u) ==
    LET n == <<u, "recovered">>
    IN  /\ Waiting(n)
        /\ IF incident[u].open /\ result[u] = "success"
           THEN Makes(n, "recovered") /\ UNCHANGED lock
           ELSE Exit(n) /\ UNCHANGED made
        /\ UNCHANGED <<systemd, flush, node, n8n, history, deaths>>

-----------------------------------------------------------------------------
(* The notifier: sent, or kept.                                            *)

\* Mutant: the notice is sent whatever the spool holds.
SendsDirect == lock = NoOne

\* flock -n 8 && ! kept.
Sends == lock = NoOne /\ spool = <<>>

\* The notice goes out directly only with the spool's lock and nothing in the spool.
Choose(n) ==
    /\ job[n].pc = "made"
    /\ job' = [job EXCEPT ![n].pc = IF Sends THEN "sending" ELSE "queueing"]
    /\ lock' = IF lock = NoOne THEN n ELSE lock
    /\ UNCHANGED <<systemd, flush, node, n8n, made, history, deaths>>

\* n8n takes it.
SendTaken(n) ==
    /\ job[n].pc = "sending"
    /\ Take(n[1], job[n].kind, job[n].id)
    /\ job' = [job EXCEPT ![n].pc = "recording"]
    /\ UNCHANGED <<systemd, flush, lock, node, made, since, quiet, dropped, deaths>>

\* curl gives up: n8n did not take it, or took it and did not say so in time.
SendFailed(n) ==
    /\ job[n].pc = "sending"
    /\ \/ UNCHANGED <<n8n, pageOut>>
       \/ Take(n[1], job[n].kind, job[n].id)
    /\ job' = [job EXCEPT ![n].pc = "keeping"]
    /\ UNCHANGED <<systemd, flush, lock, node, made, since, quiet, dropped, deaths>>

\* The notice is renamed into the spool; the flush is started if it was not tried directly.
Keep(n) ==
    /\ job[n].pc \in {"keeping", "queueing"}
    /\ spool' = Append(spool, [unit |-> n[1], kind |-> job[n].kind, id |-> job[n].id, age |-> 0])
    /\ flush' = IF job[n].pc = "queueing" THEN FlushStarted ELSE flush
    /\ job' = [job EXCEPT ![n].pc = "recording"]
    /\ UNCHANGED <<systemd, lock, incident, n8n, made, history, deaths>>

\* The page is recorded as sent, or the incident is closed.
Record(n) ==
    /\ job[n].pc = "recording"
    /\ incident' = [incident EXCEPT ![n[1]] =
                      IF job[n].kind \in Pages THEN [open |-> TRUE, sent |-> TRUE, age |-> 0]
                      ELSE Closed]
    /\ Exit(n)
    /\ UNCHANGED <<systemd, flush, spool, n8n, made, history, deaths>>

-----------------------------------------------------------------------------
(* The flush.                                                              *)

FlushAt(pc) == flush' = pc /\ lock' = IF pc = "off" THEN NoOne ELSE Flusher

\* Its timer.
FlushDue ==
    /\ flush = "off"
    /\ flush' = "waiting"
    /\ UNCHANGED <<systemd, job, lock, node, n8n, made, history, deaths>>

FlushLocks ==
    /\ flush = "waiting" /\ lock = NoOne
    /\ FlushAt("locked")
    /\ UNCHANGED <<systemd, job, node, n8n, made, history, deaths>>

\* The spool is busy for the whole wait.
FlushGivesUp ==
    /\ flush = "waiting" /\ lock # NoOne
    /\ flush' = "off"
    /\ UNCHANGED <<systemd, job, lock, node, n8n, made, history, deaths>>

\* Nothing is left, or the run is out of time, which its first notice never is.
FlushEnds ==
    /\ flush = "going" \/ (flush = "locked" /\ spool = <<>>)
    /\ FlushAt("off")
    /\ UNCHANGED <<systemd, job, node, n8n, made, history, deaths>>

Oldest == spool[1]
AtOldest == flush \in {"locked", "going"} /\ spool # <<>>

\* Mutant: a notice is never too old.
TooOldNever == FALSE

TooOld == Oldest.age > MaxAge

FlushDrops ==
    /\ AtOldest
    /\ TooOld
    /\ dropped' = [dropped EXCEPT ![Oldest.unit] = TRUE]
    /\ pageOut' = [pageOut EXCEPT ![Oldest.unit] =
                      IF @ = "no" /\ PageOfIncident(Oldest.unit, Oldest.kind, Oldest.id)
                      THEN "dropped" ELSE @]
    /\ spool' = Tail(spool)
    /\ FlushAt("going")
    /\ UNCHANGED <<systemd, job, incident, n8n, made, since, quiet, deaths>>

FlushTaken ==
    /\ AtOldest
    /\ ~TooOld
    /\ Take(Oldest.unit, Oldest.kind, Oldest.id)
    /\ FlushAt("removing")
    /\ UNCHANGED <<systemd, job, node, made, since, quiet, dropped, deaths>>

\* Mutant: the flush goes on to the notices after the one n8n refused.
FlushFailedSkips ==
    /\ AtOldest
    /\ ~TooOld
    /\ \/ UNCHANGED <<n8n, pageOut>>
       \/ Take(Oldest.unit, Oldest.kind, Oldest.id)
    /\ spool' = Append(Tail(spool), Oldest)
    /\ FlushAt("going")
    /\ UNCHANGED <<systemd, job, incident, made, since, quiet, dropped, deaths>>

\* Mutant: a notice is removed whether or not n8n said that it took it.
FlushFailedRemoves ==
    /\ AtOldest
    /\ ~TooOld
    /\ \/ UNCHANGED <<n8n, pageOut>>
       \/ Take(Oldest.unit, Oldest.kind, Oldest.id)
    /\ spool' = Tail(spool)
    /\ FlushAt("off")
    /\ UNCHANGED <<systemd, job, incident, made, since, quiet, dropped, deaths>>

\* The first refusal ends the run, and what follows waits behind it.
FlushFailed ==
    /\ AtOldest
    /\ ~TooOld
    /\ \/ UNCHANGED <<n8n, pageOut>>
       \/ Take(Oldest.unit, Oldest.kind, Oldest.id)
    /\ FlushAt("off")
    /\ UNCHANGED <<systemd, job, node, made, since, quiet, dropped, deaths>>

FlushRemoves ==
    /\ flush = "removing"
    /\ spool' = Tail(spool)
    /\ FlushAt("going")
    /\ UNCHANGED <<systemd, job, incident, n8n, made, history, deaths>>

-----------------------------------------------------------------------------
(* Faults.                                                                 *)

\* A notifier is killed, or a write that fails aborts it.
Die(n) ==
    /\ deaths < MaxDeaths
    /\ job[n].pc # "off"
    /\ deaths' = deaths + 1
    /\ Exit(n)
    /\ UNCHANGED <<systemd, flush, node, n8n, made, history>>

FlushDies ==
    /\ deaths < MaxDeaths
    /\ flush # "off"
    /\ deaths' = deaths + 1
    /\ flush' = "off" /\ lock' = Unlocked(Flusher)
    /\ UNCHANGED <<systemd, job, node, n8n, made, history>>

\* The node starts again: the state file and the spool are on disk, and nothing else is.
Reboot ==
    /\ deaths < MaxDeaths
    /\ deaths' = deaths + 1
    /\ running' = [u \in Units |-> FALSE] /\ result' = [u \in Units |-> "success"]
    /\ job' = [n \in Notifiers |-> Off] /\ flush' = "off" /\ lock' = NoOne
    /\ UNCHANGED <<runs, hands, node, n8n, made, history>>

-----------------------------------------------------------------------------
Init ==
    /\ running = [u \in Units |-> FALSE] /\ result = [u \in Units |-> "success"]
    /\ job = [n \in Notifiers |-> Off] /\ flush = "off" /\ lock = NoOne
    /\ spool = <<>> /\ incident = [u \in Units |-> Closed]
    /\ alarm = [u \in Units |-> "closed"] /\ newest = [u \in Units |-> 0]
    /\ made = [u \in Units |-> 0]
    /\ since = [u \in Units |-> 0] /\ pageOut = [u \in Units |-> "no"] /\ quiet = [u \in Units |-> 0]
    /\ dropped = [u \in Units |-> FALSE]
    /\ runs = 0 /\ hands = 0 /\ deaths = 0

Decide(u) == Page(u) \/ Silent(u) \/ Fold(u) \/ Exercise(u) \/ Recover(u)
Send(n) == SendTaken(n) \/ SendFailed(n)
Deliver(n) == Choose(n) \/ Send(n) \/ Keep(n) \/ Record(n)
Flush ==
    FlushLocks \/ FlushGivesUp \/ FlushEnds \/ FlushDrops \/ FlushTaken \/ FlushFailed \/ FlushRemoves

Next ==
    \/ \E u \in Units :
        \/ RunStarts(u) \/ (\E r \in {"success", "failed"} : RunEnds(u, r))
        \/ Decide(u) \/ Exercised(u)
    \/ \E n \in Notifiers : Hand(n) \/ Deliver(n) \/ Die(n)
    \/ FlushDue \/ Flush \/ FlushDies
    \/ Tick \/ Reboot

Spec == Init /\ [][Next]_vars

\* Every process that runs goes on, the flush's timer fires and time passes.  Nothing is
\* assumed of n8n, which may refuse every notice for good.
Fairness ==
    /\ \A u \in Units : WF_vars(Decide(u) \/ Exercised(u))
    /\ \A n \in Notifiers : WF_vars(Deliver(n))
    /\ WF_vars(FlushDue) /\ WF_vars(Flush)
    /\ WF_vars(Tick)

FairSpec == Spec /\ Fairness

-----------------------------------------------------------------------------
(* Properties.                                                             *)

Kinds == {"first", "again", "recovered"}
Fates == {"no", "taken", "dropped"}
Notices == [unit : Units, kind : Kinds, id : Nat, age : 0..(MaxAge + 1)]

\* Every variable holds a value of its type, and no two notifiers of a unit are past its lock.
TypeOK ==
    /\ running \in [Units -> BOOLEAN] /\ result \in [Units -> {"success", "failed"}]
    /\ job \in [Notifiers -> [pc : {"off", "waiting", "made", "exercising", "sending", "keeping",
                                    "queueing", "recording"},
                              kind : Kinds \cup {"none"}, id : Nat]]
    /\ flush \in {"off", "waiting", "locked", "going", "removing"}
    /\ lock \in Notifiers \cup {Flusher, NoOne}
    /\ spool \in Seq(Notices)
    /\ incident \in [Units -> [open : BOOLEAN, sent : BOOLEAN, age : 0..(TTL + 1)]]
    /\ alarm \in [Units -> {"open", "closed"}] /\ newest \in [Units -> Nat]
    /\ made \in [Units -> Nat] /\ since \in [Units -> Nat]
    /\ pageOut \in [Units -> Fates] /\ quiet \in [Units -> 0..(TTL + 1)]
    /\ dropped \in [Units -> BOOLEAN] /\ runs \in Nat /\ hands \in Nat /\ deaths \in Nat
    /\ \A u \in Units : ~(Holds(<<u, "failure">>) /\ Holds(<<u, "recovered">>))

\* What n8n takes of a unit it takes in the order it was made: no notice still kept or still
\* to be sent is older than one n8n has, whatever dies and whatever n8n takes without saying
\* so (kubelab-notify.sh.j2, "no notice of a unit overtakes one still kept").
NoOvertaking ==
    /\ \A k \in DOMAIN spool : spool[k].id >= newest[spool[k].unit]
    /\ \A n \in Notifiers : job[n].kind # "none" => job[n].id >= newest[n[1]]

\* A page of the incident is among the notices kept.
PageKept(u) ==
    \E k \in DOMAIN spool :
        spool[k].unit = u /\ PageOfIncident(u, spool[k].kind, spool[k].id)

\* A unit is silenced only by a page of the incident that n8n took, or that the spool still
\* keeps (kubelab-notify.sh.j2, "a page neither delivered nor kept must not silence the next
\* one").  One that was kept and then dropped for its age goes on silencing the unit until
\* a reminder is due: nothing takes the state back.
SilencedOnlyIfSent ==
    \A u \in Units : incident[u].sent => pageOut[u] # "no" \/ PageKept(u)

\* An outage never piles up reminders: a kept one is the oldest notice kept of its unit
\* (kubelab-notify.sh.j2, "hours of outage would deliver one per hour, all at once").
RemindersAreFolded ==
    \A j, k \in DOMAIN spool :
        (j < k /\ spool[j].unit = spool[k].unit) => spool[k].kind # "again"

\* A unit that goes on failing stays in one incident: it starts over only if the failures
\* were further apart than the TTL less a reminder, or a notifier died (defaults,
\* "a failing unit refreshes the state each reminder").
OneIncident ==
    [][\A u \in Units :
          LET n == <<u, "failure">>
          IN  (/\ job[n].pc = "waiting" /\ job'[n].kind = "first"
               /\ incident[u].sent /\ deaths = 0)
                  => quiet[u] > TTL - Reminder]_vars

\* What n8n shows of a unit once it has taken what the spool holds.
WillShow(u) ==
    LET mine == {k \in DOMAIN spool : spool[k].unit = u}
    IN  IF mine = {} THEN alarm[u]
        ELSE LET last == CHOOSE k \in mine : \A j \in mine : j <= k
             IN  IF spool[last].kind \in Pages THEN "open" ELSE "closed"

Settled(u) == ~running[u] /\ \A n \in Notifiers : n[1] = u => job[n].pc = "off"

\* When the notifiers of a unit are done, n8n shows or will show an alarm for it exactly if
\* its last run failed, unless a notice of it was dropped for its age or a notifier died.
AlarmIsTrue ==
    \A u \in Units : Settled(u) /\ ~dropped[u] /\ deaths = 0 =>
        (WillShow(u) = "open") = (result[u] = "failed")

\* The spool empties, though n8n may refuse a notice, or every notice, for good (defaults, "one payload n8n
\* refuses for good cannot hold the others behind it forever").
SpoolDrains == <>[](spool = <<>>)

-----------------------------------------------------------------------------
(* What the notices are promised.                                          *)

Notice(r) == [kind |-> r.kind, id |-> r.id]

\* The notices of a unit n8n may still be given: those the spool keeps, and the one a
\* notifier has in hand until it is sent or kept.
OnTheirWay(u) ==
    {Notice(spool[k]) : k \in {j \in DOMAIN spool : spool[j].unit = u}}
    \cup {Notice(job[n]) : n \in {m \in Notifiers :
              m[1] = u /\ job[m].pc \in {"made", "sending", "keeping", "queueing"}}}

Line == INSTANCE NoticeLine WITH line <- [u \in Units |-> OnTheirWay(u)]

\* n8n is given each notice of a unit in the order they were made, and none is skipped: one
\* that it never gets was too old, or its script died before it was sent or kept
\* (kubelab-notify.sh.j2, "A notice n8n did not take is kept here, oldest first").
NoneSkipped == Line!Spec
=============================================================================
