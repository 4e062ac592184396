----------------------- MODULE NodeNotifyAlarmProofs -----------------------
(***************************************************************************)
(* For any units and times, while nothing dies: n8n's alarm ends up saying *)
(* what the last run was, and a unit that goes on failing stays in one     *)
(* incident.  With deaths too: NodeNotify implements NoticeLine.           *)
(***************************************************************************)
EXTENDS NodeNotifyProofs

USE TimesAssumption

F(u) == <<u, "failure">>
R(u) == <<u, "recovered">>

\* A unit's two notifiers.
LEMMA TwoOf ==
    /\ \A u \in Units : /\ F(u) \in Notifiers /\ F(u)[1] = u /\ F(u)[2] = "failure"
                        /\ R(u) \in Notifiers /\ R(u)[1] = u /\ R(u)[2] = "recovered"
                        /\ F(u) # R(u)
    /\ \A u, v \in Units : /\ u # v => F(u) # F(v) /\ R(u) # R(v)
                           /\ F(u) # R(v)
    /\ \A n \in Notifiers : n[1] \in Units /\ (n = F(n[1]) \/ n = R(n[1]))
BY NotifiersAre DEF F, R

-----------------------------------------------------------------------------
(* The age of an incident.                                                 *)

\* A page is renewed while the unit goes on failing: its age is that of the last failure,
\* and less than a reminder more.
Renewed(u) ==
    incident[u].sent =>
        /\ incident[u].open
        /\ ~Carries(F(u)) => incident[u].age < quiet[u] + Reminder

AgeInv == deaths = 0 => \A u \in Units : Renewed(u)

\* What a notifier's step leaves of the notices the others carry.
LEMMA MakesIs ==
    ASSUME IInv, NEW n \in Notifiers, NEW kind \in Kinds, Makes(n, kind)
    PROVE  /\ job'[n].kind = kind /\ job'[n].pc = "made"
           /\ \A m \in Notifiers \ {n} : job'[m] = job[m]
BY Facts DEF Makes

\* Sending, keeping and choosing leave every notice with its notifier.
LEMMA DeliverKeepsNotices ==
    ASSUME IInv, NEW n \in Notifiers, Choose(n) \/ Send(n) \/ Keep(n)
    PROVE  /\ \A m \in Notifiers : job'[m].kind = job[m].kind
           /\ \A m \in Notifiers \ {n} : job'[m] = job[m]
           /\ UNCHANGED <<systemd, incident, quiet, deaths, dropped, made>>
<1>1. PICK pc \in Pcs : job' = [job EXCEPT ![n].pc = pc]
  BY DEF Choose, Send, SendTaken, SendFailed, Keep, Pcs
<1>2. \A m \in Notifiers : job'[m].kind = job[m].kind
  BY <1>1, Facts, JobMoves
<1>3. \A m \in Notifiers \ {n} : job'[m] = job[m]
  BY <1>1, Facts, JobMoves
<1>4. UNCHANGED <<systemd, incident, quiet, deaths, dropped, made>>
  BY DEF Choose, Send, SendTaken, SendFailed, Keep, node, history, systemd
<1> QED
  BY <1>2, <1>3, <1>4

\* The flush changes nothing of the notifiers and the incidents.
LEMMA FlushKeepsNotices ==
    ASSUME FlushDue \/ Flush
    PROVE  UNCHANGED <<systemd, job, incident, quiet, made, deaths>>
BY DEF FlushDue, Flush, FlushLocks, FlushGivesUp, FlushEnds, FlushDrops, FlushTaken, FlushFailed,
       FlushRemoves, node, history, systemd

\* Of the steps of systemd and by hand, none ends a notice.
LEMMA StartKeepsNotices ==
    ASSUME IInv, NEW u \in Units, NEW n \in Notifiers,
           RunStarts(u) \/ (\E r \in {"success", "failed"} : RunEnds(u, r)) \/ Hand(n)
    PROVE  /\ \A m \in Notifiers : job'[m].kind = job[m].kind
           /\ \A m \in Notifiers : job'[m] = job[m] \/ (job[m].pc = "off" /\ job'[m].pc = "waiting")
           /\ UNCHANGED <<node, n8n, history, made, deaths>>
<1>1. ASSUME NEW m \in Notifiers, job' = Started(m)
      PROVE  /\ \A l \in Notifiers : job'[l].kind = job[l].kind
             /\ \A l \in Notifiers : job'[l] = job[l] \/ (job[l].pc = "off" /\ job'[l].pc = "waiting")
  BY <1>1, Facts DEF Started, JobRecords
<1>2. CASE RunStarts(u)
  BY <1>2 DEF RunStarts
<1>3. CASE \E r \in {"success", "failed"} : RunEnds(u, r)
  <2>1. \E m \in Notifiers : job' = Started(m)
    BY <1>3, NotifiersAre DEF RunEnds
  <2> QED
    BY <1>1, <1>3, <2>1 DEF RunEnds
<1>4. CASE Hand(n)
  BY <1>1, <1>4 DEF Hand
<1> QED
  BY <1>2, <1>3, <1>4

LEMMA SameAge ==
    ASSUME NEW u \in Units, Renewed(u), incident'[u] = incident[u], quiet'[u] = quiet[u],
           Carries(F(u)) => Carries(F(u))'
    PROVE  Renewed(u)'
BY DEF Renewed

\* Deciding, a unit's failure notifier renews its page, or makes one.
LEMMA DecideAge ==
    ASSUME IInv, AgeInv, NEW v \in Units, Decide(v) \/ Exercised(v)
    PROVE  AgeInv'
<1>1. SUFFICES ASSUME deaths = 0, NEW u \in Units PROVE Renewed(u)'
  BY DEF AgeInv, Decide, Page, Silent, Fold, Exercise, Exercised, Recover
<1>2. Renewed(u) /\ F(u) \in Notifiers /\ F(v) \in Notifiers /\ R(v) \in Notifiers
      /\ R(v) # F(u) /\ (u # v => F(u) # F(v))
  BY <1>1, TwoOf DEF AgeInv
<1>3. incident \in [Units -> [open : BOOLEAN, sent : BOOLEAN, age : 0..(TTL + 1)]]
      /\ quiet \in [Units -> 0..(TTL + 1)]
  BY Facts DEF StateTypes, HistoryTypes
<1>4. CASE Page(v)
  <2>1. PICK kind \in {"first", "again"} : Makes(F(v), kind) /\ Fails(v)
    BY <1>4 DEF Page, F
  <2>2. Carries(F(v))' /\ \A m \in Notifiers \ {F(v)} : job'[m] = job[m]
    BY <1>2, <2>1, MakesIs DEF Kinds, Carries
  <2>3. CASE u # v
    BY <1>2, <1>3, <2>1, <2>2, <2>3, SameAge DEF Fails, Carries
  <2>4. CASE u = v
    BY <1>2, <1>3, <2>1, <2>2, <2>4 DEF Fails, Renewed, Closed
  <2> QED
    BY <2>3, <2>4
<1>5. CASE Silent(v)
  <2>1. Exit(F(v)) /\ Silenced(v) /\ incident[v].age < Reminder /\ Fails(v) /\ Live(v)
    BY <1>5 DEF Silent, Silenced, F
  <2>2. \A m \in Notifiers \ {F(v)} : job'[m] = job[m]
    BY <1>2, <2>1, ExitIs
  <2>3. incident' = incident /\ quiet' = [quiet EXCEPT ![v] = 0]
    BY <2>1 DEF Fails
  <2>4. CASE u # v
    BY <1>2, <1>3, <2>2, <2>3, <2>4, SameAge DEF Carries
  <2>5. CASE u = v
    BY <1>2, <1>3, <2>1, <2>3, <2>5 DEF Renewed
  <2> QED
    BY <2>4, <2>5
<1>6. CASE Fold(v)
  <2>1. Exit(F(v)) /\ incident' = [incident EXCEPT ![v].age = 0] /\ quiet' = [quiet EXCEPT ![v] = 0]
    BY <1>6 DEF Fold, F
  <2>2. \A m \in Notifiers \ {F(v)} : job'[m] = job[m]
    BY <1>2, <2>1, ExitIs
  <2>3. CASE u # v
    BY <1>2, <1>3, <2>1, <2>2, <2>3, SameAge DEF Carries
  <2>4. CASE u = v
    BY <1>2, <1>3, <2>1, <2>4 DEF Renewed
  <2> QED
    BY <2>3, <2>4
<1>7. CASE Exercise(v) \/ Exercised(v)
  <2>1. incident' = incident /\ quiet' = quiet
    BY <1>7 DEF Exercise, Exercised, node, history
  <2>2. ~Carries(F(v)) /\ \A m \in Notifiers \ {F(v)} : job'[m] = job[m]
    <3>1. CASE Exercise(v)
      BY <1>2, <3>1, Facts, WaitingIs DEF Exercise, Waiting, F, Carries, JobRecords
    <3>2. CASE Exercised(v)
      BY <1>2, <3>2, ExitIs, WaitingIs DEF Exercised, F, Carries
    <3> QED
      BY <1>7, <3>1, <3>2
  <2> QED
    BY <1>2, <2>1, <2>2, SameAge DEF Carries
<1>8. CASE Recover(v)
  <2>1. incident' = incident /\ quiet' = quiet
    BY <1>8 DEF Recover, node, history
  <2>2. Makes(R(v), "recovered") \/ Exit(R(v))
    BY <1>8 DEF Recover, R
  <2>3. job'[F(u)] = job[F(u)]
    BY <1>2, <2>2, ExitIs, MakesIs DEF Kinds
  <2> QED
    BY <1>2, <2>1, <2>3, SameAge DEF Carries
<1> QED
  BY <1>4, <1>5, <1>6, <1>7, <1>8 DEF Decide

\* A page recorded is as old as nothing; one closed is not sent.
LEMMA RecordAge ==
    ASSUME IInv, AgeInv, NEW n \in Notifiers, Record(n)
    PROVE  AgeInv'
<1>1. SUFFICES ASSUME deaths = 0, NEW u \in Units PROVE Renewed(u)'
  BY DEF AgeInv, Record
<1>2. Renewed(u) /\ F(u) \in Notifiers /\ (n[1] # u => F(u) # n)
  BY <1>1, TwoOf DEF AgeInv
<1>3. incident \in [Units -> [open : BOOLEAN, sent : BOOLEAN, age : 0..(TTL + 1)]]
      /\ quiet \in [Units -> 0..(TTL + 1)]
  BY Facts DEF StateTypes, HistoryTypes
<1>4. quiet' = quiet /\ \A m \in Notifiers \ {n} : job'[m] = job[m]
  BY ExitIs DEF Record, history
<1>5. CASE n[1] # u
  BY <1>2, <1>3, <1>4, <1>5, SameAge DEF Record, Carries
<1>6. CASE n[1] = u
  BY <1>3, <1>4, <1>6 DEF Record, Renewed, Closed
<1> QED
  BY <1>5, <1>6

\* Time passes for the page and for the failure alike.
LEMMA TickAge == ASSUME IInv, AgeInv, Tick PROVE AgeInv'
<1>1. SUFFICES ASSUME deaths = 0, NEW u \in Units PROVE Renewed(u)'
  BY DEF AgeInv, Tick
<1>2. Renewed(u) /\ job' = job
  BY <1>1 DEF AgeInv, Tick
<1>3. incident[u] \in [open : BOOLEAN, sent : BOOLEAN, age : 0..(TTL + 1)] /\ quiet[u] \in 0..(TTL + 1)
  BY Facts DEF StateTypes, HistoryTypes
<1>4. incident'[u] = [incident[u] EXCEPT !.age = IF incident[u].open THEN Older(@, TTL) ELSE 0]
      /\ quiet'[u] = IF incident[u].sent THEN Older(quiet[u], TTL) ELSE 0
  BY DEF Tick
<1>5. incident'[u].sent = incident[u].sent /\ incident'[u].open = incident[u].open
      /\ incident'[u].age = IF incident[u].open THEN Older(incident[u].age, TTL) ELSE 0
  BY <1>3, <1>4
<1> QED
  BY <1>2, <1>3, <1>4, <1>5 DEF Renewed, Older, Carries

LEMMA AgeInductive == IInv /\ AgeInv /\ [Next]_vars => AgeInv'
<1> SUFFICES ASSUME IInv, AgeInv, [Next]_vars PROVE AgeInv'
  OBVIOUS
<1>0. ASSUME UNCHANGED <<incident, quiet, deaths>>,
             \A m \in Notifiers : job'[m].kind = job[m].kind
      PROVE  AgeInv'
  BY <1>0, TwoOf, SameAge DEF AgeInv, Carries
<1>1. ASSUME NEW u \in Units, RunStarts(u) \/ (\E r \in {"success", "failed"} : RunEnds(u, r)) PROVE AgeInv'
  <2>1. F(u) \in Notifiers
    BY TwoOf
  <2> QED
    BY <1>0, <1>1, <2>1, StartKeepsNotices DEF node, history
<1>2. ASSUME NEW u \in Units, Decide(u) \/ Exercised(u) PROVE AgeInv'
  BY <1>2, DecideAge
<1>3. ASSUME NEW n \in Notifiers, Hand(n) PROVE AgeInv'
  <2>1. n[1] \in Units
    BY TwoOf
  <2> QED
    BY <1>0, <1>3, <2>1, StartKeepsNotices DEF node, history
<1>4. ASSUME NEW n \in Notifiers, Deliver(n) PROVE AgeInv'
  BY <1>0, <1>4, DeliverKeepsNotices, RecordAge DEF Deliver
<1>5. ASSUME FlushDue \/ Flush PROVE AgeInv'
  BY <1>0, <1>5, FlushKeepsNotices
<1>6. ASSUME FlushDies \/ Reboot \/ \E n \in Notifiers : Die(n) PROVE AgeInv'
  BY <1>6, Facts DEF FlushDies, Reboot, Die, AgeInv, SystemTypes
<1>7. CASE Tick
  BY <1>7, TickAge
<1>8. CASE UNCHANGED vars
  BY <1>0, <1>8 DEF vars, node, history
<1> QED
  BY <1>1, <1>2, <1>3, <1>4, <1>5, <1>6, <1>7, <1>8 DEF Next

\* Only its failure notifier's page makes an incident's first notice.
LEMMA OnlyPages ==
    ASSUME IInv, [Next]_vars, NEW u \in Units,
           job[F(u)].pc = "waiting", job'[F(u)].kind = "first"
    PROVE  ~Silenced(u)
<1>1. F(u) \in Notifiers /\ job[F(u)].kind = "none"
  BY TwoOf, WaitingIs
<1>2. ASSUME \A m \in Notifiers : job'[m].kind = job[m].kind PROVE FALSE
  BY <1>1, <1>2
<1>3. ASSUME job'[F(u)] = job[F(u)] PROVE FALSE
  BY <1>1, <1>3
<1>4. ASSUME NEW v \in Units, RunStarts(v) \/ (\E r \in {"success", "failed"} : RunEnds(v, r)) PROVE FALSE
  BY <1>1, <1>2, <1>4, StartKeepsNotices
<1>5. ASSUME NEW n \in Notifiers, Hand(n) \/ Deliver(n) \/ Die(n) PROVE FALSE
  <2>1. CASE Hand(n)
    BY <1>2, <2>1, TwoOf, StartKeepsNotices
  <2>2. CASE Choose(n) \/ Send(n) \/ Keep(n)
    BY <1>2, <2>2, DeliverKeepsNotices
  <2>3. CASE Record(n) \/ Die(n)
    <3>1. \A m \in Notifiers : job'[m] = job[m] \/ job'[m].kind = "none"
      BY <2>3, ExitIs DEF Record, Die
    <3> QED
      BY <1>1, <3>1
  <2> QED
    BY <1>5, <2>1, <2>2, <2>3 DEF Deliver
<1>6. ASSUME NEW v \in Units, Decide(v) \/ Exercised(v), ~Page(v) PROVE FALSE
  <2>1. F(v) \in Notifiers /\ R(v) \in Notifiers /\ R(v) # F(u)
    BY TwoOf
  <2>2. ASSUME Exit(F(v)) \/ Exit(R(v)) PROVE FALSE
    <3>1. \A m \in Notifiers : job'[m] = job[m] \/ job'[m].kind = "none"
      BY <2>1, <2>2, ExitIs
    <3> QED
      BY <1>1, <3>1
  <2>3. ASSUME Makes(R(v), "recovered") PROVE FALSE
    BY <1>1, <1>3, <2>1, <2>3, MakesIs DEF Kinds
  <2>4. ASSUME Exercise(v) PROVE FALSE
    BY <1>2, <2>1, <2>4, Facts, JobMoves DEF Exercise, F, Pcs
  <2> QED
    BY <1>6, <2>2, <2>3, <2>4 DEF Decide, Silent, Fold, Exercised, Recover, F, R
<1>7. ASSUME NEW v \in Units, Page(v) PROVE ~Silenced(u)
  <2>1. PICK kind \in {"first", "again"} : Makes(F(v), kind) /\ (kind = "first" => ~Silenced(v))
    BY <1>7 DEF Page, F
  <2>2. job'[F(v)].kind = kind /\ \A m \in Notifiers \ {F(v)} : job'[m] = job[m]
    BY <2>1, TwoOf, MakesIs DEF Kinds
  <2>3. u = v
    BY <1>1, <1>3, <2>2, TwoOf
  <2> QED
    BY <2>1, <2>2, <2>3
<1>8. ASSUME FlushDue \/ Flush \/ FlushDies \/ Tick \/ UNCHANGED vars PROVE FALSE
  <2>1. job' = job
    BY <1>8, FlushKeepsNotices DEF FlushDies, Tick, vars
  <2> QED
    BY <1>3, <2>1
<1>9. ASSUME Reboot PROVE FALSE
  BY <1>1, <1>9, OffIs DEF Reboot
<1> QED
  BY <1>4, <1>5, <1>6, <1>7, <1>8, <1>9 DEF Next

\* A unit that goes on failing stays in one incident while nothing dies: only failures
\* further apart than the TTL less a reminder start another, whether or not a failure was
\* merged into a notifier (kubelab-notify.sh.j2, the reminder's fold and record).
THEOREM StaysOneIncident == Spec => OneIncident
<1> DEFINE Stays == \A u \in Units :
              (/\ job[F(u)].pc = "waiting" /\ job'[F(u)].kind = "first"
               /\ incident[u].sent /\ deaths = 0)
                  => quiet[u] > TTL - Reminder
<1>1. Init => AgeInv
  BY DEF Init, AgeInv, Renewed, Closed
<1>2. IInv /\ AgeInv /\ [Next]_vars => [Stays]_vars
  <2> SUFFICES ASSUME IInv, AgeInv, [Next]_vars, NEW u \in Units,
                      job[F(u)].pc = "waiting", job'[F(u)].kind = "first",
                      incident[u].sent, deaths = 0
               PROVE  quiet[u] > TTL - Reminder
    OBVIOUS
  <2>1. ~Live(u)
    BY OnlyPages DEF Silenced
  <2>2. ~Carries(F(u))
    BY TwoOf, WaitingIs DEF Carries
  <2>3. incident[u].open /\ incident[u].age < quiet[u] + Reminder
    BY <2>2 DEF AgeInv, Renewed
  <2>4. incident[u].age \in Int /\ quiet[u] \in Int
    BY Facts DEF StateTypes, HistoryTypes
  <2> QED
    BY <2>1, <2>3, <2>4 DEF Live
<1>3. Stays <=> \A u \in Units :
          LET n == <<u, "failure">>
          IN  (/\ job[n].pc = "waiting" /\ job'[n].kind = "first"
               /\ incident[u].sent /\ deaths = 0)
                  => quiet[u] > TTL - Reminder
  BY DEF F
<1> QED
  BY <1>1, <1>2, <1>3, Always, AgeInductive, PTL DEF Spec, OneIncident

-----------------------------------------------------------------------------
(* What the flush removes.                                                 *)

\* A notice that is being removed is what n8n took last of its unit.
Confirmed ==
    flush = "removing" =>
        /\ spool[1].kind \in Pages <=> alarm[spool[1].unit] = "open"
        /\ newest[spool[1].unit] = spool[1].id

\* The clock changes nothing of a kept notice but its age.
LEMMA TickIs ==
    ASSUME IInv, IInv', Tick
    PROVE  /\ Len(spool') = Len(spool)
           /\ \A k \in 1..Len(spool) : spool'[k].unit = spool[k].unit /\ spool'[k].kind = spool[k].kind
                                         /\ spool'[k].id = spool[k].id
<1>1. DOMAIN spool = 1..Len(spool) /\ \A k \in 1..Len(spool) : spool[k] \in Notices
  BY Facts DEF SendTypes
<1>2. DOMAIN spool' = 1..Len(spool) /\ \A k \in 1..Len(spool) :
          spool'[k] = [spool[k] EXCEPT !.age = Older(@, MaxAge)]
  BY <1>1 DEF Tick
<1>3. Len(spool') \in Nat /\ DOMAIN spool' = 1..Len(spool') /\ Len(spool) \in Nat
  BY DEF IInv, Types, SendTypes
<1>4. Len(spool') = Len(spool)
  BY <1>2, <1>3
<1> QED
  BY <1>1, <1>2, <1>4 DEF Notices

\* While the flush removes a notice, no one else gives n8n one, and none comes before it.
LEMMA StillRemoving ==
    ASSUME IInv, IInv', [Next]_vars, flush = "removing", flush' = "removing"
    PROVE  /\ UNCHANGED <<alarm, newest>>
           /\ spool'[1].unit = spool[1].unit /\ spool'[1].kind = spool[1].kind
           /\ spool'[1].id = spool[1].id
<1>1. /\ lock = Flusher /\ \A n \in Notifiers : job[n].pc # "sending"
      /\ spool \in Seq(Notices) /\ 1 \in 1..Len(spool)
  BY NotifiersAre, Facts DEF Locked, SendTypes
<1>2. ASSUME UNCHANGED <<spool, n8n>>
      PROVE  /\ UNCHANGED <<alarm, newest>>
             /\ spool'[1].unit = spool[1].unit /\ spool'[1].kind = spool[1].kind
             /\ spool'[1].id = spool[1].id
  BY <1>2 DEF n8n
<1>3. ASSUME NEW u \in Units,
             \/ RunStarts(u) \/ (\E r \in {"success", "failed"} : RunEnds(u, r))
             \/ Decide(u) \/ Exercised(u)
      PROVE  UNCHANGED <<spool, n8n>>
  BY <1>3 DEF RunStarts, RunEnds, Decide, Page, Silent, Fold, Exercise, Recover, Exercised, node
<1>4. ASSUME NEW n \in Notifiers, Hand(n) \/ Choose(n) \/ Send(n) \/ Record(n) \/ Die(n)
      PROVE  UNCHANGED <<spool, n8n>>
  BY <1>1, <1>4 DEF Hand, Choose, Send, SendTaken, SendFailed, Record, Die, node
<1>5. ASSUME NEW n \in Notifiers, Keep(n)
      PROVE  /\ UNCHANGED <<alarm, newest>> /\ spool'[1] = spool[1]
  <2>1. \E e : spool' = Append(spool, e)
    BY <1>5 DEF Keep
  <2> QED
    BY <1>1, <1>5, <2>1 DEF Keep, n8n
<1>6. ASSUME FlushDue \/ Flush PROVE FALSE
  BY <1>1, <1>6 DEF FlushDue, Flush, FlushLocks, FlushGivesUp, FlushEnds, FlushDrops, FlushTaken,
                    FlushFailed, FlushRemoves, AtOldest, FlushAt
<1>7. CASE FlushDies \/ Reboot \/ UNCHANGED vars
  BY <1>2, <1>7 DEF FlushDies, Reboot, vars, node
<1>8. CASE Tick
  BY <1>1, <1>8, TickIs DEF Tick, n8n
<1> QED
  BY <1>2, <1>3, <1>4, <1>5, <1>6, <1>7, <1>8 DEF Next, Deliver

LEMMA ConfirmedKeeps == IInv /\ IInv' /\ Confirmed /\ [Next]_vars => Confirmed'
<1> SUFFICES ASSUME IInv, IInv', Confirmed, [Next]_vars, flush' = "removing" PROVE Confirmed'
  BY DEF Confirmed
<1>1. CASE flush = "removing"
  BY <1>1, StillRemoving DEF Confirmed, Pages
<1>2. CASE flush # "removing"
  <2>1. FlushTaken
    BY <1>2 DEF Next, RunStarts, RunEnds, Decide, Page, Silent, Fold, Exercise, Recover, Exercised,
                Hand, Deliver, Choose, Send, SendTaken, SendFailed, Keep, Record, Die, FlushStarted,
                FlushDue, Flush, FlushLocks, FlushGivesUp, FlushEnds, FlushDrops, FlushFailed,
                FlushRemoves, FlushAt, FlushDies, Tick, Reboot, vars
  <2>2. spool' = spool /\ 1 \in 1..Len(spool) /\ spool[1].unit \in Units
    BY <2>1, Facts, SpoolIs DEF FlushTaken, AtOldest, node, SendTypes
  <2> QED
    BY <2>1, <2>2, Facts DEF FlushTaken, Take, Oldest, SendTypes, Confirmed, Pages
<1> QED
  BY <1>1, <1>2

LEMMA AlwaysConfirmed == Spec => [](IInv /\ Confirmed)
<1>1. Init => Confirmed
  BY DEF Init, Confirmed
<1> QED
  BY <1>1, Always, Inductive, ConfirmedKeeps, PTL DEF Spec

-----------------------------------------------------------------------------
(* What n8n will show.                                                     *)

\* The last notice the spool keeps of a unit.
IsLast(k, u) ==
    /\ k \in 1..Len(spool) /\ spool[k].unit = u
    /\ \A j \in 1..Len(spool) : j > k => spool[j].unit # u

\* There is one, for a unit it keeps a notice of.
LastIsThere == \A u \in Units : Kept(u) => \E k \in 1..Len(spool) : IsLast(k, u)

WillOpen(u) == WillShow(u) = "open"

ShownIs == \A u \in Units :
    /\ ~Kept(u) => WillShow(u) = alarm[u]
    /\ \A k \in 1..Len(spool) : IsLast(k, u) => (WillOpen(u) <=> spool[k].kind \in Pages)

\* n8n will show what the last notice kept says, or goes on showing what it shows.
LEMMA WillOpenIs == SendTypes => ShownIs
<1> SUFFICES ASSUME SendTypes, NEW u \in Units
             PROVE  /\ ~Kept(u) => WillShow(u) = alarm[u]
                    /\ \A k \in 1..Len(spool) : IsLast(k, u) => (WillOpen(u) <=> spool[k].kind \in Pages)
  BY DEF ShownIs
<1> DEFINE mine == {k \in DOMAIN spool : spool[k].unit = u}
           last == CHOOSE k \in mine : \A j \in mine : j <= k
<1>1. DOMAIN spool = 1..Len(spool) /\ Len(spool) \in Nat
  BY DEF SendTypes
<1>2. mine = {} <=> ~Kept(u)
  BY DEF Kept
<1>3. ASSUME NEW k \in 1..Len(spool), IsLast(k, u)
      PROVE  WillOpen(u) <=> spool[k].kind \in Pages
  <2>1. k \in mine /\ \A j \in mine : j <= k
    BY <1>1, <1>3 DEF IsLast
  <2>2. last \in mine /\ \A j \in mine : j <= last
    BY <2>1
  <2>3. last = k
    BY <1>1, <2>1, <2>2
  <2>4. WillShow(u) = IF spool[k].kind \in Pages THEN "open" ELSE "closed"
    BY <2>1, <2>3 DEF WillShow
  <2> QED
    BY <2>4 DEF WillOpen
<1> QED
  BY <1>2, <1>3 DEF WillShow

LEMMA WillOpenNext == SendTypes' => ShownIs'
BY WillOpenIs, PTL

\* The last notice of a unit stays its last while the spool keeps what it has.
LEMMA SameLast ==
    ASSUME SendTypes, SendTypes', Len(spool') = Len(spool),
           \A k \in 1..Len(spool) : spool'[k].unit = spool[k].unit, NEW u \in Units
    PROVE  /\ \A k \in 1..Len(spool) : IsLast(k, u) <=> IsLast(k, u)'
           /\ Kept(u)' <=> Kept(u)
<1>1. DOMAIN spool = 1..Len(spool) /\ DOMAIN spool' = 1..Len(spool)
  BY DEF SendTypes
<1> QED
  BY <1>1 DEF IsLast, Kept

LEMMA SameShown ==
    ASSUME SendTypes, SendTypes', LastIsThere, Len(spool') = Len(spool),
           \A k \in 1..Len(spool) : spool'[k].unit = spool[k].unit /\ spool'[k].kind = spool[k].kind,
           NEW u \in Units, Kept(u) \/ alarm'[u] = alarm[u]
    PROVE  WillOpen(u)' <=> WillOpen(u)
<1>1. ShownIs /\ ShownIs'
  BY WillOpenIs, WillOpenNext
<1>2. CASE Kept(u)
  <2>1. PICK k \in 1..Len(spool) : IsLast(k, u)
    BY <1>2 DEF LastIsThere
  <2>2. IsLast(k, u)' /\ k \in 1..Len(spool')
    BY <2>1, SameLast
  <2>3. WillOpen(u)' <=> spool'[k].kind \in Pages
    BY <1>1, <2>2 DEF ShownIs, Pages
  <2> QED
    BY <1>1, <2>1, <2>3 DEF ShownIs
<1>3. CASE ~Kept(u)
  <2>1. ~Kept(u)'
    BY <1>3, SameLast
  <2> QED
    BY <1>1, <1>3, <2>1 DEF WillOpen, ShownIs
<1> QED
  BY <1>2, <1>3

\* A notice put into the spool is what its unit will show, and changes no other unit.
LEMMA AppendShown ==
    ASSUME SendTypes, SendTypes', LastIsThere, NEW e \in Notices, spool' = Append(spool, e),
           alarm' = alarm
    PROVE  /\ LastIsThere'
           /\ WillOpen(e.unit)' <=> e.kind \in Pages
           /\ \A u \in Units \ {e.unit} : WillOpen(u)' <=> WillOpen(u)
<1> SUFFICES ASSUME NEW top, top = Len(spool) + 1
             PROVE  /\ LastIsThere'
                    /\ WillOpen(e.unit)' <=> e.kind \in Pages
                    /\ \A u \in Units \ {e.unit} : WillOpen(u)' <=> WillOpen(u)
  OBVIOUS
<1>0. ShownIs /\ ShownIs'
  BY WillOpenIs, WillOpenNext
<1>1. /\ Len(spool) \in Nat /\ Len(spool') = top /\ spool'[top] = e
      /\ \A k \in 1..Len(spool) : spool'[k] = spool[k]
      /\ DOMAIN spool = 1..Len(spool) /\ DOMAIN spool' = 1..top
  BY DEF SendTypes
<1>2. e.unit \in Units
  BY DEF Notices
<1>3. IsLast(top, e.unit)'
  BY <1>1 DEF IsLast
<1>4. ASSUME NEW u \in Units \ {e.unit}
      PROVE  /\ Kept(u)' <=> Kept(u)
             /\ \A k \in 1..Len(spool) : IsLast(k, u) => IsLast(k, u)'
  BY <1>1 DEF Kept, IsLast
<1>5. ASSUME NEW u \in Units, Kept(u)' PROVE \E k \in 1..top : IsLast(k, u)'
  <2>1. CASE u = e.unit
    BY <1>1, <1>3, <2>1
  <2>2. CASE u # e.unit
    <3>1. PICK k \in 1..Len(spool) : IsLast(k, u)
      BY <1>4, <1>5, <2>2 DEF LastIsThere
    <3> QED
      BY <1>1, <1>4, <2>2, <3>1
  <2> QED
    BY <2>1, <2>2
<1>6. LastIsThere'
  BY <1>1, <1>5 DEF LastIsThere
<1>7. WillOpen(e.unit)' <=> e.kind \in Pages
  <2>1. WillOpen(e.unit)' <=> spool'[top].kind \in Pages
    BY <1>0, <1>1, <1>2, <1>3 DEF ShownIs, Pages
  <2> QED
    BY <1>1, <2>1
<1>8. ASSUME NEW u \in Units \ {e.unit} PROVE WillOpen(u)' <=> WillOpen(u)
  <2>1. CASE Kept(u)
    <3>1. PICK k \in 1..Len(spool) : IsLast(k, u)
      BY <2>1 DEF LastIsThere
    <3>2. IsLast(k, u)' /\ k \in 1..Len(spool')
      BY <1>1, <1>4, <3>1
    <3>3. WillOpen(u)' <=> spool'[k].kind \in Pages
      BY <1>0, <3>2 DEF ShownIs, Pages
    <3> QED
      BY <1>0, <1>1, <3>1, <3>3 DEF ShownIs
  <2>2. CASE ~Kept(u)
    BY <1>0, <1>4, <2>2 DEF ShownIs, WillOpen
  <2> QED
    BY <2>1, <2>2
<1> QED
  BY <1>6, <1>7, <1>8

\* The oldest notice leaves: only its unit can come to show something else, and not even
\* that one if n8n shows what the notice says.
LEMMA TailShown ==
    ASSUME SendTypes, SendTypes', LastIsThere, spool # <<>>, spool' = Tail(spool), alarm' = alarm
    PROVE  /\ LastIsThere'
           /\ \A u \in Units : u # spool[1].unit => (WillOpen(u)' <=> WillOpen(u))
           /\ (spool[1].kind \in Pages <=> alarm[spool[1].unit] = "open") =>
                 \A u \in Units : WillOpen(u)' <=> WillOpen(u)
<1>0. ShownIs /\ ShownIs'
  BY WillOpenIs, WillOpenNext
<1>1. /\ Len(spool) \in Nat /\ Len(spool) >= 1 /\ Len(spool') = Len(spool) - 1
      /\ \A k \in 1..Len(spool') : spool'[k] = spool[k + 1]
      /\ DOMAIN spool = 1..Len(spool) /\ DOMAIN spool' = 1..Len(spool')
  BY DEF SendTypes
<1>2. ASSUME NEW u \in Units, NEW k \in 1..Len(spool), IsLast(k, u), k # 1
      PROVE  k - 1 \in 1..Len(spool') /\ IsLast(k - 1, u)' /\ spool'[k - 1] = spool[k] /\ Kept(u)'
  <2>1. k - 1 \in 1..Len(spool') /\ spool'[k - 1] = spool[k]
    BY <1>1, <1>2
  <2>2. ASSUME NEW j \in 1..Len(spool'), j > k - 1 PROVE spool'[j].unit # u
    <3>1. j + 1 \in 1..Len(spool) /\ j + 1 > k /\ spool'[j] = spool[j + 1]
      BY <1>1, <2>2
    <3> QED
      BY <1>2, <3>1 DEF IsLast
  <2> QED
    BY <1>1, <1>2, <2>1, <2>2 DEF IsLast, Kept
<1>3. ASSUME NEW u \in Units, IsLast(1, u)
      PROVE  ~Kept(u)' /\ spool[1].unit = u
  <2>1. \A j \in 1..Len(spool') : j + 1 \in 1..Len(spool) /\ j + 1 > 1
    BY <1>1
  <2> QED
    BY <1>1, <1>3, <2>1 DEF IsLast, Kept
<1>4. ASSUME NEW u \in Units, ~Kept(u) PROVE ~Kept(u)'
  <2>1. \A j \in 1..Len(spool') : j + 1 \in 1..Len(spool)
    BY <1>1
  <2> QED
    BY <1>1, <1>4, <2>1 DEF Kept
<1>5. LastIsThere'
  <2>1. SUFFICES ASSUME NEW u \in Units, Kept(u)' PROVE \E k \in 1..Len(spool') : IsLast(k, u)'
    BY DEF LastIsThere
  <2>2. PICK k \in 1..Len(spool) : IsLast(k, u)
    BY <1>4, <2>1 DEF LastIsThere
  <2> QED
    BY <1>2, <1>3, <2>1, <2>2
<1>6. ASSUME NEW u \in Units,
             u # spool[1].unit \/ (spool[1].kind \in Pages <=> alarm[spool[1].unit] = "open")
      PROVE  WillOpen(u)' <=> WillOpen(u)
  <2>1. CASE ~Kept(u)
    BY <1>0, <1>4, <2>1 DEF ShownIs, WillOpen
  <2>2. CASE Kept(u)
    <3>1. PICK k \in 1..Len(spool) : IsLast(k, u)
      BY <2>2 DEF LastIsThere
    <3>2. WillOpen(u) <=> spool[k].kind \in Pages
      BY <1>0, <3>1 DEF ShownIs
    <3>3. CASE k # 1
      <4>1. k - 1 \in 1..Len(spool') /\ IsLast(k - 1, u)' /\ spool'[k - 1] = spool[k]
        BY <1>2, <3>1, <3>3
      <4>2. WillOpen(u)' <=> spool'[k - 1].kind \in Pages
        BY <1>0, <4>1 DEF ShownIs, Pages
      <4> QED
        BY <3>2, <4>1, <4>2
    <3>4. CASE k = 1
      <4>1. ~Kept(u)' /\ spool[1].unit = u
        BY <1>3, <3>1, <3>4
      <4>2. WillShow(u)' = alarm'[u]
        BY <1>0, <4>1 DEF ShownIs
      <4> QED
        BY <1>6, <3>2, <3>4, <4>1, <4>2 DEF WillOpen
    <3> QED
      BY <3>3, <3>4
  <2> QED
    BY <2>1, <2>2
<1> QED
  BY <1>5, <1>6

-----------------------------------------------------------------------------
(* The alarm.                                                              *)

Carried(u) == Carries(F(u)) \/ Carries(R(u))

\* The last run is known to the incident, or to a notifier that will still see to it.
Followed(u) ==
    /\ result[u] = "failed" =>
          job[F(u)].pc = "waiting" \/ (incident[u].open /\ ~Carries(R(u)))
    /\ result[u] = "success" /\ ~running[u] =>
          job[R(u)].pc = "waiting" \/ Carries(R(u)) \/ ~incident[u].open
    /\ Carried(u) => incident[u].open

\* What n8n will show is what the incident says, or what a notifier is about to record.
Reported(u) ==
    /\ ~Carried(u) => (incident[u].open <=> WillOpen(u))
    /\ \A n \in {F(u), R(u)} :
          job[n].pc = "recording" => (job[n].kind \in Pages <=> WillOpen(u))

Good(u) == Followed(u) /\ (~dropped[u] => Reported(u))

AlarmInv ==
    /\ LastIsThere
    /\ deaths = 0 => \A u \in Units : Good(u)

LEMMA SameGood ==
    ASSUME NEW u \in Units, Good(u), job'[F(u)] = job[F(u)], job'[R(u)] = job[R(u)],
           incident'[u].open = incident[u].open, result'[u] = result[u], running'[u] = running[u],
           dropped[u] => dropped'[u], dropped'[u] \/ (WillOpen(u)' <=> WillOpen(u))
    PROVE  Good(u)'
<1> DEFINE f == F(u)
           r == R(u)
<1>1. Followed(u)'
  BY DEF Good, Followed, Carried, Carries
<1>2. ASSUME ~dropped'[u] PROVE Reported(u)'
  BY <1>2 DEF Good, Reported, Carried, Carries
<1> QED
  BY <1>1, <1>2 DEF Good

\* Neither the spool nor what n8n shows changes.
LEMMA StillShown ==
    ASSUME AlarmInv, UNCHANGED <<spool, alarm>>
    PROVE  LastIsThere' /\ \A u \in Units : WillOpen(u)' <=> WillOpen(u)
<1>1. LastIsThere'
  BY DEF AlarmInv, LastIsThere, IsLast, Kept
<1>2. ASSUME NEW u \in Units PROVE WillOpen(u)' <=> WillOpen(u)
  BY DEF WillOpen, WillShow
<1> QED
  BY <1>1, <1>2

\* While the spool keeps its notices, the last of each unit stays.
LEMMA AgedShown ==
    ASSUME IInv, IInv', AlarmInv, Len(spool') = Len(spool),
           \A k \in 1..Len(spool) : spool'[k].unit = spool[k].unit /\ spool'[k].kind = spool[k].kind
    PROVE  /\ LastIsThere'
           /\ \A u \in Units : Kept(u) \/ alarm'[u] = alarm[u] => (WillOpen(u)' <=> WillOpen(u))
<1>1. SendTypes /\ SendTypes' /\ LastIsThere
  BY DEF IInv, Types, AlarmInv
<1>2. LastIsThere'
  <2>1. SUFFICES ASSUME NEW u \in Units, Kept(u)' PROVE \E k \in 1..Len(spool') : IsLast(k, u)'
    BY DEF LastIsThere
  <2> QED
    BY <1>1, <2>1, SameLast DEF LastIsThere
<1>3. ASSUME NEW u \in Units, Kept(u) \/ alarm'[u] = alarm[u] PROVE WillOpen(u)' <=> WillOpen(u)
  BY <1>1, <1>3, SameShown
<1> QED
  BY <1>2, <1>3

\* systemd and starts by hand.
LEMMA StartAlarm ==
    ASSUME IInv, AlarmInv, ~Merges, NEW u \in Units, NEW n \in Notifiers,
           RunStarts(u) \/ (\E r \in {"success", "failed"} : RunEnds(u, r)) \/ Hand(n)
    PROVE  AlarmInv'
<1>1. /\ UNCHANGED <<spool, alarm, incident, dropped, deaths>>
      /\ \A m \in Notifiers : job'[m].kind = job[m].kind
      /\ \A m \in Notifiers : job'[m] = job[m] \/ (job[m].pc = "off" /\ job'[m].pc = "waiting")
  BY StartKeepsNotices DEF node, n8n, history
<1>2. LastIsThere' /\ \A v \in Units : WillOpen(v)' <=> WillOpen(v)
  BY <1>1, StillShown
<1>3. SUFFICES ASSUME deaths = 0, NEW v \in Units PROVE Good(v)'
  BY <1>1, <1>2 DEF AlarmInv
<1>4. /\ Good(v) /\ F(v) \in Notifiers /\ R(v) \in Notifiers
      /\ running \in [Units -> BOOLEAN] /\ result \in [Units -> {"success", "failed"}]
  BY <1>3, TwoOf, Facts DEF AlarmInv, SystemTypes
<1>5. Reported(v) => Reported(v)'
  BY <1>1, <1>2, <1>4 DEF Reported, Carried, Carries
<1>6. /\ job[F(v)].pc = "waiting" => job'[F(v)].pc = "waiting"
      /\ job[R(v)].pc = "waiting" => job'[R(v)].pc = "waiting"
      /\ (Carries(F(v))' <=> Carries(F(v))) /\ (Carries(R(v))' <=> Carries(R(v)))
  BY <1>1, <1>4 DEF Carries
<1>7. CASE result'[v] = result[v] /\ running'[v] = running[v]
  <2>1. Followed(v)'
    BY <1>1, <1>4, <1>6, <1>7 DEF Good, Followed, Carried
  <2> QED
    BY <1>1, <1>4, <1>5, <2>1 DEF Good
<1>8. CASE RunStarts(u) /\ u = v
  <2>1. Followed(v)'
    BY <1>1, <1>4, <1>6, <1>8 DEF Good, Followed, Carried, RunStarts
  <2> QED
    BY <1>1, <1>4, <1>5, <2>1 DEF Good
<1>9. ASSUME RunEnds(v, "failed") PROVE Good(v)'
  <2>1. /\ job[F(v)].pc # "exercising" /\ result'[v] = "failed"
        /\ job' = Started(F(v))
    BY <1>4, <1>9 DEF RunEnds, F
  <2>2. job'[F(v)].pc = "waiting" \/ (Carries(F(v)) /\ ~Carries(R(v)))
    <3>1. CASE job[F(v)].pc = "off"
      BY <1>4, <2>1, <3>1, Facts, JobMoves DEF Started, Pcs
    <3>2. CASE job[F(v)].pc # "off"
      BY <1>4, <2>1, <3>2, Facts, OnlyCarrier, TwoOf DEF Started, Jobs
    <3> QED
      BY <3>1, <3>2
  <2>3. Followed(v)'
    BY <1>1, <1>4, <1>6, <2>1, <2>2 DEF Good, Followed, Carried
  <2> QED
    BY <1>1, <1>4, <1>5, <2>3 DEF Good
<1>10. ASSUME RunEnds(v, "success") PROVE Good(v)'
  <2>1. result'[v] = "success" /\ job' = Started(R(v))
    BY <1>4, <1>10 DEF RunEnds, R
  <2>2. job'[R(v)].pc = "waiting" \/ Carries(R(v))
    <3>1. CASE job[R(v)].pc = "off"
      BY <1>4, <2>1, <3>1, Facts, JobMoves DEF Started, Pcs
    <3>2. CASE job[R(v)].pc # "off"
      BY <1>4, <2>1, <3>2, Facts, TwoOf DEF Started, Jobs
    <3> QED
      BY <3>1, <3>2
  <2>3. Followed(v)'
    BY <1>1, <1>4, <1>6, <2>1, <2>2 DEF Good, Followed, Carried
  <2> QED
    BY <1>1, <1>4, <1>5, <2>3 DEF Good
<1>11. CASE \E r \in {"success", "failed"} : RunEnds(u, r)
  <2>1. CASE u = v
    BY <1>9, <1>10, <1>11, <2>1
  <2>2. CASE u # v
    BY <1>4, <1>7, <1>11, <2>2 DEF RunEnds
  <2> QED
    BY <2>1, <2>2
<1> QED
  BY <1>4, <1>7, <1>8, <1>11 DEF RunStarts, Hand

\* The units a notifier's step is not about.
LEMMA OthersGood ==
    ASSUME NEW u \in Units, NEW n \in Notifiers, n[1] # u, Good(u),
           \A m \in Notifiers \ {n} : job'[m] = job[m], incident'[u].open = incident[u].open,
           UNCHANGED <<result, running, dropped>>, WillOpen(u)' <=> WillOpen(u)
    PROVE  Good(u)'
<1>1. F(u) \in Notifiers \ {n} /\ R(u) \in Notifiers \ {n}
  BY TwoOf
<1> QED
  BY <1>1, SameGood

\* A notifier that decides is the only one of its unit past the lock.
LEMMA DecidesAlone ==
    ASSUME IInv, NEW u \in Units, Waiting(F(u)) \/ Waiting(R(u))
    PROVE  ~Carries(F(u)) /\ ~Carries(R(u))
<1>1. F(u) \in Notifiers /\ R(u) \in Notifiers /\ F(u)[1] = u /\ R(u)[1] = u
  BY TwoOf
<1>2. ~Holds(F(u)) /\ ~Holds(R(u))
  BY <1>1 DEF Waiting, Free
<1> QED
  BY <1>1, <1>2, WaitingIs DEF Holds, Carries

LEMMA DecideAlarm ==
    ASSUME IInv, AlarmInv, NEW v \in Units, Decide(v) \/ Exercised(v)
    PROVE  AlarmInv'
<1>1. UNCHANGED <<spool, alarm, dropped, deaths, result, running>>
  BY DEF Decide, Page, Silent, Fold, Exercise, Recover, Exercised, n8n, node, history, systemd
<1>2. LastIsThere' /\ \A u \in Units : WillOpen(u)' <=> WillOpen(u)
  BY <1>1, StillShown
<1>3. SUFFICES ASSUME deaths = 0, NEW u \in Units PROVE Good(u)'
  BY <1>1, <1>2 DEF AlarmInv
<1>4. /\ Good(u) /\ F(v) \in Notifiers /\ R(v) \in Notifiers /\ F(v) # R(v)
      /\ F(v)[1] = v /\ R(v)[1] = v
      /\ incident \in [Units -> [open : BOOLEAN, sent : BOOLEAN, age : 0..(TTL + 1)]]
      /\ result \in [Units -> {"success", "failed"}]
  BY <1>3, TwoOf, Facts DEF AlarmInv, StateTypes, SystemTypes
<1>5. CASE Page(v)
  <2>1. PICK kind \in {"first", "again"} : Makes(F(v), kind) /\ Fails(v) /\ Waiting(F(v))
    BY <1>5 DEF Page, F
  <2>2. /\ job'[F(v)].kind = kind /\ job'[F(v)].pc = "made" /\ \A m \in Notifiers \ {F(v)} : job'[m] = job[m]
        /\ ~Carries(R(v))
    BY <1>4, <2>1, MakesIs, DecidesAlone DEF Kinds
  <2>3. /\ incident'[v].open /\ \A w \in Units \ {v} : incident'[w] = incident[w]
        /\ result[v] = "failed"
    BY <1>4, <2>1 DEF Fails, Live, Closed
  <2>4. CASE u # v
    BY <1>1, <1>2, <1>4, <2>2, <2>3, <2>4, OthersGood
  <2>5. CASE u = v
    <3>1. ~Carries(R(u))' /\ Carries(F(u))' /\ job'[R(u)].pc # "recording"
      BY <1>4, <2>2, <2>5, Facts DEF Carries, Jobs
    <3> QED
      BY <1>1, <2>2, <2>3, <2>5, <3>1 DEF Good, Followed, Reported, Carried
  <2> QED
    BY <2>4, <2>5
<1>6. CASE Silent(v) \/ Fold(v)
  <2>1. Exit(F(v)) /\ Waiting(F(v)) /\ Live(v) /\ result[v] = "failed"
    BY <1>6 DEF Silent, Silenced, Fold, Fails, F
  <2>2. /\ job'[F(v)].kind = "none" /\ job'[F(v)].pc = "off" /\ \A m \in Notifiers \ {F(v)} : job'[m] = job[m]
        /\ ~Carries(F(v)) /\ ~Carries(R(v))
    BY <1>4, <2>1, ExitIs, DecidesAlone
  <2>3. \A w \in Units : incident'[w].open = incident[w].open
    BY <1>4, <1>6, <2>1 DEF Silent, Fold, Fails
  <2>4. CASE u # v
    BY <1>1, <1>2, <1>4, <2>2, <2>3, <2>4, OthersGood
  <2>5. CASE u = v
    <3>1. ~Carries(F(u))' /\ ~Carries(R(u))' /\ job'[R(u)] = job[R(u)] /\ incident[u].open
      BY <1>4, <2>1, <2>2, <2>5 DEF Carries, Live
    <3>2. Followed(u)'
      BY <1>1, <2>1, <2>3, <2>5, <3>1 DEF Followed, Carried
    <3>3. Reported(u) => Reported(u)'
      BY <1>2, <2>2, <2>3, <2>5, <3>1 DEF Reported, Carried
    <3> QED
      BY <1>1, <1>4, <3>2, <3>3 DEF Good
  <2> QED
    BY <2>4, <2>5
<1>7. CASE Exercise(v) \/ Exercised(v)
  <2>1. incident' = incident /\ job[F(v)].pc # "recording" /\ job'[F(v)].pc # "recording"
        /\ ~Carries(F(v)) /\ ~Carries(F(v))' /\ \A m \in Notifiers \ {F(v)} : job'[m] = job[m]
    <3>1. CASE Exercise(v)
      <4>1. job[F(v)].pc = "waiting" /\ job' = [job EXCEPT ![F(v)].pc = "exercising"] /\ incident' = incident
        BY <3>1 DEF Exercise, Waiting, F, node
      <4> QED
        BY <1>4, <4>1, Facts, JobMoves, WaitingIs DEF Carries, Pcs
    <3>2. CASE Exercised(v)
      BY <1>4, <3>2, ExitIs, WaitingIs DEF Exercised, F, Carries, node
    <3> QED
      BY <1>7, <3>1, <3>2
  <2>2. CASE u # v
    BY <1>1, <1>2, <1>4, <2>1, <2>2, OthersGood
  <2>3. CASE u = v
    <3>1. job'[R(u)] = job[R(u)] /\ (Carries(R(u))' <=> Carries(R(u)))
      BY <1>4, <2>1, <2>3 DEF Carries
    <3>2. result[u] = "failed" => job[F(u)].pc # "waiting"
      BY <1>7, <2>3 DEF Exercise, Exercised, F
    <3>3. Followed(u)'
      BY <1>1, <1>4, <2>1, <2>3, <3>1, <3>2 DEF Good, Followed, Carried
    <3>4. Reported(u) => Reported(u)'
      BY <1>2, <2>1, <2>3, <3>1 DEF Reported, Carried
    <3> QED
      BY <1>1, <1>4, <3>3, <3>4 DEF Good
  <2> QED
    BY <2>2, <2>3
<1>8. CASE Recover(v)
  <2>1. Waiting(R(v)) /\ incident' = incident
        /\ IF incident[v].open /\ result[v] = "success" THEN Makes(R(v), "recovered") ELSE Exit(R(v))
    BY <1>8 DEF Recover, R, node
  <2>2. /\ ~Carries(F(v)) /\ ~Carries(R(v)) /\ \A m \in Notifiers \ {R(v)} : job'[m] = job[m]
        /\ job'[R(v)].pc # "recording" /\ job[F(v)].pc # "recording"
        /\ IF incident[v].open /\ result[v] = "success" THEN Carries(R(v))' ELSE ~Carries(R(v))'
    BY <1>4, <2>1, MakesIs, ExitIs, DecidesAlone, Facts DEF Kinds, Carries, Jobs
  <2>3. CASE u # v
    BY <1>1, <1>2, <1>4, <2>1, <2>2, <2>3, OthersGood
  <2>4. CASE u = v
    <3>1. job'[F(u)] = job[F(u)] /\ ~Carries(F(u))'
      BY <1>4, <2>2, <2>4 DEF Carries
    <3>2. Followed(u)'
      BY <1>1, <1>4, <2>1, <2>2, <2>4, <3>1 DEF Good, Followed, Carried
    <3>3. Reported(u) => Reported(u)'
      BY <1>2, <2>1, <2>2, <2>4, <3>1 DEF Reported, Carried
    <3> QED
      BY <1>1, <1>4, <3>2, <3>3 DEF Good
  <2> QED
    BY <2>3, <2>4
<1> QED
  BY <1>5, <1>6, <1>7, <1>8 DEF Decide

\* A notifier with a notice keeps the only one of its unit in hand.
LEMMA HandIs ==
    ASSUME IInv, NEW n \in Notifiers, Carries(n)
    PROVE  /\ n[1] \in Units
           /\ \/ n = F(n[1]) /\ job[n].kind \in Pages /\ ~Carries(R(n[1])) /\ job[R(n[1])].pc # "recording"
              \/ n = R(n[1]) /\ job[n].kind \notin Pages /\ ~Carries(F(n[1])) /\ job[F(n[1])].pc # "recording"
           /\ Carried(n[1])
<1>1. n[1] \in Units /\ (n = F(n[1]) \/ n = R(n[1]))
  BY TwoOf
<1>2. CASE n = F(n[1])
  <2>1. R(n[1]) \in Notifiers /\ R(n[1]) # n /\ R(n[1])[1] = n[1] /\ n[2] = "failure"
    BY <1>1, <1>2, TwoOf
  <2>2. ~Carries(R(n[1])) /\ job[n].kind \in Pages
    BY <2>1, OnlyCarrier, Facts DEF Jobs
  <2> QED
    BY <1>1, <1>2, <2>1, <2>2, Facts DEF Jobs, Carried
<1>3. CASE n = R(n[1])
  <2>1. F(n[1]) \in Notifiers /\ F(n[1]) # n /\ F(n[1])[1] = n[1] /\ n[2] # "failure"
    BY <1>1, <1>3, TwoOf
  <2>2. ~Carries(F(n[1])) /\ job[n].kind \notin Pages
    BY <2>1, OnlyCarrier, Facts DEF Jobs
  <2> QED
    BY <1>1, <1>3, <2>1, <2>2, Facts DEF Jobs, Carried
<1> QED
  BY <1>1, <1>2, <1>3

\* A notifier goes on with its notice, and has it recorded next only if n8n will show it.
LEMMA GoesOnGood ==
    ASSUME IInv, NEW n \in Notifiers, Carries(n), Good(n[1]),
           job[n].pc \notin {"off", "waiting", "exercising", "recording"},
           job'[n].kind = job[n].kind, job'[n].pc # "waiting", \A m \in Notifiers \ {n} : job'[m] = job[m],
           UNCHANGED <<incident, result, running, dropped>>,
           job'[n].pc = "recording" => (job[n].kind \in Pages <=> WillOpen(n[1])')
    PROVE  Good(n[1])'
<1> SUFFICES ASSUME NEW u \in Units, u = n[1] PROVE Good(u)'
  BY TwoOf
<1>1. F(u) \in Notifiers /\ R(u) \in Notifiers /\ (n = F(u) \/ n = R(u)) /\ F(u) # R(u)
  BY TwoOf
<1>2. /\ Carries(F(u))' <=> Carries(F(u))
      /\ Carries(R(u))' <=> Carries(R(u))
      /\ job[F(u)].pc = "waiting" <=> job'[F(u)].pc = "waiting"
      /\ job[R(u)].pc = "waiting" <=> job'[R(u)].pc = "waiting"
      /\ Carried(u)
  BY <1>1 DEF Carries, Carried
<1>3. Followed(u)'
  BY <1>2 DEF Good, Followed, Carried
<1>4. Reported(u)'
  <2>1. \A m \in {F(u), R(u)} : m = n \/ job'[m].pc # "recording"
    BY <1>1, HandIs
  <2> QED
    BY <1>2, <2>1 DEF Reported, Carried, Pages
<1> QED
  BY <1>3, <1>4 DEF Good

\* Choosing, sending and keeping.
LEMMA SendAlarm ==
    ASSUME IInv, IInv', AlarmInv, NEW n \in Notifiers, Choose(n) \/ Send(n) \/ Keep(n)
    PROVE  AlarmInv'
<1>1. /\ UNCHANGED <<result, running, incident, dropped, deaths>>
      /\ job'[n].kind = job[n].kind /\ \A m \in Notifiers \ {n} : job'[m] = job[m]
  BY DeliverKeepsNotices DEF systemd
<1>2. /\ Carries(n) /\ job[n].pc \in {"made", "sending", "keeping", "queueing"} /\ n[1] \in Units
      /\ job[n].kind \in Kinds /\ job[n].id \in Nat
  BY TwoOf, Facts DEF Choose, Send, SendTaken, SendFailed, Keep, Jobs, JobRecords, Carries
<1>3. job'[n].pc \in {"sending", "queueing", "keeping", "recording"}
  BY Facts, JobMoves DEF Choose, Send, SendTaken, SendFailed, Keep, Pcs
<1>4. SendTypes /\ SendTypes' /\ LastIsThere
  BY DEF IInv, Types, AlarmInv
<1>5. /\ LastIsThere' /\ \A u \in Units \ {n[1]} : WillOpen(u)' <=> WillOpen(u)
      /\ job'[n].pc = "recording" => (job[n].kind \in Pages <=> WillOpen(n[1])')
  <2>1. CASE Choose(n)
    <3>1. UNCHANGED <<spool, alarm>> /\ job'[n].pc # "recording"
      BY <2>1, Facts, JobMoves DEF Choose, node, n8n, Pcs
    <3> QED
      BY <3>1, StillShown
  <2>2. CASE Send(n)
    <3>1. spool' = spool /\ \A u \in Units \ {n[1]} : alarm'[u] = alarm[u]
      BY <1>2, <1>4, <2>2 DEF Send, SendTaken, SendFailed, n8n, node, Take, SendTypes
    <3>2. LastIsThere' /\ \A u \in Units \ {n[1]} : WillOpen(u)' <=> WillOpen(u)
      BY <3>1, AgedShown
    <3>3. ASSUME job'[n].pc = "recording" PROVE job[n].kind \in Pages <=> WillOpen(n[1])'
      <4>1. Take(n[1], job[n].kind, job[n].id)
        BY <2>2, <3>3, Facts, JobMoves DEF Send, SendTaken, SendFailed, Pcs
      <4>2. alarm'[n[1]] = IF job[n].kind \in Pages THEN "open" ELSE "closed"
        BY <1>2, <1>4, <4>1 DEF Take, SendTypes
      <4>3. ~Kept(n[1])'
        <5>1. job[n].pc = "sending" /\ DOMAIN spool = 1..Len(spool)
          BY <1>4, <2>2 DEF Send, SendTaken, SendFailed, SendTypes
        <5>2. \A k \in 1..Len(spool) : spool[k].unit # n[1]
          BY <1>2, <5>1, Facts DEF Ordered
        <5> QED
          BY <3>1, <5>1, <5>2 DEF Kept
      <4>4. ShownIs'
        BY <1>4, WillOpenNext
      <4>5. WillShow(n[1])' = alarm'[n[1]]
        BY <1>2, <4>3, <4>4 DEF ShownIs
      <4> QED
        BY <4>2, <4>5 DEF WillOpen
    <3> QED
      BY <3>2, <3>3
  <2>3. CASE Keep(n)
    <3>1. PICK e \in Notices : e.unit = n[1] /\ e.kind = job[n].kind /\ spool' = Append(spool, e)
      <4>1. 0 \in 0..(MaxAge + 1)
        OBVIOUS
      <4>2. [unit |-> n[1], kind |-> job[n].kind, id |-> job[n].id, age |-> 0] \in Notices
        BY <1>2, <4>1 DEF Notices
      <4> QED
        BY <2>3, <4>2 DEF Keep
    <3>2. /\ LastIsThere'
          /\ WillOpen(e.unit)' <=> e.kind \in Pages
          /\ \A u \in Units \ {e.unit} : WillOpen(u)' <=> WillOpen(u)
      <4>1. alarm' = alarm
        BY <2>3 DEF Keep, n8n
      <4> QED
        BY <1>4, <3>1, <4>1, AppendShown
    <3> QED
      BY <3>1, <3>2
  <2> QED
    BY <2>1, <2>2, <2>3
<1>6. SUFFICES ASSUME deaths = 0, NEW u \in Units PROVE Good(u)'
  BY <1>1, <1>5 DEF AlarmInv
<1>7. Good(u)
  BY <1>6 DEF AlarmInv
<1>8. CASE u # n[1]
  BY <1>1, <1>5, <1>7, <1>8, OthersGood
<1>9. CASE u = n[1]
  <2>1. Good(n[1])
    BY <1>7, <1>9
  <2>2. Good(n[1])'
    BY <1>1, <1>2, <1>3, <1>5, <2>1, GoesOnGood
  <2> QED
    BY <1>9, <2>2 DEF Good, Followed, Reported, Carried, Carries, F, R, WillOpen, WillShow
<1> QED
  BY <1>8, <1>9

\* The state says what the notice said.
LEMMA RecordAlarm ==
    ASSUME IInv, AlarmInv, NEW n \in Notifiers, Record(n)
    PROVE  AlarmInv'
<1>1. UNCHANGED <<spool, alarm, dropped, deaths, result, running>>
  BY DEF Record, n8n, history, systemd
<1>2. LastIsThere' /\ \A u \in Units : WillOpen(u)' <=> WillOpen(u)
  BY <1>1, StillShown
<1>3. SUFFICES ASSUME deaths = 0, NEW u \in Units PROVE Good(u)'
  BY <1>1, <1>2 DEF AlarmInv
<1>4. /\ \A m \in Notifiers \ {n} : job'[m] = job[m]
      /\ job'[n].kind = "none" /\ job'[n].pc = "off"
  BY ExitIs DEF Record
<1>5. /\ n[1] \in Units /\ Carries(n) /\ Good(u) /\ job[n].pc = "recording"
      /\ F(u) \in Notifiers /\ R(u) \in Notifiers /\ F(u) # R(u)
      /\ result \in [Units -> {"success", "failed"}]
  BY <1>3, TwoOf, Facts DEF Record, Jobs, AlarmInv, SystemTypes
<1>6. /\ incident'[n[1]].open <=> job[n].kind \in Pages
      /\ \A v \in Units \ {n[1]} : incident'[v] = incident[v]
  BY <1>5, Facts DEF Record, StateTypes, Closed
<1>7. CASE u # n[1]
  BY <1>1, <1>2, <1>4, <1>5, <1>6, <1>7, OthersGood
<1>8. CASE u = n[1]
  <2>1. ~Carries(F(u))' /\ ~Carries(R(u))' /\ job'[F(u)].pc # "recording" /\ job'[R(u)].pc # "recording"
        /\ (n = F(u) \/ n = R(u))
    BY <1>4, <1>5, <1>8, HandIs DEF Carries
  <2>2. Reported(u) => Reported(u)'
    BY <1>2, <1>5, <1>6, <1>8, <2>1 DEF Reported, Carried
  <2>3. Followed(u)'
    <3>1. CASE n = F(u)
      BY <1>1, <1>4, <1>5, <1>6, <1>8, <2>1, <3>1, HandIs DEF Good, Followed, Carried
    <3>2. CASE n = R(u)
      BY <1>1, <1>4, <1>5, <1>6, <1>8, <2>1, <3>2, HandIs DEF Good, Followed, Carried
    <3> QED
      BY <2>1, <3>1, <3>2
  <2> QED
    BY <1>1, <1>5, <2>2, <2>3 DEF Good
<1> QED
  BY <1>7, <1>8

\* The flush and the clock leave the notifiers and the incidents as they are.
LEMMA QuietGood ==
    ASSUME NEW u \in Units, Good(u), UNCHANGED <<job, result, running>>,
           incident'[u].open = incident[u].open,
           dropped[u] => dropped'[u], dropped'[u] \/ (WillOpen(u)' <=> WillOpen(u))
    PROVE  Good(u)'
BY SameGood

\* A notice n8n may have taken is the oldest kept, so n8n will show what it was going to; one
\* that leaves the spool is what n8n shows, or too old.
LEMMA FlushAlarm ==
    ASSUME IInv, IInv', Confirmed, AlarmInv, FlushDue \/ Flush
    PROVE  AlarmInv'
<1>1. UNCHANGED <<result, running, job, incident, deaths>>
  BY FlushKeepsNotices DEF systemd
<1>2. SendTypes /\ SendTypes' /\ LastIsThere /\ Locked
  BY DEF IInv, Types, AlarmInv
<1>3. \/ flush \in {"locked", "going", "removing"} /\ spool # <<>>
      \/ UNCHANGED <<spool, alarm, dropped>>
  BY <1>2 DEF FlushDue, Flush, FlushLocks, FlushGivesUp, FlushEnds, FlushDrops, FlushTaken, FlushFailed,
              FlushRemoves, AtOldest, FlushAt, Locked, node, n8n, history
<1>4. ASSUME LastIsThere',
             \A u \in Units : /\ dropped[u] => dropped'[u]
                              /\ dropped'[u] \/ (WillOpen(u)' <=> WillOpen(u))
      PROVE  AlarmInv'
  BY <1>1, <1>4, QuietGood DEF AlarmInv
<1>5. CASE UNCHANGED <<spool, alarm, dropped>>
  BY <1>4, <1>5, StillShown
<1>6. CASE flush \in {"locked", "going", "removing"} /\ spool # <<>>
  <2>1. 1 \in 1..Len(spool) /\ spool[1].unit \in Units /\ Kept(spool[1].unit)
    BY <1>2, <1>6, SpoolIs DEF SendTypes, Kept
  <2>2. CASE FlushTaken \/ FlushFailed
    <3>1. /\ UNCHANGED <<spool, dropped>>
          /\ \A u \in Units \ {spool[1].unit} : alarm'[u] = alarm[u]
      BY <1>2, <2>2 DEF FlushTaken, FlushFailed, Take, Oldest, node, n8n, history, SendTypes
    <3>2. \A u \in Units : Kept(u) \/ alarm'[u] = alarm[u]
      BY <2>1, <3>1
    <3>3. LastIsThere' /\ \A u \in Units : WillOpen(u)' <=> WillOpen(u)
      BY <1>2, <3>1, <3>2, SameShown, SameLast DEF LastIsThere
    <3> QED
      BY <1>4, <2>2, <3>1, <3>3
  <2>3. CASE FlushDrops \/ FlushRemoves
    <3>1. /\ spool' = Tail(spool) /\ alarm' = alarm
      BY <2>3 DEF FlushDrops, FlushRemoves, n8n
    <3>2. /\ LastIsThere'
          /\ \A u \in Units : u # spool[1].unit => (WillOpen(u)' <=> WillOpen(u))
          /\ (spool[1].kind \in Pages <=> alarm[spool[1].unit] = "open") =>
                \A u \in Units : WillOpen(u)' <=> WillOpen(u)
      BY <1>2, <1>6, <3>1, TailShown
    <3>3. CASE FlushDrops
      <4>1. dropped' = [dropped EXCEPT ![spool[1].unit] = TRUE] /\ dropped \in [Units -> BOOLEAN]
        BY <3>3, Facts DEF FlushDrops, Oldest, HistoryTypes
      <4> QED
        BY <1>4, <2>1, <3>2, <4>1
    <3>4. CASE FlushRemoves
      <4>1. dropped' = dropped /\ (spool[1].kind \in Pages <=> alarm[spool[1].unit] = "open")
        BY <3>4 DEF FlushRemoves, Confirmed, history
      <4> QED
        BY <1>4, <3>2, <4>1
    <3> QED
      BY <2>3, <3>3, <3>4
  <2>4. CASE FlushDue \/ FlushLocks \/ FlushGivesUp \/ FlushEnds
    <3>1. UNCHANGED <<spool, alarm, dropped>>
      BY <2>4 DEF FlushDue, FlushLocks, FlushGivesUp, FlushEnds, node, n8n, history
    <3> QED
      BY <1>5, <3>1
  <2> QED
    BY <2>2, <2>3, <2>4 DEF Flush
<1> QED
  BY <1>3, <1>5, <1>6

LEMMA TickAlarm == ASSUME IInv, IInv', AlarmInv, Tick PROVE AlarmInv'
<1>1. UNCHANGED <<result, running, job, alarm, dropped, deaths>>
  BY Facts DEF Tick, systemd, n8n
<1>2. \A u \in Units : incident'[u].open = incident[u].open
  BY Facts DEF Tick, StateTypes
<1>3. LastIsThere' /\ \A u \in Units : WillOpen(u)' <=> WillOpen(u)
  BY <1>1, TickIs, AgedShown
<1> QED
  BY <1>1, <1>2, <1>3, QuietGood DEF AlarmInv

\* What dies leaves the spool and n8n as they are.
LEMMA DeathAlarm ==
    ASSUME IInv, AlarmInv, FlushDies \/ Reboot \/ \E n \in Notifiers : Die(n)
    PROVE  AlarmInv'
<1>1. UNCHANGED <<spool, alarm>> /\ deaths' = deaths + 1
  BY DEF FlushDies, Reboot, Die, node, n8n
<1>2. deaths' # 0
  BY <1>1, Facts DEF SystemTypes
<1> QED
  BY <1>1, <1>2, StillShown DEF AlarmInv

LEMMA AlarmInductive == ~Merges /\ IInv /\ IInv' /\ Confirmed /\ AlarmInv /\ [Next]_vars => AlarmInv'
<1> SUFFICES ASSUME ~Merges, IInv, IInv', Confirmed, AlarmInv, [Next]_vars PROVE AlarmInv'
  OBVIOUS
<1>1. ASSUME NEW u \in Units, RunStarts(u) \/ (\E r \in {"success", "failed"} : RunEnds(u, r)) PROVE AlarmInv'
  <2>1. F(u) \in Notifiers
    BY TwoOf
  <2> QED
    BY <1>1, <2>1, StartAlarm
<1>2. ASSUME NEW u \in Units, Decide(u) \/ Exercised(u) PROVE AlarmInv'
  BY <1>2, DecideAlarm
<1>3. ASSUME NEW n \in Notifiers, Hand(n) PROVE AlarmInv'
  <2>1. n[1] \in Units
    BY TwoOf
  <2> QED
    BY <1>3, <2>1, StartAlarm
<1>4. ASSUME NEW n \in Notifiers, Deliver(n) PROVE AlarmInv'
  BY <1>4, SendAlarm, RecordAlarm DEF Deliver
<1>5. ASSUME FlushDue \/ Flush PROVE AlarmInv'
  BY <1>5, FlushAlarm
<1>6. ASSUME FlushDies \/ Reboot \/ \E n \in Notifiers : Die(n) PROVE AlarmInv'
  BY <1>6, DeathAlarm
<1>7. CASE Tick
  BY <1>7, TickAlarm
<1>8. CASE UNCHANGED vars
  <2>1. UNCHANGED <<spool, alarm, deaths, job, result, running, incident, dropped>>
    BY <1>8 DEF vars, node, n8n, history, systemd
  <2> QED
    BY <2>1, StillShown, QuietGood DEF AlarmInv
<1> QED
  BY <1>1, <1>2, <1>3, <1>4, <1>5, <1>6, <1>7, <1>8 DEF Next

LEMMA AlarmStart == Init => AlarmInv
<1> SUFFICES ASSUME Init PROVE AlarmInv
  OBVIOUS
<1>1. \A u \in Units : ~Kept(u)
  <2>1. Len(spool) = 0 /\ DOMAIN spool = 1..Len(spool)
    BY InitHolds, Facts DEF Init, SendTypes
  <2> QED
    BY <2>1 DEF Kept
<1>2. IInv
  BY InitHolds
<1>3. \A u \in Units : WillShow(u) = "closed"
  BY <1>1, <1>2, WillOpenIs, Facts DEF ShownIs, Init
<1>4. ASSUME NEW u \in Units PROVE Good(u)
  <2>1. job[F(u)] = Off /\ job[R(u)] = Off
    BY TwoOf DEF Init
  <2>2. ~Carried(u) /\ job[F(u)].pc = "off" /\ job[R(u)].pc = "off"
    BY <2>1, OffIs DEF Carried, Carries
  <2> QED
    BY <1>3, <2>2 DEF Init, Good, Followed, Reported, Closed, WillOpen
<1> QED
  BY <1>1, <1>4 DEF AlarmInv, LastIsThere, Init

\* When a unit's notifiers are done, n8n shows or will show an alarm for it exactly if its
\* last run failed, for any units and times, while no notice of it was dropped, nothing died
\* and no failure was merged into a notifier that was exercising the path
\* (kubelab-notify.sh.j2, the incident state and the recovery).
THEOREM AlarmEndsTrue == ASSUME ~Merges PROVE Spec => []AlarmIsTrue
<1>1. IInv /\ AlarmInv => AlarmIsTrue
  <2> SUFFICES ASSUME IInv, AlarmInv, NEW u \in Units, Settled(u), ~dropped[u], deaths = 0
               PROVE  (WillShow(u) = "open") = (result[u] = "failed")
    BY DEF AlarmIsTrue
  <2>1. /\ F(u) \in Notifiers /\ R(u) \in Notifiers /\ F(u)[1] = u /\ R(u)[1] = u
        /\ result[u] \in {"success", "failed"} /\ Good(u)
    BY TwoOf, Facts DEF SystemTypes, AlarmInv
  <2>2. job[F(u)].pc = "off" /\ job[R(u)].pc = "off" /\ ~running[u]
    BY <2>1 DEF Settled
  <2>3. ~Carried(u)
    BY <2>1, <2>2, WaitingIs DEF Carried, Carries
  <2>4. incident[u].open <=> WillOpen(u)
    BY <2>1, <2>3 DEF Good, Reported
  <2>5. result[u] = "failed" <=> incident[u].open
    BY <2>1, <2>2, <2>3 DEF Good, Followed, Carried
  <2> QED
    BY <2>4, <2>5 DEF WillOpen
<1>2. IInv /\ Confirmed /\ AlarmInv /\ [Next]_vars => AlarmInv'
  BY Inductive, AlarmInductive
<1> QED
  BY <1>1, <1>2, AlarmStart, AlwaysConfirmed, PTL DEF Spec

-----------------------------------------------------------------------------
(* The line of a unit's notices.                                           *)

InHand(n) == job[n].pc \in {"made", "sending", "keeping", "queueing"}

WayIs == \A u \in Units : \A m :
    m \in OnTheirWay(u) <=>
        \/ \E k \in 1..Len(spool) : spool[k].unit = u /\ m = Notice(spool[k])
        \/ \E n \in Notifiers : n[1] = u /\ InHand(n) /\ m = Notice(job[n])

LEMMA OnTheirWayIs == SendTypes => WayIs
<1> SUFFICES ASSUME SendTypes PROVE WayIs
  OBVIOUS
<1>1. DOMAIN spool = 1..Len(spool)
  BY DEF SendTypes
<1> QED
  BY <1>1 DEF WayIs, OnTheirWay, InHand

LEMMA OnTheirWayNext == SendTypes' => WayIs'
BY OnTheirWayIs, PTL

\* The spool keeps its notices, and the unit's notifiers keep theirs in hand.
LEMMA SameWay ==
    ASSUME SendTypes, SendTypes', NEW u \in Units, Len(spool') = Len(spool),
           \A k \in 1..Len(spool) : spool'[k].unit = spool[k].unit /\ spool'[k].kind = spool[k].kind
                                      /\ spool'[k].id = spool[k].id,
           \A n \in Notifiers : n[1] = u =>
               /\ InHand(n)' <=> InHand(n)
               /\ InHand(n) => job'[n].kind = job[n].kind /\ job'[n].id = job[n].id
    PROVE  OnTheirWay(u)' = OnTheirWay(u)
<1>1. WayIs /\ WayIs'
  BY OnTheirWayIs, OnTheirWayNext
<1>2. \A k \in 1..Len(spool) : Notice(spool'[k]) = Notice(spool[k])
  BY DEF Notice
<1>3. \A n \in Notifiers : n[1] = u /\ InHand(n) => Notice(job'[n]) = Notice(job[n])
  BY DEF Notice
<1>4. ASSUME NEW m, m \in OnTheirWay(u)' PROVE m \in OnTheirWay(u)
  BY <1>1, <1>2, <1>3, <1>4 DEF WayIs
<1>5. ASSUME NEW m, m \in OnTheirWay(u) PROVE m \in OnTheirWay(u)'
  BY <1>1, <1>2, <1>3, <1>5 DEF WayIs
<1> QED
  BY <1>4, <1>5

\* A notice in hand is the only one of its unit, and the last of the line.
LEMMA HandIsLast ==
    ASSUME IInv, NEW n \in Notifiers, InHand(n)
    PROVE  /\ n[1] \in Units /\ Notice(job[n]) \in OnTheirWay(n[1])
           /\ job[n].kind \in Kinds /\ job[n].id \in Nat
           /\ \A m \in Notifiers : m[1] = n[1] /\ m # n => ~InHand(m)
           /\ \A k \in 1..Len(spool) : spool[k].unit = n[1] => spool[k].id < job[n].id
           /\ \A o \in OnTheirWay(n[1]) : o.id <= job[n].id
<1>1. Carries(n) /\ n[1] \in Units /\ job[n].kind \in Kinds /\ job[n].id \in Nat
  BY TwoOf, Facts DEF InHand, Jobs, Carries, JobRecords
<1>2. WayIs
  BY Facts, OnTheirWayIs
<1>3. \A m \in Notifiers : m[1] = n[1] /\ m # n => ~InHand(m)
  BY <1>1, OnlyCarrier DEF InHand, Holds
<1>4. \A k \in 1..Len(spool) : spool[k].unit = n[1] => spool[k].id < job[n].id /\ spool[k].id \in Nat
  BY <1>1, SpoolIs, Facts DEF Ordered, InHand
<1>5. ASSUME NEW o \in OnTheirWay(n[1]) PROVE o.id <= job[n].id
  <2>1. CASE \E k \in 1..Len(spool) : spool[k].unit = n[1] /\ o = Notice(spool[k])
    BY <1>1, <1>4, <2>1 DEF Notice
  <2>2. CASE \E m \in Notifiers : m[1] = n[1] /\ InHand(m) /\ o = Notice(job[m])
    BY <1>1, <1>3, <2>2 DEF Notice
  <2> QED
    BY <1>1, <1>2, <2>1, <2>2 DEF WayIs
<1> QED
  BY <1>1, <1>2, <1>3, <1>4, <1>5 DEF WayIs

\* The oldest notice the spool keeps is the first of its unit's line, and in it once.
LEMMA OldestIsFirst ==
    ASSUME IInv, spool # <<>>
    PROVE  LET u == spool[1].unit
           IN  /\ 1 \in 1..Len(spool) /\ u \in Units /\ spool[1].id \in Nat
               /\ Notice(spool[1]) \in OnTheirWay(u)
               /\ \A o \in OnTheirWay(u) : spool[1].id <= o.id
               /\ \A k \in 1..Len(spool) : k # 1 /\ spool[k].unit = u => spool[1].id < spool[k].id
               /\ \A n \in Notifiers : n[1] = u /\ InHand(n) => spool[1].id < job[n].id
<1> DEFINE u == spool[1].unit
<1>1. /\ 1 \in 1..Len(spool) /\ u \in Units /\ spool[1].id \in Nat
      /\ \A k \in 1..Len(spool) : spool[k].id \in Nat
  BY Facts, SpoolIs DEF SendTypes
<1>2. WayIs
  BY Facts, OnTheirWayIs
<1>3. \A k \in 1..Len(spool) : k # 1 /\ spool[k].unit = u => spool[1].id < spool[k].id
  <2>1. \A k \in 1..Len(spool) : k # 1 => 1 < k
    OBVIOUS
  <2> QED
    BY <1>1, <2>1, Facts DEF Ordered
<1>4. \A n \in Notifiers : n[1] = u /\ InHand(n) => spool[1].id < job[n].id /\ job[n].id \in Nat
  BY <1>1, HandIsLast
<1>5. ASSUME NEW o \in OnTheirWay(u) PROVE spool[1].id <= o.id
  <2>1. CASE \E k \in 1..Len(spool) : spool[k].unit = u /\ o = Notice(spool[k])
    BY <1>1, <1>3, <2>1 DEF Notice
  <2>2. CASE \E n \in Notifiers : n[1] = u /\ InHand(n) /\ o = Notice(job[n])
    BY <1>1, <1>4, <2>2 DEF Notice
  <2> QED
    BY <1>1, <1>2, <2>1, <2>2 DEF WayIs
<1> QED
  BY <1>1, <1>2, <1>3, <1>4, <1>5 DEF WayIs

\* A notice made joins the line.
LEMMA MadeJoins ==
    ASSUME IInv, IInv', NEW n \in Notifiers, ~InHand(n), NEW kind \in Kinds, Makes(n, kind), spool' = spool
    PROVE  /\ OnTheirWay(n[1])' = OnTheirWay(n[1]) \cup {[kind |-> kind, id |-> made[n[1]] + 1]}
           /\ \A u \in Units \ {n[1]} : OnTheirWay(u)' = OnTheirWay(u)
<1>1. SendTypes /\ SendTypes' /\ n[1] \in Units
  BY TwoOf DEF IInv, Types
<1>2. /\ job'[n] = [pc |-> "made", kind |-> kind, id |-> made[n[1]] + 1]
      /\ \A m \in Notifiers \ {n} : job'[m] = job[m]
  BY Facts DEF Makes
<1>3. WayIs /\ WayIs'
  BY <1>1, OnTheirWayIs, OnTheirWayNext
<1>4. InHand(n)' /\ Notice(job'[n]) = [kind |-> kind, id |-> made[n[1]] + 1]
  BY <1>2 DEF InHand, Notice
<1>5. \A m \in Notifiers \ {n} : (InHand(m)' <=> InHand(m)) /\ Notice(job'[m]) = Notice(job[m])
  BY <1>2 DEF InHand, Notice
<1>6. \A m : m \in OnTheirWay(n[1])' <=>
                 m \in OnTheirWay(n[1]) \/ m = [kind |-> kind, id |-> made[n[1]] + 1]
  <2>1. ASSUME NEW m, m \in OnTheirWay(n[1])'
        PROVE  m \in OnTheirWay(n[1]) \/ m = [kind |-> kind, id |-> made[n[1]] + 1]
    BY <1>1, <1>3, <1>4, <1>5, <2>1 DEF WayIs
  <2>2. ASSUME NEW m, m \in OnTheirWay(n[1]) PROVE m \in OnTheirWay(n[1])'
    BY <1>1, <1>3, <1>5, <2>2 DEF WayIs
  <2>3. [kind |-> kind, id |-> made[n[1]] + 1] \in OnTheirWay(n[1])'
    BY <1>1, <1>3, <1>4 DEF WayIs
  <2> QED
    BY <2>1, <2>2, <2>3
<1>7. \A u \in Units \ {n[1]} : OnTheirWay(u)' = OnTheirWay(u)
  BY <1>1, <1>2, SameWay DEF InHand
<1> QED
  BY <1>6, <1>7

\* A notice in hand is let go: the line loses its last.
LEMMA HandLeaves ==
    ASSUME IInv, SendTypes', NEW n \in Notifiers, InHand(n), spool' = spool,
           \A m \in Notifiers : m[1] = n[1] => ~InHand(m)'
    PROVE  OnTheirWay(n[1])' = OnTheirWay(n[1]) \ {Notice(job[n])}
<1>1. WayIs /\ WayIs'
  BY Facts, OnTheirWayIs, OnTheirWayNext
<1>2. /\ n[1] \in Units /\ \A m \in Notifiers : m[1] = n[1] /\ m # n => ~InHand(m)
      /\ \A k \in 1..Len(spool) : spool[k].unit = n[1] => Notice(spool[k]) # Notice(job[n])
  <2>1. \A k \in 1..Len(spool) : spool[k].unit = n[1] => spool[k].id # job[n].id
    BY HandIsLast, SpoolIs, Facts
  <2> QED
    BY <2>1, HandIsLast DEF Notice
<1>3. ASSUME NEW m, m \in OnTheirWay(n[1])' PROVE m \in OnTheirWay(n[1]) \ {Notice(job[n])}
  <2>1. PICK k \in 1..Len(spool) : spool[k].unit = n[1] /\ m = Notice(spool[k])
    BY <1>1, <1>2, <1>3 DEF WayIs
  <2> QED
    BY <1>1, <1>2, <2>1 DEF WayIs
<1>4. ASSUME NEW m, m \in OnTheirWay(n[1]) \ {Notice(job[n])} PROVE m \in OnTheirWay(n[1])'
  <2>1. PICK k \in 1..Len(spool) : spool[k].unit = n[1] /\ m = Notice(spool[k])
    BY <1>1, <1>2, <1>4 DEF WayIs
  <2> QED
    BY <1>1, <1>2, <2>1 DEF WayIs
<1> QED
  BY <1>3, <1>4

\* The oldest notice leaves the spool: its unit's line loses its first.
LEMMA OldestLeaves ==
    ASSUME IInv, SendTypes', spool # <<>>, spool' = Tail(spool), job' = job, NEW u \in Units
    PROVE  OnTheirWay(u)' = IF u = spool[1].unit THEN OnTheirWay(u) \ {Notice(spool[1])}
                            ELSE OnTheirWay(u)
<1>1. WayIs /\ WayIs'
  BY Facts, OnTheirWayIs, OnTheirWayNext
<1>2. /\ Len(spool) \in Nat /\ Len(spool') = Len(spool) - 1
      /\ \A k \in 1..Len(spool') : spool'[k] = spool[k + 1] /\ k + 1 \in 1..Len(spool) /\ k + 1 # 1
      /\ \A k \in 1..Len(spool) : k # 1 => k - 1 \in 1..Len(spool') /\ spool'[k - 1] = spool[k]
  BY Facts DEF SendTypes
<1>3. ASSUME NEW m
      PROVE  m \in OnTheirWay(u)' <=>
                \/ \E k \in 1..Len(spool) : k # 1 /\ spool[k].unit = u /\ m = Notice(spool[k])
                \/ \E n \in Notifiers : n[1] = u /\ InHand(n) /\ m = Notice(job[n])
  <2>1. (\E k \in 1..Len(spool') : spool'[k].unit = u /\ m = Notice(spool'[k]))
          <=> \E k \in 1..Len(spool) : k # 1 /\ spool[k].unit = u /\ m = Notice(spool[k])
    <3>1. ASSUME NEW k \in 1..Len(spool'), spool'[k].unit = u, m = Notice(spool'[k])
          PROVE  \E j \in 1..Len(spool) : j # 1 /\ spool[j].unit = u /\ m = Notice(spool[j])
      BY <1>2, <3>1
    <3>2. ASSUME NEW k \in 1..Len(spool), k # 1, spool[k].unit = u, m = Notice(spool[k])
          PROVE  \E j \in 1..Len(spool') : spool'[j].unit = u /\ m = Notice(spool'[j])
      BY <1>2, <3>2
    <3> QED
      BY <3>1, <3>2
  <2> QED
    BY <1>1, <2>1 DEF WayIs, InHand
<1>4. ASSUME u # spool[1].unit PROVE OnTheirWay(u)' = OnTheirWay(u)
  <2>1. \A m : m \in OnTheirWay(u)' <=> m \in OnTheirWay(u)
    BY <1>1, <1>3, <1>4 DEF WayIs
  <2>2. \A m \in OnTheirWay(u)' : m \in OnTheirWay(u)
    BY <2>1
  <2>3. \A m \in OnTheirWay(u) : m \in OnTheirWay(u)'
    BY <2>1
  <2> QED
    BY <2>2, <2>3
<1>5. ASSUME u = spool[1].unit
      PROVE  OnTheirWay(u)' = OnTheirWay(u) \ {Notice(spool[1])}
  <2>1. /\ 1 \in 1..Len(spool)
        /\ \A k \in 1..Len(spool) : k # 1 /\ spool[k].unit = u => Notice(spool[k]) # Notice(spool[1])
        /\ \A n \in Notifiers : n[1] = u /\ InHand(n) => Notice(job[n]) # Notice(spool[1])
    <3>1. /\ 1 \in 1..Len(spool) /\ \A k \in 1..Len(spool) : spool[k].id \in Nat
          /\ \A n \in Notifiers : job[n].id \in Nat
      BY OldestIsFirst, SpoolIs, Facts DEF JobRecords
    <3>2. /\ \A k \in 1..Len(spool) : k # 1 /\ spool[k].unit = u => spool[k].id # spool[1].id
          /\ \A n \in Notifiers : n[1] = u /\ InHand(n) => job[n].id # spool[1].id
      BY <1>5, <3>1, OldestIsFirst
    <3> QED
      BY <3>1, <3>2 DEF Notice
  <2>2. ASSUME NEW m, m \in OnTheirWay(u)' PROVE m \in OnTheirWay(u) \ {Notice(spool[1])}
    BY <1>1, <1>3, <2>1, <2>2 DEF WayIs
  <2>3. ASSUME NEW m, m \in OnTheirWay(u) \ {Notice(spool[1])} PROVE m \in OnTheirWay(u)'
    BY <1>1, <1>3, <2>3 DEF WayIs
  <2> QED
    BY <2>2, <2>3
<1> QED
  BY <1>4, <1>5

\* A notice put into the spool is still in the line.
LEMMA KeptStays ==
    ASSUME IInv, IInv', NEW n \in Notifiers, Keep(n), NEW u \in Units
    PROVE  OnTheirWay(u)' = OnTheirWay(u)
<1> DEFINE e == [unit |-> n[1], kind |-> job[n].kind, id |-> job[n].id, age |-> 0]
<1> SUFFICES ASSUME NEW top, top = Len(spool) + 1 PROVE OnTheirWay(u)' = OnTheirWay(u)
  OBVIOUS
<1>1. SendTypes /\ SendTypes' /\ WayIs /\ WayIs'
  BY OnTheirWayIs, OnTheirWayNext DEF IInv, Types
<1>2. InHand(n)
  BY DEF Keep, InHand
<1>3. /\ ~InHand(n)' /\ \A m \in Notifiers \ {n} : job'[m] = job[m]
  BY Facts, JobMoves DEF Keep, InHand, Pcs
<1>4. /\ Len(spool) \in Nat /\ Len(spool') = top /\ spool'[top] = e
      /\ \A k \in 1..Len(spool) : spool'[k] = spool[k]
      /\ \A k \in 1..top : k \in 1..Len(spool) \/ k = top
      /\ 1..Len(spool) \subseteq 1..top /\ top \in 1..top
  BY <1>1 DEF Keep, SendTypes
<1>5. Notice(e) = Notice(job[n]) /\ e.unit = n[1]
  BY DEF Notice
<1> HIDE DEF e
<1>6. ASSUME NEW m, m \in OnTheirWay(u)' PROVE m \in OnTheirWay(u)
  <2>1. CASE \E k \in 1..top : spool'[k].unit = u /\ m = Notice(spool'[k])
    <3>1. PICK k \in 1..top : spool'[k].unit = u /\ m = Notice(spool'[k])
      BY <2>1
    <3>2. CASE k = top
      BY <1>1, <1>2, <1>4, <1>5, <3>1, <3>2 DEF WayIs
    <3>3. CASE k # top
      BY <1>1, <1>4, <3>1, <3>3 DEF WayIs
    <3> QED
      BY <3>2, <3>3
  <2>2. CASE \E l \in Notifiers : l[1] = u /\ InHand(l)' /\ m = Notice(job'[l])
    BY <1>1, <1>3, <2>2 DEF WayIs, InHand
  <2> QED
    BY <1>1, <1>4, <1>6, <2>1, <2>2 DEF WayIs
<1>7. ASSUME NEW m, m \in OnTheirWay(u) PROVE m \in OnTheirWay(u)'
  <2>1. CASE \E k \in 1..Len(spool) : spool[k].unit = u /\ m = Notice(spool[k])
    <3>1. \E k \in 1..top : spool'[k].unit = u /\ m = Notice(spool'[k])
      BY <1>4, <2>1
    <3> QED
      BY <1>1, <1>4, <3>1 DEF WayIs
  <2>2. CASE \E l \in Notifiers : l[1] = u /\ InHand(l) /\ m = Notice(job[l])
    <3>1. PICK l \in Notifiers : l[1] = u /\ InHand(l) /\ m = Notice(job[l])
      BY <2>2
    <3>2. CASE l = n
      <4>1. spool'[top].unit = u /\ m = Notice(spool'[top])
        BY <1>4, <1>5, <3>1, <3>2
      <4> QED
        BY <1>1, <1>4, <4>1 DEF WayIs
    <3>3. CASE l # n
      <4>1. InHand(l)' /\ m = Notice(job'[l])
        BY <1>3, <3>1, <3>3 DEF InHand
      <4> QED
        BY <1>1, <3>1, <4>1 DEF WayIs
    <3> QED
      BY <3>2, <3>3
  <2> QED
    BY <1>1, <1>7, <2>1, <2>2 DEF WayIs
<1> QED
  BY <1>6, <1>7

-----------------------------------------------------------------------------
(* Each step is one of the line's, or leaves it alone.                     *)

LEMMA LineSame ==
    ASSUME \A u \in Units : OnTheirWay(u)' = OnTheirWay(u), UNCHANGED <<made, newest, alarm, dropped, deaths>>
    PROVE  UNCHANGED Line!vars
BY DEF Line!vars

LEMMA LineMake ==
    ASSUME NEW u \in Units, NEW kind \in Kinds, made' = [made EXCEPT ![u] = @ + 1],
           OnTheirWay(u)' = OnTheirWay(u) \cup {[kind |-> kind, id |-> made[u] + 1]},
           \A v \in Units \ {u} : OnTheirWay(v)' = OnTheirWay(v), UNCHANGED <<newest, alarm, dropped, deaths>>
    PROVE  Line!Make(u)
BY DEF Line!Make

LEMMA LineDeliver ==
    ASSUME NEW u \in Units, NEW m \in OnTheirWay(u), \A o \in OnTheirWay(u) : m.id <= o.id,
           Take(u, m.kind, m.id), UNCHANGED <<made, dropped, deaths>>,
           \A v \in Units \ {u} : OnTheirWay(v)' = OnTheirWay(v),
           OnTheirWay(u)' = OnTheirWay(u) \/ OnTheirWay(u)' = OnTheirWay(u) \ {m}
    PROVE  Line!Deliver(u)
BY DEF Line!Deliver, Line!First, Take

LEMMA LineLeaves ==
    ASSUME NEW u \in Units, NEW m \in OnTheirWay(u), \A o \in OnTheirWay(u) : m.id <= o.id,
           UNCHANGED <<made, newest, alarm, deaths>>,
           \A v \in Units \ {u} : OnTheirWay(v)' = OnTheirWay(v), OnTheirWay(u)' = OnTheirWay(u) \ {m}
    PROVE  /\ newest[u] = m.id /\ dropped' = dropped => Line!Leave(u)
           /\ dropped' = [dropped EXCEPT ![u] = TRUE] => Line!Drop(u)
<1> DEFINE L == [v \in Units |-> OnTheirWay(v)]
<1>1. L' = [L EXCEPT ![u] = @ \ {m}] /\ L[u] = OnTheirWay(u)
  OBVIOUS
<1>2. Line!First(u, m) /\ m \in L[u]
  BY <1>1 DEF Line!First
<1>3. newest[u] = m.id /\ dropped' = dropped => Line!Leave(u)
  BY <1>1, <1>2 DEF Line!Leave
<1>4. dropped' = [dropped EXCEPT ![u] = TRUE] => Line!Drop(u)
  BY <1>1, <1>2 DEF Line!Drop
<1> QED
  BY <1>3, <1>4

LEMMA LineCrash ==
    ASSUME UNCHANGED <<made, newest, alarm, dropped>>, deaths' = deaths + 1,
           \A u \in Units : \/ OnTheirWay(u)' = OnTheirWay(u)
                            \/ \E m \in OnTheirWay(u) : /\ \A o \in OnTheirWay(u) : o.id <= m.id
                                                        /\ OnTheirWay(u)' = OnTheirWay(u) \ {m}
    PROVE  Line!Crash
<1> DEFINE L == [u \in Units |-> OnTheirWay(u)]
<1>1. \A u \in Units : L[u] = OnTheirWay(u) /\ L'[u] = OnTheirWay(u)'
  OBVIOUS
<1>2. \A u \in Units : L'[u] = L[u] \/ \E m \in L[u] : Line!Last(u, m) /\ L'[u] = L[u] \ {m}
  BY <1>1 DEF Line!Last
<1>3. \A u \in Units : L'[u] \in SUBSET UNION {L[v] : v \in Units}
  BY <1>2
<1>4. L' \in [Units -> SUBSET UNION {L[v] : v \in Units}]
  BY <1>3
<1> QED
  BY <1>2, <1>4 DEF Line!Crash

\* Who lets a notice go that was in hand, lets go of the last of its line.
LEMMA DiesLast ==
    ASSUME IInv, IInv', spool' = spool, NEW u \in Units,
           \A n \in Notifiers : n[1] = u => job'[n] = job[n] \/ ~InHand(n)'
    PROVE  \/ OnTheirWay(u)' = OnTheirWay(u)
           \/ \E m \in OnTheirWay(u) : /\ \A o \in OnTheirWay(u) : o.id <= m.id
                                       /\ OnTheirWay(u)' = OnTheirWay(u) \ {m}
<1>1. SendTypes /\ SendTypes'
  BY DEF IInv, Types
<1>2. CASE \A n \in Notifiers : n[1] = u => (InHand(n)' <=> InHand(n))
  <2>1. \A n \in Notifiers : n[1] = u /\ InHand(n) => job'[n] = job[n]
    BY <1>2
  <2> QED
    BY <1>1, <1>2, <2>1, SameWay
<1>3. CASE \E n \in Notifiers : n[1] = u /\ ~(InHand(n)' <=> InHand(n))
  <2>1. PICK n \in Notifiers : n[1] = u /\ InHand(n) /\ ~InHand(n)'
    BY <1>3 DEF InHand
  <2>2. \A m \in Notifiers : m[1] = u => ~InHand(m)'
    BY <2>1, HandIsLast DEF InHand
  <2>3. OnTheirWay(u)' = OnTheirWay(u) \ {Notice(job[n])}
    <3>1. OnTheirWay(n[1])' = OnTheirWay(n[1]) \ {Notice(job[n])}
      BY <1>1, <2>1, <2>2, HandLeaves
    <3> QED
      BY <2>1, <3>1
  <2>4. Notice(job[n]) \in OnTheirWay(u) /\ \A o \in OnTheirWay(u) : o.id <= Notice(job[n]).id
    BY <2>1, HandIsLast DEF Notice
  <2> QED
    BY <2>3, <2>4
<1> QED
  BY <1>2, <1>3

\* A page made, or a recovery, joins the line; the rest a notifier decides leaves it alone.
LEMMA DecideLine ==
    ASSUME IInv, IInv', NEW u \in Units, Decide(u) \/ Exercised(u)
    PROVE  Line!Next \/ UNCHANGED Line!vars
<1>1. /\ F(u) \in Notifiers /\ R(u) \in Notifiers /\ F(u)[1] = u /\ R(u)[1] = u
      /\ UNCHANGED <<spool, newest, alarm, dropped, deaths>>
  BY TwoOf DEF Decide, Page, Silent, Fold, Exercise, Recover, Exercised, node, n8n, history
<1>2. ASSUME NEW n \in Notifiers, n[1] = u, Waiting(n), NEW kind \in Kinds, Makes(n, kind)
      PROVE  Line!Next
  <2>1. ~InHand(n)
    BY <1>2 DEF Waiting, InHand
  <2>2. /\ OnTheirWay(n[1])' = OnTheirWay(n[1]) \cup {[kind |-> kind, id |-> made[n[1]] + 1]}
        /\ \A v \in Units \ {n[1]} : OnTheirWay(v)' = OnTheirWay(v)
    BY <1>1, <1>2, <2>1, MadeJoins
  <2>3. made' = [made EXCEPT ![u] = @ + 1]
    BY <1>2 DEF Makes
  <2>4. Line!Make(u)
    BY <1>1, <1>2, <2>2, <2>3, LineMake
  <2> QED
    BY <2>4 DEF Line!Next
<1>3. ASSUME made' = made, \A n \in Notifiers : job'[n] = job[n] \/ (~InHand(n) /\ ~InHand(n)')
      PROVE  UNCHANGED Line!vars
  <2>1. SendTypes /\ SendTypes'
    BY DEF IInv, Types
  <2>2. \A v \in Units : OnTheirWay(v)' = OnTheirWay(v)
    BY <1>1, <1>3, <2>1, SameWay DEF InHand
  <2> QED
    BY <1>1, <1>3, <2>2, LineSame
<1>4. ASSUME NEW n \in Notifiers, Waiting(n) \/ job[n].pc = "exercising", Exit(n), made' = made
      PROVE  UNCHANGED Line!vars
  BY <1>3, <1>4, ExitIs DEF InHand, Waiting
<1>5. CASE Page(u)
  BY <1>1, <1>2, <1>5 DEF Page, Kinds, F
<1>6. CASE Silent(u) \/ Fold(u) \/ Exercised(u)
  BY <1>1, <1>4, <1>6 DEF Silent, Fold, Exercised, F
<1>7. CASE Exercise(u)
  <2>1. job' = [job EXCEPT ![F(u)].pc = "exercising"] /\ job[F(u)].pc = "waiting" /\ made' = made
    BY <1>7 DEF Exercise, Waiting, F
  <2>2. \A n \in Notifiers : job'[n] = job[n] \/ (~InHand(n) /\ ~InHand(n)')
    BY <1>1, <2>1, Facts, JobMoves DEF Pcs, InHand
  <2> QED
    BY <1>3, <2>1, <2>2
<1>8. CASE Recover(u)
  <2>1. Waiting(R(u)) /\ \/ Makes(R(u), "recovered")
                         \/ Exit(R(u)) /\ made' = made
    BY <1>8 DEF Recover, R
  <2> QED
    BY <1>1, <1>2, <1>4, <2>1 DEF Kinds
<1> QED
  BY <1>5, <1>6, <1>7, <1>8 DEF Decide

\* A notice sent is the only one in line; choosing and keeping leave the line alone.
LEMMA DeliverLine ==
    ASSUME IInv, IInv', NEW n \in Notifiers, Deliver(n)
    PROVE  Line!Next \/ UNCHANGED Line!vars
<1>1. SendTypes /\ SendTypes' /\ n[1] \in Units
  BY TwoOf DEF IInv, Types
<1>2. UNCHANGED <<made, dropped, deaths>>
  BY DEF Deliver, Choose, Send, SendTaken, SendFailed, Keep, Record, history
<1>3. ASSUME spool' = spool,
             \A m \in Notifiers : /\ InHand(m)' <=> InHand(m)
                                  /\ (job'[m].kind = job[m].kind /\ job'[m].id = job[m].id) \/ ~InHand(m)
      PROVE  \A u \in Units : OnTheirWay(u)' = OnTheirWay(u)
  BY <1>1, <1>3, SameWay
<1>4. CASE Choose(n)
  <2>1. /\ job[n].pc = "made" /\ UNCHANGED <<spool, newest, alarm>>
        /\ \E pc \in {"sending", "queueing"} : job' = [job EXCEPT ![n].pc = pc]
    BY <1>4 DEF Choose, node, n8n
  <2>2. \A u \in Units : OnTheirWay(u)' = OnTheirWay(u)
    BY <1>3, <2>1, Facts, JobMoves DEF InHand, Pcs
  <2> QED
    BY <1>2, <2>1, <2>2, LineSame
<1>5. CASE Keep(n)
  BY <1>2, <1>5, KeptStays, LineSame DEF Keep, n8n
<1>6. CASE Record(n)
  <2>1. /\ job[n].pc = "recording" /\ UNCHANGED <<spool, newest, alarm>>
        /\ job'[n].pc = "off" /\ \A m \in Notifiers \ {n} : job'[m] = job[m]
    BY <1>6, ExitIs DEF Record, n8n
  <2>2. \A u \in Units : OnTheirWay(u)' = OnTheirWay(u)
    BY <1>3, <2>1 DEF InHand
  <2> QED
    BY <1>2, <2>1, <2>2, LineSame
<1>7. CASE Send(n)
  <2>1. /\ job[n].pc = "sending" /\ spool' = spool
        /\ \E pc \in {"recording", "keeping"} : job' = [job EXCEPT ![n].pc = pc]
    BY <1>7 DEF Send, SendTaken, SendFailed, node
  <2>2. /\ job'[n].pc \in {"recording", "keeping"} /\ job'[n].kind = job[n].kind /\ job'[n].id = job[n].id
        /\ \A m \in Notifiers \ {n} : job'[m] = job[m]
    BY <2>1, Facts, JobMoves DEF Pcs
  <2>3. InHand(n)
    BY <2>1 DEF InHand
  <2> DEFINE m == Notice(job[n])
  <2>4. m \in OnTheirWay(n[1]) /\ m.kind = job[n].kind /\ m.id = job[n].id
    BY <2>3, HandIsLast DEF Notice
  <2>5. \A o \in OnTheirWay(n[1]) : o = m
    <3>1. WayIs /\ Carries(n)
      BY <1>1, <2>1, OnTheirWayIs, Facts DEF Jobs
    <3>2. \A k \in 1..Len(spool) : spool[k].unit # n[1]
      BY <2>1, <3>1, Facts DEF Ordered
    <3> QED
      BY <1>1, <2>3, <3>1, <3>2, HandIsLast DEF WayIs
  <2>6. \A u \in Units \ {n[1]} : OnTheirWay(u)' = OnTheirWay(u)
    BY <1>1, <2>1, <2>2, SameWay DEF InHand
  <2>7. CASE SendTaken(n)
    <3>1. ~InHand(n)' /\ \A l \in Notifiers : l[1] = n[1] => ~InHand(l)'
      <4>1. job'[n].pc = "recording"
        BY <2>7, Facts, JobMoves DEF SendTaken, Pcs
      <4> QED
        BY <2>2, <2>3, <4>1, HandIsLast DEF InHand
    <3>2. OnTheirWay(n[1])' = OnTheirWay(n[1]) \ {m}
      BY <1>1, <2>1, <2>3, <3>1, HandLeaves
    <3>3. \A o \in OnTheirWay(n[1]) : m.id <= o.id
      BY <2>3, <2>4, <2>5, HandIsLast
    <3>4. Line!Deliver(n[1])
      BY <1>1, <1>2, <2>4, <2>6, <2>7, <3>2, <3>3, LineDeliver DEF SendTaken
    <3> QED
      BY <1>1, <3>4 DEF Line!Next
  <2>8. CASE SendFailed(n)
    <3>1. job'[n].pc = "keeping"
      BY <2>8, Facts, JobMoves DEF SendFailed, Pcs
    <3>2. \A u \in Units : OnTheirWay(u)' = OnTheirWay(u)
      BY <1>3, <2>1, <2>2, <2>3, <3>1 DEF InHand
    <3>3. CASE UNCHANGED n8n
      BY <1>2, <3>2, <3>3, LineSame DEF n8n
    <3>4. CASE Take(n[1], job[n].kind, job[n].id)
      <4>1. \A o \in OnTheirWay(n[1]) : m.id <= o.id
        BY <2>3, <2>4, <2>5, HandIsLast
      <4>2. Line!Deliver(n[1])
        BY <1>1, <1>2, <2>4, <3>2, <3>4, <4>1, LineDeliver
      <4> QED
        BY <1>1, <4>2 DEF Line!Next
    <3> QED
      BY <2>8, <3>3, <3>4 DEF SendFailed
  <2> QED
    BY <1>7, <2>7, <2>8 DEF Send
<1> QED
  BY <1>4, <1>5, <1>6, <1>7 DEF Deliver

\* The flush gives n8n the first of a line, and takes out of a line only its first.
LEMMA FlushLine ==
    ASSUME IInv, IInv', Confirmed, FlushDue \/ Flush
    PROVE  Line!Next \/ UNCHANGED Line!vars
<1>1. SendTypes /\ SendTypes' /\ UNCHANGED <<job, made, deaths>>
  BY FlushKeepsNotices DEF IInv, Types
<1>2. ASSUME spool' = spool PROVE \A u \in Units : OnTheirWay(u)' = OnTheirWay(u)
  BY <1>1, <1>2, SameWay DEF InHand
<1>3. ASSUME UNCHANGED <<spool, newest, alarm, dropped>> PROVE UNCHANGED Line!vars
  BY <1>1, <1>2, <1>3, LineSame
<1>4. CASE FlushDue \/ FlushLocks \/ FlushGivesUp \/ FlushEnds
  BY <1>3, <1>4 DEF FlushDue, FlushLocks, FlushGivesUp, FlushEnds, node, n8n, history
<1>5. ASSUME spool # <<>>, ~(UNCHANGED <<spool, newest, alarm, dropped>>),
             FlushDrops \/ FlushTaken \/ FlushFailed \/ FlushRemoves
      PROVE  Line!Next
  <2>1. PICK u \in Units : u = spool[1].unit
    BY <1>5, OldestIsFirst
  <2> DEFINE m == Notice(spool[1])
  <2>2. /\ m \in OnTheirWay(u) /\ m.kind = spool[1].kind /\ m.id = spool[1].id
        /\ \A o \in OnTheirWay(u) : m.id <= o.id
    BY <1>5, <2>1, OldestIsFirst DEF Notice
  <2>3. CASE FlushTaken \/ FlushFailed
    <3>1. spool' = spool /\ dropped' = dropped /\ Take(u, m.kind, m.id)
      BY <1>5, <2>1, <2>2, <2>3 DEF FlushTaken, FlushFailed, Oldest, node, n8n, history
    <3>2. Line!Deliver(u)
      BY <1>1, <1>2, <2>2, <3>1, LineDeliver
    <3> QED
      BY <3>2 DEF Line!Next
  <2>4. CASE FlushDrops \/ FlushRemoves
    <3>1. spool' = Tail(spool) /\ UNCHANGED <<newest, alarm>>
      BY <2>4 DEF FlushDrops, FlushRemoves, n8n
    <3>2. /\ OnTheirWay(u)' = OnTheirWay(u) \ {m}
          /\ \A v \in Units \ {u} : OnTheirWay(v)' = OnTheirWay(v)
      BY <1>1, <1>5, <2>1, <3>1, OldestLeaves
    <3>3. FlushDrops => dropped' = [dropped EXCEPT ![u] = TRUE]
      BY <2>1 DEF FlushDrops, Oldest
    <3>4. FlushRemoves => newest[u] = m.id /\ dropped' = dropped
      BY <2>1, <2>2 DEF FlushRemoves, Confirmed, history
    <3>5. Line!Leave(u) \/ Line!Drop(u)
      BY <1>1, <2>2, <2>4, <3>1, <3>2, <3>3, <3>4, LineLeaves
    <3> QED
      BY <3>5 DEF Line!Next
  <2> QED
    BY <1>5, <2>3, <2>4
<1>6. CASE FlushDrops \/ FlushTaken \/ FlushFailed \/ FlushRemoves
  <2>1. spool # <<>>
    BY <1>6, Facts DEF FlushDrops, FlushTaken, FlushFailed, FlushRemoves, AtOldest, Locked
  <2> QED
    BY <1>3, <1>5, <1>6, <2>1
<1> QED
  BY <1>4, <1>6 DEF Flush

\* Whatever dies, the spool and what n8n has stay, and each unit loses at most what was in hand.
LEMMA DeathLine ==
    ASSUME IInv, IInv', FlushDies \/ Reboot \/ \E n \in Notifiers : Die(n)
    PROVE  Line!Next
<1>1. UNCHANGED <<spool, made, newest, alarm, dropped>> /\ deaths' = deaths + 1
  BY DEF FlushDies, Reboot, Die, node, n8n, history
<1>2. \A n \in Notifiers : job'[n] = job[n] \/ ~InHand(n)'
  <2>1. CASE FlushDies
    BY <2>1 DEF FlushDies
  <2>2. CASE Reboot
    BY <2>2, OffIs DEF Reboot, InHand
  <2>3. ASSUME NEW n \in Notifiers, Die(n)
        PROVE  \A m \in Notifiers : job'[m] = job[m] \/ ~InHand(m)'
    BY <2>3, ExitIs DEF Die, InHand
  <2> QED
    BY <2>1, <2>2, <2>3
<1>3. Line!Crash
  BY <1>1, <1>2, DiesLast, LineCrash
<1> QED
  BY <1>3 DEF Line!Next

LEMMA LineStep == IInv /\ IInv' /\ Confirmed /\ [Next]_vars => [Line!Next]_(Line!vars)
<1> SUFFICES ASSUME IInv, IInv', Confirmed, [Next]_vars PROVE Line!Next \/ UNCHANGED Line!vars
  OBVIOUS
<1>1. SendTypes /\ SendTypes'
  BY DEF IInv, Types
<1>2. ASSUME UNCHANGED <<node, n8n, history, made, deaths>>,
             \A m \in Notifiers : job'[m] = job[m] \/ (~InHand(m) /\ ~InHand(m)')
      PROVE  UNCHANGED Line!vars
  <2>1. \A u \in Units : OnTheirWay(u)' = OnTheirWay(u)
    BY <1>1, <1>2, SameWay DEF InHand, node
  <2> QED
    BY <1>2, <2>1, LineSame DEF n8n, history
<1>3. ASSUME NEW u \in Units, RunStarts(u) \/ (\E r \in {"success", "failed"} : RunEnds(u, r))
      PROVE  UNCHANGED Line!vars
  <2>1. F(u) \in Notifiers
    BY TwoOf
  <2> QED
    BY <1>2, <1>3, <2>1, StartKeepsNotices DEF InHand
<1>4. ASSUME NEW n \in Notifiers, Hand(n) PROVE UNCHANGED Line!vars
  <2>1. n[1] \in Units
    BY TwoOf
  <2> QED
    BY <1>2, <1>4, <2>1, StartKeepsNotices DEF InHand
<1>5. ASSUME NEW u \in Units, Decide(u) \/ Exercised(u) PROVE Line!Next \/ UNCHANGED Line!vars
  BY <1>5, DecideLine
<1>6. ASSUME NEW n \in Notifiers, Deliver(n) PROVE Line!Next \/ UNCHANGED Line!vars
  BY <1>6, DeliverLine
<1>7. ASSUME FlushDue \/ Flush PROVE Line!Next \/ UNCHANGED Line!vars
  BY <1>7, FlushLine
<1>8. ASSUME FlushDies \/ Reboot \/ \E n \in Notifiers : Die(n) PROVE Line!Next
  BY <1>8, DeathLine
<1>9. CASE Tick
  <2>1. UNCHANGED <<job, newest, alarm, made, dropped, deaths>>
    BY <1>9 DEF Tick, n8n
  <2>2. \A u \in Units : OnTheirWay(u)' = OnTheirWay(u)
    BY <1>1, <1>9, <2>1, TickIs, SameWay DEF InHand
  <2> QED
    BY <2>1, <2>2, LineSame
<1>10. CASE UNCHANGED vars
  BY <1>2, <1>10 DEF vars
<1> QED
  BY <1>3, <1>4, <1>5, <1>6, <1>7, <1>8, <1>9, <1>10 DEF Next

LEMMA LineStarts == Init => Line!Init
<1> SUFFICES ASSUME Init PROVE Line!Init
  OBVIOUS
<1>1. SendTypes /\ Len(spool) = 0 /\ \A n \in Notifiers : ~InHand(n)
  BY InitHolds, OffIs, Facts DEF Init, InHand
<1>2. \A u \in Units : OnTheirWay(u) = {}
  <2>1. SUFFICES ASSUME NEW u \in Units, NEW m, m \in OnTheirWay(u) PROVE FALSE
    OBVIOUS
  <2>2. 1..Len(spool) = {}
    BY <1>1
  <2> QED
    BY <1>1, <2>1, <2>2, OnTheirWayIs DEF WayIs
<1> QED
  BY <1>2 DEF Line!Init, Init

\* Each unit's notices stand in line as they were made and n8n is given the first of the
\* line, for any units, times and deaths, whichever notices n8n refuses or takes without
\* saying so: NodeNotify implements NoticeLine.
THEOREM LineKept == Spec => NoneSkipped
<1>1. Spec => Line!Init
  BY LineStarts DEF Spec
<1>2. [](IInv /\ Confirmed) /\ [][Next]_vars => [][Line!Next]_(Line!vars)
  BY LineStep, PTL
<1> QED
  BY <1>1, <1>2, AlwaysConfirmed, PTL DEF Spec, NoneSkipped, Line!Spec
=============================================================================
