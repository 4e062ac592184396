-------------------------- MODULE NodeNotifyProofs --------------------------
(***************************************************************************)
(* For any units, times and deaths: the types and the unit's lock, that no *)
(* notice of a unit overtakes an older one, that reminders do not pile up, *)
(* and that a unit is silenced only by a page of its incident that n8n     *)
(* took, that is still kept, or that was kept until it was too old.        *)
(***************************************************************************)
EXTENDS NodeNotify, SequenceTheorems, TLAPS

USE TimesAssumption

Pcs == {"off", "waiting", "made", "exercising", "sending", "keeping", "queueing", "recording"}
JobRecords == [pc : Pcs, kind : Kinds \cup {"none"}, id : Nat]

\* A notifier that has made a notice.
Carries(n) == job[n].kind # "none"

\* A notice is made by the notifier of its kind, and carried until the script ends.
Jobs ==
    \A n \in Notifiers :
        /\ Carries(n) <=> job[n].pc \notin {"off", "waiting", "exercising"}
        /\ Carries(n) => (job[n].kind \in Pages <=> n[2] = "failure")
        /\ job[n].pc = "exercising" => n[2] = "failure"

\* The spool's lock is held by who sends, or by the flush.
Locked ==
    /\ \A n \in Notifiers : job[n].pc = "sending" => lock = n
    /\ flush \in {"locked", "going", "removing"} => lock = Flusher
    /\ flush = "removing" => spool # <<>>

\* The notices of a unit are numbered in the order n8n gets them: what it has, then what
\* the spool holds, then what a notifier carries, which sends it only if the spool holds none.
Ordered ==
    /\ \A u \in Units : newest[u] <= made[u]
    /\ \A k \in 1..Len(spool) : newest[spool[k].unit] <= spool[k].id /\ spool[k].id <= made[spool[k].unit]
    /\ \A j, k \in 1..Len(spool) : j < k /\ spool[j].unit = spool[k].unit => spool[j].id < spool[k].id
    /\ \A n \in Notifiers : Carries(n) =>
          /\ newest[n[1]] <= job[n].id /\ job[n].id <= made[n[1]]
          /\ \A k \in 1..Len(spool) : spool[k].unit = n[1] =>
                /\ spool[k].id <= job[n].id
                /\ job[n].pc # "recording" => spool[k].id < job[n].id
                /\ job[n].pc # "sending"

\* A reminder is made only while the spool holds nothing of its unit.
Folded ==
    /\ \A j, k \in 1..Len(spool) : j < k /\ spool[j].unit = spool[k].unit => spool[k].kind # "again"
    /\ \A n \in Notifiers : job[n].kind = "again" /\ job[n].pc # "recording" =>
          \A k \in 1..Len(spool) : spool[k].unit # n[1]

\* TypeOK, part by part.
SystemTypes ==
    /\ running \in [Units -> BOOLEAN] /\ result \in [Units -> {"success", "failed"}]
    /\ runs \in Nat /\ hands \in Nat /\ deaths \in Nat
StateTypes == incident \in [Units -> [open : BOOLEAN, sent : BOOLEAN, age : 0..(TTL + 1)]]
HistoryTypes ==
    /\ since \in [Units -> Nat] /\ pageOut \in [Units -> Fates] /\ quiet \in [Units -> 0..(TTL + 1)]
    /\ dropped \in [Units -> BOOLEAN]
SendTypes ==
    /\ flush \in {"off", "waiting", "locked", "going", "removing"}
    /\ lock \in Notifiers \cup {Flusher, NoOne}
    /\ spool \in Seq(Notices)
    /\ alarm \in [Units -> {"open", "closed"}] /\ newest \in [Units -> Nat]
    /\ made \in [Units -> Nat]
Exclusive == \A n, m \in Notifiers : n[1] = m[1] /\ n # m /\ Holds(n) => ~Holds(m)
Types ==
    /\ SystemTypes /\ StateTypes /\ HistoryTypes /\ SendTypes
    /\ job \in [Notifiers -> JobRecords] /\ Exclusive

IInv == Types /\ Jobs /\ Locked /\ Ordered /\ Folded

-----------------------------------------------------------------------------
LEMMA NotifiersAre ==
    /\ \A n \in Notifiers : n = <<n[1], n[2]>> /\ n[1] \in Units /\ n[2] \in {"failure", "recovered"}
    /\ \A n \in Notifiers : n # Flusher /\ n # NoOne
    /\ \A u \in Units : <<u, "failure">> \in Notifiers /\ <<u, "recovered">> \in Notifiers
    /\ Flusher # NoOne
<1>1. Len(Flusher) = 1 /\ Len(NoOne) = 0
  BY DEF Flusher, NoOne
<1>2. ASSUME NEW n \in Notifiers
      PROVE  n = <<n[1], n[2]>> /\ n[1] \in Units /\ n[2] \in {"failure", "recovered"} /\ Len(n) = 2
  BY DEF Notifiers
<1>3. \A u \in Units : <<u, "failure">> \in Notifiers /\ <<u, "recovered">> \in Notifiers
  BY DEF Notifiers
<1>4. ASSUME NEW n \in Notifiers PROVE n # Flusher /\ n # NoOne
  BY <1>1, <1>2
<1> QED
  BY <1>1, <1>2, <1>3, <1>4

\* What a notifier's step does to the notifiers.
LEMMA JobMoves ==
    ASSUME job \in [Notifiers -> JobRecords], NEW n \in Notifiers, NEW pc \in Pcs, job' = [job EXCEPT ![n].pc = pc]
    PROVE  /\ job' \in [Notifiers -> JobRecords]
           /\ job'[n].pc = pc /\ job'[n].kind = job[n].kind /\ job'[n].id = job[n].id
           /\ \A m \in Notifiers \ {n} : job'[m] = job[m]
BY DEF JobRecords

LEMMA JobBecomes ==
    ASSUME job \in [Notifiers -> JobRecords], NEW n \in Notifiers, NEW r \in JobRecords, job' = [job EXCEPT ![n] = r]
    PROVE  /\ job' \in [Notifiers -> JobRecords] /\ job'[n] = r
           /\ \A m \in Notifiers \ {n} : job'[m] = job[m]
OBVIOUS

LEMMA OffIs == Off \in JobRecords /\ Off.pc = "off" /\ Off.kind = "none"
BY DEF Off, JobRecords, Pcs, Kinds

LEMMA TypeSplit == Types => TypeOK
<1> SUFFICES ASSUME Types PROVE TypeOK
  OBVIOUS
<1>1. ASSUME NEW u \in Units PROVE ~(Holds(<<u, "failure">>) /\ Holds(<<u, "recovered">>))
  <2>1. /\ <<u, "failure">> \in Notifiers /\ <<u, "recovered">> \in Notifiers
        /\ <<u, "failure">>[1] = <<u, "recovered">>[1] /\ <<u, "failure">> # <<u, "recovered">>
    BY NotifiersAre
  <2> QED
    BY <2>1 DEF Types, Exclusive
<1> QED
  BY <1>1 DEF TypeOK, Types, SystemTypes, StateTypes, HistoryTypes, SendTypes, JobRecords, Pcs

\* What the steps below use of the state.
LEMMA Facts ==
    ASSUME IInv
    PROVE  /\ SystemTypes /\ StateTypes /\ HistoryTypes /\ SendTypes
           /\ job \in [Notifiers -> JobRecords] /\ Exclusive
           /\ TypeOK /\ Jobs /\ Locked /\ Ordered /\ Folded
BY TypeSplit DEF IInv, Types

LEMMA SpoolIs ==
    ASSUME SendTypes
    PROVE  \A k \in 1..Len(spool) : spool[k].unit \in Units /\ spool[k].id \in Nat
<1>1. \A k \in 1..Len(spool) : spool[k] \in Notices
  BY DEF SendTypes
<1>2. \A x \in Notices : x.unit \in Units /\ x.id \in Nat
  BY DEF Notices
<1> QED
  BY <1>1, <1>2

LEMMA InitHolds == Init => IInv
<1> SUFFICES ASSUME Init PROVE IInv
  OBVIOUS
<1>1. /\ job \in [Notifiers -> JobRecords] /\ \A n \in Notifiers : job[n].kind = "none" /\ job[n].pc = "off"
  BY OffIs DEF Init
<1>2. Len(spool) = 0 /\ spool \in Seq(Notices)
  BY EmptySeq DEF Init
<1>3. StateTypes
  <2>1. 0 \in 0..(TTL + 1)
    OBVIOUS
  <2> QED
    BY <2>1 DEF Init, StateTypes, Closed
<1>4. SystemTypes /\ HistoryTypes
  BY DEF Init, SystemTypes, HistoryTypes, Fates
<1>5. SendTypes
  BY <1>2 DEF Init, SendTypes
<1>6. Exclusive
  BY <1>1 DEF Exclusive, Holds
<1>7. Jobs /\ Locked /\ Folded
  BY <1>1, <1>2 DEF Jobs, Carries, Locked, Folded, Init
<1>8. Ordered
  BY <1>1, <1>2 DEF Ordered, Carries, Init
<1> QED
  BY <1>1, <1>3, <1>4, <1>5, <1>6, <1>7, <1>8 DEF IInv, Types

-----------------------------------------------------------------------------
(* The notifiers.                                                          *)

\* A notifier that carries nothing from now on: it ends, waits or exercises the path.
LEMMA PutDown ==
    ASSUME IInv, NEW n \in Notifiers,
           job' \in [Notifiers -> JobRecords], \A m \in Notifiers \ {n} : job'[m] = job[m],
           job'[n].kind = "none", job'[n].pc \in {"off", "waiting", "exercising"},
           job'[n].pc = "exercising" => n[2] = "failure" /\ Free(n[1]),
           lock' = lock \/ lock' = Unlocked(n), UNCHANGED <<flush, spool, newest, made, alarm>>
    PROVE  /\ SendTypes' /\ Exclusive' /\ Jobs' /\ Locked' /\ Ordered' /\ Folded'
           /\ \A m \in Notifiers : job'[m].pc = "recording" => job'[m] = job[m]
<1> USE Facts
<1>1. SendTypes'
  BY DEF SendTypes, Unlocked
<1>2. Exclusive'
  <2>1. ASSUME NEW m \in Notifiers, m # n, m[1] = n[1], job'[n].pc = "exercising" PROVE ~Holds(m)
    BY <2>1 DEF Free
  <2> QED
    BY <2>1 DEF Exclusive, Holds
<1>3. Jobs'
  BY DEF Jobs, Carries
<1>4. Locked'
  BY NotifiersAre DEF Locked, Unlocked
<1>5. Ordered'
  BY DEF Ordered, Carries
<1>6. Folded'
  BY DEF Folded
<1> QED
  BY <1>1, <1>2, <1>3, <1>4, <1>5, <1>6

LEMMA StartedIs ==
    ASSUME IInv, NEW n \in Notifiers, job' = Started(n)
    PROVE  /\ job' \in [Notifiers -> JobRecords] /\ \A m \in Notifiers \ {n} : job'[m] = job[m]
           /\ \/ job' = job
              \/ job'[n].kind = "none" /\ job'[n].pc = "waiting"
<1>1. CASE job[n].pc = "off"
  <2>1. job[n].kind = "none"
    BY <1>1 DEF IInv, Jobs, Carries
  <2> QED
    BY <1>1, <2>1, JobMoves, Facts DEF Started, Pcs
<1>2. CASE job[n].pc # "off"
  BY <1>2, Facts DEF Started
<1> QED
  BY <1>1, <1>2

\* Nothing of what the invariant is about changes.
LEMMA SameKeeps ==
    ASSUME IInv, UNCHANGED <<job, flush, lock, spool, incident, newest, alarm, made>>,
           SystemTypes', HistoryTypes'
    PROVE  IInv'
<1> USE Facts
<1>1. StateTypes' /\ SendTypes' /\ job' \in [Notifiers -> JobRecords] /\ Exclusive'
  BY DEF StateTypes, SendTypes, Exclusive, Holds
<1>2. Jobs' /\ Locked' /\ Ordered' /\ Folded'
  BY DEF Jobs, Carries, Locked, Ordered, Folded
<1> QED
  BY <1>1, <1>2 DEF IInv, Types

LEMMA StartKeeps ==
    ASSUME IInv, NEW n \in Notifiers, job' = Started(n), SystemTypes',
           UNCHANGED <<flush, lock, spool, incident, newest, alarm, made, history>>
    PROVE  IInv'
<1> USE Facts
<1>1. HistoryTypes' /\ StateTypes'
  BY DEF HistoryTypes, history, StateTypes
<1>2. CASE job' = job
  BY <1>1, <1>2, SameKeeps
<1>3. CASE job' # job
  <2>1. /\ SendTypes' /\ Exclusive' /\ Jobs' /\ Locked' /\ Ordered' /\ Folded'
        /\ \A m \in Notifiers : job'[m].pc = "recording" => job'[m] = job[m]
    BY <1>3, StartedIs, PutDown
  <2> QED
    BY <1>1, <2>1, StartedIs DEF IInv, Types
<1> QED
  BY <1>2, <1>3

LEMMA SystemdKeeps ==
    ASSUME NEW u \in Units
    PROVE  IInv /\ (RunStarts(u) \/ \E r \in {"success", "failed"} : RunEnds(u, r)) => IInv'
<1> USE Facts
<1>1. ASSUME IInv, RunStarts(u) PROVE IInv'
  <2>1. SystemTypes' /\ HistoryTypes'
    BY <1>1 DEF RunStarts, SystemTypes, HistoryTypes, history
  <2> QED
    BY <1>1, <2>1, SameKeeps DEF RunStarts, node, n8n, history
<1>2. ASSUME IInv, NEW r \in {"success", "failed"}, RunEnds(u, r) PROVE IInv'
  <2>1. SystemTypes'
    BY <1>2 DEF RunEnds, SystemTypes
  <2>2. PICK n \in Notifiers : job' = Started(n)
    BY <1>2, NotifiersAre DEF RunEnds
  <2> QED
    BY <1>2, <2>1, <2>2, StartKeeps DEF RunEnds, node, n8n, history
<1> QED
  BY <1>1, <1>2

LEMMA HandKeeps == ASSUME NEW n \in Notifiers PROVE IInv /\ Hand(n) => IInv'
<1> SUFFICES ASSUME IInv, Hand(n) PROVE IInv'
  OBVIOUS
<1>1. SystemTypes'
  BY Facts DEF Hand, SystemTypes
<1> QED
  BY <1>1, StartKeeps DEF Hand, node, n8n, history

LEMMA PutDownKeeps ==
    ASSUME IInv, NEW n \in Notifiers,
           job' \in [Notifiers -> JobRecords], \A m \in Notifiers \ {n} : job'[m] = job[m],
           job'[n].kind = "none", job'[n].pc \in {"off", "waiting", "exercising"},
           job'[n].pc = "exercising" => n[2] = "failure" /\ Free(n[1]),
           lock' = lock \/ lock' = Unlocked(n), UNCHANGED <<flush, spool, newest, made, alarm>>,
           SystemTypes', HistoryTypes', StateTypes'
    PROVE  IInv'
<1>1. /\ SendTypes' /\ Exclusive' /\ Jobs' /\ Locked' /\ Ordered' /\ Folded'
      /\ \A m \in Notifiers : job'[m].pc = "recording" => job'[m] = job[m]
  BY PutDown
<1> QED
  BY <1>1 DEF IInv, Types

LEMMA ExitIs ==
    ASSUME IInv, NEW n \in Notifiers, Exit(n)
    PROVE  /\ job' \in [Notifiers -> JobRecords] /\ \A m \in Notifiers \ {n} : job'[m] = job[m]
           /\ job'[n].kind = "none" /\ job'[n].pc = "off" /\ lock' = Unlocked(n)
BY Facts, JobBecomes, OffIs DEF Exit

LEMMA DieKeeps == ASSUME NEW n \in Notifiers PROVE IInv /\ Die(n) => IInv'
<1> SUFFICES ASSUME IInv, Die(n) PROVE IInv'
  OBVIOUS
<1>1. SystemTypes' /\ HistoryTypes' /\ StateTypes'
  BY Facts DEF Die, SystemTypes, systemd, HistoryTypes, history, StateTypes, node
<1>2. Exit(n) /\ UNCHANGED <<flush, spool, newest, made, alarm>>
  BY DEF Die, node, n8n, history
<1> QED
  BY <1>1, <1>2, ExitIs, PutDownKeeps

\* The notifier is there, carrying nothing.
LEMMA WaitingIs ==
    ASSUME IInv, NEW n \in Notifiers, job[n].pc \in {"off", "waiting", "exercising"}
    PROVE  job[n].kind = "none"
BY DEF IInv, Jobs, Carries

LEMMA SilentKeeps == ASSUME NEW u \in Units PROVE IInv /\ Silent(u) => IInv'
<1> SUFFICES ASSUME IInv, Silent(u) PROVE IInv'
  OBVIOUS
<1> DEFINE n == <<u, "failure">>
<1>1. n \in Notifiers
  BY NotifiersAre
<1>2. Live(u)
  BY DEF Silent, Silenced
<1>3. quiet' = [quiet EXCEPT ![u] = 0] /\ UNCHANGED <<incident, since, pageOut>>
  BY <1>2 DEF Silent, Fails
<1>4. 0 \in 0..(TTL + 1)
  OBVIOUS
<1>5. SystemTypes' /\ HistoryTypes' /\ StateTypes'
  BY <1>3, <1>4, Facts DEF Silent, SystemTypes, systemd, HistoryTypes, StateTypes
<1>6. Exit(n) /\ UNCHANGED <<flush, spool, newest, made, alarm>>
  BY DEF Silent, n8n
<1> QED
  BY <1>1, <1>3, <1>5, <1>6, ExitIs, PutDownKeeps

LEMMA FoldKeeps == ASSUME NEW u \in Units PROVE IInv /\ Fold(u) => IInv'
<1> SUFFICES ASSUME IInv, Fold(u) PROVE IInv'
  OBVIOUS
<1> DEFINE n == <<u, "failure">>
<1>1. n \in Notifiers
  BY NotifiersAre
<1>2. 0 \in 0..(TTL + 1)
  OBVIOUS
<1>3. StateTypes'
  BY <1>2, Facts DEF Fold, StateTypes
<1>4. SystemTypes' /\ HistoryTypes'
  BY <1>2, Facts DEF Fold, SystemTypes, systemd, HistoryTypes
<1>5. Exit(n) /\ UNCHANGED <<flush, spool, newest, made, alarm>>
  BY DEF Fold, n8n
<1> QED
  BY <1>1, <1>3, <1>4, <1>5, ExitIs, PutDownKeeps

LEMMA ExerciseKeeps == ASSUME NEW u \in Units PROVE IInv /\ (Exercise(u) \/ Exercised(u)) => IInv'
<1> DEFINE n == <<u, "failure">>
<1>1. n \in Notifiers /\ n[1] = u /\ n[2] = "failure"
  BY NotifiersAre
<1>2. ASSUME IInv, Exercise(u) PROVE IInv'
  <2>1. SystemTypes' /\ HistoryTypes' /\ StateTypes'
    BY <1>2, Facts DEF Exercise, SystemTypes, systemd, HistoryTypes, history, StateTypes, node
  <2>2. job[n].pc = "waiting" /\ Free(u) /\ job' = [job EXCEPT ![n].pc = "exercising"]
    BY <1>2, <1>1 DEF Exercise, Waiting
  <2>3. job[n].kind = "none"
    BY <1>1, <1>2, <2>2, WaitingIs
  <2>4. /\ job' \in [Notifiers -> JobRecords] /\ \A m \in Notifiers \ {n} : job'[m] = job[m]
        /\ job'[n].kind = "none" /\ job'[n].pc = "exercising"
    BY <1>1, <1>2, <2>2, <2>3, Facts, JobMoves DEF Pcs
  <2>5. UNCHANGED <<flush, lock, spool, newest, made, alarm>>
    BY <1>2 DEF Exercise, node, n8n, history
  <2> QED
    BY <1>1, <1>2, <2>1, <2>2, <2>4, <2>5, PutDownKeeps
<1>3. ASSUME IInv, Exercised(u) PROVE IInv'
  <2>1. SystemTypes' /\ HistoryTypes' /\ StateTypes'
    BY <1>3, Facts DEF Exercised, SystemTypes, systemd, HistoryTypes, history, StateTypes, node
  <2>2. Exit(n) /\ UNCHANGED <<flush, spool, newest, made, alarm>>
    BY <1>3 DEF Exercised, node, n8n, history
  <2> QED
    BY <1>1, <1>3, <2>1, <2>2, ExitIs, PutDownKeeps
<1> QED
  BY <1>2, <1>3

\* A notice made is the newest of its unit, and its unit has no other.
LEMMA MakeKeeps ==
    ASSUME IInv, NEW n \in Notifiers, Waiting(n), NEW kind \in Kinds,
           kind \in Pages <=> n[2] = "failure", kind = "again" => ~Kept(n[1]), Makes(n, kind),
           UNCHANGED <<flush, lock, spool, newest, alarm>>
    PROVE  /\ SendTypes' /\ job' \in [Notifiers -> JobRecords] /\ Exclusive'
           /\ Jobs' /\ Locked' /\ Ordered' /\ Folded'
           /\ \A m \in Notifiers : job'[m].pc = "recording" => job'[m] = job[m] /\ m[1] # n[1]
<1> USE Facts
<1> DEFINE u == n[1]
           r == [pc |-> "made", kind |-> kind, id |-> made[u] + 1]
<1>1. u \in Units /\ made[u] \in Nat
  BY NotifiersAre DEF SendTypes
<1>2. r \in JobRecords
  BY <1>1 DEF JobRecords, Pcs
<1>3. /\ job' \in [Notifiers -> JobRecords] /\ job'[n] = r
      /\ \A m \in Notifiers \ {n} : job'[m] = job[m]
  BY <1>2, JobBecomes DEF Makes
<1>4. /\ made' \in [Units -> Nat] /\ made'[u] = made[u] + 1
      /\ \A v \in Units \ {u} : made'[v] = made[v]
  BY <1>1 DEF Makes, SendTypes
<1> HIDE DEF r
<1>5. job'[n].pc = "made" /\ job'[n].kind = kind /\ job'[n].id = made[u] + 1
  BY <1>3 DEF r
<1>6. \A m \in Notifiers : m[1] = u => ~Holds(m)
  BY DEF Waiting, Free
<1>7. \A m \in Notifiers \ {n} : m[1] = u => job'[m].kind = "none" /\ job'[m].pc \in {"off", "waiting"}
  BY <1>3, <1>6 DEF Holds, Jobs, Carries
<1>8. SendTypes'
  BY <1>4 DEF SendTypes
<1>9. Exclusive'
  BY <1>3, <1>6 DEF Exclusive, Holds
<1>10. Jobs'
  BY <1>3, <1>5 DEF Jobs, Carries, Kinds
<1>11. Locked'
  BY <1>3, <1>5 DEF Locked
<1>12. Ordered'
  <2>0. \A v \in Units : made[v] \in Nat /\ newest[v] \in Nat
    BY DEF SendTypes
  <2>1. \A v \in Units : made[v] <= made'[v] /\ made[v] \in Nat /\ made'[v] \in Nat /\ newest[v] \in Nat
    BY <1>4, <2>0
  <2>2. \A k \in 1..Len(spool) : spool[k].unit \in Units /\ spool[k].id \in Nat
    BY SpoolIs
  <2>3. \A v \in Units : newest'[v] <= made'[v]
    BY <2>1 DEF Ordered
  <2>4. \A k \in 1..Len(spool) : spool[k].id <= made'[spool[k].unit]
    BY <2>1, <2>2 DEF Ordered
  <2>5. newest[u] <= made[u] + 1 /\ \A k \in 1..Len(spool) : spool[k].unit = u => spool[k].id < made[u] + 1
    BY <1>1, <2>1, <2>2 DEF Ordered
  <2>6. ASSUME NEW m \in Notifiers \ {n}, Carries(m)' PROVE m[1] \in Units \ {u} /\ Carries(m) /\ job'[m] = job[m]
    BY <2>6, <1>3, <1>7, NotifiersAre DEF Carries
  <2>7. ASSUME NEW k \in 1..Len(spool), spool[k].unit = u PROVE spool[k].id <= made[u] + 1
    BY <1>1, <2>2, <2>5, <2>7
  <2>8. ASSUME NEW m \in Notifiers, Carries(m)'
        PROVE  /\ newest[m[1]] <= job'[m].id /\ job'[m].id <= made'[m[1]]
               /\ \A k \in 1..Len(spool) : spool[k].unit = m[1] =>
                     /\ spool[k].id <= job'[m].id
                     /\ job'[m].pc # "recording" => spool[k].id < job'[m].id
                     /\ job'[m].pc # "sending"
    <3>1. CASE m = n
      BY <1>1, <1>4, <1>5, <2>5, <2>7, <3>1
    <3>2. CASE m # n
      <4>1. m[1] \in Units \ {u} /\ Carries(m) /\ job'[m] = job[m]
        BY <2>6, <2>8, <3>2
      <4> QED
        BY <1>4, <2>8, <4>1 DEF Ordered
    <3> QED
      BY <3>1, <3>2
  <2>9. \A j, k \in 1..Len(spool) : j < k /\ spool[j].unit = spool[k].unit => spool[j].id < spool[k].id
    BY DEF Ordered
  <2>10. \A k \in 1..Len(spool) : newest[spool[k].unit] <= spool[k].id
    BY DEF Ordered
  <2> QED
    BY <2>3, <2>4, <2>8, <2>9, <2>10 DEF Ordered
<1>13. Folded'
  BY <1>3, <1>5 DEF Folded, Kept
<1>14. \A m \in Notifiers : job'[m].pc = "recording" => job'[m] = job[m] /\ m[1] # u
  BY <1>3, <1>5, <1>7
<1> QED
  BY <1>3, <1>8, <1>9, <1>10, <1>11, <1>12, <1>13, <1>14

LEMMA RecoverKeeps == ASSUME NEW u \in Units PROVE IInv /\ Recover(u) => IInv'
<1> SUFFICES ASSUME IInv, Recover(u) PROVE IInv'
  OBVIOUS
<1> DEFINE n == <<u, "recovered">>
<1>1. n \in Notifiers /\ n[1] = u /\ n[2] # "failure"
  BY NotifiersAre
<1>2. UNCHANGED <<flush, spool, newest, alarm>>
  BY DEF Recover, node, n8n, history
<1>3. SystemTypes' /\ HistoryTypes' /\ StateTypes'
  BY Facts DEF Recover, SystemTypes, systemd, HistoryTypes, history, StateTypes, node
<1>4. CASE Makes(n, "recovered") /\ UNCHANGED lock
  <2>1. Waiting(n) /\ "recovered" \in Kinds /\ "recovered" \notin Pages
    BY DEF Recover, Kinds, Pages
  <2>2. /\ SendTypes' /\ job' \in [Notifiers -> JobRecords] /\ Exclusive'
        /\ Jobs' /\ Locked' /\ Ordered' /\ Folded'
        /\ \A m \in Notifiers : job'[m].pc = "recording" => job'[m] = job[m]
    BY <1>1, <1>2, <1>4, <2>1, MakeKeeps
  <2> QED
    BY <1>3, <2>2 DEF IInv, Types
<1>5. CASE Exit(n) /\ UNCHANGED made
  BY <1>1, <1>2, <1>3, <1>5, ExitIs, PutDownKeeps
<1> QED
  BY <1>4, <1>5 DEF Recover

LEMMA PageKeeps == ASSUME NEW u \in Units PROVE IInv /\ Page(u) => IInv'
<1> SUFFICES ASSUME IInv, Page(u) PROVE IInv'
  OBVIOUS
<1> DEFINE n == <<u, "failure">>
<1>1. n \in Notifiers /\ n[1] = u /\ n[2] = "failure" /\ Waiting(n)
  BY NotifiersAre DEF Page
<1>2. UNCHANGED <<flush, lock, spool, newest, alarm>> /\ SystemTypes'
  BY Facts DEF Page, SystemTypes, systemd, n8n
<1>3. PICK kind \in {"first", "again"} : Makes(n, kind) /\ (kind = "again" => ~Kept(u))
  BY DEF Page
<1>4. /\ SendTypes' /\ job' \in [Notifiers -> JobRecords] /\ Exclusive'
      /\ Jobs' /\ Locked' /\ Ordered' /\ Folded'
      /\ \A m \in Notifiers : job'[m].pc = "recording" => job'[m] = job[m] /\ m[1] # u
  <2>1. kind \in Kinds /\ kind \in Pages
    BY DEF Kinds, Pages
  <2> QED
    BY <1>1, <1>2, <1>3, <2>1, MakeKeeps
<1>5. 0 \in 0..(TTL + 1)
  OBVIOUS
<1>6. Fails(u) /\ quiet' = [quiet EXCEPT ![u] = 0] /\ dropped' = dropped
  BY DEF Page, Fails
<1>7. HistoryTypes' /\ StateTypes'
  <2>1. CASE Live(u)
    <3>1. UNCHANGED <<incident, since, pageOut>>
      BY <1>6, <2>1 DEF Fails
    <3> QED
      BY <1>5, <1>6, <3>1, Facts DEF HistoryTypes, StateTypes
  <2>2. CASE ~Live(u)
    <3>1. /\ incident' = [incident EXCEPT ![u] = [Closed EXCEPT !.open = TRUE]]
          /\ since' = [since EXCEPT ![u] = made[u]]
          /\ pageOut' = [pageOut EXCEPT ![u] = "no"]
      BY <1>6, <2>2 DEF Fails
    <3>2. [Closed EXCEPT !.open = TRUE] \in [open : BOOLEAN, sent : BOOLEAN, age : 0..(TTL + 1)]
      BY <1>5 DEF Closed
    <3>3. made[u] \in Nat
      BY Facts DEF SendTypes
    <3> QED
      BY <1>5, <1>6, <3>1, <3>2, <3>3, Facts DEF HistoryTypes, StateTypes, Fates
  <2> QED
    BY <2>1, <2>2
<1> QED
  BY <1>2, <1>4, <1>7 DEF IInv, Types

\* A notifier that carries a notice is the only one of its unit that does, or is past its lock.
LEMMA OnlyCarrier ==
    ASSUME IInv, NEW n \in Notifiers, Carries(n), NEW m \in Notifiers, m # n, m[1] = n[1]
    PROVE  ~Carries(m) /\ ~Holds(m)
BY Facts DEF Exclusive, Holds, Jobs, Carries

\* It goes on with its notice; what it sends and what it records is said apart.
LEMMA GoOn ==
    ASSUME IInv, NEW n \in Notifiers, Carries(n),
           NEW pc \in Pcs \ {"off", "waiting", "exercising"}, job' = [job EXCEPT ![n].pc = pc]
    PROVE  /\ job' \in [Notifiers -> JobRecords] /\ Exclusive' /\ Jobs'
           /\ job'[n].pc = pc /\ job'[n].kind = job[n].kind /\ job'[n].id = job[n].id
           /\ \A m \in Notifiers \ {n} : job'[m] = job[m]
<1>1. /\ job' \in [Notifiers -> JobRecords]
      /\ job'[n].pc = pc /\ job'[n].kind = job[n].kind /\ job'[n].id = job[n].id
      /\ \A m \in Notifiers \ {n} : job'[m] = job[m]
  BY Facts, JobMoves DEF Pcs
<1>2. Holds(n)
  BY Facts DEF Jobs, Carries, Holds
<1>3. Exclusive'
  BY <1>1, <1>2, Facts DEF Exclusive, Holds
<1>4. Jobs'
  BY <1>1, Facts DEF Jobs, Carries
<1> QED
  BY <1>1, <1>3, <1>4

LEMMA ChooseKeeps == ASSUME NEW n \in Notifiers PROVE IInv /\ Choose(n) => IInv'
<1> SUFFICES ASSUME IInv, Choose(n) PROVE IInv'
  OBVIOUS
<1> USE Facts
<1>1. Carries(n) /\ job[n].pc = "made"
  BY DEF Choose, Jobs
<1>2. PICK pc \in {"sending", "queueing"} :
         job' = [job EXCEPT ![n].pc = pc] /\ (pc = "sending" => lock = NoOne /\ spool = <<>>)
  BY DEF Choose, Sends
<1>3. /\ job' \in [Notifiers -> JobRecords] /\ Exclusive' /\ Jobs'
      /\ job'[n].pc = pc /\ job'[n].kind = job[n].kind /\ job'[n].id = job[n].id
      /\ \A m \in Notifiers \ {n} : job'[m] = job[m]
  BY <1>1, <1>2, GoOn DEF Pcs
<1>4. UNCHANGED <<flush, spool, newest, alarm, made>>
  BY DEF Choose, node, n8n, history
<1>5. SystemTypes' /\ StateTypes' /\ HistoryTypes' /\ SendTypes'
  BY <1>4 DEF Choose, SystemTypes, systemd, HistoryTypes, history, StateTypes, SendTypes, node
<1>6. lock' = IF lock = NoOne THEN n ELSE lock
  BY DEF Choose
<1>7. Locked'
  BY <1>2, <1>3, <1>4, <1>6, NotifiersAre DEF Locked
<1>8. Ordered'
  <2>1. pc = "sending" => Len(spool) = 0
    BY <1>2
  <2>2. ASSUME NEW m \in Notifiers, Carries(m)'
        PROVE  /\ newest[m[1]] <= job'[m].id /\ job'[m].id <= made[m[1]]
               /\ \A k \in 1..Len(spool) : spool[k].unit = m[1] =>
                     /\ spool[k].id <= job'[m].id
                     /\ job'[m].pc # "recording" => spool[k].id < job'[m].id
                     /\ job'[m].pc # "sending"
    <3>1. CASE m = n
      BY <1>1, <1>3, <2>1, <3>1 DEF Ordered
    <3>2. CASE m # n
      BY <1>3, <2>2, <3>2 DEF Ordered, Carries
    <3> QED
      BY <3>1, <3>2
  <2> QED
    BY <1>4, <2>2 DEF Ordered
<1>9. Folded'
  BY <1>1, <1>3, <1>4 DEF Folded
<1> QED
  BY <1>3, <1>5, <1>7, <1>8, <1>9 DEF IInv, Types

\* What n8n has of a unit is never ahead of what the notifier hands over.
LEMMA TakeIs ==
    ASSUME SendTypes, NEW u \in Units, NEW kind, NEW id \in Nat, Take(u, kind, id)
    PROVE  /\ alarm' \in [Units -> {"open", "closed"}] /\ newest' \in [Units -> Nat]
           /\ newest'[u] = id /\ \A v \in Units \ {u} : newest'[v] = newest[v]
BY DEF SendTypes, Take

LEMMA TakenHistory ==
    ASSUME HistoryTypes, NEW u \in Units, NEW kind, NEW id,
           UNCHANGED pageOut \/ Take(u, kind, id), UNCHANGED <<since, quiet, dropped>>
    PROVE  HistoryTypes'
<1>1. pageOut' \in [Units -> Fates]
  BY DEF HistoryTypes, Take, Fates
<1> QED
  BY <1>1 DEF HistoryTypes

\* The end of a try to send: n8n has it or not, and the notice is recorded or kept next.
LEMMA TriedKeeps ==
    ASSUME IInv, NEW n \in Notifiers, job[n].pc = "sending",
           NEW pc \in {"recording", "keeping"}, job' = [job EXCEPT ![n].pc = pc],
           UNCHANGED <<n8n, pageOut>> \/ Take(n[1], job[n].kind, job[n].id),
           UNCHANGED <<systemd, flush, lock, node, made, since, quiet, dropped, deaths>>
    PROVE  IInv'
<1> USE Facts
<1> DEFINE u == n[1]
           id == job[n].id
<1>1. Carries(n) /\ u \in Units /\ id \in Nat
  BY NotifiersAre DEF Jobs, JobRecords
<1>2. /\ job' \in [Notifiers -> JobRecords] /\ Exclusive' /\ Jobs'
      /\ job'[n].pc = pc /\ job'[n].kind = job[n].kind /\ job'[n].id = id
      /\ \A m \in Notifiers \ {n} : job'[m] = job[m]
  BY <1>1, GoOn DEF Pcs
<1>3. /\ alarm' \in [Units -> {"open", "closed"}] /\ newest' \in [Units -> Nat]
      /\ newest'[u] = newest[u] \/ newest'[u] = id
      /\ \A v \in Units \ {u} : newest'[v] = newest[v]
  BY <1>1, TakeIs DEF n8n, SendTypes
<1>4. HistoryTypes'
  BY <1>1, TakenHistory
<1>5. SystemTypes' /\ StateTypes' /\ SendTypes'
  BY <1>3 DEF SystemTypes, systemd, StateTypes, SendTypes, node
<1>6. Locked'
  BY <1>2 DEF Locked, node
<1>7. newest[u] <= id /\ id <= made[u] /\ \A k \in 1..Len(spool) : spool[k].unit # u
  BY <1>1 DEF Ordered
<1>8. Ordered'
  <2>1. \A v \in Units : newest'[v] <= made[v]
    BY <1>3, <1>7 DEF Ordered
  <2>2. \A k \in 1..Len(spool) : spool[k].unit \in Units \ {u} /\ newest'[spool[k].unit] <= spool[k].id
    BY <1>3, <1>7, SpoolIs DEF Ordered
  <2>3. ASSUME NEW m \in Notifiers, Carries(m)'
        PROVE  /\ newest'[m[1]] <= job'[m].id /\ job'[m].id <= made[m[1]]
               /\ \A k \in 1..Len(spool) : spool[k].unit = m[1] =>
                     /\ spool[k].id <= job'[m].id
                     /\ job'[m].pc # "recording" => spool[k].id < job'[m].id
                     /\ job'[m].pc # "sending"
    <3>1. CASE m = n
      BY <1>1, <1>2, <1>3, <1>7, <3>1
    <3>2. CASE m # n
      <4>1. Carries(m) /\ job'[m] = job[m] /\ m[1] \in Units \ {u}
        BY <1>1, <1>2, <2>3, <3>2, OnlyCarrier, NotifiersAre DEF Carries
      <4> QED
        BY <1>3, <4>1 DEF Ordered
    <3> QED
      BY <3>1, <3>2
  <2> QED
    BY <2>1, <2>2, <2>3 DEF Ordered, node
<1>9. Folded'
  BY <1>2, <1>7 DEF Folded, node
<1> QED
  BY <1>2, <1>4, <1>5, <1>6, <1>8, <1>9 DEF IInv, Types

LEMMA SendKeeps == ASSUME NEW n \in Notifiers PROVE IInv /\ Send(n) => IInv'
<1>1. ASSUME IInv, SendTaken(n) PROVE IInv'
  BY <1>1, TriedKeeps DEF SendTaken
<1>2. ASSUME IInv, SendFailed(n) PROVE IInv'
  BY <1>2, TriedKeeps DEF SendFailed
<1> QED
  BY <1>1, <1>2 DEF Send

LEMMA KeepKeeps == ASSUME NEW n \in Notifiers PROVE IInv /\ Keep(n) => IInv'
<1> SUFFICES ASSUME IInv, Keep(n) PROVE IInv'
  OBVIOUS
<1> USE Facts
<1> DEFINE u == n[1]
           e == [unit |-> u, kind |-> job[n].kind, id |-> job[n].id, age |-> 0]
           top == Len(spool) + 1
<1>1. Carries(n) /\ u \in Units /\ job[n].id \in Nat /\ job[n].pc \in {"keeping", "queueing"}
      /\ job[n].kind \in Kinds
  BY NotifiersAre DEF Keep, Jobs, JobRecords, Carries
<1>2. /\ job' \in [Notifiers -> JobRecords] /\ Exclusive' /\ Jobs'
      /\ job'[n].pc = "recording" /\ job'[n].kind = job[n].kind /\ job'[n].id = job[n].id
      /\ \A m \in Notifiers \ {n} : job'[m] = job[m]
  <2>1. job' = [job EXCEPT ![n].pc = "recording"] /\ "recording" \in Pcs \ {"off", "waiting", "exercising"}
    BY DEF Keep, Pcs
  <2> QED
    BY <1>1, <2>1, GoOn
<1>3. UNCHANGED <<lock, newest, alarm, made, incident, history>>
  BY DEF Keep, n8n
<1>4. e \in Notices
  BY <1>1 DEF Notices
<1>5. spool \in Seq(Notices) /\ Len(spool) \in Nat
  BY DEF SendTypes
<1> HIDE DEF e
<1>6. spool' = Append(spool, e)
  BY DEF Keep, e
<1>7. /\ spool' \in Seq(Notices) /\ Len(spool') = top /\ spool'[top] = e
      /\ \A k \in 1..Len(spool) : spool'[k] = spool[k]
  BY <1>4, <1>5, <1>6
<1>8. \A k \in 1..top : k \in 1..Len(spool) \/ k = top
  BY <1>5
<1>9. e.unit = u /\ e.kind = job[n].kind /\ e.id = job[n].id
  BY DEF e
<1>11. flush' \in {"off", "waiting", "locked", "going", "removing"}
       /\ (flush' \in {"locked", "going", "removing"} => flush' = flush)
  BY DEF Keep, FlushStarted, SendTypes
<1>12. SystemTypes' /\ StateTypes' /\ HistoryTypes' /\ SendTypes'
  BY <1>3, <1>7, <1>11 DEF Keep, SystemTypes, systemd, HistoryTypes, history, StateTypes, SendTypes
<1>13. Locked'
  <2>1. spool' # <<>>
    BY <1>5, <1>7
  <2> QED
    BY <1>2, <1>3, <1>11, <2>1 DEF Locked
<1>14. /\ newest[u] <= job[n].id /\ job[n].id <= made[u]
       /\ \A k \in 1..Len(spool) : spool[k].unit = u => spool[k].id < job[n].id
  BY <1>1 DEF Ordered
<1>15. Ordered'
  <2>1. \A k \in 1..top : newest[spool'[k].unit] <= spool'[k].id /\ spool'[k].id <= made[spool'[k].unit]
    BY <1>7, <1>8, <1>9, <1>14 DEF Ordered
  <2>2. ASSUME NEW j \in 1..top, NEW k \in 1..top, j < k, spool'[j].unit = spool'[k].unit
        PROVE  spool'[j].id < spool'[k].id
    <3>1. j \in 1..Len(spool)
      BY <1>5, <2>2
    <3> QED
      BY <1>7, <1>8, <1>9, <1>14, <2>2, <3>1 DEF Ordered
  <2>3. ASSUME NEW m \in Notifiers, Carries(m)'
        PROVE  /\ newest[m[1]] <= job'[m].id /\ job'[m].id <= made[m[1]]
               /\ \A k \in 1..top : spool'[k].unit = m[1] =>
                     /\ spool'[k].id <= job'[m].id
                     /\ job'[m].pc # "recording" => spool'[k].id < job'[m].id
                     /\ job'[m].pc # "sending"
    <3>1. CASE m = n
      <4>1. \A k \in 1..top : spool'[k].unit = u => spool'[k].id <= job[n].id
        BY <1>1, <1>5, <1>7, <1>8, <1>9, <1>14, SpoolIs
      <4> QED
        BY <1>2, <1>14, <3>1, <4>1
    <3>2. CASE m # n
      <4>1. Carries(m) /\ job'[m] = job[m] /\ m[1] # u
        BY <1>1, <1>2, <2>3, <3>2, OnlyCarrier DEF Carries
      <4> QED
        BY <1>7, <1>8, <1>9, <4>1 DEF Ordered
    <3> QED
      BY <3>1, <3>2
  <2>4. \A v \in Units : newest[v] <= made[v]
    BY DEF Ordered
  <2> QED
    BY <1>3, <1>7, <2>1, <2>2, <2>3, <2>4 DEF Ordered
<1>17. Folded'
  <2>1. job[n].kind = "again" => \A k \in 1..Len(spool) : spool[k].unit # u
    BY <1>1 DEF Folded
  <2>2. ASSUME NEW j \in 1..top, NEW k \in 1..top, j < k, spool'[j].unit = spool'[k].unit
        PROVE  spool'[k].kind # "again"
    <3>1. j \in 1..Len(spool)
      BY <1>5, <2>2
    <3>2. CASE k = top
      BY <1>7, <1>9, <2>1, <2>2, <3>1, <3>2
    <3>3. CASE k # top
      <4>1. k \in 1..Len(spool)
        BY <1>8, <3>3
      <4> QED
        BY <1>7, <2>2, <3>1, <4>1 DEF Folded
    <3> QED
      BY <3>2, <3>3
  <2>3. ASSUME NEW m \in Notifiers, job'[m].kind = "again", job'[m].pc # "recording", NEW k \in 1..top
        PROVE  spool'[k].unit # m[1]
    <3>1. m # n /\ job'[m] = job[m] /\ Carries(m)
      BY <1>2, <2>3 DEF Carries
    <3>2. m[1] # u
      BY <1>1, <3>1, OnlyCarrier
    <3> QED
      BY <1>7, <1>8, <1>9, <2>3, <3>1, <3>2 DEF Folded
  <2> QED
    BY <1>7, <2>2, <2>3 DEF Folded
<1> QED
  BY <1>2, <1>12, <1>13, <1>15, <1>17 DEF IInv, Types

LEMMA RecordKeeps == ASSUME NEW n \in Notifiers PROVE IInv /\ Record(n) => IInv'
<1> SUFFICES ASSUME IInv, Record(n) PROVE IInv'
  OBVIOUS
<1> USE Facts
<1> DEFINE u == n[1]
           page == job[n].kind \in Pages
           state == IF page THEN [open |-> TRUE, sent |-> TRUE, age |-> 0] ELSE Closed
<1>1. Carries(n) /\ u \in Units
  BY NotifiersAre DEF Record, Jobs
<1>2. Exit(n) /\ UNCHANGED <<flush, spool, newest, made, alarm>>
  BY DEF Record, n8n
<1>3. /\ job' \in [Notifiers -> JobRecords] /\ \A m \in Notifiers \ {n} : job'[m] = job[m]
      /\ job'[n].kind = "none" /\ job'[n].pc = "off" /\ lock' = Unlocked(n)
  BY <1>2, ExitIs
<1>4. /\ SendTypes' /\ Exclusive' /\ Jobs' /\ Locked' /\ Ordered' /\ Folded'
  BY <1>2, <1>3, PutDown
<1>5. state \in [open : BOOLEAN, sent : BOOLEAN, age : 0..(TTL + 1)]
  <2>1. 0 \in 0..(TTL + 1)
    OBVIOUS
  <2> QED
    BY <2>1 DEF Closed
<1> HIDE DEF state
<1>6. incident' = [incident EXCEPT ![u] = state]
  BY DEF Record, state
<1>7. StateTypes'
  BY <1>1, <1>5, <1>6 DEF StateTypes
<1>8. SystemTypes' /\ HistoryTypes'
  BY DEF Record, SystemTypes, systemd, HistoryTypes, history
<1> QED
  BY <1>3, <1>4, <1>7, <1>8 DEF IInv, Types

-----------------------------------------------------------------------------
(* The flush, the clock and the reboot.                                    *)

FlushPcs == {"off", "waiting", "locked", "going", "removing"}

\* The flush takes the lock, or gives it back, and the notifiers are as they were.
LEMMA FlushGoes ==
    ASSUME IInv, UNCHANGED <<job, incident, made>>, SystemTypes', HistoryTypes',
           flush' \in FlushPcs, lock' \in Notifiers \cup {Flusher, NoOne},
           spool' \in Seq(Notices), Locked', Ordered', Folded',
           alarm' \in [Units -> {"open", "closed"}], newest' \in [Units -> Nat]
    PROVE  IInv'
<1> USE Facts
<1>1. StateTypes' /\ SendTypes' /\ job' \in [Notifiers -> JobRecords] /\ Exclusive'
  BY DEF StateTypes, SendTypes, FlushPcs, Exclusive, Holds
<1>2. Jobs'
  BY DEF Jobs, Carries
<1> QED
  BY <1>1, <1>2 DEF IInv, Types

\* Its steps that touch neither the spool nor n8n.
LEMMA FlushMoves ==
    ASSUME IInv, UNCHANGED <<job, incident, made, spool, newest, alarm>>, SystemTypes', HistoryTypes',
           flush' \in FlushPcs, lock' \in Notifiers \cup {Flusher, NoOne}, Locked'
    PROVE  IInv'
<1>1. Ordered' /\ Folded' /\ newest \in [Units -> Nat] /\ alarm \in [Units -> {"open", "closed"}]
      /\ spool \in Seq(Notices)
  BY Facts DEF Ordered, Folded, Carries, SendTypes
<1> QED
  BY <1>1, FlushGoes

LEMMA FlushLockKeeps == IInv /\ (FlushDue \/ FlushLocks \/ FlushGivesUp \/ FlushEnds \/ FlushDies) => IInv'
<1> SUFFICES ASSUME IInv, FlushDue \/ FlushLocks \/ FlushGivesUp \/ FlushEnds \/ FlushDies PROVE IInv'
  OBVIOUS
<1> USE Facts
<1>1. UNCHANGED <<job, incident, made, spool, newest, alarm>>
  BY DEF FlushDue, FlushLocks, FlushGivesUp, FlushEnds, FlushDies, node, n8n, history
<1>2. SystemTypes' /\ HistoryTypes'
  BY DEF FlushDue, FlushLocks, FlushGivesUp, FlushEnds, FlushDies, history, systemd, SystemTypes, HistoryTypes
<1>3. flush' \in FlushPcs /\ lock' \in Notifiers \cup {Flusher, NoOne}
  BY DEF FlushDue, FlushLocks, FlushGivesUp, FlushEnds, FlushDies, FlushAt, FlushPcs, Unlocked, SendTypes
<1>4. Locked'
  <2>1. CASE FlushDue \/ FlushGivesUp
    BY <1>1, <2>1 DEF FlushDue, FlushGivesUp, Locked
  <2>2. CASE FlushLocks
    BY <1>1, <2>2, NotifiersAre DEF FlushLocks, FlushAt, Locked
  <2>3. CASE FlushEnds
    BY <1>1, <2>3, NotifiersAre DEF FlushEnds, FlushAt, Locked
  <2>4. CASE FlushDies
    BY <1>1, <2>4, NotifiersAre DEF FlushDies, Unlocked, Locked
  <2> QED
    BY <2>1, <2>2, <2>3, <2>4
<1> QED
  BY <1>1, <1>2, <1>3, <1>4, FlushMoves

\* The oldest notice leaves the spool.
LEMMA TailKeeps ==
    ASSUME IInv, spool # <<>>, spool' = Tail(spool), UNCHANGED <<job, newest, made>>
    PROVE  spool' \in Seq(Notices) /\ Ordered' /\ Folded'
<1> USE Facts
<1>1. /\ spool' \in Seq(Notices) /\ Len(spool') = Len(spool) - 1 /\ Len(spool) \in Nat
      /\ \A k \in 1..Len(spool') : spool'[k] = spool[k + 1]
  BY DEF SendTypes
<1>2. \A k \in 1..Len(spool') : k + 1 \in 1..Len(spool)
  BY <1>1
<1>3. \A j, k \in 1..Len(spool') : j < k => j + 1 < k + 1
  BY <1>1
<1>4. Ordered'
  <2>1. \A j, k \in 1..Len(spool') : j < k /\ spool'[j].unit = spool'[k].unit => spool'[j].id < spool'[k].id
    BY <1>1, <1>2, <1>3 DEF Ordered
  <2>2. \A k \in 1..Len(spool') : newest[spool'[k].unit] <= spool'[k].id /\ spool'[k].id <= made[spool'[k].unit]
    BY <1>1, <1>2 DEF Ordered
  <2>3. ASSUME NEW m \in Notifiers, Carries(m), NEW k \in 1..Len(spool'), spool'[k].unit = m[1]
        PROVE  /\ spool'[k].id <= job[m].id
               /\ job[m].pc # "recording" => spool'[k].id < job[m].id
               /\ job[m].pc # "sending"
    BY <1>1, <1>2, <2>3 DEF Ordered
  <2>4. /\ \A v \in Units : newest[v] <= made[v]
        /\ \A m \in Notifiers : Carries(m) => newest[m[1]] <= job[m].id /\ job[m].id <= made[m[1]]
    BY DEF Ordered
  <2> QED
    BY <2>1, <2>2, <2>3, <2>4 DEF Ordered, Carries
<1>5. Folded'
  <2>1. \A j, k \in 1..Len(spool') : j < k /\ spool'[j].unit = spool'[k].unit => spool'[k].kind # "again"
    BY <1>1, <1>2, <1>3 DEF Folded
  <2>2. \A m \in Notifiers : job[m].kind = "again" /\ job[m].pc # "recording" =>
           \A k \in 1..Len(spool') : spool'[k].unit # m[1]
    BY <1>1, <1>2 DEF Folded
  <2> QED
    BY <2>1, <2>2 DEF Folded
<1> QED
  BY <1>1, <1>4, <1>5

LEMMA FlushOldestKeeps == IInv /\ (FlushDrops \/ FlushRemoves) => IInv'
<1> SUFFICES ASSUME IInv, FlushDrops \/ FlushRemoves PROVE IInv'
  OBVIOUS
<1> USE Facts
<1>1. UNCHANGED <<job, incident, made, newest, alarm>>
  BY DEF FlushDrops, FlushRemoves, n8n, history
<1>2. spool # <<>> /\ spool' = Tail(spool) /\ lock = Flusher
  BY DEF FlushDrops, FlushRemoves, AtOldest, Locked
<1>3. flush' = "going" /\ lock' = Flusher
  BY DEF FlushDrops, FlushRemoves, FlushAt
<1>4. SystemTypes' /\ HistoryTypes'
  <2>1. SystemTypes'
    BY DEF FlushDrops, FlushRemoves, systemd, SystemTypes
  <2>2. dropped' = dropped \/ dropped' = [dropped EXCEPT ![Oldest.unit] = TRUE]
    BY DEF FlushDrops, FlushRemoves, history
  <2>3. UNCHANGED <<since, quiet>>
    BY DEF FlushDrops, FlushRemoves, history
  <2>4. pageOut' \in [Units -> Fates]
    BY DEF FlushDrops, FlushRemoves, history, HistoryTypes, Fates
  <2> QED
    BY <2>1, <2>2, <2>3, <2>4 DEF HistoryTypes
<1>5. Locked'
  BY <1>1, <1>2, <1>3 DEF Locked
<1>6. spool' \in Seq(Notices) /\ Ordered' /\ Folded'
  BY <1>1, <1>2, TailKeeps
<1>7. flush' \in FlushPcs /\ lock' \in Notifiers \cup {Flusher, NoOne}
      /\ alarm' \in [Units -> {"open", "closed"}] /\ newest' \in [Units -> Nat]
  BY <1>1, <1>3 DEF FlushPcs, SendTypes
<1> QED
  BY <1>1, <1>4, <1>5, <1>6, <1>7, FlushGoes

LEMMA FlushTryKeeps == IInv /\ (FlushTaken \/ FlushFailed) => IInv'
<1> SUFFICES ASSUME IInv, FlushTaken \/ FlushFailed PROVE IInv'
  OBVIOUS
<1> USE Facts
<1>1. UNCHANGED <<job, incident, made, since, spool, quiet, dropped>>
  BY DEF FlushTaken, FlushFailed, node
<1>2. spool # <<>> /\ 1 \in 1..Len(spool)
  BY DEF FlushTaken, FlushFailed, AtOldest, SendTypes
<1> DEFINE u == Oldest.unit
           id == Oldest.id
<1>3. Oldest = spool[1] /\ u \in Units /\ id \in Nat
  BY <1>2, SpoolIs DEF Oldest
<1> HIDE DEF u, id
<1>4. UNCHANGED <<n8n, pageOut>> \/ Take(u, Oldest.kind, id)
  BY DEF FlushTaken, FlushFailed, u, id
<1>5. /\ alarm' \in [Units -> {"open", "closed"}] /\ newest' \in [Units -> Nat]
      /\ newest'[u] = newest[u] \/ newest'[u] = id
      /\ \A v \in Units \ {u} : newest'[v] = newest[v]
  BY <1>3, <1>4, TakeIs DEF n8n, SendTypes
<1>6. spool[1].unit = u /\ spool[1].id = id
  BY <1>3 DEF u, id
<1>7. newest[u] <= id /\ id <= made[u] /\ newest'[u] <= id
  BY <1>2, <1>3, <1>5, <1>6 DEF Ordered
<1>8. \A k \in 1..Len(spool) : spool[k].unit = u => id <= spool[k].id
  <2>1. ASSUME NEW k \in 1..Len(spool), spool[k].unit = u PROVE id <= spool[k].id
    <3>1. CASE k = 1
      BY <1>3, <1>6, <3>1
    <3>2. CASE k # 1
      <4>1. 1 < k
        BY <3>2
      <4>2. spool[1].id < spool[k].id
        BY <1>2, <1>6, <2>1, <4>1 DEF Ordered
      <4> QED
        BY <1>3, <1>6, <4>2, SpoolIs
    <3> QED
      BY <3>1, <3>2
  <2> QED
    BY <2>1
<1>9. Ordered'
  <2>1. \A v \in Units : newest'[v] <= made[v] /\ newest'[v] \in Nat /\ made[v] \in Nat
    BY <1>3, <1>5, <1>7, SpoolIs DEF Ordered, SendTypes
  <2>2. ASSUME NEW k \in 1..Len(spool) PROVE newest'[spool[k].unit] <= spool[k].id
    BY <1>3, <1>5, <1>8, SpoolIs DEF Ordered
  <2>3. ASSUME NEW m \in Notifiers, Carries(m) PROVE newest'[m[1]] <= job[m].id
    <3>1. CASE m[1] = u
      <4>1. id <= job[m].id
        BY <1>2, <1>6, <2>3, <3>1 DEF Ordered
      <4>2. job[m].id \in Nat /\ newest'[u] \in Nat
        BY <1>3, <1>5 DEF JobRecords
      <4> QED
        BY <1>3, <1>7, <3>1, <4>1, <4>2
    <3>2. CASE m[1] # u
      BY <1>5, <2>3, <3>2, NotifiersAre DEF Ordered
    <3> QED
      BY <3>1, <3>2
  <2> QED
    BY <1>1, <2>1, <2>2, <2>3 DEF Ordered, Carries
<1>10. Folded'
  BY <1>1 DEF Folded
<1>11. SystemTypes' /\ HistoryTypes'
  <2>1. HistoryTypes'
    BY <1>1, <1>3, <1>4, TakenHistory
  <2> QED
    BY <2>1 DEF FlushTaken, FlushFailed, systemd, SystemTypes
<1>12. flush' \in FlushPcs /\ lock' \in Notifiers \cup {Flusher, NoOne} /\ spool \in Seq(Notices)
  BY DEF FlushTaken, FlushFailed, FlushAt, FlushPcs, SendTypes
<1>13. Locked'
  <2>1. lock = Flusher
    BY DEF FlushTaken, FlushFailed, AtOldest, Locked
  <2>2. \A m \in Notifiers : job[m].pc # "sending"
    BY <2>1, NotifiersAre DEF Locked
  <2>3. flush' \in {"locked", "going", "removing"} => lock' = Flusher
    BY DEF FlushTaken, FlushFailed, FlushAt
  <2> QED
    BY <1>1, <1>2, <2>2, <2>3 DEF Locked
<1> QED
  BY <1>1, <1>5, <1>9, <1>10, <1>11, <1>12, <1>13, FlushGoes

LEMMA TickKeeps == IInv /\ Tick => IInv'
<1> SUFFICES ASSUME IInv, Tick PROVE IInv'
  OBVIOUS
<1> USE Facts
<1>1. UNCHANGED <<job, flush, lock, newest, alarm, made, since, pageOut, dropped>>
  BY DEF Tick, n8n
<1>2. \A b \in Nat : \A a \in 0..(b + 1) : Older(a, b) \in 0..(b + 1)
  BY DEF Older
<1>3. 0 \in 0..(TTL + 1) /\ TTL \in Nat /\ MaxAge \in Nat
  OBVIOUS
<1>4. StateTypes'
  <2>1. ASSUME NEW u \in Units
        PROVE  incident'[u] \in [open : BOOLEAN, sent : BOOLEAN, age : 0..(TTL + 1)]
    <3>1. incident[u] \in [open : BOOLEAN, sent : BOOLEAN, age : 0..(TTL + 1)]
      BY DEF StateTypes
    <3>2. PICK a \in 0..(TTL + 1) : incident'[u] = [incident[u] EXCEPT !.age = a]
      <4>1. Older(incident[u].age, TTL) \in 0..(TTL + 1)
        BY <1>2, <1>3, <3>1
      <4>2. incident'[u] = [incident[u] EXCEPT !.age = IF incident[u].open THEN Older(@, TTL) ELSE 0]
        BY DEF Tick
      <4>3. CASE incident[u].open
        BY <4>1, <4>2, <4>3
      <4>4. CASE ~incident[u].open
        BY <1>3, <4>2, <4>4
      <4> QED
        BY <4>3, <4>4
    <3> QED
      BY <3>1, <3>2
  <2>2. DOMAIN incident' = Units /\ incident' = [u \in Units |-> incident'[u]]
    BY DEF Tick
  <2> QED
    BY <2>1, <2>2 DEF StateTypes
<1>5. HistoryTypes'
  <2>1. ASSUME NEW u \in Units PROVE quiet'[u] \in 0..(TTL + 1)
    <3>1. quiet'[u] = IF incident[u].sent THEN Older(quiet[u], TTL) ELSE 0
      BY DEF Tick
    <3>2. Older(quiet[u], TTL) \in 0..(TTL + 1)
      BY <1>2, <1>3 DEF HistoryTypes
    <3> QED
      BY <1>3, <3>1, <3>2
  <2>2. quiet' = [u \in Units |-> quiet'[u]]
    BY DEF Tick
  <2> QED
    BY <1>1, <2>1, <2>2 DEF HistoryTypes
<1>6. SystemTypes'
  BY DEF Tick, SystemTypes, systemd
<1>7. /\ spool' \in Seq(Notices) /\ Len(spool') = Len(spool)
      /\ \A k \in 1..Len(spool) : spool'[k].unit = spool[k].unit /\ spool'[k].id = spool[k].id
                                    /\ spool'[k].kind = spool[k].kind
  <2>1. spool \in Seq(Notices) /\ DOMAIN spool = 1..Len(spool) /\ Len(spool) \in Nat
    BY DEF SendTypes
  <2>2. spool' = [k \in 1..Len(spool) |-> [spool[k] EXCEPT !.age = Older(@, MaxAge)]]
    BY <2>1 DEF Tick
  <2>3. ASSUME NEW k \in 1..Len(spool)
        PROVE  /\ [spool[k] EXCEPT !.age = Older(@, MaxAge)] \in Notices
               /\ spool'[k].unit = spool[k].unit /\ spool'[k].id = spool[k].id
               /\ spool'[k].kind = spool[k].kind
    <3>1. spool[k] \in Notices
      BY <2>1
    <3>2. Older(spool[k].age, MaxAge) \in 0..(MaxAge + 1)
      BY <1>2, <1>3, <3>1 DEF Notices
    <3> QED
      BY <2>2, <3>1, <3>2 DEF Notices
  <2>4. spool' \in [1..Len(spool) -> Notices]
    BY <2>2, <2>3
  <2>5. spool' \in Seq(Notices)
    BY <2>1, <2>4, SeqDef
  <2>6. Len(spool') = Len(spool)
    BY <2>1, <2>4, <2>5
  <2> QED
    BY <2>1, <2>3, <2>5, <2>6
<1>8. SendTypes' /\ job' \in [Notifiers -> JobRecords] /\ Exclusive'
  BY <1>1, <1>7 DEF SendTypes, Exclusive, Holds
<1>9. Jobs'
  BY <1>1 DEF Jobs, Carries
<1>10. Locked'
  <2>1. (spool = <<>>) => Len(spool) = 0
    OBVIOUS
  <2>2. spool # <<>> => spool' # <<>>
    BY <1>7 DEF SendTypes
  <2> QED
    BY <1>1, <2>2 DEF Locked
<1>11. Ordered'
  BY <1>1, <1>7 DEF Ordered, Carries
<1>12. Folded'
  BY <1>1, <1>7 DEF Folded
<1> QED
  BY <1>4, <1>5, <1>6, <1>8, <1>9, <1>10, <1>11, <1>12 DEF IInv, Types

LEMMA RebootKeeps == IInv /\ Reboot => IInv'
<1> SUFFICES ASSUME IInv, Reboot PROVE IInv'
  OBVIOUS
<1> USE Facts
<1>1. UNCHANGED <<spool, incident, newest, alarm, made, history>>
  BY DEF Reboot, node, n8n, history
<1>2. /\ job' \in [Notifiers -> JobRecords]
      /\ \A n \in Notifiers : job'[n].kind = "none" /\ job'[n].pc = "off"
  BY OffIs DEF Reboot
<1>3. SystemTypes' /\ HistoryTypes' /\ StateTypes' /\ SendTypes'
  BY <1>1 DEF Reboot, SystemTypes, HistoryTypes, history, StateTypes, SendTypes
<1>4. Exclusive' /\ Jobs'
  BY <1>1, <1>2 DEF Exclusive, Holds, Jobs, Carries
<1>5. Locked'
  BY <1>2 DEF Reboot, Locked
<1>6. Ordered' /\ Folded'
  BY <1>1, <1>2 DEF Ordered, Folded, Carries
<1> QED
  BY <1>2, <1>3, <1>4, <1>5, <1>6 DEF IInv, Types

-----------------------------------------------------------------------------
LEMMA Inductive == IInv /\ [Next]_vars => IInv'
<1> SUFFICES ASSUME IInv, [Next]_vars PROVE IInv'
  OBVIOUS
<1>1. ASSUME NEW u \in Units, RunStarts(u) \/ (\E r \in {"success", "failed"} : RunEnds(u, r)) PROVE IInv'
  BY <1>1, SystemdKeeps
<1>2. ASSUME NEW u \in Units, Decide(u) \/ Exercised(u) PROVE IInv'
  BY <1>2, PageKeeps, SilentKeeps, FoldKeeps, ExerciseKeeps, RecoverKeeps DEF Decide
<1>3. ASSUME NEW n \in Notifiers, Hand(n) \/ Deliver(n) \/ Die(n) PROVE IInv'
  BY <1>3, HandKeeps, ChooseKeeps, SendKeeps, KeepKeeps, RecordKeeps, DieKeeps DEF Deliver
<1>4. CASE FlushDue \/ Flush \/ FlushDies
  BY <1>4, FlushLockKeeps, FlushOldestKeeps, FlushTryKeeps DEF Flush
<1>5. CASE Tick \/ Reboot
  BY <1>5, TickKeeps, RebootKeeps
<1>6. CASE UNCHANGED vars
  <2>1. UNCHANGED <<job, flush, lock, spool, incident, newest, alarm, made>>
        /\ UNCHANGED <<systemd, history, deaths>>
    BY <1>6 DEF vars, node, n8n, history
  <2>2. SystemTypes' /\ HistoryTypes'
    BY <2>1, Facts DEF SystemTypes, HistoryTypes, systemd, history
  <2> QED
    BY <2>1, <2>2, SameKeeps
<1> QED
  BY <1>1, <1>2, <1>3, <1>4, <1>5, <1>6 DEF Next

LEMMA Always == Spec => []IInv
<1>1. Init => IInv
  BY InitHolds
<1>2. IInv /\ [Next]_vars => IInv'
  BY Inductive
<1> QED
  BY <1>1, <1>2, PTL DEF Spec

\* Every variable holds a value of its type, and the notifiers of a unit are past its lock
\* one at a time, whichever of them dies.
THEOREM TypeCorrect == Spec => []TypeOK
<1>1. IInv => TypeOK
  BY Facts
<1> QED
  BY <1>1, Always, PTL

\* What n8n takes of a unit it takes in the order it was made, however many units share the
\* spool, whatever dies, and whatever n8n took without saying so in time.
THEOREM InOrder == Spec => []NoOvertaking
<1>1. IInv => NoOvertaking
  <2> SUFFICES ASSUME IInv PROVE NoOvertaking
    OBVIOUS
  <2>1. \A k \in DOMAIN spool : spool[k].id >= newest[spool[k].unit]
    <3>1. DOMAIN spool = 1..Len(spool)
      BY Facts DEF SendTypes
    <3>2. \A k \in 1..Len(spool) : newest[spool[k].unit] \in Nat /\ spool[k].id \in Nat
                                    /\ newest[spool[k].unit] <= spool[k].id
      BY Facts, SpoolIs DEF SendTypes, Ordered
    <3> QED
      BY <3>1, <3>2
  <2>2. \A n \in Notifiers : job[n].kind # "none" => job[n].id >= newest[n[1]]
    <3>1. ASSUME NEW n \in Notifiers, Carries(n)
          PROVE  newest[n[1]] \in Nat /\ job[n].id \in Nat /\ newest[n[1]] <= job[n].id
      BY <3>1, Facts, NotifiersAre DEF SendTypes, JobRecords, Ordered
    <3> QED
      BY <3>1 DEF Carries
  <2> QED
    BY <2>1, <2>2 DEF NoOvertaking
<1> QED
  BY <1>1, Always, PTL

\* The spool never holds a reminder behind another notice of its unit.
THEOREM NoPile == Spec => []RemindersAreFolded
<1>1. IInv => RemindersAreFolded
  <2> SUFFICES ASSUME IInv PROVE RemindersAreFolded
    OBVIOUS
  <2>1. DOMAIN spool = 1..Len(spool)
    BY Facts DEF SendTypes
  <2> QED
    BY <2>1, Facts DEF Folded, RemindersAreFolded
<1> QED
  BY <1>1, Always, PTL

-----------------------------------------------------------------------------
(* What silences a unit.                                                   *)

\* A page of the unit's incident was taken, is kept, or was dropped.
PageIsOut(u) == pageOut[u] # "no" \/ PageKept(u)

\* The notices of an incident are made after it began.
Numbered ==
    /\ \A u \in Units : since[u] <= made[u]
    /\ \A n \in Notifiers : Carries(n) => since[n[1]] < job[n].id

SilencedOut == \A u \in Units : incident[u].sent => PageIsOut(u)

\* A page about to be recorded is out already.
RecordingOut ==
    \A n \in Notifiers : job[n].pc = "recording" /\ job[n].kind \in Pages => PageIsOut(n[1])

\* What the flush is about to remove n8n has.
RemovingOut ==
    flush = "removing" =>
        pageOut[Oldest.unit] # "no" \/ ~PageOfIncident(Oldest.unit, Oldest.kind, Oldest.id)

Recorded == Numbered /\ SilencedOut /\ RecordingOut /\ RemovingOut

\* A step that makes no notice and starts no incident, if what is out stays out.
LEMMA RecordedIf ==
    ASSUME IInv, Recorded, UNCHANGED <<since, made>>, RemovingOut',
           \A u \in Units : PageIsOut(u) => PageIsOut(u)',
           \A u \in Units : incident'[u].sent => incident[u].sent \/ PageIsOut(u),
           \A n \in Notifiers : job'[n].kind # "none" =>
               Carries(n) /\ job'[n].id = job[n].id /\ job'[n].kind = job[n].kind,
           \A n \in Notifiers : job'[n].pc = "recording" /\ job'[n].kind \in Pages =>
               job[n].pc = "recording" \/ PageIsOut(n[1])'
    PROVE  Recorded'
<1>1. Numbered'
  BY DEF Recorded, Numbered, Carries
<1>2. SilencedOut'
  BY DEF Recorded, SilencedOut
<1>3. RecordingOut'
  <2> SUFFICES ASSUME NEW n \in Notifiers, job'[n].pc = "recording", job'[n].kind \in Pages
               PROVE  PageIsOut(n[1])'
    BY DEF RecordingOut
  <2>1. job'[n].kind # "none"
    BY DEF Pages
  <2>2. job[n].pc = "recording" => PageIsOut(n[1])
    BY <2>1 DEF Recorded, RecordingOut
  <2> QED
    BY <2>2, NotifiersAre
<1> QED
  BY <1>1, <1>2, <1>3 DEF Recorded

\* Nothing changes of what is out of a unit.
LEMMA OutSame ==
    ASSUME UNCHANGED spool, NEW u \in Units, since'[u] = since[u], pageOut'[u] = pageOut[u]
    PROVE  PageIsOut(u)' <=> PageIsOut(u)
BY DEF PageIsOut, PageKept, PageOfIncident

LEMMA RemovingSame ==
    ASSUME Recorded, UNCHANGED <<spool, since, pageOut>>, flush' = "removing" => flush = "removing"
    PROVE  RemovingOut'
BY DEF Recorded, RemovingOut, Oldest, PageOfIncident

\* A step that leaves the spool, n8n and the incidents' pages alone.
LEMMA StillRecorded ==
    ASSUME IInv, Recorded, UNCHANGED <<since, made, spool, pageOut>>,
           flush' = "removing" => flush = "removing",
           \A u \in Units : incident'[u].sent => incident[u].sent \/ PageIsOut(u),
           \A n \in Notifiers : job'[n].kind # "none" =>
               Carries(n) /\ job'[n].id = job[n].id /\ job'[n].kind = job[n].kind,
           \A n \in Notifiers : job'[n].pc = "recording" => job[n].pc = "recording"
    PROVE  Recorded'
<1>1. \A u \in Units : PageIsOut(u) => PageIsOut(u)'
  BY OutSame
<1>2. RemovingOut'
  BY RemovingSame
<1> QED
  BY <1>1, <1>2, RecordedIf

\* A notifier that carries nothing from now on.
LEMMA ExitRecorded ==
    ASSUME IInv, Recorded, NEW n \in Notifiers, Exit(n), UNCHANGED <<flush, since, made, spool, pageOut>>,
           \A u \in Units : incident'[u].sent => incident[u].sent \/ PageIsOut(u)
    PROVE  Recorded'
<1>1. \A m \in Notifiers : m # n => job'[m] = job[m]
  BY ExitIs
<1>2. job'[n].kind = "none" /\ job'[n].pc = "off"
  BY ExitIs
<1>3. \A m \in Notifiers : job'[m].kind # "none" =>
          Carries(m) /\ job'[m].id = job[m].id /\ job'[m].kind = job[m].kind
  BY <1>1, <1>2 DEF Carries
<1>4. \A m \in Notifiers : job'[m].pc = "recording" => job[m].pc = "recording"
  BY <1>1, <1>2
<1> QED
  BY <1>3, <1>4, StillRecorded

LEMMA StartRecorded ==
    ASSUME IInv, Recorded, NEW n \in Notifiers, job' = Started(n),
           UNCHANGED <<flush, since, made, spool, pageOut, incident>>
    PROVE  Recorded'
<1>1. \A m \in Notifiers : job'[m].kind # "none" =>
          Carries(m) /\ job'[m].id = job[m].id /\ job'[m].kind = job[m].kind
  BY StartedIs DEF Carries
<1>2. \A m \in Notifiers : job'[m].pc = "recording" => job[m].pc = "recording"
  BY StartedIs
<1> QED
  BY <1>1, <1>2, StillRecorded

LEMMA SystemdRecorded ==
    ASSUME IInv, Recorded
    PROVE  /\ \A u \in Units : RunStarts(u) => Recorded'
           /\ \A u \in Units : \A r \in {"success", "failed"} : RunEnds(u, r) => Recorded'
           /\ \A n \in Notifiers : Hand(n) => Recorded'
<1>1. ASSUME NEW u \in Units, RunStarts(u) PROVE Recorded'
  BY <1>1, StillRecorded DEF RunStarts, node, history, Carries
<1>2. ASSUME NEW u \in Units, NEW r \in {"success", "failed"}, RunEnds(u, r) PROVE Recorded'
  <2>1. PICK n \in Notifiers : job' = Started(n)
    BY <1>2, NotifiersAre DEF RunEnds
  <2> QED
    BY <1>2, <2>1, StartRecorded DEF RunEnds, node, history
<1>3. ASSUME NEW n \in Notifiers, Hand(n) PROVE Recorded'
  BY <1>3, StartRecorded DEF Hand, node, history
<1> QED
  BY <1>1, <1>2, <1>3

\* The decisions that make no notice.
LEMMA QuietRecorded ==
    ASSUME IInv, Recorded, NEW u \in Units
    PROVE  Silent(u) \/ Fold(u) \/ Exercise(u) \/ Exercised(u) => Recorded'
<1> DEFINE n == <<u, "failure">>
<1>1. n \in Notifiers
  BY NotifiersAre
<1>2. ASSUME Silent(u) PROVE Recorded'
  <2>1. Exit(n) /\ UNCHANGED <<flush, since, made, spool, pageOut, incident>>
    BY <1>2 DEF Silent, Silenced, Fails
  <2> QED
    BY <1>1, <2>1, ExitRecorded
<1>3. ASSUME Fold(u) PROVE Recorded'
  <2>1. Exit(n) /\ UNCHANGED <<flush, since, made, spool, pageOut>>
    BY <1>3 DEF Fold
  <2>2. \A v \in Units : incident'[v].sent = incident[v].sent
    BY <1>3, Facts DEF Fold, StateTypes
  <2> QED
    BY <1>1, <2>1, <2>2, ExitRecorded
<1>4. ASSUME Exercise(u) PROVE Recorded'
  <2>1. job' = [job EXCEPT ![n].pc = "exercising"] /\ UNCHANGED <<flush, since, made, spool, pageOut, incident>>
    BY <1>4 DEF Exercise, node, history
  <2>2. /\ job'[n].pc = "exercising" /\ job'[n].kind = job[n].kind /\ job'[n].id = job[n].id
        /\ \A m \in Notifiers \ {n} : job'[m] = job[m]
    BY <1>1, <2>1, Facts, JobMoves DEF Pcs
  <2>3. \A m \in Notifiers : job'[m].pc = "recording" => job[m].pc = "recording"
    BY <2>2
  <2>4. \A m \in Notifiers : job'[m].kind # "none" =>
            Carries(m) /\ job'[m].id = job[m].id /\ job'[m].kind = job[m].kind
    BY <2>2 DEF Carries
  <2> QED
    BY <2>1, <2>3, <2>4, StillRecorded
<1>5. ASSUME Exercised(u) PROVE Recorded'
  BY <1>1, <1>5, ExitRecorded DEF Exercised, node, history
<1> QED
  BY <1>2, <1>3, <1>4, <1>5

\* A notice is made: the newest of its unit, and the only one carried of it.  It is made in
\* the incident as it is, or in one that begins with it.
LEMMA MadeRecorded ==
    ASSUME IInv, Recorded, NEW n \in Notifiers, Waiting(n), NEW kind, Makes(n, kind),
           UNCHANGED <<flush, spool>>,
           \A v \in Units \ {n[1]} : since'[v] = since[v] /\ pageOut'[v] = pageOut[v]
                                        /\ incident'[v] = incident[v],
           \/ /\ since'[n[1]] = since[n[1]] /\ pageOut'[n[1]] = pageOut[n[1]]
              /\ incident'[n[1]] = incident[n[1]]
           \/ since'[n[1]] = made[n[1]] /\ ~incident'[n[1]].sent
    PROVE  Recorded'
<1> USE Facts
<1> DEFINE u == n[1]
<1>1. /\ u \in Units /\ \A v \in Units : made[v] \in Nat /\ since[v] \in Nat
      /\ since[u] <= made[u]
  BY NotifiersAre DEF SendTypes, HistoryTypes, Recorded, Numbered
<1>2. made'[u] = made[u] + 1 /\ \A v \in Units \ {u} : made'[v] = made[v]
  BY <1>1 DEF Makes, SendTypes
<1>3. /\ job'[n].pc = "made" /\ job'[n].id = made[u] + 1
      /\ \A m \in Notifiers \ {n} : job'[m] = job[m]
  BY DEF Makes
<1>4. ASSUME NEW m \in Notifiers \ {n}, job'[m].kind # "none" PROVE job'[m] = job[m] /\ m[1] \in Units \ {u}
  <2>1. job'[m] = job[m] /\ Holds(m)
    BY <1>3, <1>4 DEF Jobs, Carries, Holds
  <2> QED
    BY <2>1, NotifiersAre DEF Waiting, Free
<1>5. Numbered'
  <2>1. ASSUME NEW v \in Units PROVE since'[v] <= made'[v]
    <3>1. CASE v = u
      BY <1>1, <1>2, <3>1
    <3>2. CASE v # u
      BY <1>2, <3>2 DEF Recorded, Numbered
    <3> QED
      BY <3>1, <3>2
  <2>2. ASSUME NEW m \in Notifiers, job'[m].kind # "none" PROVE since'[m[1]] < job'[m].id
    <3>1. CASE m = n
      BY <1>1, <1>3, <3>1
    <3>2. CASE m # n
      BY <1>4, <2>2, <3>2 DEF Recorded, Numbered, Carries
    <3> QED
      BY <3>1, <3>2
  <2> QED
    BY <2>1, <2>2 DEF Numbered, Carries
<1>6. \A v \in Units \ {u} : PageIsOut(v)' <=> PageIsOut(v)
  BY OutSame
<1>7. SilencedOut'
  <2>1. ASSUME NEW v \in Units, incident'[v].sent PROVE PageIsOut(v)'
    <3>1. CASE v = u
      BY <2>1, <3>1, OutSame DEF Recorded, SilencedOut
    <3>2. CASE v # u
      BY <1>6, <2>1, <3>2 DEF Recorded, SilencedOut
    <3> QED
      BY <3>1, <3>2
  <2> QED
    BY <2>1 DEF SilencedOut
<1>8. RecordingOut'
  <2> SUFFICES ASSUME NEW m \in Notifiers, job'[m].pc = "recording", job'[m].kind \in Pages
               PROVE  PageIsOut(m[1])'
    BY DEF RecordingOut
  <2>1. m # n /\ job'[m].kind # "none"
    BY <1>3 DEF Pages
  <2>2. job'[m] = job[m] /\ m[1] \in Units \ {u}
    BY <1>4, <2>1
  <2>3. PageIsOut(m[1])
    BY <2>2 DEF Recorded, RecordingOut
  <2> QED
    BY <1>6, <2>2, <2>3
<1>9. RemovingOut'
  <2> SUFFICES ASSUME flush = "removing"
               PROVE  \/ pageOut'[Oldest.unit] # "no"
                      \/ ~(Oldest.kind \in Pages /\ Oldest.id > since'[Oldest.unit])
    BY DEF RemovingOut, Oldest, PageOfIncident
  <2>1. 1 \in 1..Len(spool)
    BY DEF Locked, SendTypes
  <2>2. /\ Oldest.unit \in Units /\ Oldest.id \in Nat /\ Oldest.id <= made[Oldest.unit]
        /\ pageOut[Oldest.unit] # "no" \/ ~(Oldest.kind \in Pages /\ Oldest.id > since[Oldest.unit])
    BY <2>1, SpoolIs DEF Oldest, Ordered, Recorded, RemovingOut, PageOfIncident
  <2>3. CASE Oldest.unit = u
    BY <1>1, <2>2, <2>3
  <2>4. CASE Oldest.unit # u
    BY <2>2, <2>4
  <2> QED
    BY <2>3, <2>4
<1> QED
  BY <1>5, <1>7, <1>8, <1>9 DEF Recorded

LEMMA DecideRecorded == ASSUME IInv, Recorded, NEW u \in Units PROVE Page(u) \/ Recover(u) => Recorded'
<1> USE Facts
<1>1. ASSUME Page(u) PROVE Recorded'
  <2> DEFINE n == <<u, "failure">>
  <2>1. n \in Notifiers /\ n[1] = u /\ Waiting(n) /\ UNCHANGED <<flush, spool>> /\ Fails(u)
    BY <1>1, NotifiersAre DEF Page
  <2>2. PICK kind \in {"first", "again"} : Makes(n, kind)
    BY <1>1 DEF Page
  <2>3. CASE Live(u)
    <3>1. UNCHANGED <<incident, since, pageOut>>
      BY <2>1, <2>3 DEF Fails
    <3> QED
      BY <2>1, <2>2, <3>1, MadeRecorded
  <2>4. CASE ~Live(u)
    <3>1. /\ incident' = [incident EXCEPT ![u] = [Closed EXCEPT !.open = TRUE]]
          /\ since' = [since EXCEPT ![u] = made[u]]
          /\ pageOut' = [pageOut EXCEPT ![u] = "no"]
      BY <2>1, <2>4 DEF Fails
    <3>2. /\ \A v \in Units \ {u} : since'[v] = since[v] /\ pageOut'[v] = pageOut[v]
                                        /\ incident'[v] = incident[v]
          /\ since'[u] = made[u]
      BY <3>1 DEF HistoryTypes, StateTypes
    <3>3. ~incident'[u].sent
      BY <3>1 DEF StateTypes, Closed
    <3> QED
      BY <2>1, <2>2, <3>2, <3>3, MadeRecorded
  <2> QED
    BY <2>3, <2>4
<1>2. ASSUME Recover(u) PROVE Recorded'
  <2> DEFINE n == <<u, "recovered">>
  <2>1. n \in Notifiers /\ n[1] = u /\ Waiting(n) /\ UNCHANGED <<flush, spool, incident, since, pageOut>>
    BY <1>2, NotifiersAre DEF Recover, node, history
  <2>2. CASE Makes(n, "recovered")
    BY <2>1, <2>2, MadeRecorded
  <2>3. CASE Exit(n) /\ UNCHANGED made
    BY <2>1, <2>3, ExitRecorded
  <2> QED
    BY <1>2, <2>2, <2>3 DEF Recover
<1> QED
  BY <1>1, <1>2

\* n8n takes a notice, and what was out of any unit stays out.
LEMMA TakeOut ==
    ASSUME IInv, NEW w \in Units, NEW kind, NEW id, UNCHANGED pageOut \/ Take(w, kind, id),
           UNCHANGED <<spool, since>>
    PROVE  /\ \A u \in Units : PageIsOut(u) => PageIsOut(u)'
           /\ \A u \in Units : pageOut[u] # "no" => pageOut'[u] # "no"
           /\ Take(w, kind, id) /\ PageOfIncident(w, kind, id) => pageOut'[w] # "no" /\ PageIsOut(w)'
<1>1. \A u \in Units : pageOut[u] # "no" => pageOut'[u] # "no"
  BY Facts DEF Take, HistoryTypes
<1>2. Take(w, kind, id) /\ PageOfIncident(w, kind, id) => pageOut'[w] # "no"
  BY Facts DEF Take, HistoryTypes
<1> QED
  BY <1>1, <1>2 DEF PageIsOut, PageKept, PageOfIncident

LEMMA SendRecorded ==
    ASSUME IInv, Recorded, NEW n \in Notifiers
    PROVE  Choose(n) \/ Send(n) => Recorded'
<1> USE Facts
<1> DEFINE u == n[1]
<1>1. ASSUME job[n].pc \in {"made", "sending"}, NEW pc \in {"sending", "queueing", "keeping", "recording"},
             job' = [job EXCEPT ![n].pc = pc]
      PROVE  /\ \A m \in Notifiers : job'[m].kind # "none" =>
                    Carries(m) /\ job'[m].id = job[m].id /\ job'[m].kind = job[m].kind
             /\ \A m \in Notifiers : job'[m].pc = "recording" =>
                    job[m].pc = "recording" \/ (m = n /\ pc = "recording")
  <2>1. /\ job'[n].pc = pc /\ job'[n].kind = job[n].kind /\ job'[n].id = job[n].id
        /\ \A m \in Notifiers \ {n} : job'[m] = job[m]
    BY <1>1, JobMoves DEF Pcs
  <2> QED
    BY <2>1 DEF Carries
<1>2. ASSUME Choose(n) PROVE Recorded'
  <2>1. PICK pc \in {"sending", "queueing"} : job' = [job EXCEPT ![n].pc = pc]
    BY <1>2 DEF Choose
  <2>2. job[n].pc = "made" /\ UNCHANGED <<flush, since, made, spool, pageOut, incident>>
    BY <1>2 DEF Choose, node, history
  <2>3. \A m \in Notifiers : job'[m].kind # "none" =>
            Carries(m) /\ job'[m].id = job[m].id /\ job'[m].kind = job[m].kind
    BY <1>1, <2>1, <2>2
  <2>4. \A m \in Notifiers : job'[m].pc = "recording" => job[m].pc = "recording"
    BY <1>1, <2>1, <2>2
  <2> QED
    BY <2>2, <2>3, <2>4, StillRecorded
<1>3. ASSUME Send(n) PROVE Recorded'
  <2>1. PICK pc \in {"recording", "keeping"} :
           /\ job' = [job EXCEPT ![n].pc = pc]
           /\ UNCHANGED pageOut \/ Take(u, job[n].kind, job[n].id)
           /\ pc = "recording" => Take(u, job[n].kind, job[n].id)
    BY <1>3 DEF Send, SendTaken, SendFailed
  <2>2. job[n].pc = "sending" /\ UNCHANGED <<flush, since, made, spool, incident>>
    BY <1>3 DEF Send, SendTaken, SendFailed, node
  <2>3. Carries(n) /\ u \in Units
    BY <2>2, NotifiersAre DEF Jobs
  <2>4. flush # "removing"
    BY <2>2, NotifiersAre DEF Locked
  <2>5. RemovingOut'
    BY <2>2, <2>4 DEF RemovingOut
  <2>6. /\ \A v \in Units : PageIsOut(v) => PageIsOut(v)'
        /\ pc = "recording" /\ PageOfIncident(u, job[n].kind, job[n].id) => PageIsOut(u)'
    BY <2>1, <2>2, <2>3, TakeOut
  <2>7. job[n].id > since[u]
    BY <2>3 DEF Recorded, Numbered, JobRecords, HistoryTypes
  <2>8. pc = "recording" /\ job[n].kind \in Pages => PageIsOut(u)'
    BY <2>6, <2>7 DEF PageOfIncident
  <2>9. \A m \in Notifiers : job'[m].kind # "none" =>
            Carries(m) /\ job'[m].id = job[m].id /\ job'[m].kind = job[m].kind
    BY <1>1, <2>1, <2>2
  <2>10. ASSUME NEW m \in Notifiers, job'[m].pc = "recording", job'[m].kind \in Pages
         PROVE  job[m].pc = "recording" \/ PageIsOut(m[1])'
    <3>1. job'[m].kind = job[m].kind
      BY <2>9, <2>10 DEF Pages
    <3>2. job[m].pc = "recording" \/ (m = n /\ pc = "recording")
      BY <1>1, <2>1, <2>2, <2>10
    <3> QED
      BY <2>8, <2>10, <3>1, <3>2
  <2> QED
    BY <2>2, <2>5, <2>6, <2>9, <2>10, RecordedIf
<1> QED
  BY <1>2, <1>3

LEMMA KeepRecorded == ASSUME IInv, Recorded, NEW n \in Notifiers PROVE Keep(n) => Recorded'
<1> SUFFICES ASSUME Keep(n) PROVE Recorded'
  OBVIOUS
<1> USE Facts
<1> DEFINE u == n[1]
           e == [unit |-> u, kind |-> job[n].kind, id |-> job[n].id, age |-> 0]
           top == Len(spool) + 1
<1>1. Carries(n) /\ u \in Units /\ job[n].id \in Nat /\ job[n].kind \in Kinds
  BY NotifiersAre DEF Keep, Jobs, JobRecords, Carries
<1>2. UNCHANGED <<since, made, pageOut, incident>>
  BY DEF Keep, history
<1>3. spool \in Seq(Notices) /\ Len(spool) \in Nat /\ e \in Notices
  BY <1>1 DEF SendTypes, Notices
<1> HIDE DEF e
<1>4. spool' = Append(spool, e)
  BY DEF Keep, e
<1>5. /\ DOMAIN spool = 1..Len(spool) /\ DOMAIN spool' = 1..top /\ spool'[top] = e
      /\ \A k \in 1..Len(spool) : k \in 1..top /\ spool'[k] = spool[k]
  BY <1>3, <1>4
<1>6. ASSUME NEW v \in Units, PageIsOut(v) PROVE PageIsOut(v)'
  BY <1>2, <1>5, <1>6 DEF PageIsOut, PageKept, PageOfIncident
<1>7. job[n].kind \in Pages => PageIsOut(u)'
  <2>1. top \in 1..top
    BY <1>3
  <2>2. e.unit = u /\ e.kind = job[n].kind /\ e.id > since[u]
    BY <1>1 DEF e, Recorded, Numbered, HistoryTypes
  <2> QED
    BY <1>2, <1>5, <2>1, <2>2 DEF PageIsOut, PageKept, PageOfIncident
<1>8. RemovingOut'
  <2>1. flush' = "removing" => flush = "removing"
    BY DEF Keep, FlushStarted
  <2>2. flush = "removing" => spool'[1] = spool[1]
    BY <1>3, <1>5 DEF Locked
  <2> QED
    BY <1>2, <2>1, <2>2 DEF Recorded, RemovingOut, Oldest, PageOfIncident
<1>9. /\ job'[n].pc = "recording" /\ job'[n].kind = job[n].kind /\ job'[n].id = job[n].id
      /\ \A m \in Notifiers \ {n} : job'[m] = job[m]
  <2>1. job' = [job EXCEPT ![n].pc = "recording"] /\ "recording" \in Pcs
    BY DEF Keep, Pcs
  <2> QED
    BY <2>1, JobMoves
<1>10. \A m \in Notifiers : job'[m].kind # "none" =>
           Carries(m) /\ job'[m].id = job[m].id /\ job'[m].kind = job[m].kind
  BY <1>9 DEF Carries
<1>11. ASSUME NEW m \in Notifiers, job'[m].pc = "recording", job'[m].kind \in Pages
       PROVE  job[m].pc = "recording" \/ PageIsOut(m[1])'
  BY <1>7, <1>9, <1>11
<1> QED
  BY <1>2, <1>6, <1>8, <1>10, <1>11, RecordedIf

LEMMA RecordRecorded == ASSUME IInv, Recorded, NEW n \in Notifiers PROVE Record(n) => Recorded'
<1> SUFFICES ASSUME Record(n) PROVE Recorded'
  OBVIOUS
<1> USE Facts
<1>1. Exit(n) /\ UNCHANGED <<flush, since, made, spool, pageOut>> /\ n[1] \in Units
  BY NotifiersAre DEF Record, history
<1>2. \A v \in Units \ {n[1]} : incident'[v] = incident[v]
  BY DEF Record, StateTypes
<1>3. incident'[n[1]].sent => job[n].kind \in Pages
  BY <1>1 DEF Record, StateTypes, Closed
<1>4. job[n].kind \in Pages => PageIsOut(n[1])
  BY DEF Record, Recorded, RecordingOut
<1>5. \A v \in Units : incident'[v].sent => incident[v].sent \/ PageIsOut(v)
  BY <1>2, <1>3, <1>4
<1> QED
  BY <1>1, <1>5, ExitRecorded

-----------------------------------------------------------------------------
(* The flush, the clock and the faults.                                    *)

\* The oldest notice leaves the spool, when n8n has it or it is given up.
LEMMA TailOut ==
    ASSUME IInv, spool # <<>>, spool' = Tail(spool), UNCHANGED since,
           \A u \in Units : pageOut[u] # "no" => pageOut'[u] # "no",
           PageOfIncident(Oldest.unit, Oldest.kind, Oldest.id) => pageOut'[Oldest.unit] # "no",
           NEW u \in Units, PageIsOut(u)
    PROVE  PageIsOut(u)'
<1>1. /\ spool \in Seq(Notices) /\ Len(spool) \in Nat /\ Len(spool') = Len(spool) - 1
      /\ DOMAIN spool = 1..Len(spool) /\ DOMAIN spool' = 1..Len(spool')
      /\ \A k \in 1..Len(spool') : spool'[k] = spool[k + 1]
  BY Facts DEF SendTypes
<1>2. CASE pageOut[u] # "no"
  BY <1>2 DEF PageIsOut
<1>3. CASE PageKept(u)
  <2>1. PICK k \in 1..Len(spool) : spool[k].unit = u /\ PageOfIncident(u, spool[k].kind, spool[k].id)
    BY <1>1, <1>3 DEF PageKept
  <2>2. CASE k = 1
    BY <2>1, <2>2 DEF PageIsOut, Oldest
  <2>3. CASE k # 1
    <3>1. k - 1 \in 1..Len(spool') /\ spool'[k - 1] = spool[k]
      BY <1>1, <2>1, <2>3
    <3>2. PageKept(u)'
      BY <1>1, <2>1, <3>1 DEF PageKept, PageOfIncident
    <3> QED
      BY <3>2 DEF PageIsOut
  <2> QED
    BY <2>2, <2>3
<1> QED
  BY <1>2, <1>3 DEF PageIsOut

LEMMA FlushRecorded == IInv /\ Recorded /\ (FlushDue \/ Flush \/ FlushDies) => Recorded'
<1> SUFFICES ASSUME IInv, Recorded PROVE FlushDue \/ Flush \/ FlushDies => Recorded'
  OBVIOUS
<1> USE Facts
<1>0. /\ \A m \in Notifiers : job[m].kind # "none" => Carries(m)
  BY DEF Carries
<1>1. ASSUME FlushDue \/ FlushLocks \/ FlushGivesUp \/ FlushEnds \/ FlushDies PROVE Recorded'
  <2>1. UNCHANGED <<job, since, made, spool, pageOut, incident>>
    BY <1>1 DEF FlushDue, FlushLocks, FlushGivesUp, FlushEnds, FlushDies, node, history
  <2>2. flush' # "removing"
    BY <1>1 DEF FlushDue, FlushLocks, FlushGivesUp, FlushEnds, FlushDies, FlushAt
  <2> QED
    BY <1>0, <2>1, <2>2, StillRecorded
<1>2. ASSUME FlushDrops \/ FlushRemoves PROVE Recorded'
  <2>1. UNCHANGED <<job, since, made, incident>> /\ flush' = "going" /\ spool # <<>> /\ spool' = Tail(spool)
    BY <1>2 DEF FlushDrops, FlushRemoves, FlushAt, AtOldest, Locked, history
  <2>2. RemovingOut'
    BY <2>1 DEF RemovingOut
  <2>3. 1 \in 1..Len(spool)
    BY <2>1 DEF SendTypes
  <2>4. Oldest.unit \in Units
    BY <2>3, SpoolIs DEF Oldest
  <2>5. /\ \A u \in Units : pageOut[u] # "no" => pageOut'[u] # "no"
        /\ PageOfIncident(Oldest.unit, Oldest.kind, Oldest.id) => pageOut'[Oldest.unit] # "no"
    <3>1. CASE FlushDrops
      BY <2>4, <3>1 DEF FlushDrops, HistoryTypes
    <3>2. CASE FlushRemoves
      BY <3>2 DEF FlushRemoves, history, Recorded, RemovingOut
    <3> QED
      BY <1>2, <3>1, <3>2
  <2>6. \A u \in Units : PageIsOut(u) => PageIsOut(u)'
    BY <2>1, <2>5, TailOut
  <2> QED
    BY <1>0, <2>1, <2>2, <2>6, RecordedIf
<1>3. ASSUME FlushTaken \/ FlushFailed PROVE Recorded'
  <2> DEFINE w == Oldest.unit
  <2>1. /\ UNCHANGED <<job, since, made, incident, spool>> /\ spool # <<>>
        /\ UNCHANGED pageOut \/ Take(w, Oldest.kind, Oldest.id)
        /\ flush' = "removing" => Take(w, Oldest.kind, Oldest.id)
    BY <1>3 DEF FlushTaken, FlushFailed, AtOldest, FlushAt, node
  <2>2. 1 \in 1..Len(spool)
    BY <2>1 DEF SendTypes
  <2>3. w \in Units
    BY <2>2, SpoolIs DEF Oldest
  <2>4. /\ \A u \in Units : PageIsOut(u) => PageIsOut(u)'
        /\ flush' = "removing" /\ PageOfIncident(w, Oldest.kind, Oldest.id) => pageOut'[w] # "no"
    BY <2>1, <2>3, TakeOut
  <2>5. RemovingOut'
    BY <2>1, <2>4 DEF RemovingOut, Oldest, PageOfIncident
  <2> QED
    BY <1>0, <2>1, <2>4, <2>5, RecordedIf
<1> QED
  BY <1>1, <1>2, <1>3 DEF Flush

LEMMA TickRecorded == IInv /\ Recorded /\ Tick => Recorded'
<1> SUFFICES ASSUME IInv, Recorded, Tick PROVE Recorded'
  OBVIOUS
<1> USE Facts
<1>1. UNCHANGED <<job, flush, made, since, pageOut>>
  BY DEF Tick
<1>2. /\ DOMAIN spool' = DOMAIN spool
      /\ \A k \in DOMAIN spool : spool'[k].unit = spool[k].unit /\ spool'[k].id = spool[k].id
                                    /\ spool'[k].kind = spool[k].kind
  <2>1. \A k \in DOMAIN spool : spool[k] \in Notices
    BY DEF SendTypes
  <2>2. \A k \in DOMAIN spool : spool'[k] = [spool[k] EXCEPT !.age = Older(@, MaxAge)]
    BY DEF Tick
  <2>3. \A x \in Notices : \A a : LET y == [x EXCEPT !.age = a]
                                  IN  y.unit = x.unit /\ y.id = x.id /\ y.kind = x.kind
    BY DEF Notices
  <2> QED
    BY <2>1, <2>2, <2>3 DEF Tick
<1>3. \A u \in Units : PageIsOut(u) => PageIsOut(u)'
  BY <1>1, <1>2 DEF PageIsOut, PageKept, PageOfIncident
<1>4. RemovingOut'
  <2>1. flush = "removing" => 1 \in DOMAIN spool
    BY DEF Locked, SendTypes
  <2> QED
    BY <1>1, <1>2, <2>1 DEF Recorded, RemovingOut, Oldest, PageOfIncident
<1>5. \A u \in Units : incident'[u].sent = incident[u].sent
  BY DEF Tick, StateTypes
<1>6. \A m \in Notifiers : job'[m].kind # "none" =>
          Carries(m) /\ job'[m].id = job[m].id /\ job'[m].kind = job[m].kind
  BY <1>1 DEF Carries
<1> QED
  BY <1>1, <1>3, <1>4, <1>5, <1>6, RecordedIf

LEMMA FaultRecorded ==
    ASSUME IInv, Recorded
    PROVE  Reboot \/ (\E n \in Notifiers : Die(n)) \/ UNCHANGED vars => Recorded'
<1>1. ASSUME Reboot PROVE Recorded'
  <2>1. UNCHANGED <<since, made, spool, pageOut, incident>> /\ flush' = "off"
    BY <1>1 DEF Reboot, node, history
  <2>2. \A n \in Notifiers : job'[n].kind = "none" /\ job'[n].pc = "off"
    BY <1>1, OffIs DEF Reboot
  <2> QED
    BY <2>1, <2>2, StillRecorded
<1>2. ASSUME NEW n \in Notifiers, Die(n) PROVE Recorded'
  BY <1>2, ExitRecorded DEF Die, node, history
<1>3. ASSUME UNCHANGED vars PROVE Recorded'
  BY <1>3, StillRecorded DEF vars, node, history, Carries
<1> QED
  BY <1>1, <1>2, <1>3

LEMMA RecordedInductive == IInv /\ Recorded /\ [Next]_vars => Recorded'
<1> SUFFICES ASSUME IInv, Recorded, [Next]_vars PROVE Recorded'
  OBVIOUS
<1>1. ASSUME NEW u \in Units,
             RunStarts(u) \/ (\E r \in {"success", "failed"} : RunEnds(u, r)) \/ Decide(u) \/ Exercised(u)
      PROVE  Recorded'
  BY <1>1, SystemdRecorded, QuietRecorded, DecideRecorded DEF Decide
<1>2. ASSUME NEW n \in Notifiers, Hand(n) \/ Deliver(n) \/ Die(n) PROVE Recorded'
  BY <1>2, SystemdRecorded, SendRecorded, KeepRecorded, RecordRecorded, FaultRecorded DEF Deliver
<1>3. CASE FlushDue \/ Flush \/ FlushDies
  BY <1>3, FlushRecorded
<1>4. CASE Tick \/ Reboot \/ UNCHANGED vars
  BY <1>4, TickRecorded, FaultRecorded
<1> QED
  BY <1>1, <1>2, <1>3, <1>4 DEF Next

\* A unit is silenced only by a page of its incident that n8n took, or that is still kept, or
\* that was kept until it was too old, wherever the script or the flush dies: none goes from
\* the spool before n8n said that it took it.
THEOREM PageBeforeSilence == Spec => []SilencedOnlyIfSent
<1>1. Init => Recorded
  <2> SUFFICES ASSUME Init PROVE Recorded
    OBVIOUS
  <2>1. /\ \A n \in Notifiers : job[n].kind = "none" /\ job[n].pc = "off"
        /\ \A u \in Units : ~incident[u].sent
    BY OffIs DEF Init, Closed
  <2>2. flush = "off" /\ \A u \in Units : since[u] = 0 /\ made[u] = 0
    BY DEF Init
  <2> QED
    BY <2>1, <2>2 DEF Recorded, Numbered, SilencedOut, RecordingOut, RemovingOut, Carries
<1>2. IInv /\ Recorded /\ [Next]_vars => Recorded'
  BY RecordedInductive
<1>3. Recorded => SilencedOnlyIfSent
  BY DEF Recorded, SilencedOut, PageIsOut, SilencedOnlyIfSent
<1> QED
  BY <1>1, <1>2, <1>3, Always, PTL DEF Spec
=============================================================================
