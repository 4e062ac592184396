---------------------- MODULE BreakGlassRotationProofs ----------------------
(***************************************************************************)
(* For any number of services, any sharing of SOPS files, any services     *)
(* that answer falsely and any stops: the types; that what a run said of a *)
(* service is so while it goes on; and the three ways, and no other, in    *)
(* which a service's password gets lost.                                   *)
(***************************************************************************)
EXTENDS BreakGlassRotation, TLAPS

USE RotationAssumption

\* The services the run has yet to come to have no outcome.
YetToCome == run.pc # "idle" => \A s \in Services : s >= run.at => outcome[s] = "none"

\* What the run knows of the service in hand: the new password is in the file, the
\* service takes that one or the old one, and the old one where it refused the change
\* or was reverted.
KnownInHand ==
    \A s \in Services : InHand(s) =>
        /\ working[s] = run.new
        /\ holds[s] \in {run.old, run.new}
        /\ run.pc = "written" => holds[s] = run.old
        /\ run.pc = "restore" /\ run.why \in {"refused", "reverted"} /\ s \notin Flaky => holds[s] = run.old

IInv == TypeOK /\ YetToCome /\ KnownInHand /\ OutcomeIsTrue

-----------------------------------------------------------------------------
Steps == {"idle", "next", "written", "set", "revert", "restore"}
Whys == {"none", "refused", "reverted", "not reverted"}
Outcomes == {"none", "drift", "not written", "ok", "refused", "reverted", "not reverted", "not restored"}
Runs == [pc : Steps, at : 1..N + 1, old : Passwords, new : Passwords, why : Whys]

\* What the types of this module say, in the names above.
LEMMA Typed ==
    TypeOK <=> /\ run \in Runs /\ outcome \in [Services -> Outcomes]
               /\ working \in [Services -> Passwords] /\ committed \in [Services -> Passwords]
               /\ holds \in [Services -> Passwords] /\ past \in [Services -> SUBSET Passwords]
               /\ dirty \subseteq Files /\ made \in [Services -> Passwords]
               /\ told \in BOOLEAN /\ advised \subseteq Files
BY DEF TypeOK, Runs, Steps, Whys, Outcomes

\* No service is in hand: the run has not begun, or begins.
LEMMA NoRunIs == NoRun \in Runs /\ [NoRun EXCEPT !.pc = "next"] \in Runs
<1>1. 0 \in Passwords /\ 1 \in 1..N + 1
  BY DEF Passwords
<1> QED
  BY <1>1 DEF NoRun, Runs, Steps, Whys

\* A service gets its outcome and the run goes on to the next.
LEMMA SaysIs ==
    ASSUME NEW s \in Services, outcome \in [Services -> Outcomes], NEW what \in Outcomes, Says(s, what)
    PROVE  /\ run'.pc = "next" /\ run'.at = s + 1
           /\ run' \in Runs
           /\ outcome' \in [Services -> Outcomes]
           /\ outcome'[s] = what /\ \A r \in Services \ {s} : outcome'[r] = outcome[r]
<1>1. run' = [pc |-> "next", at |-> s + 1, old |-> 0, new |-> 0, why |-> "none"]
  BY DEF Says, NoRun
<1>2. s + 1 \in 1..N + 1 /\ 0 \in Passwords
  BY DEF Services, Passwords
<1>3. run' \in Runs
  BY <1>1, <1>2 DEF Runs, Steps, Whys
<1> QED
  BY <1>1, <1>3 DEF Says

\* The run goes on to another step of the service in hand.
LEMMA GotoIs ==
    ASSUME run \in Runs, NEW pc \in Steps, NEW why \in Whys, Goto(pc, why)
    PROVE  /\ run' \in Runs
           /\ run'.pc = pc /\ run'.why = why
           /\ run'.at = run.at /\ run'.old = run.old /\ run'.new = run.new
BY DEF Goto, Runs

\* A new password is the next one for its service, and the run has the service in hand.
LEMMA WritesIs ==
    ASSUME TypeOK, NEW s \in Services, Writes(s)
    PROVE  /\ made[s] + 1 \in Passwords
           /\ run' \in Runs /\ run'.pc = "written" /\ run'.at = s
           /\ run'.old = working[s] /\ run'.new = made[s] + 1
           /\ working' = [working EXCEPT ![s] = made[s] + 1]
<1>1. made[s] \in Passwords /\ made[s] < MaxNew
  BY Typed DEF Writes
<1>2. made[s] + 1 \in Passwords
  BY <1>1 DEF Passwords
<1>3. run' = [pc |-> "written", at |-> s, old |-> working[s], new |-> made[s] + 1, why |-> "none"]
  BY DEF Writes, NoRun
<1>4. s \in 1..N + 1 /\ working[s] \in Passwords
  BY Typed DEF Services
<1>5. run' \in Runs
  BY <1>2, <1>3, <1>4 DEF Runs, Steps, Whys
<1> QED
  BY <1>2, <1>3, <1>5 DEF Writes, SetSecret

\* A call to the service in hand leaves it with one of its two passwords or as it was.
LEMMA CallIs ==
    ASSUME TypeOK, NEW s \in Services,
           Sets(s) \/ SetFails(s) \/ VerifyFails(s) \/ Reverts(s) \/ RevertFails(s)
    PROVE  /\ \A r \in Services \ {s} : holds'[r] = holds[r]
           /\ holds'[s] \in {holds[s], run.old, run.new}
           /\ holds' \in [Services -> Passwords]
           /\ UNCHANGED <<disk, git, made, outcome, operator>>
           /\ InHand(s) /\ run.at = s
           /\ run' \in Runs /\ run'.at = s /\ run'.old = run.old /\ run'.new = run.new
           /\ run'.pc \in {"set", "revert", "restore"}
<1>1. run.old \in Passwords /\ run.new \in Passwords /\ holds \in [Services -> Passwords] /\ run \in Runs
  BY Typed DEF Runs
<1>2. UNCHANGED <<disk, git, made, outcome, operator>> /\ InHand(s) /\ run.at = s
  BY DEF Sets, SetFails, VerifyFails, Reverts, RevertFails, At, InHand
<1>3. \/ UNCHANGED holds
      \/ holds' = [holds EXCEPT ![s] = run.new]
      \/ holds' = [holds EXCEPT ![s] = run.old]
  BY DEF Sets, SetFails, VerifyFails, Reverts, RevertFails
<1>4. PICK pc \in {"set", "revert", "restore"}, why \in Whys : Goto(pc, why)
  BY DEF Sets, SetFails, VerifyFails, Reverts, RevertFails, Whys
<1>5. pc \in Steps
  BY DEF Steps
<1> QED
  BY <1>1, <1>2, <1>3, <1>4, <1>5, GotoIs

\* No step gives a variable a value of another type.
LEMMA TypesInductive == TypeOK /\ [Next]_vars => TypeOK'
<1> DEFINE Types ==
      /\ run \in Runs /\ outcome \in [Services -> Outcomes]
      /\ working \in [Services -> Passwords] /\ committed \in [Services -> Passwords]
      /\ holds \in [Services -> Passwords] /\ past \in [Services -> SUBSET Passwords]
      /\ dirty \subseteq Files /\ made \in [Services -> Passwords]
      /\ told \in BOOLEAN /\ advised \subseteq Files
<1>p. TypeOK <=> Types
  BY Typed
<1>q. TypeOK' <=> Types'
  BY <1>p, PTL
<1> SUFFICES ASSUME Types, [Next]_vars PROVE Types'
  BY <1>p, <1>q
<1>1. CASE Begin
  <2>1. run' \in Runs
    BY <1>1, NoRunIs DEF Begin
  <2> QED
    BY <1>1, <2>1 DEF Begin, disk, git, operator, Outcomes
<1>2. ASSUME NEW s \in Services, Skips(s) PROVE Types'
  <2>1. s + 1 \in 1..N + 1
    BY DEF Services
  <2>2. run' \in Runs
    BY <1>2, <2>1 DEF Skips, Runs
  <2> QED
    BY <1>2, <2>2 DEF Skips, disk, git, operator
<1>3. ASSUME NEW s \in Services, Drifts(s) PROVE Types'
  <2>1. run' \in Runs /\ outcome' \in [Services -> Outcomes]
    BY <1>3, SaysIs DEF Drifts, Outcomes
  <2>2. advised' \subseteq Files
    BY <1>3 DEF Drifts
  <2> QED
    BY <1>3, <2>1, <2>2 DEF Drifts, disk, git
<1>4. ASSUME NEW s \in Services, Writes(s) PROVE Types'
  <2>1. made[s] + 1 \in Passwords /\ run' \in Runs /\ FileOf[s] \in Files
    BY <1>4, <1>p, WritesIs
  <2>2. working' \in [Services -> Passwords] /\ made' \in [Services -> Passwords] /\ dirty' \subseteq Files
    BY <1>4, <2>1 DEF Writes, SetSecret
  <2> QED
    BY <1>4, <2>1, <2>2 DEF Writes, git, operator
<1>5. ASSUME NEW s \in Services, WriteFails(s) \/ Verifies(s) \/ RestoreFails(s) PROVE Types'
  <2>1. PICK what \in Outcomes : Says(s, what)
    BY <1>5 DEF WriteFails, Verifies, RestoreFails, Outcomes
  <2>2. run' \in Runs /\ outcome' \in [Services -> Outcomes]
    BY <2>1, SaysIs
  <2> QED
    BY <1>5, <2>2 DEF WriteFails, Verifies, RestoreFails, disk, git, operator
<1>6. ASSUME NEW s \in Services,
             Sets(s) \/ SetFails(s) \/ VerifyFails(s) \/ Reverts(s) \/ RevertFails(s)
      PROVE  Types'
  BY <1>6, <1>p, CallIs DEF disk, git, operator
<1>7. ASSUME NEW s \in Services, Restores(s) PROVE Types'
  <2>1. run.why \in Outcomes /\ run.old \in Passwords /\ FileOf[s] \in Files
    BY DEF Runs, Whys, Outcomes
  <2>2. run' \in Runs /\ outcome' \in [Services -> Outcomes]
    BY <1>7, <2>1, SaysIs DEF Restores
  <2>3. working' \in [Services -> Passwords] /\ dirty' \subseteq Files
    BY <1>7, <2>1 DEF Restores, SetSecret
  <2> QED
    BY <1>7, <2>2, <2>3 DEF Restores, git, operator
<1>8. CASE Ends
  <2>1. run' \in Runs
    BY <1>8, NoRunIs DEF Ends
  <2> QED
    BY <1>8, <2>1 DEF Ends, disk, git
<1>9. CASE Stops
  <2>1. run' \in Runs
    BY <1>9, NoRunIs DEF Stops
  <2> QED
    BY <1>9, <2>1 DEF Stops, disk, git, operator
<1>10. CASE Commit
  BY <1>10 DEF Commit
<1>11. ASSUME NEW f \in Files, Checkout(f) PROVE Types'
  BY <1>11 DEF Checkout, git
<1>12. CASE UNCHANGED vars
  BY <1>12 DEF vars, disk, git, operator
<1> QED
  BY <1>1, <1>2, <1>3, <1>4, <1>5, <1>6, <1>7, <1>8, <1>9, <1>10, <1>11, <1>12
  DEF Next, Rotation, Operator, Handles

LEMMA InitTypes == Init => TypeOK
<1> SUFFICES ASSUME Init PROVE TypeOK
  OBVIOUS
<1>1. 0 \in Passwords
  BY DEF Passwords
<1>2. run \in Runs
  BY NoRunIs DEF Init
<1>3. working = [s \in Services |-> 0] /\ committed = [s \in Services |-> 0] /\ holds = [s \in Services |-> 0]
  BY DEF Init
<1>4. past \in [Services -> SUBSET Passwords] /\ made \in [Services -> Passwords]
  BY <1>1 DEF Init
<1> QED
  BY <1>1, <1>2, <1>3, <1>4, Typed DEF Init, Outcomes

-----------------------------------------------------------------------------
(* The invariant, one lemma per kind of step.                              *)

\* A run begins, ends or is stopped, or the operator commits or checks out: no service is
\* in hand and no outcome is promised but where the run has just begun, with none.
LEMMA BetweenRuns == ASSUME IInv, TypeOK', Begin \/ Ends \/ Stops \/ Commit \/ \E f \in Files : Checkout(f)
                     PROVE  IInv'
<1>1. run'.pc = "idle" \/ (run'.pc = "next" /\ \A s \in Services : outcome'[s] = "none")
  BY DEF Begin, Ends, Stops, Commit, Checkout, NoRun
<1>2. KnownInHand'
  BY <1>1 DEF KnownInHand, InHand
<1>3. YetToCome' /\ OutcomeIsTrue'
  BY <1>1 DEF YetToCome, OutcomeIsTrue
<1> QED
  BY <1>2, <1>3 DEF IInv

\* A service is passed over.
LEMMA SkipsKeeps == ASSUME IInv, TypeOK', NEW s \in Services, Skips(s) PROVE IInv'
<1>1. run.pc = "next" /\ run.at = s /\ run'.pc = "next" /\ run'.at = s + 1
  BY Typed DEF IInv, Skips, At, Runs
<1>2. UNCHANGED <<working, holds, outcome>>
  BY DEF Skips, disk
<1>3. KnownInHand' /\ YetToCome'
  BY <1>1, <1>2 DEF IInv, KnownInHand, InHand, YetToCome, Services
<1>4. OutcomeIsTrue'
  BY <1>1, <1>2 DEF IInv, OutcomeIsTrue
<1> QED
  BY <1>3, <1>4 DEF IInv

\* The services after the next one are after this one.
LEMMA Later == \A r, s \in Services : r >= s + 1 => r # s /\ r >= s
BY DEF Services

\* A service gets an outcome that is so, and the run leaves the others alone.
LEMMA SaysKeeps ==
    ASSUME IInv, TypeOK', NEW s \in Services, NEW what \in Outcomes, Says(s, what),
           run.pc # "idle", run.at = s,
           UNCHANGED holds, \A r \in Services \ {s} : working'[r] = working[r],
           \/ what \in {"ok", "not written"}
           \/ what \in {"refused", "reverted"} /\ s \notin Flaky
           => holds[s] = working'[s]
    PROVE  IInv'
<1>1. /\ run'.pc = "next" /\ run'.at = s + 1 /\ outcome'[s] = what
      /\ \A r \in Services \ {s} : outcome'[r] = outcome[r]
  BY SaysIs, Typed DEF IInv
<1>2. KnownInHand'
  BY <1>1 DEF KnownInHand, InHand
<1>3. YetToCome'
  <2> SUFFICES ASSUME NEW r \in Services, r >= s + 1 PROVE outcome'[r] = "none"
    BY <1>1 DEF YetToCome
  <2>1. r # s /\ r >= s
    BY Later
  <2> QED
    BY <1>1, <2>1 DEF IInv, YetToCome
<1>4. OutcomeIsTrue'
  <2> SUFFICES ASSUME NEW r \in Services,
                      \/ outcome'[r] \in {"ok", "not written"}
                      \/ outcome'[r] \in {"refused", "reverted"} /\ r \notin Flaky
               PROVE  holds'[r] = working'[r]
    BY DEF OutcomeIsTrue
  <2>1. CASE r = s
    BY <1>1, <2>1
  <2>2. CASE r # s
    BY <1>1, <2>2 DEF IInv, OutcomeIsTrue
  <2> QED
    BY <2>1, <2>2
<1> QED
  BY <1>2, <1>3, <1>4 DEF IInv

\* A drift, a refused write-ahead, a verified rotation, a restore or a failed one.
LEMMA OutcomeKeeps ==
    ASSUME IInv, TypeOK', NEW s \in Services,
           Drifts(s) \/ WriteFails(s) \/ Verifies(s) \/ Restores(s) \/ RestoreFails(s)
    PROVE  IInv'
<1>1. run.pc # "idle" /\ run.at = s /\ UNCHANGED holds
  BY DEF Drifts, WriteFails, Verifies, Restores, RestoreFails, At
<1>2. \A r \in Services \ {s} : working'[r] = working[r]
  BY Typed DEF IInv, Drifts, WriteFails, Verifies, Restores, RestoreFails, SetSecret, disk
<1>3. CASE Drifts(s)
  BY <1>1, <1>2, <1>3, SaysKeeps DEF Drifts, Outcomes
<1>4. CASE WriteFails(s)
  BY <1>1, <1>2, <1>4, SaysKeeps DEF WriteFails, Outcomes, disk
<1>5. CASE Verifies(s)
  <2>1. holds[s] = working'[s]
    BY <1>5 DEF Verifies, disk, IInv, KnownInHand, InHand, At
  <2> QED
    BY <1>1, <1>2, <1>5, <2>1, SaysKeeps DEF Verifies, Outcomes
<1>6. CASE Restores(s)
  <2>1. run.why \in Outcomes /\ working'[s] = run.old
    BY <1>6, Typed DEF IInv, Runs, Whys, Outcomes, Restores, SetSecret
  <2>2. run.why \in {"refused", "reverted"} /\ s \notin Flaky => holds[s] = run.old
    BY <1>6 DEF Restores, IInv, KnownInHand, InHand, At
  <2>3. run.why \notin {"ok", "not written"}
    BY Typed DEF IInv, Runs, Whys
  <2> QED
    BY <1>1, <1>2, <1>6, <2>1, <2>2, <2>3, SaysKeeps DEF Restores
<1>7. CASE RestoreFails(s)
  BY <1>1, <1>2, <1>7, SaysKeeps DEF RestoreFails, Outcomes
<1> QED
  BY <1>3, <1>4, <1>5, <1>6, <1>7

\* A new password is written ahead: the service has no outcome yet, and takes the old one.
LEMMA WritesKeeps == ASSUME IInv, TypeOK', NEW s \in Services, Writes(s) PROVE IInv'
<1>1. run.pc = "next" /\ run.at = s /\ holds[s] = working[s] /\ UNCHANGED <<holds, outcome>>
  BY DEF Writes, At
<1>2. /\ run'.pc = "written" /\ run'.at = s /\ run'.old = working[s] /\ run'.new = made[s] + 1
      /\ working'[s] = made[s] + 1 /\ \A r \in Services \ {s} : working'[r] = working[r]
  BY WritesIs, Typed DEF IInv
<1>3. outcome[s] = "none"
  BY <1>1 DEF IInv, YetToCome, Services
<1>4. YetToCome'
  BY <1>1, <1>2 DEF IInv, YetToCome
<1>5. KnownInHand'
  BY <1>1, <1>2 DEF KnownInHand, InHand
<1>6. OutcomeIsTrue'
  BY <1>1, <1>2, <1>3 DEF IInv, OutcomeIsTrue
<1> QED
  BY <1>4, <1>5, <1>6 DEF IInv

\* A call to the service in hand, which has no outcome yet.
LEMMA CallKeeps ==
    ASSUME IInv, TypeOK', NEW s \in Services,
           Sets(s) \/ SetFails(s) \/ VerifyFails(s) \/ Reverts(s) \/ RevertFails(s)
    PROVE  IInv'
<1>1. /\ \A r \in Services \ {s} : holds'[r] = holds[r]
      /\ holds'[s] \in {holds[s], run.old, run.new}
      /\ InHand(s) /\ run.at = s /\ run.pc # "idle"
      /\ run'.at = s /\ run'.old = run.old /\ run'.new = run.new
      /\ run'.pc \in {"set", "revert", "restore"}
      /\ UNCHANGED <<working, outcome>>
  BY CallIs DEF IInv, disk, InHand
<1>2. outcome[s] = "none"
  BY <1>1 DEF IInv, YetToCome, Services
<1>3. YetToCome'
  BY <1>1 DEF IInv, YetToCome
<1>4. OutcomeIsTrue'
  BY <1>1, <1>2 DEF IInv, OutcomeIsTrue
<1>5. working[s] = run.new /\ holds[s] \in {run.old, run.new} /\ (run.pc = "written" => holds[s] = run.old)
  BY <1>1 DEF IInv, KnownInHand
<1>6. run'.pc = "restore" /\ run'.why \in {"refused", "reverted"} /\ s \notin Flaky => holds'[s] = run.old
  <2> SUFFICES ASSUME run'.pc = "restore", run'.why \in {"refused", "reverted"}, s \notin Flaky
               PROVE  holds'[s] = run.old
    OBVIOUS
  <2>1. SetFails(s) \/ Reverts(s)
    <3>1. /\ Sets(s) => Goto("set", "none")
          /\ VerifyFails(s) => Goto("revert", "none")
          /\ RevertFails(s) => Goto("restore", "not reverted")
      BY DEF Sets, VerifyFails, RevertFails
    <3>2. {"set", "revert", "restore"} \subseteq Steps /\ {"none", "not reverted"} \subseteq Whys
      BY DEF Steps, Whys
    <3> QED
      BY <3>1, <3>2, GotoIs, Typed DEF IInv
  <2>2. CASE SetFails(s)
    BY <1>5, <2>2 DEF SetFails, At
  <2>3. CASE Reverts(s)
    BY <2>3, Typed DEF IInv, Reverts
  <2> QED
    BY <2>1, <2>2, <2>3
<1>7. KnownInHand'
  BY <1>1, <1>5, <1>6 DEF KnownInHand, InHand
<1> QED
  BY <1>3, <1>4, <1>7 DEF IInv

LEMMA InitHolds == Init => IInv
BY InitTypes DEF Init, IInv, YetToCome, KnownInHand, InHand, OutcomeIsTrue, NoRun

LEMMA Inductive == IInv /\ [Next]_vars => IInv'
<1> SUFFICES ASSUME IInv, [Next]_vars PROVE IInv'
  OBVIOUS
<1>t. TypeOK'
  BY TypesInductive DEF IInv
<1>1. CASE UNCHANGED vars
  BY <1>1, <1>t DEF vars, disk, git, operator, IInv, YetToCome, KnownInHand, InHand, OutcomeIsTrue
<1>2. CASE Rotation
  BY <1>t, <1>2, BetweenRuns, SkipsKeeps, OutcomeKeeps, WritesKeeps, CallKeeps DEF Rotation, Handles
<1>3. CASE Stops \/ Operator
  BY <1>t, <1>3, BetweenRuns DEF Operator
<1> QED
  BY <1>1, <1>2, <1>3 DEF Next

-----------------------------------------------------------------------------
\* The three ways of LostOnlySo.
LossIsOneOf(s) ==
    \/ Checkout(FileOf[s])
    \/ At(s, "restore") /\ holds[s] = run.new
    \/ InHand(s) /\ run.old \notin past[s]

\* A step that leaves what the files, the commits and the service hold, and has nothing
\* in hand before and after it, loses nothing.
LEMMA SameKnown ==
    ASSUME NEW s \in Services, Known(s), ~InHand(s), ~InHand(s)',
           holds'[s] = holds[s], working'[s] = working[s], past[s] \subseteq past'[s]
    PROVE  Known(s)'
BY DEF Known

\* Where the run leaves a service, or is stopped, and the file does not have the old
\* password again, that one is lost if it was never committed; the new one is not.
LEMMA LetGo ==
    ASSUME IInv, NEW s \in Services, InHand(s), run.old \in past[s], UNCHANGED <<working, holds, past>>
    PROVE  Known(s)'
BY DEF IInv, KnownInHand, Known

\* Every step keeps every service's password known, or is one of the three.
LEMMA StepKnown ==
    ASSUME IInv, [Next]_vars, NEW s \in Services, Known(s)
    PROVE  Known(s)' \/ LossIsOneOf(s)
<1>1. CASE Begin \/ Ends
  <2>1. run.pc \in {"idle", "next"} /\ run'.pc \in {"idle", "next"} /\ UNCHANGED <<working, holds, past>>
    BY <1>1 DEF Begin, Ends, At, NoRun, disk, git
  <2> QED
    BY <2>1, SameKnown DEF InHand
<1>2. ASSUME NEW r \in Services, Skips(r) \/ Drifts(r) \/ WriteFails(r) PROVE Known(s)'
  <2>1. run.pc = "next" /\ UNCHANGED <<working, holds, past>>
    BY <1>2 DEF Skips, Drifts, WriteFails, At, disk, git
  <2>2. run'.pc = "next"
    <3>1. CASE Skips(r)
      BY <2>1, <3>1, Typed DEF IInv, Skips, Runs
    <3>2. CASE Drifts(r) \/ WriteFails(r)
      BY <3>2 DEF Drifts, WriteFails, Says, NoRun
    <3> QED
      BY <1>2, <3>1, <3>2
  <2> QED
    BY <2>1, <2>2, SameKnown DEF InHand
<1>3. ASSUME NEW r \in Services, Writes(r) PROVE Known(s)'
  <2>1. run.pc = "next" /\ holds[r] = working[r] /\ UNCHANGED <<holds, past>>
    BY <1>3 DEF Writes, At, git
  <2>2. /\ run'.pc = "written" /\ run'.at = r /\ run'.old = working[r]
        /\ \A q \in Services \ {r} : working'[q] = working[q]
    BY <1>3, WritesIs, Typed DEF IInv
  <2>3. CASE s = r
    BY <2>1, <2>2, <2>3 DEF Known, InHand
  <2>4. CASE s # r
    BY <2>1, <2>2, <2>4, SameKnown DEF InHand
  <2> QED
    BY <2>3, <2>4
<1>4. ASSUME NEW r \in Services,
             Sets(r) \/ SetFails(r) \/ VerifyFails(r) \/ Reverts(r) \/ RevertFails(r)
      PROVE  Known(s)'
  <2>1. /\ \A q \in Services \ {r} : holds'[q] = holds[q]
        /\ holds'[r] \in {holds[r], run.old, run.new} /\ InHand(r) /\ run.at = r
        /\ run'.at = r /\ run'.old = run.old /\ run'.new = run.new
        /\ run'.pc \in {"set", "revert", "restore"} /\ UNCHANGED <<working, past>>
    BY <1>4, CallIs DEF IInv, disk, git
  <2>2. CASE s = r
    BY <2>1, <2>2 DEF IInv, KnownInHand, Known, InHand
  <2>3. CASE s # r
    BY <2>1, <2>3, SameKnown DEF InHand
  <2> QED
    BY <2>2, <2>3
<1>5. ASSUME NEW r \in Services, Verifies(r) \/ Restores(r) \/ RestoreFails(r)
      PROVE  Known(s)' \/ LossIsOneOf(s)
  <2>1. InHand(r) /\ run.at = r /\ UNCHANGED <<holds, past>>
    BY <1>5 DEF Verifies, Restores, RestoreFails, At, InHand, git
  <2>2. run'.pc = "next"
    BY <1>5 DEF Verifies, Restores, RestoreFails, Says, NoRun
  <2>3. CASE s # r
    <3>1. working'[s] = working[s]
      BY <1>5, <2>3, Typed DEF IInv, Verifies, Restores, RestoreFails, SetSecret, disk
    <3> QED
      BY <2>1, <2>2, <2>3, <3>1, SameKnown DEF InHand
  <2>4. CASE s = r /\ Verifies(r)
    BY <2>1, <2>4 DEF Verifies, disk, IInv, KnownInHand, Known
  <2>5. CASE s = r /\ Restores(r)
    <3>1. working'[s] = run.old /\ At(s, "restore")
      BY <2>5, Typed DEF IInv, Restores, SetSecret
    <3> QED
      BY <2>1, <2>5, <3>1 DEF IInv, KnownInHand, Known, LossIsOneOf
  <2>6. CASE s = r /\ RestoreFails(r)
    BY <2>1, <2>6, LetGo DEF RestoreFails, disk, LossIsOneOf
  <2> QED
    BY <1>5, <2>3, <2>4, <2>5, <2>6
<1>6. CASE Stops
  <2>1. run'.pc = "idle" /\ UNCHANGED <<working, holds, past>>
    BY <1>6 DEF Stops, NoRun, disk, git
  <2>2. CASE InHand(s)
    BY <2>1, <2>2, LetGo DEF LossIsOneOf
  <2>3. CASE ~InHand(s)
    BY <2>1, <2>3, SameKnown DEF InHand
  <2> QED
    BY <2>2, <2>3
<1>7. CASE Commit
  <2>1. run.pc = "idle" /\ run'.pc = "idle" /\ UNCHANGED <<working, holds>> /\ past[s] \subseteq past'[s]
    BY <1>7, Typed DEF IInv, Commit
  <2> QED
    BY <2>1, SameKnown DEF InHand
<1>8. ASSUME NEW f \in Files, Checkout(f) PROVE Known(s)' \/ LossIsOneOf(s)
  <2>1. run.pc = "idle" /\ run'.pc = "idle" /\ UNCHANGED <<holds, past>>
    BY <1>8 DEF Checkout, git
  <2>2. FileOf[s] # f => working'[s] = working[s]
    BY <1>8 DEF Checkout, InFile
  <2>3. CASE FileOf[s] = f
    BY <1>8, <2>3 DEF LossIsOneOf
  <2>4. CASE FileOf[s] # f
    BY <2>1, <2>2, <2>4, SameKnown DEF InHand
  <2> QED
    BY <2>3, <2>4
<1>9. CASE UNCHANGED vars
  BY <1>9 DEF vars, disk, git, Known, InHand
<1> QED
  BY <1>1, <1>2, <1>3, <1>4, <1>5, <1>6, <1>7, <1>8, <1>9 DEF Next, Rotation, Operator, Handles

-----------------------------------------------------------------------------
\* The variables keep their types, whatever files are shared and whenever runs are stopped:
\* the run is at a service of the list or at its end (rotate_break_glass's loop).
THEOREM TypeCorrect == Spec => []TypeOK
BY InitTypes, TypesInductive, PTL DEF Spec

\* What a run said of a service is so while it goes on with the others, whose passwords
\* may be in the same file (rotate_one's outcomes).
THEOREM OutcomesAreSo == Spec => []OutcomeIsTrue
<1>1. IInv => OutcomeIsTrue
  BY DEF IInv
<1> QED
  BY <1>1, InitHolds, Inductive, PTL DEF Spec

\* A checkout, a restore under a service that kept the new password, and a run from a
\* password never committed that is stopped or cannot restore it: no other step of runs,
\* stops and the operator loses a service's password (rotate_one writes ahead of the service).
THEOREM PasswordsAreKept == Spec => LostOnlySo
<1>1. IInv /\ [Next]_vars =>
        [\A s \in Services : Known(s) /\ ~Known(s)' =>
          \/ Checkout(FileOf[s])
          \/ At(s, "restore") /\ holds[s] = run.new
          \/ InHand(s) /\ run.old \notin past[s]]_vars
  BY StepKnown DEF LossIsOneOf
<1> QED
  BY <1>1, InitHolds, Inductive, PTL DEF Spec, LostOnlySo
=============================================================================
