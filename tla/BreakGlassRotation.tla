------------------------- MODULE BreakGlassRotation -------------------------
(***************************************************************************)
(* toolkit secrets rotate --group break-glass: for every service that has  *)
(* a break-glass account, in the order of their names, the new password is *)
(* written to the SOPS file that holds it, then given to the service, then *)
(* verified; a failure restores the file, and the service if it had taken  *)
(* the change.  Between runs the operator may do what the tool said: git   *)
(* checkout of a file where it reported a drift, and a commit of the files *)
(* that changed; or run it again at once.                                  *)
(*                                                                         *)
(* Several services' passwords are in one file: staging.enc.yaml has       *)
(* grafana's and gitea's, prod.enc.yaml open-webui's too.  A run may be    *)
(* stopped anywhere, any number of times: a hard kill, or an exception     *)
(* nobody catches (a verification on a broken connection).                 *)
(***************************************************************************)
EXTENDS Naturals

CONSTANTS
    N,              \* the services are 1..N, in the order of their names
    Files, FileOf,  \* FileOf[s]: the SOPS file that holds the password of s
    MaxNew,         \* bound: how many passwords are made for a service
    Flaky           \* the services whose answer, or the lack of one, may say another
                    \* thing than what they did

Services == 1..N

ASSUME RotationAssumption ==
    /\ N \in Nat /\ MaxNew \in Nat
    /\ FileOf \in [Services -> Files]
    /\ Flaky \subseteq Services

VARIABLES
    working,    \* working[s]: the password of s in the file as it is on disk
    committed,  \* in the file as it is committed
    past,       \* past[s]: every password of s that was ever committed
    dirty,      \* the files git status has a change for
    holds,      \* the password the service takes
    made,       \* how many were made for s: they are numbered, 0 is the first
    run,        \* where the run is: the service, the step, its old and new password,
                \* and why it restores the file, if it does
    outcome,    \* what the run said of s
    told,       \* was the operator told to commit since he last did?
    advised     \* the files he was told to git checkout

disk == <<working, dirty>>
git == <<committed, past>>
operator == <<told, advised>>
vars == <<disk, git, holds, made, run, outcome, operator>>

Passwords == 0..MaxNew
NoRun == [pc |-> "idle", at |-> 1, old |-> 0, new |-> 0, why |-> "none"]

InFile(f) == {s \in Services : FileOf[s] = f}

At(s, pc) == run.pc = pc /\ run.at = s
Goto(pc, why) == run' = [run EXCEPT !.pc = pc, !.why = why]
InHand(s) == run.pc \notin {"idle", "next"} /\ run.at = s

\* The outcome of s, and on to the next service.
Says(s, what) ==
    /\ outcome' = [outcome EXCEPT ![s] = what]
    /\ run' = [NoRun EXCEPT !.pc = "next", !.at = s + 1]

\* sops set: the file is encrypted anew, so its bytes differ from the commit's
\* even where its values do not.
SetSecret(s, value) ==
    /\ working' = [working EXCEPT ![s] = value]
    /\ dirty' = dirty \cup {FileOf[s]}

-----------------------------------------------------------------------------
(* rotate_break_glass, and rotate_one for each service.                    *)

Begin ==
    /\ run.pc = "idle"
    /\ run' = [NoRun EXCEPT !.pc = "next"]
    /\ outcome' = [s \in Services |-> "none"]
    /\ UNCHANGED <<disk, git, holds, made, operator>>

\* Mutant: the loop goes on past a service without a path and the one after it.
SkipsTwo(s) ==
    /\ At(s, "next")
    /\ run' = [run EXCEPT !.at = s + 2]
    /\ UNCHANGED <<disk, git, holds, made, outcome, operator>>

\* No path to the service: it is passed over.
Skips(s) ==
    /\ At(s, "next")
    /\ run' = [run EXCEPT !.at = s + 1]
    /\ UNCHANGED <<disk, git, holds, made, outcome, operator>>

\* The value in the file does not open the service, or the service answers with
\* an error, which is taken for the same.
Drifts(s) ==
    /\ At(s, "next")
    /\ holds[s] # working[s] \/ s \in Flaky
    /\ Says(s, "drift")
    /\ advised' = advised \cup ({FileOf[s]} \cap dirty)
    /\ UNCHANGED <<disk, git, holds, made, told>>

\* Mutant: the new password is the service's before it is in the file.
WritesLater(s) ==
    /\ At(s, "next")
    /\ holds[s] = working[s] /\ made[s] < MaxNew
    /\ made' = [made EXCEPT ![s] = @ + 1]
    /\ run' = [NoRun EXCEPT !.pc = "written", !.at = s, !.old = working[s], !.new = made[s] + 1]
    /\ UNCHANGED <<disk, git, holds, outcome, operator>>

\* The old value opens the service: a new one is made and written ahead.
Writes(s) ==
    /\ At(s, "next")
    /\ holds[s] = working[s] /\ made[s] < MaxNew
    /\ made' = [made EXCEPT ![s] = @ + 1]
    /\ SetSecret(s, made[s] + 1)
    /\ run' = [NoRun EXCEPT !.pc = "written", !.at = s, !.old = working[s], !.new = made[s] + 1]
    /\ UNCHANGED <<git, holds, outcome, operator>>

\* sops set refuses.
WriteFails(s) ==
    /\ At(s, "next")
    /\ holds[s] = working[s]
    /\ Says(s, "not written")
    /\ UNCHANGED <<disk, git, holds, made, operator>>

\* set_password: the service says it took the new password; it may have kept the old.
Sets(s) ==
    /\ At(s, "written")
    /\ holds' \in {holds, [holds EXCEPT ![s] = run.new]}
    /\ Goto("set", "none")
    /\ UNCHANGED <<disk, git, made, outcome, operator>>

\* It refuses it; or its answer does not come, or is an error, though it took it.
SetFails(s) ==
    /\ At(s, "written")
    /\ \/ UNCHANGED holds
       \/ s \in Flaky /\ holds' = [holds EXCEPT ![s] = run.new]
    /\ Goto("restore", "refused")
    /\ UNCHANGED <<disk, git, made, outcome, operator>>

\* The new value opens the service and the old one does not.
Verifies(s) ==
    /\ At(s, "set")
    /\ holds[s] = run.new
    /\ Says(s, "ok")
    /\ UNCHANGED <<disk, git, holds, made, operator>>

\* The new value does not open the service, or the old one still does, or the
\* answer is an error.
VerifyFails(s) ==
    /\ At(s, "set")
    /\ Goto("revert", "none")
    /\ UNCHANGED <<disk, git, holds, made, outcome, operator>>

\* set_password again, authenticated with the new value, which the service must hold.
Reverts(s) ==
    /\ At(s, "revert")
    /\ holds[s] = run.new
    /\ \/ holds' = [holds EXCEPT ![s] = run.old]
       \/ s \in Flaky /\ UNCHANGED holds
    /\ Goto("restore", "reverted")
    /\ UNCHANGED <<disk, git, made, outcome, operator>>

RevertFails(s) ==
    /\ At(s, "revert")
    /\ \/ UNCHANGED holds
       \/ s \in Flaky /\ holds[s] = run.new /\ holds' = [holds EXCEPT ![s] = run.old]
    /\ Goto("restore", "not reverted")
    /\ UNCHANGED <<disk, git, made, outcome, operator>>

\* Mutant: the outcome says restored, and nothing was.
RestoresNot(s) ==
    /\ At(s, "restore")
    /\ Says(s, run.why)
    /\ UNCHANGED <<disk, git, holds, made, operator>>

\* _restore: the old value is in the file again.
Restores(s) ==
    /\ At(s, "restore")
    /\ SetSecret(s, run.old)
    /\ Says(s, run.why)
    /\ UNCHANGED <<git, holds, made, operator>>

RestoreFails(s) ==
    /\ At(s, "restore")
    /\ Says(s, "not restored")
    /\ UNCHANGED <<disk, git, holds, made, operator>>

\* The command ends, and says to commit if it rotated any service.
Ends ==
    /\ At(N + 1, "next")
    /\ run' = NoRun
    /\ told' = (told \/ \E s \in Services : outcome[s] = "ok")
    /\ UNCHANGED <<disk, git, holds, made, outcome, advised>>

\* A hard kill, or an exception nobody catches.
Stops ==
    /\ run.pc # "idle"
    /\ run' = NoRun
    /\ UNCHANGED <<disk, git, holds, made, outcome, operator>>

-----------------------------------------------------------------------------
(* The operator, between runs.                                             *)

\* He commits every file that changed.
Commit ==
    /\ run.pc = "idle"
    /\ told
    /\ committed' = working
    /\ past' = [s \in Services |-> past[s] \cup {working[s]}]
    /\ dirty' = {} /\ told' = FALSE
    /\ UNCHANGED <<working, holds, made, run, outcome, advised>>

\* git checkout -- <file>
Checkout(f) ==
    /\ run.pc = "idle"
    /\ f \in advised
    /\ working' = [s \in Services |-> IF s \in InFile(f) THEN committed[s] ELSE working[s]]
    /\ dirty' = dirty \ {f}
    /\ advised' = advised \ {f}
    /\ UNCHANGED <<git, holds, made, run, outcome, told>>

-----------------------------------------------------------------------------
Init ==
    /\ working = [s \in Services |-> 0] /\ committed = working /\ holds = working
    /\ past = [s \in Services |-> {0}] /\ dirty = {}
    /\ made = [s \in Services |-> 0]
    /\ run = NoRun
    /\ outcome = [s \in Services |-> "none"]
    /\ told = FALSE /\ advised = {}

\* What the run does with a service it has a path to.
Handles(s) ==
    \/ Drifts(s) \/ Writes(s) \/ WriteFails(s) \/ Sets(s) \/ SetFails(s) \/ Verifies(s)
    \/ VerifyFails(s) \/ Reverts(s) \/ RevertFails(s) \/ Restores(s) \/ RestoreFails(s)

Rotation == Begin \/ Ends \/ \E s \in Services : Skips(s) \/ Handles(s)
Operator == Commit \/ \E f \in Files : Checkout(f)

Next == Rotation \/ Stops \/ Operator

Spec == Init /\ [][Next]_vars

-----------------------------------------------------------------------------
\* Every variable keeps its type: the run is at a service of the list or at its end.
TypeOK ==
    /\ working \in [Services -> Passwords] /\ committed \in [Services -> Passwords]
    /\ holds \in [Services -> Passwords] /\ past \in [Services -> SUBSET Passwords]
    /\ dirty \subseteq Files /\ made \in [Services -> Passwords]
    /\ run \in [pc : {"idle", "next", "written", "set", "revert", "restore"}, at : 1..N + 1,
                old : Passwords, new : Passwords,
                why : {"none", "refused", "reverted", "not reverted"}]
    /\ outcome \in [Services -> {"none", "drift", "not written", "ok", "refused", "reverted",
                                 "not reverted", "not restored"}]
    /\ told \in BOOLEAN /\ advised \subseteq Files

\* The password a service takes is in its SOPS file, or in a commit of it, or in the
\* hands of the run that is changing it.
Known(s) ==
    holds[s] \in past[s] \cup {working[s]} \cup (IF InHand(s) THEN {run.old, run.new} ELSE {})

\* The password a service takes gets lost in three ways and no other, wherever runs are
\* stopped and whatever calls and writes fail (rotate_one's write-ahead, restore and
\* revert): by a git checkout of its file; when the file is restored under a service that
\* took the new password and did not give it back; and when a run starts from a password
\* that was never committed and is stopped or cannot restore it.
LostOnlySo ==
    [][\A s \in Services : Known(s) /\ ~Known(s)' =>
          \/ Checkout(FileOf[s])
          \/ At(s, "restore") /\ holds[s] = run.new
          \/ InHand(s) /\ run.old \notin past[s]]_vars

\* What a run said of a service is so as long as the run goes on, whatever it does to the
\* services after it: "ok", and a value that could not be written ahead, mean that the file
\* opens the service; so do a refusal and a revert, with the file restored, but where the
\* service may have answered falsely (the outcomes of rotate_one, break_glass_rotation.py:
\* 110-125).
OutcomeIsTrue ==
    run.pc # "idle" =>
        \A s \in Services :
            \/ outcome[s] \in {"ok", "not written"}
            \/ outcome[s] \in {"refused", "reverted"} /\ s \notin Flaky
            => holds[s] = working[s]

\* A checkout the tool advised never parts a service from its file (break_glass_rotation.py:
\* 20-21: it "restores the committed value, which is the one the service still holds").
CheckoutRestores ==
    [][\A f \in Files : Checkout(f) =>
          \A s \in InFile(f) : holds[s] = working[s] => holds'[s] = working'[s]]_vars
=============================================================================
