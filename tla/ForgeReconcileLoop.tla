------------------------- MODULE ForgeReconcileLoop -------------------------
(***************************************************************************)
(* When the reconciler reads: Reconciler.Run, its retries, and the hourly  *)
(* call ceiling every read goes through.  What a read does to the tables   *)
(* is ForgeReadModel's; here it succeeds or fails, and takes time.         *)
(*                                                                         *)
(* Time is counted in ticks and kept as differences: how long a sleep has  *)
(* to go, how old as_of is.  The behaviours are infinite and the states    *)
(* are not, so liveness needs no bound on time.                            *)
(***************************************************************************)
EXTENDS Integers, Sequences

CONSTANTS
    Order,          \* the declared sources, in the order they are declared
    Flaky,          \* sources whose forge or database may refuse a read
    Period,         \* ReconcilePeriod
    Retry,          \* RetryPeriod
    ReadTime,       \* the longest a read takes
    MaxCalls,       \* the most calls a read makes: its pages and a token exchange
    Limit,          \* HourlyCallCeiling
    Hour,           \* ticks in an hour
    Hangs,          \* may a forge accept a call and never answer it?
    MaxRestarts     \* bound

Sources == {Order[k] : k \in DOMAIN Order}
N == Len(Order)

ASSUME OrderAssumption ==
    Order \in Seq(Sources) /\ N > 0 /\ \A j, k \in 1..N : j # k => Order[j] # Order[k]
ASSUME TimesAssumption ==
    /\ Period \in Nat /\ Retry \in Nat \ {0} /\ Retry < Period
    /\ ReadTime \in Nat /\ MaxCalls \in Nat \ {0}
    /\ Limit \in Nat \ {0} /\ Hour \in Nat \ {0}
    /\ Flaky \subseteq Sources /\ Hangs \in BOOLEAN /\ MaxRestarts \in Nat
\* The alert fires when as_of is older than two periods: a cycle must be this short for a
\* source that answers to stay within that.
ASSUME CycleAssumption == 2 * N * ReadTime <= Period

VARIABLES
    phase,      \* "reading", "sleeping", or "hung" in a call that is never answered
    kind,       \* "cycle" or "retry": the pass that runs, or runs after the sleep
    todo,       \* the sources the pass has still to read
    failed,     \* the sources it could not read
    spent,      \* how long the current read has taken
    made,       \* the calls it has made
    wait,       \* what is left of the sleep
    untilNext,  \* time.Until(next), or 0 when that has passed
    ok,         \* ok[s]: the last read of the source succeeded
    age,        \* age[s]: how old the source's as_of is
    sinceFail,  \* sinceFail[s]: how long ago its last failed read ended
    calls,      \* Ceiling.calls
    sent,       \* the calls the forge got this hour
    hourLeft,   \* what is left of the hour
    restarts

loop == <<phase, kind, todo, failed, spent, made, wait, untilNext>>
ages == <<ok, age, sinceFail>>
hour == <<calls, sent, hourLeft>>
vars == <<loop, ages, hour, restarts>>

AlertBound == 2 * Period
AgeCap == AlertBound + 1        \* ages are not counted past this

Older(a) == IF a < AgeCap THEN a + 1 ELSE a
Less(t) == IF t > 0 THEN t - 1 ELSE 0

-----------------------------------------------------------------------------
(* Time.  A read ends within ReadTime, and a sleep ends on time.           *)

Tick ==
    /\ \/ phase = "reading" /\ spent < ReadTime
       \/ phase = "sleeping" /\ wait > 0
       \/ phase = "hung"
    /\ spent' = IF phase = "reading" THEN spent + 1 ELSE spent
    /\ wait' = Less(wait)
    /\ untilNext' = Less(untilNext)
    /\ age' = [s \in Sources |-> Older(age[s])]
    /\ sinceFail' = [s \in Sources |-> Older(sinceFail[s])]
    \* The window is the hour now() falls in, so its count starts again with the hour.
    /\ IF hourLeft > 1
       THEN hourLeft' = hourLeft - 1 /\ UNCHANGED <<calls, sent>>
       ELSE hourLeft' = Hour /\ calls' = 0 /\ sent' = 0
    /\ UNCHANGED <<phase, kind, todo, failed, made, ok, restarts>>

-----------------------------------------------------------------------------
(* A pass over a list of sources: Reconciler.read.                         *)

\* Mutant: the limit is compared after the call.
AllowedLate == calls <= Limit

\* Ceiling.take: the hour's calls are not spent.
Allowed == calls < Limit

\* The ceiling lets the call through and the forge gets it.
Call ==
    /\ phase = "reading"
    /\ made < MaxCalls
    /\ Allowed
    /\ made' = made + 1
    /\ calls' = calls + 1
    /\ sent' = sent + 1
    /\ UNCHANGED <<phase, kind, todo, failed, spent, wait, untilNext, ages, hourLeft, restarts>>

\* Mutant: the next cycle is counted from the last retry, not from the cycle's end.
SleepFrom(f, next) ==
    /\ untilNext' = Period
    /\ IF f # <<>> /\ Retry < Period
       THEN kind' = "retry" /\ wait' = Retry
       ELSE kind' = "cycle" /\ wait' = Period

\* Mutant: a failed cycle waits for the next one.
SleepWithoutRetry(f, next) ==
    untilNext' = next /\ kind' = "cycle" /\ wait' = next

\* Mutant: the loop goes on retrying while there is something to retry.
SleepRetrying(f, next) ==
    /\ untilNext' = next
    /\ IF f # <<>>
       THEN kind' = "retry" /\ wait' = Retry
       ELSE kind' = "cycle" /\ wait' = next

\* Run, after a pass that left f unread with `next` still to wait for: the failed ones
\* alone after retry, or every source when next comes.
Sleep(f, next) ==
    /\ untilNext' = next
    /\ IF f # <<>> /\ Retry < next
       THEN kind' = "retry" /\ wait' = Retry
       ELSE kind' = "cycle" /\ wait' = next

\* The read of the pass's first source ends, and with the last one the pass.
EndRead(f) ==
    /\ todo' = Tail(todo)
    /\ failed' = f
    /\ spent' = 0
    /\ made' = 0
    /\ IF Tail(todo) # <<>>
       THEN UNCHANGED <<phase, kind, wait, untilNext>>
       ELSE /\ phase' = "sleeping"
            /\ Sleep(f, IF kind = "cycle" THEN Period ELSE untilNext)

\* SaveRead moves as_of to the time the read started.
ReadOk ==
    LET s == Head(todo)
    IN  /\ phase = "reading"
        /\ made > 0
        /\ EndRead(failed)
        /\ ok' = [ok EXCEPT ![s] = TRUE]
        /\ age' = [age EXCEPT ![s] = spent]
        /\ UNCHANGED <<sinceFail, hour, restarts>>

\* The forge or the database refused, or the ceiling did: as_of stays.
ReadFail ==
    LET s == Head(todo)
    IN  /\ phase = "reading"
        /\ s \in Flaky \/ (~Allowed /\ made < MaxCalls)
        /\ EndRead(Append(failed, s))
        /\ ok' = [ok EXCEPT ![s] = FALSE]
        /\ sinceFail' = [sinceFail EXCEPT ![s] = 0]
        /\ UNCHANGED <<age, hour, restarts>>

\* The client has no timeout, so a call that is never answered never returns.
Hang ==
    /\ Hangs
    /\ phase = "reading"
    /\ made > 0
    /\ Head(todo) \in Flaky
    /\ phase' = "hung"
    /\ UNCHANGED <<kind, todo, failed, spent, made, wait, untilNext, ages, hour, restarts>>

\* Mutant: a retry reads every source.
WakeForAll ==
    /\ phase = "sleeping"
    /\ wait = 0
    /\ phase' = "reading"
    /\ todo' = Order
    /\ failed' = <<>>
    /\ UNCHANGED <<kind, spent, made, wait, untilNext, ages, hour, restarts>>

\* Mutant: the list of failed sources is cleared before the retry reads it.
WakeCleared ==
    /\ phase = "sleeping"
    /\ wait = 0
    /\ phase' = "reading"
    /\ todo' = IF kind = "retry" THEN <<>> ELSE Order
    /\ failed' = <<>>
    /\ UNCHANGED <<kind, spent, made, wait, untilNext, ages, hour, restarts>>

Wake ==
    /\ phase = "sleeping"
    /\ wait = 0
    /\ phase' = "reading"
    /\ todo' = IF kind = "retry" THEN failed ELSE Order
    /\ failed' = <<>>
    /\ UNCHANGED <<kind, spent, made, wait, untilNext, ages, hour, restarts>>

\* The pod starts again: Run starts with a full cycle, and the ceiling with an empty count.
Restart ==
    /\ restarts < MaxRestarts
    /\ restarts' = restarts + 1
    /\ phase' = "reading" /\ kind' = "cycle"
    /\ todo' = Order /\ failed' = <<>>
    /\ spent' = 0 /\ made' = 0 /\ wait' = 0 /\ untilNext' = 0
    /\ calls' = 0
    /\ UNCHANGED <<ages, sent, hourLeft>>

-----------------------------------------------------------------------------
\* A source never read has no time: its as_of is as old as can be.
Init ==
    /\ phase = "reading" /\ kind = "cycle"
    /\ todo = Order /\ failed = <<>>
    /\ spent = 0 /\ made = 0 /\ wait = 0 /\ untilNext = 0
    /\ ok = [s \in Sources |-> FALSE]
    /\ age = [s \in Sources |-> AgeCap]
    /\ sinceFail = [s \in Sources |-> 0]
    /\ calls = 0 /\ sent = 0
    /\ hourLeft \in 1..Hour
    /\ restarts = 0

Next == Tick \/ Call \/ ReadOk \/ ReadFail \/ Hang \/ Wake \/ Restart

Spec == Init /\ [][Next]_vars

\* Time passes, a sleep that is over ends, and a read that is answered ends.
Fairness == WF_vars(Tick) /\ WF_vars(Wake) /\ WF_vars(ReadOk \/ ReadFail) /\ WF_vars(Call)

FairSpec == Spec /\ Fairness

-----------------------------------------------------------------------------
(* Properties.                                                             *)

\* Every variable holds a value of its type, and a pass is over when it has no source left.
TypeOK ==
    /\ phase \in {"reading", "sleeping", "hung"}
    /\ kind \in {"cycle", "retry"}
    /\ todo \in Seq(Sources) /\ failed \in Seq(Sources)
    /\ (phase # "sleeping") = (todo # <<>>)
    /\ spent \in 0..ReadTime /\ made \in 0..MaxCalls
    /\ wait \in 0..Period /\ untilNext \in 0..Period
    /\ ok \in [Sources -> BOOLEAN]
    /\ age \in [Sources -> 0..AgeCap] /\ sinceFail \in [Sources -> 0..AgeCap]
    /\ calls \in Nat /\ sent \in Nat /\ hourLeft \in 1..Hour /\ restarts \in Nat

\* The forge gets no more calls in an hour than one ceiling for each pod there has been:
\* the count is in memory, so a pod that replaces another may spend a whole one again
\* (reconcile.go, "Ceiling is a RoundTripper that refuses calls past Limit").
WithinCeiling == sent <= Limit * (1 + restarts)

\* A source whose reads succeed never looks unread to the alert, however the other
\* sources fail and however their retries overrun the period, as long as no
\* call hangs (reconcile.go, "ReconcilePeriod and the alert bound of 20 minutes are one
\* decision").
NoFalseAlarm ==
    restarts = 0 /\ phase # "hung" => \A s \in Sources : ok[s] => age[s] <= AlertBound

\* A source that failed is read again soon, not a period later (reconcile.go, "waiting a
\* full period for the next one left the source unread").
FailedIsRetried ==
    restarts = 0 /\ phase # "hung" =>
        \A s \in Sources : ~ok[s] => sinceFail[s] <= Retry + (2 * N - 1) * ReadTime

\* A source that succeeded is left alone until the next full cycle, a period after the
\* last one ended: only failed sources are read in between (reconcile.go, "a forge that
\* stays down must not multiply the calls to the others").
HealthyLeftAlone ==
    [][\A s \in Sources :
          (sent' > sent /\ s = Head(todo) /\ ok[s]) => untilNext = 0]_vars

\* Every source is read again and again, whatever the others do (reconcile.go, "One
\* failing source neither stops the others nor fails the cycle").
EverySourceIsRead ==
    \A s \in Sources : []<>(phase = "reading" /\ todo # <<>> /\ Head(todo) = s)

\* Only a call that is never answered stops the reads: refused reads, spent hours, slow
\* reads and restarts all leave every source to be read again and again.
OnlyAHangStopsReads == <>[](phase = "hung") \/ EverySourceIsRead
=============================================================================
