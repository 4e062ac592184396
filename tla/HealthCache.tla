---------------------------- MODULE HealthCache ----------------------------
(***************************************************************************)
(* The readiness endpoint of apps/api and its cached Beehiiv verdict,      *)
(* asked by the kubelet and by anyone else, in seconds.                    *)
(*                                                                         *)
(* A request runs beehiivCheck and then postgresCheck.  The sections of    *)
(* beehiivCheck that hold the lock are one step each; the round trip       *)
(* between them is not.  Time is kept as differences.                      *)
(*                                                                         *)
(* Ready's 503 for a configuration that does not load is not a step here:  *)
(* the server does not start without one (cmd/server/main.go:18-21), and   *)
(* GetConfig keeps the one it has (pkg/config/env.go:61-65).               *)
(***************************************************************************)
EXTENDS Integers, FiniteSets

CONSTANTS
    Others,             \* callers other than the kubelet
    TTL,                \* beehiivCacheTTL
    BeehiivTimeout,
    PostgresTimeout,
    ProbePeriod,        \* the readiness probe: periodSeconds,
    ProbeTimeout,       \* timeoutSeconds
    FailureThreshold    \* and failureThreshold

kubelet == "kubelet"
Callers == Others \cup {kubelet}

ASSUME OthersAssumption == kubelet \notin Others
ASSUME TimesAssumption ==
    /\ TTL \in Nat /\ BeehiivTimeout \in Nat /\ PostgresTimeout \in Nat
    /\ ProbePeriod \in Nat /\ ProbeTimeout \in Nat /\ FailureThreshold \in Nat
    /\ BeehiivTimeout + PostgresTimeout < ProbePeriod

VARIABLES
    cached,     \* the verdict, "none" while cacheValid is false
    age,        \* how old the verdict is
    refreshing,
    at,         \* at[c]: where the caller's request is
    gone,       \* gone[c]: the caller hung up on a request that goes on
    spent,      \* spent[c]: how long the request has been in that check
    told,       \* told[c]: what beehiivCheck answered the request
    waited,     \* how long the kubelet has waited for its answer
    sinceProbe, \* how long ago the kubelet's last probe started
    failures,   \* probes the kubelet has seen fail in a row
    credentials,\* does the configuration have those for Beehiiv?
    beehiiv,    \* the environment: what Beehiiv would answer
    wasSick     \* history: it would not have answered well at some time of the last round trip

cache == <<cached, age, refreshing>>
requests == <<at, gone, spent, told>>
probe == <<waited, sinceProbe, failures>>
world == <<credentials, beehiiv, wasSick>>
vars == <<cache, requests, probe, world>>

\* What beehiivCheck answers, once asked.
Answers == {"none", "in progress", "ok", "degraded"}

AgeCap == TTL + ProbePeriod + BeehiivTimeout + 1    \* ages are not counted past this

Waiting(c) == at[c] # "away" /\ ~gone[c]
RoundTrips == {c \in Callers : at[c] = "beehiiv"}

\* Without credentials probeBeehiiv returns at once.
TripTimeout == IF credentials THEN BeehiivTimeout ELSE 0

-----------------------------------------------------------------------------
(* Time and the environment.                                               *)

Tick ==
    /\ \A c \in Callers : /\ at[c] = "beehiiv" => spent[c] < TripTimeout
                          /\ at[c] = "postgres" => spent[c] < PostgresTimeout
    /\ Waiting(kubelet) => waited < ProbeTimeout
    /\ sinceProbe < ProbePeriod
    /\ age' = IF cached # "none" /\ age < AgeCap THEN age + 1 ELSE age
    /\ spent' = [c \in Callers |-> IF at[c] = "away" THEN 0 ELSE spent[c] + 1]
    /\ waited' = IF Waiting(kubelet) THEN waited + 1 ELSE 0
    /\ sinceProbe' = sinceProbe + 1
    /\ UNCHANGED <<cached, refreshing, at, gone, told, failures, world>>

\* Beehiiv comes up, starts refusing, or stops answering.
Weather ==
    /\ \E b \in {"up", "refusing", "silent"} \ {beehiiv} :
        /\ beehiiv' = b
        /\ wasSick' = (wasSick \/ (b # "up" /\ RoundTrips # {}))
    /\ UNCHANGED <<cache, requests, probe, credentials>>

-----------------------------------------------------------------------------
(* A request.                                                              *)

\* The kubelet asks every periodSeconds; anyone else asks when they like.
MayAsk(c) ==
    /\ at[c] = "away"
    /\ c = kubelet => sinceProbe = ProbePeriod

Enter(c, check) ==
    /\ at' = [at EXCEPT ![c] = check]
    /\ spent' = [spent EXCEPT ![c] = 0]
    /\ UNCHANGED gone
    /\ IF c = kubelet THEN waited' = 0 /\ sinceProbe' = 0 ELSE UNCHANGED <<waited, sinceProbe>>

\* Mutant: a failed check is not worth keeping.
FreshAndGood == cached = "ok" /\ age < TTL

\* Mutant: a verdict is fresh for good.
FreshForGood == cached # "none"

Fresh == cached # "none" /\ age < TTL

\* Mutant: whoever comes while another caller refreshes is told of the first check.
AskInProgress(c) ==
    /\ MayAsk(c)
    /\ Fresh \/ refreshing
    /\ told' = [told EXCEPT ![c] = IF refreshing THEN "in progress" ELSE cached]
    /\ Enter(c, "postgres")
    /\ UNCHANGED <<cache, failures, world>>

\* The cache answers: it is fresh, or another caller is refreshing it.  Before the first
\* verdict is kept there is only that a first check is in progress.
AskCached(c) ==
    /\ MayAsk(c)
    /\ Fresh \/ refreshing
    /\ told' = [told EXCEPT ![c] = IF cached = "none" THEN "in progress" ELSE cached]
    /\ Enter(c, "postgres")
    /\ UNCHANGED <<cache, failures, world>>

\* Mutant: nothing says that a refresh is under way.
AskRefreshingAnyway(c) ==
    /\ MayAsk(c)
    /\ ~Fresh
    /\ refreshing' = TRUE
    /\ wasSick' = (beehiiv # "up")
    /\ Enter(c, "beehiiv")
    /\ UNCHANGED <<cached, age, told, failures, credentials, beehiiv>>

\* This caller refreshes it.
AskRefreshing(c) ==
    /\ MayAsk(c)
    /\ ~Fresh
    /\ ~refreshing
    /\ refreshing' = TRUE
    /\ wasSick' = (beehiiv # "up")
    /\ Enter(c, "beehiiv")
    /\ UNCHANGED <<cached, age, told, failures, credentials, beehiiv>>

Keep(verdict) == cached' = verdict /\ age' = 0 /\ refreshing' = FALSE

\* There are no credentials, or Beehiiv answers, or the client's timeout does; a caller
\* still there is told the verdict and goes on to postgres.
RoundTripEnds(c) ==
    /\ at[c] = "beehiiv"
    /\ \/ credentials /\ beehiiv = "up" /\ Keep("ok")
       \/ credentials /\ beehiiv = "refusing" /\ Keep("degraded")
       \/ (~credentials \/ beehiiv = "silent") /\ spent[c] = TripTimeout /\ Keep("degraded")
    /\ told' = [told EXCEPT ![c] = cached']
    /\ at' = [at EXCEPT ![c] = IF gone[c] THEN "away" ELSE "postgres"]
    /\ gone' = [gone EXCEPT ![c] = FALSE]
    /\ spent' = [spent EXCEPT ![c] = 0]
    /\ UNCHANGED <<probe, world>>

\* Postgres answers or its timeout does, and /ready answers 200, degraded or not.
Answer(c) ==
    /\ at[c] = "postgres"
    /\ at' = [at EXCEPT ![c] = "away"]
    /\ failures' = IF c = kubelet THEN 0 ELSE failures
    /\ UNCHANGED <<cache, gone, spent, told, waited, sinceProbe, world>>

\* Mutant: the round trip is cancelled with the request, and its error kept as the verdict.
HangUpCancels(c) ==
    /\ Waiting(c)
    /\ c = kubelet => waited = ProbeTimeout
    /\ at' = [at EXCEPT ![c] = "away"]
    /\ IF at[c] = "beehiiv" THEN Keep("degraded") ELSE UNCHANGED cache
    /\ failures' = IF c = kubelet /\ failures < FailureThreshold THEN failures + 1 ELSE failures
    /\ UNCHANGED <<gone, spent, told, waited, sinceProbe, world>>

\* Mutant: the query to Postgres is not cancelled with its request either.
HangUpLeavesQuery(c) ==
    /\ Waiting(c)
    /\ c = kubelet => waited = ProbeTimeout
    /\ gone' = [gone EXCEPT ![c] = TRUE]
    /\ failures' = IF c = kubelet /\ failures < FailureThreshold THEN failures + 1 ELSE failures
    /\ UNCHANGED <<cache, at, spent, told, waited, sinceProbe, world>>

\* The caller hangs up, the kubelet at its timeout and anyone else at any time.  The round
\* trip goes on without them (context.WithoutCancel); the query to Postgres does not.
HangUp(c) ==
    /\ Waiting(c)
    /\ c = kubelet => waited = ProbeTimeout
    /\ IF at[c] = "beehiiv"
       THEN gone' = [gone EXCEPT ![c] = TRUE] /\ UNCHANGED at
       ELSE at' = [at EXCEPT ![c] = "away"] /\ UNCHANGED gone
    /\ failures' = IF c = kubelet /\ failures < FailureThreshold THEN failures + 1 ELSE failures
    /\ UNCHANGED <<cache, spent, told, waited, sinceProbe, world>>

-----------------------------------------------------------------------------
Init ==
    /\ cached = "none" /\ age = 0 /\ refreshing = FALSE
    /\ at = [c \in Callers |-> "away"]
    /\ gone = [c \in Callers |-> FALSE]
    /\ spent = [c \in Callers |-> 0]
    /\ told = [c \in Callers |-> "none"]
    /\ waited = 0 /\ sinceProbe \in 0..ProbePeriod /\ failures = 0
    /\ credentials \in BOOLEAN /\ beehiiv \in {"up", "refusing", "silent"} /\ wasSick = FALSE

Next ==
    \/ Tick \/ Weather
    \/ \E c \in Callers :
        AskCached(c) \/ AskRefreshing(c) \/ RoundTripEnds(c) \/ Answer(c) \/ HangUp(c)

Spec == Init /\ [][Next]_vars

-----------------------------------------------------------------------------
(* Properties.                                                             *)

\* Every variable holds a value of its type, and a request without a caller is kept only
\* for its round trip to Beehiiv.
TypeOK ==
    /\ cached \in {"none", "ok", "degraded"} /\ age \in 0..AgeCap /\ refreshing \in BOOLEAN
    /\ at \in [Callers -> {"away", "beehiiv", "postgres"}]
    /\ gone \in [Callers -> BOOLEAN] /\ \A c \in Callers : gone[c] => at[c] = "beehiiv"
    /\ spent \in [Callers -> 0..(BeehiivTimeout + PostgresTimeout)]
    /\ waited \in 0..ProbeTimeout /\ sinceProbe \in 0..ProbePeriod
    /\ failures \in 0..FailureThreshold
    /\ told \in [Callers -> Answers]
    /\ credentials \in BOOLEAN /\ beehiiv \in {"up", "refusing", "silent"} /\ wasSick \in BOOLEAN

\* At most one caller is at Beehiiv, and a refresh is marked under way exactly while one
\* is: the mark never outlives its caller, who would leave every later one a stale verdict
\* (health.go, "one caller refreshes an expired entry").
OneRoundTrip == Cardinality(RoundTrips) = (IF refreshing THEN 1 ELSE 0)

\* The verdict describes Beehiiv and not its caller: with credentials to ask with, it is
\* degraded only if Beehiiv did refuse or keep silent at some time of the round trip
\* (health.go, "it must describe Beehiiv, not the caller's patience").
VerdictIsBeehiivs == cached = "degraded" /\ ~refreshing /\ credentials => wasSick

\* A caller is told that the first check is in progress only while it is: there is no
\* verdict and a refresh is under way, or the verdict came after the caller was told
\* (health.go:170-178, the answer of a caller that meets another's refresh).
FirstCheckOnce ==
    \A c \in Callers : at[c] = "postgres" /\ told[c] = "in progress" =>
        IF cached = "none" THEN refreshing ELSE age <= spent[c]

\* No caller is told a verdict older than the cache's life, a probe period and a round
\* trip: it is the kubelet's asking that bounds it, and a caller that asks after a quiet
\* time is told a stale one only while another refreshes it.
VerdictIsRecent == cached # "none" => age < AgeCap

\* Beehiiv and Postgres, slow or down, never fail enough probes in a row to take the pod
\* out of rotation (health.go, "a third-party outage never pulls the pod out of rotation").
StaysInRotation == failures < FailureThreshold
=============================================================================
