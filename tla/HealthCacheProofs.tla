------------------------- MODULE HealthCacheProofs -------------------------
(***************************************************************************)
(* For any callers and any times: the types, that one caller at most is at *)
(* Beehiiv, whose verdict it is, who is told of a first check, and how old *)
(* a verdict can be; and, where                                            *)
(* the probe waits longer than Postgres may take and comes more often than *)
(* the cache expires, that the pod stays in rotation.                      *)
(***************************************************************************)
EXTENDS HealthCache, FiniteSetTheorems, TLAPS

USE OthersAssumption, TimesAssumption

\* No caller is at Beehiiv, or the one that refreshes is.
OneTrip ==
    IF refreshing THEN \E c \in Callers : RoundTrips = {c} ELSE RoundTrips = {}

\* A refresh that would end in a bad verdict has seen Beehiiv sick.
SickIsSeen ==
    /\ refreshing /\ beehiiv # "up" => wasSick
    /\ cached = "degraded" /\ ~refreshing /\ credentials => wasSick

\* Left alone, a verdict is no older than its life and the time since the kubelet asked;
\* and while it is refreshed, than that and the round trip so far.
AgeIsBounded ==
    cached # "none" =>
        /\ ~refreshing => age <= TTL + sinceProbe
        /\ \A c \in RoundTrips : age <= TTL + ProbePeriod + spent[c]

\* No check outlives its timeout.
InTime ==
    \A c \in Callers : /\ at[c] = "beehiiv" => spent[c] <= BeehiivTimeout
                       /\ at[c] = "postgres" => spent[c] <= PostgresTimeout

IInv == TypeOK /\ OneTrip /\ SickIsSeen /\ AgeIsBounded /\ InTime /\ FirstCheckOnce

-----------------------------------------------------------------------------
LEMMA InitHolds == Init => IInv
<1> SUFFICES ASSUME Init PROVE IInv
  OBVIOUS
<1>1. TypeOK
  <2>1. kubelet \in Callers /\ AgeCap \in Nat
    BY DEF Callers, AgeCap
  <2>2. /\ 0 \in 0..AgeCap /\ 0 \in 0..(BeehiivTimeout + PostgresTimeout)
        /\ 0 \in 0..ProbeTimeout /\ 0 \in 0..FailureThreshold
    BY <2>1
  <2>3. /\ at \in [Callers -> {"away", "beehiiv", "postgres"}]
        /\ gone \in [Callers -> BOOLEAN] /\ \A c \in Callers : ~gone[c]
    BY DEF Init
  <2>4. spent \in [Callers -> 0..(BeehiivTimeout + PostgresTimeout)]
    BY <2>2 DEF Init
  <2>5. told \in [Callers -> Answers]
    BY DEF Init, Answers
  <2> QED
    BY <2>2, <2>3, <2>4, <2>5 DEF Init, TypeOK
<1>2. RoundTrips = {} /\ OneTrip
  BY DEF Init, OneTrip, RoundTrips
<1>3. SickIsSeen /\ AgeIsBounded /\ InTime /\ FirstCheckOnce
  BY DEF Init, SickIsSeen, AgeIsBounded, InTime, FirstCheckOnce
<1> QED
  BY <1>1, <1>2, <1>3 DEF IInv

\* Time passes, and no check and no wait goes past its bound.
LEMMA TickKeeps == IInv /\ Tick => IInv'
<1> SUFFICES ASSUME IInv, Tick PROVE IInv'
  OBVIOUS
<1>1. UNCHANGED <<cached, refreshing, at, gone, told, failures, credentials, beehiiv, wasSick>>
  BY DEF Tick, world
<1>2. /\ spent \in [Callers -> 0..(BeehiivTimeout + PostgresTimeout)] /\ age \in 0..AgeCap
      /\ waited \in 0..ProbeTimeout /\ sinceProbe \in 0..ProbePeriod /\ AgeCap \in Nat
  BY DEF IInv, TypeOK, AgeCap
<1>3. /\ \A c \in Callers : spent'[c] = IF at[c] = "away" THEN 0 ELSE spent[c] + 1
      /\ \A c \in Callers : at[c] = "beehiiv" => spent[c] < BeehiivTimeout
      /\ \A c \in Callers : at[c] = "postgres" => spent[c] < PostgresTimeout
  <2>1. TripTimeout <= BeehiivTimeout /\ TripTimeout \in Nat
    BY DEF TripTimeout
  <2> QED
    BY <1>2, <2>1 DEF Tick
<1>4. InTime'
  BY <1>1, <1>2, <1>3 DEF InTime
<1>5. spent' \in [Callers -> 0..(BeehiivTimeout + PostgresTimeout)]
  <2>1. ASSUME NEW c \in Callers
        PROVE  (IF at[c] = "away" THEN 0 ELSE spent[c] + 1) \in 0..(BeehiivTimeout + PostgresTimeout)
    <3>1. at[c] \in {"away", "beehiiv", "postgres"} /\ spent[c] \in 0..(BeehiivTimeout + PostgresTimeout)
      BY <1>2 DEF IInv, TypeOK
    <3> QED
      BY <1>3, <3>1
  <2> QED
    BY <2>1 DEF Tick
<1>6. age' \in 0..AgeCap /\ waited' \in 0..ProbeTimeout /\ sinceProbe' \in 0..ProbePeriod
  BY <1>2 DEF Tick
<1>7. TypeOK'
  BY <1>1, <1>5, <1>6 DEF IInv, TypeOK, AgeCap
<1>8. OneTrip' /\ SickIsSeen'
  BY <1>1 DEF IInv, OneTrip, SickIsSeen, RoundTrips
<1>9. AgeIsBounded'
  <2>1. RoundTrips' = RoundTrips
    BY <1>1 DEF RoundTrips
  <2>2. age' <= age + 1 /\ sinceProbe' = sinceProbe + 1
    BY <1>2 DEF Tick
  <2>3. \A c \in RoundTrips : spent'[c] = spent[c] + 1 /\ spent[c] \in Nat
    BY <1>2, <1>3 DEF RoundTrips
  <2> QED
    BY <1>1, <1>2, <1>6, <2>1, <2>2, <2>3 DEF IInv, AgeIsBounded
<1>10. FirstCheckOnce'
  <2>1. age' <= age + 1 /\ age \in Nat /\ age' \in Nat
    <3>1. \A n \in 0..AgeCap : n \in Nat
      BY <1>2
    <3>2. age' <= age + 1
      BY <1>2 DEF Tick
    <3> QED
      BY <1>2, <1>6, <3>1, <3>2
  <2>2. \A c \in Callers : at[c] = "postgres" => spent'[c] = spent[c] + 1 /\ spent[c] \in Nat
    BY <1>2, <1>3
  <2>3. \A c \in Callers : at[c] = "postgres" /\ age <= spent[c] => age' <= spent'[c]
    <3>1. \A a, b, m, n \in Nat : b <= a + 1 /\ n = m + 1 /\ a <= m => b <= n
      OBVIOUS
    <3> QED
      BY <2>1, <2>2, <3>1
  <2> QED
    BY <1>1, <2>3 DEF IInv, FirstCheckOnce
<1> QED
  BY <1>4, <1>7, <1>8, <1>9, <1>10 DEF IInv

\* Beehiiv changes.
LEMMA WeatherKeeps == IInv /\ Weather => IInv'
<1> SUFFICES ASSUME IInv, Weather PROVE IInv'
  OBVIOUS
<1>1. UNCHANGED <<cached, age, refreshing, at, gone, spent, told, waited, sinceProbe, failures, credentials>>
  BY DEF Weather, cache, requests, probe
<1>2. TypeOK'
  BY <1>1 DEF Weather, IInv, TypeOK, AgeCap
<1>3. RoundTrips' = RoundTrips
  BY <1>1 DEF RoundTrips
<1>4. OneTrip' /\ AgeIsBounded' /\ InTime' /\ FirstCheckOnce'
  BY <1>1, <1>3 DEF IInv, OneTrip, AgeIsBounded, InTime, FirstCheckOnce
<1>5. SickIsSeen'
  <2>1. refreshing => RoundTrips # {}
    BY DEF IInv, OneTrip
  <2>2. wasSick => wasSick'
    BY DEF Weather
  <2>3. refreshing /\ beehiiv' # "up" => wasSick'
    BY <2>1 DEF Weather
  <2>4. cached = "degraded" /\ ~refreshing /\ credentials => wasSick
    BY DEF IInv, SickIsSeen
  <2> QED
    BY <1>1, <2>2, <2>3, <2>4 DEF SickIsSeen
<1> QED
  BY <1>2, <1>4, <1>5 DEF IInv

\* What a caller that asks, and what the times, are from then on.
LEMMA EnterIs ==
    ASSUME IInv, NEW c \in Callers, NEW check \in {"beehiiv", "postgres"}, MayAsk(c), Enter(c, check)
    PROVE  /\ at[c] = "away" /\ at'[c] = check /\ spent'[c] = 0
           /\ \A d \in Callers \ {c} : at'[d] = at[d] /\ spent'[d] = spent[d]
           /\ at' \in [Callers -> {"away", "beehiiv", "postgres"}]
           /\ spent' \in [Callers -> 0..(BeehiivTimeout + PostgresTimeout)]
           /\ gone' = gone
           /\ waited' \in 0..ProbeTimeout /\ sinceProbe' \in 0..ProbePeriod
           /\ IF c = kubelet THEN waited' = 0 /\ sinceProbe' = 0 /\ sinceProbe = ProbePeriod
              ELSE waited' = waited /\ sinceProbe' = sinceProbe
BY DEF IInv, TypeOK, MayAsk, Enter

\* The cache answers a caller.
LEMMA AskCachedKeeps == ASSUME NEW c \in Callers PROVE IInv /\ AskCached(c) => IInv'
<1> SUFFICES ASSUME IInv, AskCached(c) PROVE IInv'
  OBVIOUS
<1>1. UNCHANGED <<cached, age, refreshing, failures, credentials, beehiiv, wasSick>>
  BY DEF AskCached, cache, world
<1>2. /\ at[c] = "away" /\ at'[c] = "postgres" /\ spent'[c] = 0
      /\ \A d \in Callers \ {c} : at'[d] = at[d] /\ spent'[d] = spent[d]
      /\ at' \in [Callers -> {"away", "beehiiv", "postgres"}]
      /\ spent' \in [Callers -> 0..(BeehiivTimeout + PostgresTimeout)]
      /\ gone' = gone /\ waited' \in 0..ProbeTimeout /\ sinceProbe' \in 0..ProbePeriod
      /\ c # kubelet => sinceProbe' = sinceProbe
  BY EnterIs DEF AskCached
<1>9. /\ told' \in [Callers -> Answers]
      /\ told'[c] = "in progress" => cached = "none" /\ refreshing
      /\ \A d \in Callers \ {c} : told'[d] = told[d]
  BY DEF AskCached, Fresh, IInv, TypeOK, Answers
<1>3. TypeOK'
  BY <1>1, <1>2, <1>9 DEF IInv, TypeOK, AgeCap
<1>8. FirstCheckOnce'
  BY <1>1, <1>2, <1>9 DEF IInv, FirstCheckOnce
<1>4. RoundTrips' = RoundTrips /\ \A d \in RoundTrips : d # c
  BY <1>2 DEF RoundTrips
<1>5. OneTrip' /\ SickIsSeen'
  BY <1>1, <1>4 DEF IInv, OneTrip, SickIsSeen
<1>6. InTime'
  BY <1>2 DEF IInv, InTime
<1>7. AgeIsBounded'
  <2>1. \A d \in RoundTrips : spent'[d] = spent[d]
    BY <1>2, <1>4 DEF RoundTrips
  <2>2. cached # "none" /\ ~refreshing => age <= TTL + sinceProbe'
    <3>1. CASE c = kubelet
      <4>1. ~refreshing => age < TTL
        BY DEF AskCached, Fresh
      <4>2. age \in Nat /\ sinceProbe' \in Nat
        BY <1>2 DEF IInv, TypeOK, AgeCap
      <4>3. age < TTL => age <= TTL + sinceProbe'
        <5>1. TTL \in Nat
          OBVIOUS
        <5>2. \A a, t, s \in Nat : a < t => a <= t + s
          OBVIOUS
        <5> QED
          BY <4>2, <5>1, <5>2
      <4> QED
        BY <4>1, <4>3
    <3>2. CASE c # kubelet
      BY <1>2, <3>2 DEF IInv, AgeIsBounded
    <3> QED
      BY <3>1, <3>2
  <2> QED
    BY <1>1, <1>4, <2>1, <2>2 DEF IInv, AgeIsBounded
<1> QED
  BY <1>3, <1>5, <1>6, <1>7, <1>8 DEF IInv

\* A caller goes to refresh the cache: nobody else is at Beehiiv.
LEMMA AskRefreshingKeeps == ASSUME NEW c \in Callers PROVE IInv /\ AskRefreshing(c) => IInv'
<1> SUFFICES ASSUME IInv, AskRefreshing(c) PROVE IInv'
  OBVIOUS
<1>1. /\ UNCHANGED <<cached, age, told, failures, credentials, beehiiv>>
      /\ ~refreshing /\ refreshing' = TRUE /\ wasSick' = (beehiiv # "up")
  BY DEF AskRefreshing, IInv, TypeOK
<1>2. /\ at[c] = "away" /\ at'[c] = "beehiiv" /\ spent'[c] = 0
      /\ \A d \in Callers \ {c} : at'[d] = at[d] /\ spent'[d] = spent[d]
      /\ at' \in [Callers -> {"away", "beehiiv", "postgres"}]
      /\ spent' \in [Callers -> 0..(BeehiivTimeout + PostgresTimeout)]
      /\ gone' = gone /\ waited' \in 0..ProbeTimeout /\ sinceProbe' \in 0..ProbePeriod
  BY EnterIs DEF AskRefreshing
<1>3. TypeOK'
  BY <1>1, <1>2 DEF IInv, TypeOK, AgeCap
<1>4. RoundTrips' = {c}
  <2>1. RoundTrips = {}
    BY <1>1 DEF IInv, OneTrip
  <2> QED
    BY <1>2, <2>1 DEF RoundTrips
<1>5. OneTrip' /\ SickIsSeen'
  BY <1>1, <1>4 DEF OneTrip, SickIsSeen
<1>6. InTime'
  BY <1>2 DEF IInv, InTime
<1>7. AgeIsBounded'
  <2>1. cached # "none" => age <= TTL + sinceProbe
    BY <1>1 DEF IInv, AgeIsBounded
  <2>2. age \in Nat /\ sinceProbe \in 0..ProbePeriod
    BY DEF IInv, TypeOK, AgeCap
  <2>3. cached # "none" => age <= TTL + ProbePeriod
    BY <2>1, <2>2
  <2> QED
    BY <1>1, <1>2, <1>4, <2>2, <2>3 DEF AgeIsBounded
<1>8. FirstCheckOnce'
  BY <1>1, <1>2 DEF IInv, FirstCheckOnce
<1> QED
  BY <1>3, <1>5, <1>6, <1>7, <1>8 DEF IInv

\* A round trip ends: the verdict is what Beehiiv did.
LEMMA RoundTripEndsKeeps == ASSUME NEW c \in Callers PROVE IInv /\ RoundTripEnds(c) => IInv'
<1> SUFFICES ASSUME IInv, RoundTripEnds(c) PROVE IInv'
  OBVIOUS
<1>1. /\ UNCHANGED <<waited, sinceProbe, failures, credentials, beehiiv, wasSick>>
      /\ cached' \in {"ok", "degraded"} /\ age' = 0 /\ refreshing' = FALSE
      /\ cached' = "degraded" /\ credentials => beehiiv # "up"
  BY DEF RoundTripEnds, Keep, probe, world
<1>2. /\ at[c] = "beehiiv" /\ at'[c] \in {"away", "postgres"} /\ spent'[c] = 0 /\ gone'[c] = FALSE
      /\ \A d \in Callers \ {c} : at'[d] = at[d] /\ spent'[d] = spent[d] /\ gone'[d] = gone[d]
      /\ at' \in [Callers -> {"away", "beehiiv", "postgres"}] /\ gone' \in [Callers -> BOOLEAN]
      /\ spent' \in [Callers -> 0..(BeehiivTimeout + PostgresTimeout)]
  BY DEF IInv, TypeOK, RoundTripEnds
<1>9. told' = [told EXCEPT ![c] = cached']
  BY DEF RoundTripEnds
<1>10. told' \in [Callers -> Answers] /\ \A d \in Callers \ {c} : told'[d] = told[d]
  BY <1>1, <1>9 DEF IInv, TypeOK, Answers
<1>11. told'[c] # "in progress"
  BY <1>1, <1>9 DEF IInv, TypeOK
<1>3. TypeOK'
  <2>1. age' \in 0..AgeCap
    BY <1>1 DEF AgeCap
  <2>2. \A d \in Callers : gone'[d] => at'[d] = "beehiiv"
    BY <1>2 DEF IInv, TypeOK
  <2>3. cached' \in {"none", "ok", "degraded"} /\ refreshing' \in BOOLEAN
    BY <1>1
  <2> QED
    BY <1>1, <1>2, <1>10, <2>1, <2>2, <2>3 DEF IInv, TypeOK, AgeCap
<1>4. refreshing /\ RoundTrips = {c}
  BY <1>2 DEF IInv, OneTrip, RoundTrips
<1>5. RoundTrips' = {}
  BY <1>2, <1>4 DEF RoundTrips
<1>6. OneTrip' /\ SickIsSeen'
  BY <1>1, <1>4, <1>5 DEF IInv, OneTrip, SickIsSeen
<1>7. InTime'
  BY <1>2 DEF IInv, InTime
<1>8. AgeIsBounded'
  BY <1>1, <1>5 DEF AgeIsBounded, IInv, TypeOK
<1>12. FirstCheckOnce'
  <2>1. \A d \in Callers : spent'[d] \in Nat
    BY <1>2
  <2>2. cached' # "none" /\ \A d \in Callers : age' <= spent'[d]
    BY <1>1, <2>1
  <2> QED
    BY <2>2 DEF FirstCheckOnce
<1> QED
  BY <1>3, <1>6, <1>7, <1>8, <1>12 DEF IInv

\* A request is answered, or its caller hangs up; a round trip under way goes on.
LEMMA LeavesKeeps == ASSUME NEW c \in Callers PROVE IInv /\ (Answer(c) \/ HangUp(c)) => IInv'
<1> SUFFICES ASSUME IInv, Answer(c) \/ HangUp(c) PROVE IInv'
  OBVIOUS
<1>1. UNCHANGED <<cached, age, refreshing, spent, told, waited, sinceProbe, credentials, beehiiv, wasSick>>
  BY DEF Answer, HangUp, cache, world
<1>2. /\ \A d \in Callers : at'[d] = at[d] \/ (at[d] # "beehiiv" /\ at'[d] = "away")
      /\ at' \in [Callers -> {"away", "beehiiv", "postgres"}]
  BY DEF IInv, TypeOK, Answer, HangUp, Waiting
<1>3. gone' \in [Callers -> BOOLEAN] /\ \A d \in Callers : gone'[d] => at'[d] = "beehiiv"
  BY DEF IInv, TypeOK, Answer, HangUp, Waiting
<1>4. failures' \in 0..FailureThreshold
  BY DEF IInv, TypeOK, Answer, HangUp
<1>5. TypeOK'
  BY <1>1, <1>2, <1>3, <1>4 DEF IInv, TypeOK, AgeCap
<1>6. RoundTrips' = RoundTrips
  BY <1>2 DEF RoundTrips
<1>7. OneTrip' /\ SickIsSeen' /\ AgeIsBounded'
  BY <1>1, <1>6 DEF IInv, OneTrip, SickIsSeen, AgeIsBounded
<1>8. InTime' /\ FirstCheckOnce'
  BY <1>1, <1>2 DEF IInv, InTime, FirstCheckOnce
<1> QED
  BY <1>5, <1>7, <1>8 DEF IInv

LEMMA Inductive == IInv /\ [Next]_vars => IInv'
<1> SUFFICES ASSUME IInv, [Next]_vars PROVE IInv'
  OBVIOUS
<1>1. CASE UNCHANGED vars
  BY <1>1 DEF vars, cache, requests, probe, world, IInv, TypeOK, OneTrip, SickIsSeen, AgeIsBounded,
     InTime, RoundTrips, FirstCheckOnce
<1> QED
  BY <1>1, TickKeeps, WeatherKeeps, AskCachedKeeps, AskRefreshingKeeps, RoundTripEndsKeeps, LeavesKeeps
  DEF Next

LEMMA Always == Spec => []IInv
BY InitHolds, Inductive, PTL DEF Spec

-----------------------------------------------------------------------------
\* Every variable of health.go's cache, of its requests and of the kubelet's probe holds a
\* value of its type, for any callers, periods and timeouts.
THEOREM TypeCorrect == Spec => []TypeOK
BY Always, PTL DEF IInv

\* At most one caller is at Beehiiv, and the mark that a refresh is under way is there
\* exactly while one is, however many ask, wait and hang up (beehiivCheck's lock).
THEOREM OneCallerAtBeehiiv == Spec => []OneRoundTrip
<1>1. IInv => OneRoundTrip
  <2>1. Cardinality({}) = 0 /\ \A c : Cardinality({c}) = 1
    BY FS_EmptySet, FS_Singleton
  <2> QED
    BY <2>1 DEF IInv, OneTrip, OneRoundTrip
<1> QED
  BY <1>1, Always, PTL

\* With credentials, a degraded verdict is Beehiiv's, never the caller's patience, whoever
\* asked for it and whether or not they stayed (probeBeehiiv under context.WithoutCancel).
THEOREM BeehiivsVerdict == Spec => []VerdictIsBeehiivs
<1>1. IInv => VerdictIsBeehiivs
  BY DEF IInv, SickIsSeen, VerdictIsBeehiivs
<1> QED
  BY <1>1, Always, PTL

\* Who is told that the first check is in progress is told so while it is, for any callers
\* and whoever refreshes or hangs up (beehiivCheck's answer beside a refresh).
THEOREM FirstCheckIsFirst == Spec => []FirstCheckOnce
BY Always, PTL DEF IInv

\* No verdict outlives its life by more than a probe period and a round trip, for any
\* values of the three and however little anyone but the kubelet asks.
THEOREM RecentVerdict == Spec => []VerdictIsRecent
<1>1. IInv => VerdictIsRecent
  <2> SUFFICES ASSUME IInv, cached # "none" PROVE age < AgeCap
    BY DEF VerdictIsRecent
  <2>1. /\ age \in Nat /\ sinceProbe \in 0..ProbePeriod
        /\ \A c \in Callers : spent[c] \in 0..(BeehiivTimeout + PostgresTimeout)
    BY DEF IInv, TypeOK, AgeCap
  <2>2. CASE refreshing
    <3>1. PICK c \in Callers : c \in RoundTrips
      BY <2>2 DEF IInv, OneTrip
    <3>2. age <= TTL + ProbePeriod + spent[c] /\ spent[c] <= BeehiivTimeout /\ spent[c] \in Nat
      BY <2>1, <3>1 DEF IInv, AgeIsBounded, InTime, RoundTrips
    <3> QED
      BY <2>1, <3>2 DEF AgeCap
  <2>3. CASE ~refreshing
    <3>1. age <= TTL + sinceProbe
      BY <2>3 DEF IInv, AgeIsBounded
    <3> QED
      BY <2>1, <3>1 DEF AgeCap
  <2> QED
    BY <2>2, <2>3
<1> QED
  BY <1>1, Always, PTL

-----------------------------------------------------------------------------
(* The pod stays in rotation: a probe may fail behind a slow Beehiiv, and leaves a verdict *)
(* behind that the next one is answered from.                                              *)

DeployedTimes == PostgresTimeout < ProbeTimeout /\ ProbePeriod < TTL /\ FailureThreshold >= 2

\* A verdict from this probe on is there, or on its way.
VerdictComes == refreshing \/ (cached # "none" /\ age <= sinceProbe)

\* At most one probe failed, and the one that follows it does not wait for Beehiiv.
OneFailure ==
    /\ failures <= 1
    /\ at[kubelet] = "postgres" => waited = spent[kubelet] \/ VerdictComes
    /\ failures = 1 => IF Waiting(kubelet) THEN at[kubelet] = "postgres" /\ waited = spent[kubelet]
                       ELSE VerdictComes

\* What the proofs use of the state: numbers, and that who waits at Beehiiv refreshes.
LEMMA Numbers ==
    ASSUME IInv
    PROVE  /\ kubelet \in Callers
           /\ age \in Nat /\ sinceProbe \in Nat /\ sinceProbe <= ProbePeriod /\ waited \in Nat
           /\ failures \in Nat
           /\ \A c \in Callers : /\ spent[c] \in Nat
                                 /\ at[c] \in {"away", "beehiiv", "postgres"}
                                 /\ at[c] = "beehiiv" => refreshing
                                 /\ at[c] = "postgres" => spent[c] <= PostgresTimeout /\ ~gone[c]
<1>1. kubelet \in Callers
  BY DEF Callers
<1>2. AgeCap \in Nat
  BY DEF AgeCap
<1>3. /\ age \in Nat /\ sinceProbe \in Nat /\ sinceProbe <= ProbePeriod /\ waited \in Nat
      /\ failures \in Nat
  BY <1>2 DEF IInv, TypeOK
<1>4. ASSUME NEW c \in Callers
      PROVE  /\ spent[c] \in Nat
             /\ at[c] \in {"away", "beehiiv", "postgres"}
             /\ at[c] = "postgres" => spent[c] <= PostgresTimeout /\ ~gone[c]
  BY DEF IInv, TypeOK, InTime
<1>5. ASSUME NEW c \in Callers, at[c] = "beehiiv" PROVE refreshing
  BY <1>5 DEF IInv, OneTrip, RoundTrips
<1> QED
  BY <1>1, <1>3, <1>4, <1>5

LEMMA OneFailureTick == IInv /\ OneFailure /\ Tick => OneFailure'
<1> SUFFICES ASSUME IInv, OneFailure, Tick PROVE OneFailure'
  OBVIOUS
<1>1. UNCHANGED <<cached, refreshing, at, gone, failures>>
  BY DEF Tick
<1>2. /\ sinceProbe' = sinceProbe + 1 /\ age' <= age + 1 /\ age' \in Nat
      /\ at[kubelet] = "postgres" =>
            waited' = waited + 1 /\ spent'[kubelet] = spent[kubelet] + 1 /\ Waiting(kubelet)
  BY Numbers DEF Tick, Waiting
<1>3. VerdictComes => VerdictComes'
  BY <1>1, <1>2, Numbers DEF VerdictComes
<1>4. Waiting(kubelet)' <=> Waiting(kubelet)
  BY <1>1 DEF Waiting
<1> QED
  BY <1>1, <1>2, <1>3, <1>4, Numbers DEF OneFailure

\* The kubelet asks, or another caller does.
LEMMA OneFailureAsk ==
    ASSUME DeployedTimes, NEW c \in Callers
    PROVE  IInv /\ OneFailure /\ (AskCached(c) \/ AskRefreshing(c)) => OneFailure'
<1> SUFFICES ASSUME IInv, OneFailure, AskCached(c) \/ AskRefreshing(c) PROVE OneFailure'
  OBVIOUS
<1>1. UNCHANGED <<cached, age, failures, gone>> /\ (refreshing => refreshing')
  <2>1. UNCHANGED <<cached, age, failures, gone>>
    BY DEF AskCached, AskRefreshing, Enter, cache
  <2>2. refreshing => refreshing'
    BY DEF AskCached, AskRefreshing, cache
  <2> QED
    BY <2>1, <2>2
<1>2. MayAsk(c) /\ (Enter(c, "postgres") \/ (Enter(c, "beehiiv") /\ ~Fresh /\ ~refreshing))
  BY DEF AskCached, AskRefreshing
<1>3. CASE c # kubelet
  <2>1. /\ waited' = waited /\ sinceProbe' = sinceProbe
        /\ at'[kubelet] = at[kubelet] /\ spent'[kubelet] = spent[kubelet]
    BY <1>2, <1>3, Numbers DEF Enter, IInv, TypeOK
  <2>2. VerdictComes => VerdictComes'
    BY <1>1, <2>1 DEF VerdictComes
  <2>3. Waiting(kubelet)' <=> Waiting(kubelet)
    BY <1>1, <2>1 DEF Waiting
  <2> QED
    BY <1>1, <2>1, <2>2, <2>3 DEF OneFailure
<1>4. CASE c = kubelet
  <2>1. /\ at[kubelet] = "away" /\ sinceProbe = ProbePeriod /\ ~Waiting(kubelet)
        /\ spent'[kubelet] = 0 /\ waited' = 0
    BY <1>2, <1>4, Numbers DEF MayAsk, Enter, IInv, TypeOK, Waiting
  <2>2. CASE at'[kubelet] = "postgres"
    <3>1. ~gone[kubelet]
      BY <2>1, Numbers DEF IInv, TypeOK
    <3>2. Waiting(kubelet)'
      BY <1>1, <2>2, <3>1 DEF Waiting
    <3> QED
      BY <1>1, <2>1, <2>2, <3>2 DEF OneFailure
  <2>3. CASE at'[kubelet] # "postgres"
    <3>1. ~Fresh /\ ~refreshing
      BY <1>2, <1>4, <2>3, Numbers DEF Enter, IInv, TypeOK
    <3>2. failures # 1
      <4>1. ~VerdictComes
        BY <2>1, <3>1, Numbers DEF VerdictComes, Fresh, DeployedTimes
      <4> QED
        BY <2>1, <4>1 DEF OneFailure
    <3> QED
      BY <1>1, <2>3, <3>2 DEF OneFailure
  <2> QED
    BY <2>2, <2>3
<1> QED
  BY <1>3, <1>4

\* A round trip ends: its verdict is there for the next probe.
LEMMA OneFailureTrip ==
    ASSUME NEW c \in Callers
    PROVE  IInv /\ OneFailure /\ RoundTripEnds(c) => OneFailure'
<1> SUFFICES ASSUME IInv, OneFailure, RoundTripEnds(c) PROVE OneFailure'
  OBVIOUS
<1>1. /\ UNCHANGED <<waited, sinceProbe, failures>> /\ at[c] = "beehiiv"
      /\ cached' \in {"ok", "degraded"} /\ age' = 0
  BY DEF RoundTripEnds, Keep, probe
<1>2. VerdictComes'
  BY <1>1, Numbers DEF VerdictComes
<1>3. c # kubelet => /\ at'[kubelet] = at[kubelet] /\ gone'[kubelet] = gone[kubelet]
                     /\ spent'[kubelet] = spent[kubelet]
  BY Numbers DEF RoundTripEnds, IInv, TypeOK
<1>4. c = kubelet /\ failures = 1 => ~Waiting(kubelet) /\ gone[kubelet]
  BY <1>1 DEF OneFailure, Waiting
<1>5. c = kubelet /\ failures = 1 => ~Waiting(kubelet)'
  BY <1>4, Numbers DEF RoundTripEnds, IInv, TypeOK, Waiting
<1>6. c # kubelet => (Waiting(kubelet)' <=> Waiting(kubelet))
  BY <1>3 DEF Waiting
<1> QED
  BY <1>1, <1>2, <1>3, <1>5, <1>6 DEF OneFailure

\* An answer clears the count, and only a probe that waited for Beehiiv can fail.
LEMMA OneFailureLeaves ==
    ASSUME DeployedTimes, NEW c \in Callers
    PROVE  IInv /\ OneFailure /\ (Answer(c) \/ HangUp(c)) => OneFailure'
<1> SUFFICES ASSUME IInv, OneFailure, Answer(c) \/ HangUp(c) PROVE OneFailure'
  OBVIOUS
<1>1. UNCHANGED <<cached, age, refreshing, spent, waited, sinceProbe>>
  BY DEF Answer, HangUp, cache
<1>2. VerdictComes' <=> VerdictComes
  BY <1>1 DEF VerdictComes
<1>3. CASE c # kubelet
  <2>1. at'[kubelet] = at[kubelet] /\ gone'[kubelet] = gone[kubelet] /\ failures' = failures
    BY <1>3, Numbers DEF Answer, HangUp, IInv, TypeOK
  <2>2. Waiting(kubelet)' <=> Waiting(kubelet)
    BY <2>1 DEF Waiting
  <2> QED
    BY <1>1, <1>2, <2>1, <2>2 DEF OneFailure
<1>4. CASE c = kubelet /\ Answer(c)
  <2>1. failures' = 0 /\ at'[kubelet] = "away"
    BY <1>4, Numbers DEF Answer, IInv, TypeOK
  <2> QED
    BY <2>1 DEF OneFailure
<1>5. CASE c = kubelet /\ HangUp(c)
  <2>1. Waiting(kubelet) /\ waited = ProbeTimeout
    BY <1>5 DEF HangUp
  <2>2. ~Waiting(kubelet)' /\ at'[kubelet] # "postgres"
    BY <1>5, Numbers DEF HangUp, Waiting, IInv, TypeOK
  <2>3. at[kubelet] = "postgres" => waited # spent[kubelet]
    BY <2>1, Numbers DEF DeployedTimes
  <2>4. failures # 1 /\ VerdictComes
    <3>1. failures # 1
      BY <2>1, <2>3 DEF OneFailure
    <3>2. CASE at[kubelet] = "beehiiv"
      BY <3>1, <3>2, Numbers DEF VerdictComes
    <3>3. CASE at[kubelet] = "postgres"
      BY <2>3, <3>1, <3>3 DEF OneFailure
    <3> QED
      BY <2>1, <3>2, <3>3, Numbers DEF Waiting
  <2>5. failures' <= 1
    BY <1>5, <2>4, Numbers DEF HangUp, OneFailure
  <2> QED
    BY <1>2, <2>2, <2>4, <2>5 DEF OneFailure
<1> QED
  BY <1>3, <1>4, <1>5

\* Whatever Beehiiv and Postgres do, the kubelet never sees two probes in a row fail, and
\* the pod stays in rotation: for every probe that waits longer than Postgres may take,
\* comes back before the verdict expires and is forgiven once (health.go, Handler.Ready).
THEOREM PodStaysInRotation == ASSUME DeployedTimes PROVE Spec => []StaysInRotation
<1>1. Init => OneFailure
  BY DEF Init, OneFailure, Callers
<1>2. IInv /\ OneFailure /\ [Next]_vars => OneFailure'
  <2> SUFFICES ASSUME IInv, OneFailure, [Next]_vars PROVE OneFailure'
    OBVIOUS
  <2>1. CASE UNCHANGED vars
    BY <2>1 DEF vars, cache, requests, probe, OneFailure, VerdictComes, Waiting
  <2>2. CASE Weather
    BY <2>2 DEF Weather, cache, requests, probe, OneFailure, VerdictComes, Waiting
  <2> QED
    BY <2>1, <2>2, OneFailureTick, OneFailureAsk, OneFailureTrip, OneFailureLeaves DEF Next
<1>3. IInv /\ OneFailure => StaysInRotation
  BY Numbers DEF OneFailure, StaysInRotation, DeployedTimes
<1> QED
  BY <1>1, <1>2, <1>3, Always, PTL DEF Spec
=============================================================================
