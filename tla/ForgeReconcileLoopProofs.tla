---------------------- MODULE ForgeReconcileLoopProofs ----------------------
(***************************************************************************)
(* For any sources, periods and ceiling: the types, the ceiling on calls,  *)
(* that a retry reads failed sources alone, that a failed source is read   *)
(* again soon, and that no source whose reads succeed looks unread to the  *)
(* alert.                                                                  *)
(***************************************************************************)
EXTENDS ForgeReconcileLoop, SequenceTheorems, TLAPS

USE TimesAssumption

\* Every call the forge got is counted by the pod that runs or by one that ran before it.
Counted == calls <= Limit /\ sent <= Limit * restarts + calls

In(e, list) == \E k \in 1..Len(list) : list[k] = e

Apart(list) == \A j, k \in 1..Len(list) : j # k => list[j] # list[k]

\* A pass reads each of its sources once, in their order if it is a cycle; a retry reads
\* failed ones only, and starts before the next cycle is due.
Passes ==
    /\ Len(todo) + Len(failed) <= N
    /\ Apart(todo) /\ Apart(failed) /\ \A k \in 1..Len(failed) : ~In(failed[k], todo)
    /\ \A k \in 1..Len(failed) : ~ok[failed[k]]
    /\ phase # "sleeping" /\ kind = "cycle" =>
          untilNext = 0 /\ \A k \in 1..Len(todo) : todo[k] = Order[N - Len(todo) + k]
    /\ phase # "sleeping" /\ kind = "retry" => \A k \in 1..Len(todo) : ~ok[todo[k]]
    /\ phase = "sleeping" /\ kind = "cycle" => wait = untilNext
    /\ phase = "sleeping" /\ kind = "retry" => wait < untilNext /\ wait <= Retry /\ Len(failed) > 0

IInv == TypeOK /\ Counted /\ Passes

-----------------------------------------------------------------------------
LEMMA OrderIs ==
    /\ Order \in Seq(Sources) /\ Len(Order) = N /\ Order # <<>> /\ Apart(Order)
    /\ N \in Nat /\ N >= 1 /\ DOMAIN Order = 1..N
    /\ \A p \in 1..N : Order[p] \in Sources
    /\ \A s \in Sources : \E p \in 1..N : Order[p] = s
<1>1. N \in Nat /\ DOMAIN Order = 1..N
  BY OrderAssumption, LenProperties DEF N
<1>2. Order # <<>>
  <2>1. Len(<<>>) = 0 /\ Len(Order) > 0
    BY OrderAssumption, EmptySeq DEF N
  <2> QED
    BY <2>1
<1> QED
  BY <1>1, <1>2, OrderAssumption DEF N, Sources, Apart

LEMMA InitHolds == Init => IInv
<1> SUFFICES ASSUME Init PROVE IInv
  OBVIOUS
<1>1. /\ todo = Order /\ failed = <<>> /\ Len(todo) = N /\ Len(failed) = 0
      /\ todo # <<>> /\ failed \in Seq(Sources)
  BY OrderIs DEF Init, N
<1>2. TypeOK
  <2>1. AgeCap \in Nat
    BY DEF AgeCap, AlertBound
  <2> QED
    BY <1>1, <2>1, OrderIs DEF Init, TypeOK
<1>3. Counted
  <2>1. Limit * 0 = 0
    OBVIOUS
  <2> QED
    BY <2>1 DEF Init, Counted
<1>4. Passes
  BY <1>1, OrderIs DEF Init, Passes, Apart, N
<1> QED
  BY <1>2, <1>3, <1>4 DEF IInv

LEMMA TickKeeps == IInv /\ Tick => IInv'
<1> SUFFICES ASSUME IInv, Tick PROVE IInv'
  OBVIOUS
<1>1. UNCHANGED <<phase, kind, todo, failed, made, ok, restarts>>
  BY DEF Tick
<1>2. AgeCap \in Nat /\ \A a \in 0..AgeCap : Older(a) \in 0..AgeCap
  BY DEF AgeCap, AlertBound, Older
<1>3. /\ spent' \in 0..ReadTime
      /\ wait' = Less(wait) /\ untilNext' = Less(untilNext)
      /\ wait' \in 0..Period /\ untilNext' \in 0..Period
  BY DEF IInv, TypeOK, Tick, Less
<1>4. age' \in [Sources -> 0..AgeCap] /\ sinceFail' \in [Sources -> 0..AgeCap]
  BY <1>2 DEF IInv, TypeOK, Tick
<1>5. calls' \in Nat /\ sent' \in Nat /\ hourLeft' \in 1..Hour
  BY DEF IInv, TypeOK, Tick
<1>6. TypeOK'
  BY <1>1, <1>3, <1>4, <1>5 DEF IInv, TypeOK, AgeCap, AlertBound
<1>7. Counted'
  <2>1. Limit * restarts \in Nat
    BY DEF IInv, TypeOK
  <2> QED
    BY <1>1, <2>1 DEF IInv, TypeOK, Counted, Tick
<1>8. Passes'
  <2>1. phase = "sleeping" => wait > 0
    BY DEF Tick
  <2>2. /\ phase = "sleeping" /\ kind = "cycle" => wait' = untilNext'
        /\ phase = "sleeping" /\ kind = "retry" => wait' < untilNext' /\ wait' <= Retry /\ Len(failed) > 0
    BY <1>3, <2>1 DEF IInv, TypeOK, Passes, Less
  <2>3. untilNext = 0 => untilNext' = 0
    BY <1>3 DEF Less
  <2> QED
    BY <1>1, <2>2, <2>3 DEF IInv, Passes, Apart, In
<1> QED
  BY <1>6, <1>7, <1>8 DEF IInv

LEMMA CallKeeps == IInv /\ Call => IInv'
<1> SUFFICES ASSUME IInv, Call PROVE IInv'
  OBVIOUS
<1>1. /\ UNCHANGED <<phase, kind, todo, failed, spent, wait, untilNext, ok, age, sinceFail, hourLeft,
                     restarts>>
      /\ made' = made + 1 /\ made < MaxCalls /\ calls' = calls + 1 /\ sent' = sent + 1 /\ calls < Limit
  BY DEF Call, ages, Allowed
<1>2. TypeOK'
  BY <1>1 DEF IInv, TypeOK, AgeCap, AlertBound
<1>3. Counted'
  <2>1. Limit * restarts \in Nat
    BY DEF IInv, TypeOK
  <2> QED
    BY <1>1, <2>1 DEF IInv, TypeOK, Counted
<1>4. Passes'
  BY <1>1 DEF IInv, Passes, Apart, In
<1> QED
  BY <1>2, <1>3, <1>4 DEF IInv

\* A read that ends, well or not.
ReadAs(bad) ==
    /\ phase = "reading"
    /\ EndRead(IF bad = 0 THEN failed ELSE Append(failed, Head(todo)))
    /\ ok' = [ok EXCEPT ![Head(todo)] = (bad = 0)]
    /\ UNCHANGED <<calls, sent, hourLeft, restarts>>

LEMMA ReadsAre ==
    /\ ReadOk => ReadAs(0)
    /\ ReadFail => ReadAs(1)
<1>1. ReadOk => ReadAs(0)
  BY DEF ReadOk, ReadAs, hour
<1>2. ReadFail => ReadAs(1)
  <2>1. (IF 1 = 0 THEN failed ELSE Append(failed, Head(todo))) = Append(failed, Head(todo)) /\ (1 = 0) = FALSE
    OBVIOUS
  <2> QED
    BY <2>1 DEF ReadFail, ReadAs, hour
<1> QED
  BY <1>1, <1>2

\* What is left of the pass, and what it has failed to read.
LEMMA AfterRead ==
    ASSUME IInv, NEW bad \in 0..1, ReadAs(bad)
    PROVE  /\ Len(todo) \in Nat /\ Len(todo) >= 1 /\ Len(failed) \in Nat
           /\ todo[1] = Head(todo) /\ Head(todo) \in Sources
           /\ todo' \in Seq(Sources) /\ Len(todo') = Len(todo) - 1
           /\ \A k \in 1..Len(todo') : todo'[k] = todo[k + 1]
           /\ failed' \in Seq(Sources) /\ Len(failed') = Len(failed) + bad
           /\ \A k \in 1..Len(failed) : failed'[k] = failed[k]
           /\ bad = 1 => failed'[Len(failed) + 1] = Head(todo)
           /\ ok' \in [Sources -> BOOLEAN] /\ ok'[Head(todo)] = (bad = 0)
           /\ \A s \in Sources \ {Head(todo)} : ok'[s] = ok[s]
           /\ spent' = 0 /\ made' = 0
           /\ Len(todo) > 1 => /\ phase' = "reading"
                               /\ UNCHANGED <<kind, wait, untilNext>>
           /\ Len(todo) = 1 => /\ phase' = "sleeping"
                               /\ Sleep(failed', IF kind = "cycle" THEN Period ELSE untilNext)
<1>1. todo \in Seq(Sources) /\ todo # <<>> /\ failed \in Seq(Sources) /\ ok \in [Sources -> BOOLEAN]
  BY DEF IInv, TypeOK, ReadAs
<1>2. /\ Len(todo) \in Nat /\ Len(todo) >= 1 /\ Len(failed) \in Nat
      /\ todo[1] = Head(todo) /\ Head(todo) \in Sources
  BY <1>1
<1>3. todo' = Tail(todo) /\ failed' = IF bad = 0 THEN failed ELSE Append(failed, Head(todo))
  BY DEF ReadAs, EndRead
<1>4. /\ todo' \in Seq(Sources) /\ Len(todo') = Len(todo) - 1
      /\ \A k \in 1..Len(todo') : todo'[k] = todo[k + 1]
  BY <1>1, <1>2, <1>3
<1>5. /\ failed' \in Seq(Sources) /\ Len(failed') = Len(failed) + bad
      /\ \A k \in 1..Len(failed) : failed'[k] = failed[k]
      /\ bad = 1 => failed'[Len(failed) + 1] = Head(todo)
  <2>1. CASE bad = 0
    BY <1>1, <1>2, <1>3, <2>1
  <2>2. CASE bad = 1
    BY <1>1, <1>2, <1>3, <2>2
  <2> QED
    BY <2>1, <2>2
<1>6. /\ ok' \in [Sources -> BOOLEAN] /\ ok'[Head(todo)] = (bad = 0)
      /\ \A s \in Sources \ {Head(todo)} : ok'[s] = ok[s]
  BY <1>1, <1>2 DEF ReadAs
<1>7. (Tail(todo) # <<>>) <=> Len(todo) > 1
  <2>1. Tail(todo) \in Seq(Sources) /\ Len(Tail(todo)) = Len(todo) - 1
    BY <1>3, <1>4
  <2>2. (Tail(todo) # <<>>) => Len(Tail(todo)) > 0
    BY <2>1, EmptySeq
  <2>3. Len(<<>>) = 0
    BY EmptySeq
  <2> QED
    BY <1>2, <2>1, <2>2, <2>3
<1>8. /\ spent' = 0 /\ made' = 0
      /\ Len(todo) > 1 => /\ phase' = "reading"
                          /\ UNCHANGED <<kind, wait, untilNext>>
      /\ Len(todo) = 1 => /\ phase' = "sleeping"
                          /\ Sleep(failed', IF kind = "cycle" THEN Period ELSE untilNext)
  BY <1>2, <1>3, <1>7 DEF ReadAs, EndRead
<1> QED
  BY <1>2, <1>4, <1>5, <1>6, <1>8

LEMMA ReadKeeps == ASSUME NEW bad \in 0..1 PROVE
    IInv /\ ReadAs(bad) /\ age' \in [Sources -> 0..AgeCap] /\ sinceFail' \in [Sources -> 0..AgeCap]
    => IInv'
<1> SUFFICES ASSUME IInv, ReadAs(bad), age' \in [Sources -> 0..AgeCap],
                    sinceFail' \in [Sources -> 0..AgeCap]
             PROVE  IInv'
  OBVIOUS
<1> DEFINE s == Head(todo)
           f == Len(failed)
           t == Len(todo)
<1>1. /\ t \in Nat /\ t >= 1 /\ f \in Nat /\ todo[1] = s /\ s \in Sources
      /\ Len(todo') = t - 1 /\ \A k \in 1..(t - 1) : todo'[k] = todo[k + 1]
      /\ Len(failed') = f + bad /\ \A k \in 1..f : failed'[k] = failed[k]
      /\ bad = 1 => failed'[f + 1] = s
  BY AfterRead
<1>a. ok'[s] = (bad = 0) /\ \A q \in Sources \ {s} : ok'[q] = ok[q]
  BY AfterRead
<1>b. todo' \in Seq(Sources) /\ failed' \in Seq(Sources) /\ ok' \in [Sources -> BOOLEAN]
  BY AfterRead
<1>c. /\ Apart(todo) /\ Apart(failed) /\ Len(todo) + Len(failed) <= N
      /\ \A k \in 1..f : ~In(failed[k], todo) /\ ~ok[failed[k]]
  BY DEF IInv, Passes
<1>2. /\ spent' = 0 /\ made' = 0
      /\ t > 1 => phase' = "reading" /\ UNCHANGED <<kind, wait, untilNext>>
      /\ t = 1 => phase' = "sleeping" /\ Sleep(failed', IF kind = "cycle" THEN Period ELSE untilNext)
  BY AfterRead
<1>3. phase = "reading" /\ UNCHANGED <<calls, sent, hourLeft, restarts>>
  BY DEF ReadAs
<1>4. /\ todo \in Seq(Sources) /\ failed \in Seq(Sources) /\ untilNext \in 0..Period
      /\ kind \in {"cycle", "retry"}
  BY DEF IInv, TypeOK
<1>d. (\A k \in 1..t : todo[k] \in Sources) /\ (\A k \in 1..f : failed[k] \in Sources)
  BY <1>4
<1>5. t = 1 => /\ wait' \in 0..Period /\ untilNext' \in 0..Period /\ kind' \in {"cycle", "retry"}
               /\ kind' = "cycle" => wait' = untilNext'
               /\ kind' = "retry" => wait' < untilNext' /\ wait' <= Retry /\ Len(failed') > 0
  <2>1. failed' # <<>> => Len(failed') > 0
    BY <1>b, EmptySeq
  <2>2. (IF kind = "cycle" THEN Period ELSE untilNext) \in 0..Period
    BY <1>4
  <2>3. t = 1 => Sleep(failed', IF kind = "cycle" THEN Period ELSE untilNext)
    BY <1>2
  <2> QED
    BY <2>1, <2>2, <2>3 DEF Sleep
<1>6. TypeOK'
  <2>1. (phase' # "sleeping") = (todo' # <<>>)
    <3>1. (todo' # <<>>) <=> Len(todo') > 0
      <4>1. Len(<<>>) = 0 /\ (todo' # <<>> => Len(todo') > 0)
        BY <1>b, EmptySeq
      <4> QED
        BY <4>1
    <3>2. CASE t = 1
      BY <1>1, <1>2, <3>1, <3>2
    <3>3. CASE t > 1
      BY <1>1, <1>2, <3>1, <3>3
    <3> QED
      BY <1>1, <3>2, <3>3
  <2>2. wait' \in 0..Period /\ untilNext' \in 0..Period /\ kind' \in {"cycle", "retry"}
    <3>1. CASE t = 1
      BY <1>5, <3>1
    <3>2. CASE t > 1
      BY <1>2, <3>2 DEF IInv, TypeOK
    <3> QED
      BY <1>1, <3>1, <3>2
  <2>3. phase' \in {"reading", "sleeping", "hung"} /\ spent' \in 0..ReadTime /\ made' \in 0..MaxCalls
    BY <1>1, <1>2
  <2> QED
    BY <1>b, <1>3, <2>1, <2>2, <2>3 DEF IInv, TypeOK, AgeCap, AlertBound
<1>7. Counted'
  BY <1>3 DEF IInv, Counted
<1>8. Apart(todo') /\ ~In(s, todo')
  <2>1. \A j, k \in 1..t : j # k => todo[j] # todo[k]
    BY <1>c DEF Apart
  <2>2. \A k \in 1..(t - 1) : k + 1 \in 1..t /\ todo'[k] = todo[k + 1]
    BY <1>1
  <2>3. ASSUME NEW j \in 1..(t - 1), NEW k \in 1..(t - 1), j # k PROVE todo'[j] # todo'[k]
    BY <1>1, <2>1, <2>2, <2>3
  <2>4. ASSUME NEW k \in 1..(t - 1) PROVE todo'[k] # s
    <3>1. 1 \in 1..t /\ k + 1 # 1
      BY <1>1
    <3> QED
      BY <1>1, <2>1, <2>2, <3>1
  <2> QED
    BY <1>1, <2>3, <2>4 DEF Apart, In
<1>9. \A k \in 1..Len(failed') : ~In(failed'[k], todo')
  <2>1. \A k \in 1..f : ~In(failed[k], todo)
    BY <1>c
  <2>2. \A q : In(q, todo') => In(q, todo)
    BY <1>1 DEF In
  <2>3. ASSUME NEW k \in 1..Len(failed') PROVE ~In(failed'[k], todo')
    <3>1. CASE k \in 1..f
      BY <1>1, <2>1, <2>2, <3>1
    <3>2. CASE k \notin 1..f
      <4>1. k = f + 1 /\ bad = 1
        BY <1>1, <3>2
      <4> QED
        BY <1>1, <1>8, <4>1
    <3> QED
      BY <3>1, <3>2
  <2> QED
    BY <2>3
<1>10. Apart(failed') /\ \A k \in 1..Len(failed') : ~ok'[failed'[k]]
  <2>1. \A k \in 1..f : failed[k] # s
    BY <1>1, <1>c DEF In
  <2>2. \A k \in 1..Len(failed') : IF k \in 1..f THEN failed'[k] = failed[k] ELSE bad = 1 /\ failed'[k] = s
    BY <1>1
  <2> QED
    <3>1. ASSUME NEW k \in 1..Len(failed') PROVE ~ok'[failed'[k]]
      <4>1. CASE k \in 1..f
        BY <1>a, <1>c, <1>d, <2>1, <2>2, <4>1
      <4>2. CASE k \notin 1..f
        <5>1. failed'[k] = s /\ bad = 1
          BY <2>2, <4>2
        <5>2. (bad = 0) = FALSE
          BY <5>1
        <5> QED
          BY <1>a, <5>1, <5>2
      <4> QED
        BY <4>1, <4>2
    <3>2. ASSUME NEW j \in 1..Len(failed'), NEW k \in 1..Len(failed'), j # k
          PROVE  failed'[j] # failed'[k]
      <4>1. j \in 1..f \/ k \in 1..f
        BY <1>1, <3>2
      <4> QED
        BY <1>c, <2>1, <2>2, <3>2, <4>1 DEF Apart
    <3> QED
      BY <3>1, <3>2 DEF Apart
<1>11. t > 1 /\ kind = "cycle" => untilNext' = 0 /\ \A k \in 1..(t - 1) : todo'[k] = Order[N - (t - 1) + k]
  <2> SUFFICES ASSUME t > 1, kind = "cycle", NEW k \in 1..(t - 1)
               PROVE  untilNext' = 0 /\ todo'[k] = Order[N - (t - 1) + k]
    BY <1>2 DEF IInv, Passes
  <2>1. untilNext = 0 /\ todo[k + 1] = Order[N - t + (k + 1)]
    BY <1>1, <1>3 DEF IInv, Passes
  <2>2. N - t + (k + 1) = N - (t - 1) + k
    BY <1>1, OrderIs
  <2> QED
    BY <1>1, <1>2, <2>1, <2>2
<1>12. t > 1 /\ kind = "retry" => \A k \in 1..(t - 1) : ~ok'[todo'[k]]
  <2>1. kind = "retry" => \A k \in 1..t : ~ok[todo[k]]
    BY <1>3 DEF IInv, Passes
  <2>2. \A k \in 1..(t - 1) : todo'[k] # s /\ todo'[k] = todo[k + 1]
    BY <1>1, <1>8 DEF In
  <2> QED
    <3>1. ASSUME kind = "retry", NEW k \in 1..(t - 1) PROVE ~ok'[todo'[k]]
      <4>1. k + 1 \in 1..t
        BY <1>1
      <4> QED
        BY <1>a, <1>d, <2>1, <2>2, <3>1, <4>1
    <3> QED
      BY <3>1
<1>13. Len(todo') + Len(failed') <= N
  BY <1>1, <1>c, OrderIs
<1>14. Passes'
  <2>1. CASE t = 1
    BY <1>2, <1>5, <1>8, <1>9, <1>10, <1>13, <2>1 DEF Passes
  <2>2. CASE t > 1
    BY <1>1, <1>2, <1>8, <1>9, <1>10, <1>11, <1>12, <1>13, <2>2 DEF Passes
  <2> QED
    BY <1>1, <2>1, <2>2
<1> QED
  BY <1>6, <1>7, <1>14 DEF IInv

LEMMA ReadOkKeeps == IInv /\ ReadOk => IInv'
<1> SUFFICES ASSUME IInv, ReadOk PROVE IInv'
  OBVIOUS
<1>1. spent \in 0..AgeCap
  <2>1. AgeCap \in Nat /\ ReadTime <= AgeCap
    <3>1. N * ReadTime >= ReadTime
      BY OrderIs
    <3> QED
      BY <3>1, OrderIs, CycleAssumption DEF AgeCap, AlertBound
  <2> QED
    BY <2>1 DEF IInv, TypeOK
<1>2. age' \in [Sources -> 0..AgeCap] /\ sinceFail' \in [Sources -> 0..AgeCap]
  BY <1>1 DEF ReadOk, IInv, TypeOK
<1> QED
  BY <1>2, ReadsAre, ReadKeeps

LEMMA ReadFailKeeps == IInv /\ ReadFail => IInv'
<1> SUFFICES ASSUME IInv, ReadFail PROVE IInv'
  OBVIOUS
<1>1. 0 \in 0..AgeCap
  BY DEF AgeCap, AlertBound
<1>2. age' \in [Sources -> 0..AgeCap] /\ sinceFail' \in [Sources -> 0..AgeCap]
  BY <1>1 DEF ReadFail, IInv, TypeOK
<1> QED
  BY <1>2, ReadsAre, ReadKeeps

LEMMA HangKeeps == IInv /\ Hang => IInv'
<1> SUFFICES ASSUME IInv, Hang PROVE IInv'
  OBVIOUS
<1>1. /\ UNCHANGED <<kind, todo, failed, spent, made, wait, untilNext, ok, age, sinceFail, calls, sent,
                     hourLeft, restarts>>
      /\ phase = "reading" /\ phase' = "hung"
  BY DEF Hang, ages, hour
<1> QED
  BY <1>1 DEF IInv, TypeOK, Counted, Passes, Apart, In, AgeCap, AlertBound

LEMMA WakeKeeps == IInv /\ Wake => IInv'
<1> SUFFICES ASSUME IInv, Wake PROVE IInv'
  OBVIOUS
<1>1. /\ UNCHANGED <<kind, spent, made, wait, untilNext, ok, age, sinceFail, calls, sent, hourLeft,
                     restarts>>
      /\ phase = "sleeping" /\ wait = 0 /\ phase' = "reading"
      /\ todo' = (IF kind = "retry" THEN failed ELSE Order) /\ failed' = <<>>
  BY DEF Wake, ages, hour
<1>2. failed' \in Seq(Sources) /\ Len(failed') = 0 /\ Len(todo) = 0
  BY <1>1, EmptySeq DEF IInv, TypeOK
<1>3. /\ todo' \in Seq(Sources) /\ Len(todo') \in Nat /\ Len(todo') <= N /\ Len(todo') > 0 /\ Apart(todo')
      /\ kind = "cycle" => untilNext = 0 /\ todo' = Order /\ Len(todo') = N
      /\ kind = "retry" => \A k \in 1..Len(todo') : ~ok[todo'[k]]
  <2>1. CASE kind = "retry"
    BY <1>1, <1>2, <2>1 DEF IInv, TypeOK, Passes
  <2>2. CASE kind = "cycle"
    BY <1>1, <2>2, OrderIs DEF IInv, Passes
  <2> QED
    BY <2>1, <2>2 DEF IInv, TypeOK
<1>4. todo' # <<>>
  BY <1>3, EmptySeq
<1>5. TypeOK'
  BY <1>1, <1>2, <1>3, <1>4 DEF IInv, TypeOK, AgeCap, AlertBound
<1>6. Passes'
  <2>1. \A k \in 1..Len(todo') : kind = "cycle" => todo'[k] = Order[N - Len(todo') + k]
    BY <1>3, OrderIs
  <2> QED
    <3>1. Apart(failed') /\ Len(todo') + Len(failed') <= N /\ 1..Len(failed') = {}
      BY <1>2, <1>3, OrderIs DEF Apart
    <3> QED
      BY <1>1, <1>3, <2>1, <3>1 DEF Passes
<1>7. Counted'
  BY <1>1 DEF IInv, Counted
<1> QED
  BY <1>5, <1>6, <1>7 DEF IInv

LEMMA RestartKeeps == IInv /\ Restart => IInv'
<1> SUFFICES ASSUME IInv, Restart PROVE IInv'
  OBVIOUS
<1>1. /\ UNCHANGED <<ok, age, sinceFail, sent, hourLeft>> /\ restarts' = restarts + 1
      /\ phase' = "reading" /\ kind' = "cycle" /\ todo' = Order /\ failed' = <<>>
      /\ spent' = 0 /\ made' = 0 /\ wait' = 0 /\ untilNext' = 0 /\ calls' = 0
  BY DEF Restart, ages
<1>2. /\ failed' \in Seq(Sources) /\ Len(failed') = 0
      /\ todo' \in Seq(Sources) /\ Len(todo') = N /\ todo' # <<>> /\ Apart(todo')
  BY <1>1, OrderIs, EmptySeq DEF Apart, N
<1>3. TypeOK'
  BY <1>1, <1>2 DEF IInv, TypeOK, AgeCap, AlertBound
<1>4. Passes'
  <2>1. \A k \in 1..Len(todo') : todo'[k] = Order[N - Len(todo') + k]
    BY <1>1, <1>2, OrderIs
  <2> QED
    BY <1>1, <1>2, <2>1, OrderIs DEF Passes, Apart
<1>5. Counted'
  <2>1. restarts \in Nat /\ Limit * (restarts + 1) = Limit * restarts + Limit /\ Limit * restarts \in Nat
    BY DEF IInv, TypeOK
  <2> QED
    BY <1>1, <2>1 DEF IInv, TypeOK, Counted
<1> QED
  BY <1>3, <1>4, <1>5 DEF IInv

LEMMA Inductive == IInv /\ [Next]_vars => IInv'
<1>1. ASSUME IInv, UNCHANGED vars PROVE IInv'
  BY <1>1 DEF vars, loop, ages, hour, IInv, TypeOK, Counted, Passes, Apart, In, AgeCap, AlertBound
<1> QED
  BY <1>1, TickKeeps, CallKeeps, ReadOkKeeps, ReadFailKeeps, HangKeeps, WakeKeeps, RestartKeeps DEF Next

LEMMA Always == Spec => []IInv
BY InitHolds, Inductive, PTL DEF Spec


-----------------------------------------------------------------------------
\* Every variable of Reconciler.Run and of its ceiling holds a value of its type, and a pass
\* ends with its last source, for any sources and periods.
THEOREM TypeCorrect == Spec => []TypeOK
BY Always, PTL DEF IInv

\* The forge gets at most the ceiling's calls in an hour from each pod that ran in it,
\* whatever the reads are spent on (Ceiling.take).
THEOREM CeilingHolds == Spec => []WithinCeiling
<1>1. IInv => WithinCeiling
  <2> SUFFICES ASSUME IInv PROVE WithinCeiling
    OBVIOUS
  <2>1. Limit * (1 + restarts) = Limit * restarts + Limit /\ Limit * restarts \in Nat
    BY DEF IInv, TypeOK
  <2> QED
    BY <2>1 DEF IInv, TypeOK, Counted, WithinCeiling
<1> QED
  BY <1>1, Always, PTL

\* A source whose last read succeeded is not read again before the next full cycle is due,
\* however often the failed ones are retried (Reconciler.Run).
THEOREM RetriesSpareTheRest == Spec => HealthyLeftAlone
<1> DEFINE Spared == \A s \in Sources : (sent' > sent /\ s = Head(todo) /\ ok[s]) => untilNext = 0
<1>1. IInv /\ [Next]_vars => [Spared]_vars
  <2> SUFFICES ASSUME IInv, Next, NEW s \in Sources, sent' > sent, s = Head(todo), ok[s]
               PROVE  untilNext = 0
    BY DEF Spared
  <2>1. Call
    <3>1. sent \in Nat
      BY DEF IInv, TypeOK
    <3>2. CASE Tick
      BY <3>1, <3>2 DEF Tick
    <3> QED
      BY <3>1, <3>2 DEF Next, ReadOk, ReadFail, Hang, Wake, Restart, hour
  <2>2. phase = "reading"
    BY <2>1 DEF Call
  <2>3. kind = "cycle" => untilNext = 0
    BY <2>2 DEF IInv, Passes
  <2>4. kind = "retry" => ~ok[s]
    <3>1. todo \in Seq(Sources) /\ todo # <<>>
      BY <2>2 DEF IInv, TypeOK
    <3>2. 1 \in 1..Len(todo) /\ todo[1] = s
      BY <3>1, EmptySeq
    <3> QED
      BY <2>2, <3>2 DEF IInv, Passes
  <2> QED
    BY <2>3, <2>4 DEF IInv, TypeOK
<1> QED
  BY <1>1, Always, PTL DEF Spec, HealthyLeftAlone

-----------------------------------------------------------------------------
(* What the reads, the retry and the period leave of time, for N sources.  *)

T(reads) == reads * ReadTime

LEMMA SomeSources == N \in Nat /\ N >= 1
BY OrderIs

LEMMA TimeIs == ASSUME NEW k \in Nat PROVE T(k) \in Nat
BY DEF T

LEMMA OneMore == ASSUME NEW k \in Nat PROVE T(k + 1) = T(k) + ReadTime
BY DEF T

LEMMA TimesGrow == ASSUME NEW j \in Nat, NEW k \in Nat, j <= k PROVE T(j) <= T(k)
<1>1. PICK d \in Nat : k = j + d
  <2>1. k - j \in Nat /\ k = j + (k - j)
    OBVIOUS
  <2> QED
    BY <2>1
<1>2. T(j + d) = T(j) + T(d) /\ T(j) \in Nat /\ T(d) \in Nat
  BY DEF T
<1> QED
  BY <1>1, <1>2

\* A failed source waits for the rest of the pass, the retry, and the pass that reads it.
FailedSoon ==
    \A s \in Sources : ~ok[s] =>
        /\ phase = "sleeping" =>
              /\ In(s, failed) /\ wait <= Retry
              /\ sinceFail[s] <= T(N - 1) + Retry - wait
        /\ phase = "reading" =>
              \/ In(s, failed) /\ sinceFail[s] <= T(N - 1 - Len(todo)) + spent
              \/ In(s, todo) /\ sinceFail[s] <= T(N - 1) + Retry + T(N - Len(todo)) + spent

\* A source's as_of, from its place in the cycle: read last in a cycle and first in the next
\* but one, it is as old as the two cycles, the period and the retry that overruns it.
ReadOften ==
    \A p \in 1..N : ok[Order[p]] =>
        /\ phase = "sleeping" =>
              /\ Len(failed) <= N - 1
              /\ age[Order[p]] <= T(N - p + 1) + (Period - untilNext)
                                  + (IF untilNext = 0 THEN T(N - 1) ELSE 0)
        /\ phase = "reading" /\ kind = "cycle" =>
              IF N - Len(todo) < p
              THEN age[Order[p]] <= T(N - p + 1) + T(N - 1) + Period + T(N - Len(todo)) + spent
              ELSE /\ Len(todo) + Len(failed) <= N - 1
                   /\ age[Order[p]] <= T(N - Len(todo) - p + 1) + spent
        /\ phase = "reading" /\ kind = "retry" =>
              /\ Len(todo) + Len(failed) <= N - 1
              /\ age[Order[p]] <= T(N - p + 1) + (Period - untilNext)
                                  + (IF untilNext = 0 THEN T(N - 1 - Len(todo)) + spent ELSE 0)

Timely == restarts = 0 /\ phase # "hung" => FailedSoon /\ ReadOften

\* The numbers and the sequences the bounds are about.
LEMMA Numbers ==
    ASSUME IInv
    PROVE  /\ spent \in Nat /\ spent <= ReadTime /\ wait \in Nat /\ untilNext \in 0..Period
           /\ Len(todo) \in Nat /\ Len(failed) \in Nat /\ Len(todo) + Len(failed) <= N
           /\ \A s \in Sources : age[s] \in Nat /\ sinceFail[s] \in Nat
           /\ kind \in {"cycle", "retry"} /\ restarts \in Nat
           /\ phase # "sleeping" => Len(todo) >= 1
<1>1. AgeCap \in Nat
  BY DEF AgeCap, AlertBound
<1>2. phase # "sleeping" => Len(todo) >= 1
  BY EmptySeq DEF IInv, TypeOK
<1> QED
  BY <1>1, <1>2 DEF IInv, TypeOK, Passes

LEMMA TimelyInit == Init => Timely
<1> SUFFICES ASSUME Init PROVE FailedSoon /\ ReadOften
  BY DEF Timely
<1>1. /\ todo = Order /\ Len(todo) = N /\ spent = 0 /\ phase = "reading"
      /\ \A s \in Sources : ~ok[s] /\ sinceFail[s] = 0
  BY OrderIs DEF Init
<1>2. \A s \in Sources : In(s, todo)
  BY <1>1, OrderIs DEF In
<1>3. T(N - 1) \in Nat /\ T(N - Len(todo)) \in Nat
  <2>1. N - 1 \in Nat /\ N - Len(todo) \in Nat
    BY <1>1, SomeSources
  <2> QED
    BY <2>1, TimeIs
<1> QED
  BY <1>1, <1>2, <1>3, OrderIs DEF FailedSoon, ReadOften

LEMMA TimelyTick == IInv /\ Timely /\ Tick => Timely'
<1> SUFFICES ASSUME IInv, Tick, restarts' = 0, phase' # "hung", FailedSoon, ReadOften
             PROVE  FailedSoon' /\ ReadOften'
  BY DEF Timely, Tick
<1>1. /\ UNCHANGED <<phase, kind, todo, failed, ok>>
      /\ phase = "reading" => spent' = spent + 1
      /\ phase = "sleeping" => wait > 0 /\ wait' = wait - 1
      /\ untilNext' = IF untilNext > 0 THEN untilNext - 1 ELSE 0
  BY Numbers DEF Tick, Less
<1>2. /\ \A s \in Sources : age'[s] = Older(age[s]) /\ sinceFail'[s] = Older(sinceFail[s])
      /\ \A a \in Nat : Older(a) \in Nat /\ Older(a) <= a + 1
  BY DEF Tick, Older
<1>3. /\ \A s \in Sources : /\ age'[s] <= age[s] + 1 /\ age'[s] \in Nat
                            /\ sinceFail'[s] <= sinceFail[s] + 1 /\ sinceFail'[s] \in Nat
  BY <1>2, Numbers
<1>4. /\ T(N - 1) \in Nat
      /\ \A k \in 0..N : T(N - k) \in Nat
      /\ \A k \in 0..(N - 1) : T(N - 1 - k) \in Nat
  <2>1. /\ N - 1 \in Nat
        /\ \A k \in 0..N : N - k \in Nat
        /\ \A k \in 0..(N - 1) : N - 1 - k \in Nat
    BY SomeSources
  <2> QED
    BY <2>1, TimeIs
<1>n. /\ wait \in Nat /\ spent \in Nat /\ untilNext \in Nat /\ untilNext <= Period /\ Period \in Nat
      /\ Len(todo) \in Nat /\ Retry \in Nat
  BY Numbers
<1>5. FailedSoon'
  <2> SUFFICES ASSUME NEW s \in Sources, ~ok[s]
               PROVE  /\ phase = "sleeping" =>
                            /\ In(s, failed) /\ wait' <= Retry
                            /\ sinceFail'[s] <= T(N - 1) + Retry - wait'
                      /\ phase = "reading" =>
                            \/ In(s, failed) /\ sinceFail'[s] <= T(N - 1 - Len(todo)) + spent'
                            \/ In(s, todo) /\ sinceFail'[s] <= T(N - 1) + Retry + T(N - Len(todo)) + spent'
    BY <1>1 DEF FailedSoon, In
  <2>1. sinceFail'[s] <= sinceFail[s] + 1 /\ sinceFail[s] \in Nat /\ sinceFail'[s] \in Nat
    BY <1>3, Numbers
  <2>2. CASE phase = "sleeping"
    <3>1. In(s, failed) /\ wait <= Retry /\ sinceFail[s] <= T(N - 1) + Retry - wait
      BY <2>2 DEF FailedSoon
    <3> QED
      BY <1>1, <1>4, <2>1, <2>2, <3>1, <1>n
  <2>3. CASE phase = "reading"
    <3>1. CASE In(s, failed) /\ sinceFail[s] <= T(N - 1 - Len(todo)) + spent
      <4>1. Len(failed) >= 1 /\ Len(todo) \in 0..(N - 1)
        BY <3>1, Numbers, OrderIs DEF In
      <4> QED
        BY <1>1, <1>4, <2>1, <2>3, <3>1, <4>1, <1>n
    <3>2. CASE In(s, todo) /\ sinceFail[s] <= T(N - 1) + Retry + T(N - Len(todo)) + spent
      <4>1. Len(todo) \in 0..N
        BY Numbers, SomeSources
      <4>2. T(N - Len(todo)) \in Nat
        BY <1>4, <4>1
      <4> QED
        BY <1>1, <1>4, <2>1, <2>3, <3>2, <4>2, <1>n
    <3> QED
      BY <2>3, <3>1, <3>2 DEF FailedSoon
  <2> QED
    BY <1>1, <2>2, <2>3
<1>6. ReadOften'
  <2> SUFFICES ASSUME NEW p \in 1..N, ok[Order[p]]
      PROVE
        /\ phase = "sleeping" =>
              /\ Len(failed) <= N - 1
              /\ age'[Order[p]] <= T(N - p + 1) + (Period - untilNext')
                                  + (IF untilNext' = 0 THEN T(N - 1) ELSE 0)
        /\ phase = "reading" /\ kind = "cycle" =>
              IF N - Len(todo) < p
              THEN age'[Order[p]] <= T(N - p + 1) + T(N - 1) + Period + T(N - Len(todo)) + spent'
              ELSE /\ Len(todo) + Len(failed) <= N - 1
                   /\ age'[Order[p]] <= T(N - Len(todo) - p + 1) + spent'
        /\ phase = "reading" /\ kind = "retry" =>
              /\ Len(todo) + Len(failed) <= N - 1
              /\ age'[Order[p]] <= T(N - p + 1) + (Period - untilNext')
                                  + (IF untilNext' = 0 THEN T(N - 1 - Len(todo)) + spent' ELSE 0)
    BY <1>1 DEF ReadOften
  <2>1. /\ age'[Order[p]] <= age[Order[p]] + 1 /\ age[Order[p]] \in Nat /\ age'[Order[p]] \in Nat
        /\ T(N - p + 1) \in Nat /\ T(N - Len(todo)) \in Nat
    <3>1. Order[p] \in Sources /\ N - p + 1 \in Nat /\ N - Len(todo) \in Nat
      BY Numbers, OrderIs
    <3> QED
      BY <1>3, <3>1, Numbers, TimeIs
  <2>2. CASE phase = "sleeping"
    <3>1. /\ Len(failed) <= N - 1
          /\ age[Order[p]] <= T(N - p + 1) + (Period - untilNext) + (IF untilNext = 0 THEN T(N - 1) ELSE 0)
      BY <2>2 DEF ReadOften
    <3>2. T(N - 1) \in Nat /\ untilNext' = IF untilNext > 0 THEN untilNext - 1 ELSE 0
      BY <1>1, <1>4
    <3>3. untilNext > 0
      BY <1>1, <1>n, <2>2, Numbers DEF IInv, Passes
    <3>4. age'[Order[p]] <= T(N - p + 1) + (Period - untilNext') + (IF untilNext' = 0 THEN T(N - 1) ELSE 0)
      <4>1. CASE untilNext > 1
        BY <2>1, <3>1, <3>2, <4>1, <1>n
      <4>2. CASE untilNext = 1
        BY <2>1, <3>1, <3>2, <4>2, <1>n
      <4> QED
        BY <3>3, <4>1, <4>2, <1>n
    <3> QED
      BY <2>2, <3>1, <3>4
  <2>3. CASE phase = "reading" /\ kind = "cycle"
    <3>1. CASE N - Len(todo) < p
      <4>1. age[Order[p]] <= T(N - p + 1) + T(N - 1) + Period + T(N - Len(todo)) + spent
        BY <2>3, <3>1 DEF ReadOften
      <4>2. T(N - 1) \in Nat /\ spent' = spent + 1
        BY <1>1, <1>4, <2>3
      <4>3. age'[Order[p]] <= T(N - p + 1) + T(N - 1) + Period + T(N - Len(todo)) + spent'
        BY <2>1, <4>1, <4>2, <1>n
      <4> QED
        BY <2>3, <3>1, <4>3
    <3>2. CASE ~(N - Len(todo) < p)
      <4>1. T(N - Len(todo) - p + 1) \in Nat
        <5>1. N - Len(todo) - p + 1 \in Nat
          BY <3>2, Numbers, SomeSources
        <5> QED
          BY <5>1, TimeIs
      <4>2. /\ Len(todo) + Len(failed) <= N - 1
            /\ age[Order[p]] <= T(N - Len(todo) - p + 1) + spent
        BY <2>3, <3>2 DEF ReadOften
      <4>3. spent' = spent + 1
        BY <1>1, <2>3
      <4>4. age'[Order[p]] <= T(N - Len(todo) - p + 1) + spent'
        BY <2>1, <4>1, <4>2, <4>3, <1>n
      <4> QED
        BY <2>3, <3>2, <4>2, <4>4
    <3> QED
      BY <3>1, <3>2
  <2>4. CASE phase = "reading" /\ kind = "retry"
    <3>1. Len(todo) + Len(failed) <= N - 1 /\ Len(todo) \in 0..(N - 1)
      <4>1. Len(todo) + Len(failed) <= N - 1
        BY <2>4 DEF ReadOften
      <4> QED
        BY <4>1, Numbers, SomeSources
    <3>2. T(N - 1 - Len(todo)) \in Nat
      BY <1>4, <3>1
    <3>3. age[Order[p]] <= T(N - p + 1) + (Period - untilNext)
                           + (IF untilNext = 0 THEN T(N - 1 - Len(todo)) + spent ELSE 0)
      BY <2>4 DEF ReadOften
    <3>4. spent' = spent + 1 /\ untilNext' = IF untilNext > 0 THEN untilNext - 1 ELSE 0
      BY <1>1, <2>4
    <3>5. age'[Order[p]] <= T(N - p + 1) + (Period - untilNext')
                            + (IF untilNext' = 0 THEN T(N - 1 - Len(todo)) + spent' ELSE 0)
      <4>1. CASE untilNext > 1
        BY <2>1, <3>2, <3>3, <3>4, <4>1, <1>n
      <4>2. CASE untilNext = 1
        BY <2>1, <3>2, <3>3, <3>4, <4>2, <1>n
      <4>3. CASE untilNext = 0
        BY SMTT(60), <2>1, <3>2, <3>3, <3>4, <4>3, <1>n
      <4> QED
        BY <4>1, <4>2, <4>3, <1>n
    <3> QED
      BY <2>4, <3>1, <3>5
  <2> QED
    BY <1>1, <2>2, <2>3, <2>4
<1> QED
  BY <1>5, <1>6

LEMMA TimelyCall == IInv /\ Timely /\ Call => Timely'
<1> SUFFICES ASSUME IInv, Timely, Call PROVE Timely'
  OBVIOUS
<1>1. UNCHANGED <<phase, kind, todo, failed, spent, wait, untilNext, ok, age, sinceFail, restarts>>
  BY DEF Call, ages
<1> QED
  BY <1>1 DEF Timely, FailedSoon, ReadOften, In

\* The failed sources of a pass that reads one more of its own.
LEMMA FailedSoonAfterRead ==
    ASSUME NEW bad \in 0..1, IInv, ReadAs(bad), FailedSoon,
           \A q \in Sources \ {Head(todo)} : sinceFail'[q] = sinceFail[q],
           bad = 1 => sinceFail'[Head(todo)] = 0
    PROVE  FailedSoon'
<1>1. /\ Len(todo) \in Nat /\ Len(todo) >= 1 /\ Len(failed) \in Nat
      /\ todo[1] = Head(todo) /\ Head(todo) \in Sources
      /\ Len(todo') = Len(todo) - 1 /\ \A k \in 1..Len(todo') : todo'[k] = todo[k + 1]
      /\ Len(failed') = Len(failed) + bad /\ \A k \in 1..Len(failed) : failed'[k] = failed[k]
      /\ bad = 1 => failed'[Len(failed) + 1] = Head(todo)
      /\ spent' = 0
  BY AfterRead
<1>2. ok'[Head(todo)] = (bad = 0) /\ \A q \in Sources \ {Head(todo)} : ok'[q] = ok[q]
  BY AfterRead
<1>d. bad # 1 => ok'[Head(todo)]
  <2>1. bad # 1 => (bad = 0) = TRUE
    OBVIOUS
  <2> QED
    BY <1>2, <2>1
<1>3. /\ Len(todo) > 1 => phase' = "reading"
      /\ Len(todo) = 1 => phase' = "sleeping" /\ Sleep(failed', IF kind = "cycle" THEN Period ELSE untilNext)
  BY AfterRead
<1>4. /\ spent \in Nat /\ spent <= ReadTime /\ untilNext \in Nat /\ Period \in Nat /\ Retry \in Nat
      /\ Len(todo) + Len(failed) <= N /\ N \in Nat /\ N >= 1 /\ phase = "reading"
  BY Numbers, SomeSources DEF ReadAs
<1>5. N - 1 \in Nat /\ N - Len(todo) \in Nat /\ N - 1 - Len(todo') = N - Len(todo)
      /\ N - Len(todo') = (N - Len(todo)) + 1
  BY <1>1, <1>4
<1>6. /\ T(N - 1) \in Nat /\ T(N - Len(todo)) \in Nat /\ T(N - Len(todo)) <= T(N - 1)
      /\ T(N - Len(todo')) = T(N - Len(todo)) + ReadTime
  <2>1. N - Len(todo) <= N - 1
    BY <1>1, <1>4
  <2> QED
    BY <1>5, <2>1, TimeIs, OneMore, TimesGrow
\* Where a failed source is, and since when.
<1>7. ASSUME NEW q \in Sources, ~ok'[q]
      PROVE  \/ In(q, failed') /\ sinceFail'[q] <= T(N - Len(todo))
             \/ In(q, todo') /\ sinceFail'[q] <= T(N - 1) + Retry + T(N - Len(todo'))
  <2>1. CASE q = Head(todo)
    <3>1. bad = 1
      BY <1>d, <1>7, <2>1
    <3>2. In(q, failed')
      BY <1>1, <2>1, <3>1 DEF In
    <3> QED
      BY <1>6, <2>1, <3>1, <3>2
  <2>2. CASE q # Head(todo)
    <3>1. ~ok[q] /\ sinceFail'[q] = sinceFail[q] /\ sinceFail[q] \in Nat
      BY <1>2, <1>7, <2>2, Numbers
    <3>2. CASE In(q, failed) /\ sinceFail[q] <= T(N - 1 - Len(todo)) + spent
      <4>1. In(q, failed')
        BY <1>1, <3>2 DEF In
      <4>2. N - 1 - Len(todo) \in Nat /\ (N - 1 - Len(todo)) + 1 = N - Len(todo)
        BY <1>1, <1>4, <3>2 DEF In
      <4>3. T(N - Len(todo)) = T(N - 1 - Len(todo)) + ReadTime /\ T(N - 1 - Len(todo)) \in Nat
        BY <4>2, OneMore, TimeIs
      <4> QED
        BY <1>4, <3>1, <3>2, <4>1, <4>3
    <3>3. CASE In(q, todo) /\ sinceFail[q] <= T(N - 1) + Retry + T(N - Len(todo)) + spent
      <4>1. In(q, todo')
        <5>1. PICK k \in 1..Len(todo) : todo[k] = q
          BY <3>3 DEF In
        <5>2. k - 1 \in 1..Len(todo') /\ (k - 1) + 1 = k
          BY <1>1, <2>2, <5>1
        <5> QED
          BY <1>1, <5>1, <5>2 DEF In
      <4> QED
        BY <1>4, <1>6, <3>1, <3>3, <4>1
    <3> QED
      BY <1>4, <3>1, <3>2, <3>3 DEF FailedSoon
  <2> QED
    BY <2>1, <2>2
<1>8. CASE Len(todo) > 1
  <2> SUFFICES ASSUME NEW q \in Sources, ~ok'[q]
               PROVE  \/ In(q, failed') /\ sinceFail'[q] <= T(N - 1 - Len(todo')) + spent'
                      \/ In(q, todo') /\ sinceFail'[q] <= T(N - 1) + Retry + T(N - Len(todo')) + spent'
    BY <1>3, <1>8 DEF FailedSoon
  <2>1. T(N - 1 - Len(todo')) + spent' = T(N - Len(todo))
    BY <1>1, <1>5, <1>6
  <2>2. T(N - 1) + Retry + T(N - Len(todo')) + spent' = T(N - 1) + Retry + T(N - Len(todo'))
    BY <1>1, <1>4, <1>6
  <2> QED
    BY <1>7, <2>1, <2>2
<1>9. CASE Len(todo) = 1
  <2> SUFFICES ASSUME NEW q \in Sources, ~ok'[q]
               PROVE  /\ In(q, failed') /\ wait' <= Retry
                      /\ sinceFail'[q] <= T(N - 1) + Retry - wait'
    BY <1>3, <1>9 DEF FailedSoon
  <2>1. In(q, failed') /\ sinceFail'[q] <= T(N - Len(todo))
    BY <1>1, <1>7, <1>9 DEF In
  <2>2. failed' # <<>>
    BY <2>1, EmptySeq DEF In
  <2>3. wait' <= Retry /\ wait' \in Nat
    BY <1>3, <1>4, <1>9, <2>2 DEF Sleep
  <2>4. sinceFail'[q] \in Nat
    <3>1. q = Head(todo) => bad = 1
      BY <1>d
    <3> QED
      BY <3>1, Numbers
  <2> QED
    BY <1>4, <1>6, <2>1, <2>3, <2>4
<1> QED
  BY <1>1, <1>8, <1>9

\* The sources of a cycle are read in their places.
LEMMA HeadsPlace ==
    ASSUME IInv, phase = "reading", kind = "cycle", NEW p \in 1..N, Order[p] = Head(todo)
    PROVE  p = N - Len(todo) + 1
<1>1. /\ Len(todo) \in Nat /\ Len(todo) >= 1 /\ Len(todo) <= N /\ N \in Nat
  BY Numbers, SomeSources
<1>2. todo[1] = Head(todo) /\ todo[1] = Order[N - Len(todo) + 1]
  BY <1>1 DEF IInv, TypeOK, Passes
<1>3. N - Len(todo) + 1 \in 1..N
  BY <1>1
<1> QED
  BY <1>1, <1>2, <1>3, OrderIs, OrderAssumption

\* A source just read is as young as its read.
LEMMA ReadOftenJustRead ==
    ASSUME NEW bad \in 0..1, IInv, ReadAs(bad), bad = 0, NEW p \in 1..N, Order[p] = Head(todo),
           age'[Order[p]] = spent
    PROVE  /\ phase' = "sleeping" =>
                 /\ Len(failed') <= N - 1
                 /\ age'[Order[p]] <= T(N - p + 1) + (Period - untilNext')
                                     + (IF untilNext' = 0 THEN T(N - 1) ELSE 0)
           /\ phase' = "reading" /\ kind' = "cycle" =>
                 IF N - Len(todo') < p
                 THEN age'[Order[p]] <= T(N - p + 1) + T(N - 1) + Period + T(N - Len(todo')) + spent'
                 ELSE /\ Len(todo') + Len(failed') <= N - 1
                      /\ age'[Order[p]] <= T(N - Len(todo') - p + 1) + spent'
           /\ phase' = "reading" /\ kind' = "retry" =>
                 /\ Len(todo') + Len(failed') <= N - 1
                 /\ age'[Order[p]] <= T(N - p + 1) + (Period - untilNext')
                                     + (IF untilNext' = 0 THEN T(N - 1 - Len(todo')) + spent' ELSE 0)
<1>1. /\ Len(todo) \in Nat /\ Len(todo) >= 1 /\ Len(failed) \in Nat
      /\ Len(todo') = Len(todo) - 1 /\ Len(failed') = Len(failed) /\ spent' = 0
  BY AfterRead
<1>2. /\ Len(todo) > 1 => phase' = "reading" /\ UNCHANGED <<kind, untilNext>>
      /\ Len(todo) = 1 => phase' = "sleeping"
                          /\ untilNext' = IF kind = "cycle" THEN Period ELSE untilNext
  BY AfterRead DEF Sleep
<1>3. /\ spent \in Nat /\ spent <= ReadTime /\ untilNext \in Nat /\ untilNext <= Period /\ Period \in Nat
      /\ Len(todo) + Len(failed) <= N /\ N \in Nat /\ N >= 1 /\ phase = "reading"
  BY Numbers, SomeSources DEF ReadAs
<1>4. untilNext' \in Nat /\ untilNext' <= Period
  BY <1>1, <1>2, <1>3
<1>5. T(N - p + 1) \in Nat /\ ReadTime <= T(N - p + 1) /\ T(N - 1) \in Nat
      /\ T(N - 1 - Len(todo')) \in Nat
  <2>1. /\ N - p \in Nat /\ (N - p) + 1 = N - p + 1 /\ N - p + 1 \in Nat /\ N - 1 \in Nat
        /\ N - 1 - Len(todo') \in Nat
    BY <1>1, <1>3
  <2>2. T(N - p + 1) = T(N - p) + ReadTime /\ T(N - p) \in Nat
    BY <2>1, OneMore, TimeIs
  <2> QED
    BY <2>1, <2>2, TimeIs
<1>6. CASE Len(todo) = 1
  <2>1. phase' = "sleeping" /\ Len(failed') <= N - 1
    BY <1>1, <1>2, <1>3, <1>6
  <2>2. age'[Order[p]] <= T(N - p + 1) + (Period - untilNext') + (IF untilNext' = 0 THEN T(N - 1) ELSE 0)
    BY SMTT(60), <1>3, <1>4, <1>5
  <2> QED
    BY <2>1, <2>2
<1>7. CASE Len(todo) > 1 /\ kind = "cycle"
  <2>1. p = N - Len(todo) + 1
    BY <1>3, <1>7, HeadsPlace
  <2>2. ~(N - Len(todo') < p) /\ N - Len(todo') - p + 1 = 0 + 1 /\ Len(todo') + Len(failed') <= N - 1
    BY <1>1, <1>3, <2>1
  <2>3. T(0 + 1) = T(0) + ReadTime /\ T(0) \in Nat
    BY OneMore, TimeIs
  <2>4. age'[Order[p]] <= T(N - Len(todo') - p + 1) + spent'
    BY <1>1, <1>3, <2>2, <2>3
  <2> QED
    BY <1>2, <1>7, <2>2, <2>4
<1>8. CASE Len(todo) > 1 /\ kind = "retry"
  <2>1. Len(todo') + Len(failed') <= N - 1
    BY <1>1, <1>3
  <2>2. age'[Order[p]] <= T(N - p + 1) + (Period - untilNext')
                          + (IF untilNext' = 0 THEN T(N - 1 - Len(todo')) + spent' ELSE 0)
    <3>1. age'[Order[p]] <= ReadTime /\ age'[Order[p]] \in Nat /\ ReadTime \in Nat
      BY <1>3
    <3>2. Period - untilNext' \in Nat
      <4>1. \A a, b \in Nat : a <= b => b - a \in Nat
        OBVIOUS
      <4> QED
        BY <1>4, <4>1
    <3>3. T(N - 1 - Len(todo')) + spent' \in Nat
      BY <1>1, <1>5
    <3> QED
      BY <1>5, <3>1, <3>2, <3>3
  <2> QED
    BY <1>2, <1>8, <2>1, <2>2
<1> QED
  BY <1>1, <1>6, <1>7, <1>8, Numbers

\* A source the read was not of.
LEMMA ReadOftenOthers ==
    ASSUME NEW bad \in 0..1, IInv, ReadAs(bad), ReadOften, NEW p \in 1..N, Order[p] # Head(todo),
           ok[Order[p]], age'[Order[p]] = age[Order[p]]
    PROVE  /\ phase' = "sleeping" =>
                 /\ Len(failed') <= N - 1
                 /\ age'[Order[p]] <= T(N - p + 1) + (Period - untilNext')
                                     + (IF untilNext' = 0 THEN T(N - 1) ELSE 0)
           /\ phase' = "reading" /\ kind' = "cycle" =>
                 IF N - Len(todo') < p
                 THEN age'[Order[p]] <= T(N - p + 1) + T(N - 1) + Period + T(N - Len(todo')) + spent'
                 ELSE /\ Len(todo') + Len(failed') <= N - 1
                      /\ age'[Order[p]] <= T(N - Len(todo') - p + 1) + spent'
           /\ phase' = "reading" /\ kind' = "retry" =>
                 /\ Len(todo') + Len(failed') <= N - 1
                 /\ age'[Order[p]] <= T(N - p + 1) + (Period - untilNext')
                                     + (IF untilNext' = 0 THEN T(N - 1 - Len(todo')) + spent' ELSE 0)
<1>1. /\ Len(todo) \in Nat /\ Len(todo) >= 1 /\ Len(failed) \in Nat
      /\ Len(todo') = Len(todo) - 1 /\ Len(failed') = Len(failed) + bad /\ spent' = 0
  BY AfterRead
<1>2. /\ Len(todo) > 1 => phase' = "reading" /\ UNCHANGED <<kind, untilNext>>
      /\ Len(todo) = 1 => phase' = "sleeping"
                          /\ untilNext' = IF kind = "cycle" THEN Period ELSE untilNext
  BY AfterRead DEF Sleep
<1>3. /\ spent \in Nat /\ spent <= ReadTime /\ untilNext \in Nat /\ untilNext <= Period /\ Period \in Nat
      /\ Len(todo) + Len(failed) <= N /\ N \in Nat /\ N >= 1 /\ phase = "reading"
      /\ Period > 0 /\ ReadTime \in Nat
  BY Numbers, SomeSources DEF ReadAs
<1>n. /\ spent' = 0 /\ spent \in Nat /\ spent <= ReadTime /\ ReadTime \in Nat /\ Period \in Nat
      /\ untilNext \in Nat /\ age'[Order[p]] = age[Order[p]]
  BY <1>1, <1>3
<1>4. age[Order[p]] \in Nat /\ T(N - p + 1) \in Nat /\ T(N - 1) \in Nat
  <2>1. N - p + 1 \in Nat /\ N - 1 \in Nat /\ Order[p] \in Sources
    BY <1>3, OrderIs
  <2> QED
    BY <2>1, TimeIs, Numbers
<1>5. CASE kind = "cycle" /\ N - Len(todo) < p
  <2>1. p # N - Len(todo) + 1
    <3>1. todo[1] = Head(todo) /\ todo[1] = Order[N - Len(todo) + 1]
      BY <1>1, <1>3, <1>5 DEF IInv, TypeOK, Passes
    <3> QED
      BY <3>1
  <2>2. Len(todo) > 1 /\ N - Len(todo') < p
    BY <1>1, <1>3, <1>5, <2>1
  <2>3. age[Order[p]] <= T(N - p + 1) + T(N - 1) + Period + T(N - Len(todo)) + spent
    BY <1>3, <1>5 DEF ReadOften
  <2>4. T(N - Len(todo')) = T(N - Len(todo)) + ReadTime /\ T(N - Len(todo)) \in Nat
    <3>1. N - Len(todo) \in Nat /\ N - Len(todo') = (N - Len(todo)) + 1
      BY <1>1, <1>3
    <3> QED
      BY <3>1, OneMore, TimeIs
  <2>5. age'[Order[p]] <= T(N - p + 1) + T(N - 1) + Period + T(N - Len(todo')) + spent'
    BY SMTT(60), <1>n, <1>4, <2>3, <2>4
  <2> QED
    BY <1>2, <1>5, <2>2, <2>5
<1>6. CASE kind = "cycle" /\ ~(N - Len(todo) < p)
  <2>1. Len(todo) + Len(failed) <= N - 1 /\ age[Order[p]] <= T(N - Len(todo) - p + 1) + spent
    BY <1>3, <1>6 DEF ReadOften
  <2>2. N - Len(todo) - p + 1 \in Nat /\ N - Len(todo') - p + 1 = (N - Len(todo) - p + 1) + 1
    BY <1>1, <1>3, <1>6
  <2>3. /\ T(N - Len(todo') - p + 1) = T(N - Len(todo) - p + 1) + ReadTime
        /\ T(N - Len(todo) - p + 1) \in Nat
    BY <2>2, OneMore, TimeIs
  <2>4. age'[Order[p]] <= T(N - Len(todo') - p + 1) + spent' /\ Len(todo') + Len(failed') <= N - 1
    <3>1. Len(todo') + Len(failed') <= N - 1
      BY <1>1, <1>3, <2>1
    <3>2. age'[Order[p]] <= T(N - Len(todo') - p + 1) + spent'
      BY <1>n, <1>4, <2>1, <2>3
    <3> QED
      BY <3>1, <3>2
  <2>5. CASE Len(todo) > 1
    <3>1. ~(N - Len(todo') < p)
      BY <1>1, <1>3, <1>6
    <3> QED
      BY <1>2, <1>6, <2>4, <2>5, <3>1
  <2>6. CASE Len(todo) = 1
    <3>1. phase' = "sleeping" /\ untilNext' = Period
      BY <1>2, <1>6, <2>6
    <3>2. N - Len(todo') - p + 1 = N - p + 1 /\ Len(failed') <= N - 1
      BY <1>1, <1>3, <2>4, <2>6
    <3>3. age'[Order[p]] <= T(N - p + 1) + (Period - untilNext')
      BY <1>1, <1>3, <1>4, <2>4, <3>1, <3>2
    <3> QED
      BY <1>3, <1>4, <3>1, <3>2, <3>3
  <2> QED
    BY <1>1, <2>5, <2>6
<1>7. CASE kind = "retry"
  <2>1. /\ Len(todo) + Len(failed) <= N - 1
        /\ age[Order[p]] <= T(N - p + 1) + (Period - untilNext)
                            + (IF untilNext = 0 THEN T(N - 1 - Len(todo)) + spent ELSE 0)
    BY <1>3, <1>7 DEF ReadOften
  <2>2. N - 1 - Len(todo) \in Nat /\ N - 1 - Len(todo') = (N - 1 - Len(todo)) + 1
    BY SMTT(60), <1>1, <1>3, <2>1
  <2>3. T(N - 1 - Len(todo')) = T(N - 1 - Len(todo)) + ReadTime /\ T(N - 1 - Len(todo)) \in Nat
    BY <2>2, OneMore, TimeIs
  <2>4. /\ Len(todo') + Len(failed') <= N - 1
        /\ age'[Order[p]] <= T(N - p + 1) + (Period - untilNext)
                             + (IF untilNext = 0 THEN T(N - 1 - Len(todo')) ELSE 0)
    <3>1. Len(todo') + Len(failed') <= N - 1
      BY <1>1, <1>3, <2>1
    <3>2. CASE untilNext = 0
      BY <1>n, <1>4, <2>1, <2>3, <3>1, <3>2
    <3>3. CASE untilNext # 0
      BY <1>n, <1>4, <2>1, <3>1, <3>3
    <3> QED
      BY <3>2, <3>3
  <2>5. untilNext' = untilNext /\ kind # "cycle"
    BY <1>1, <1>2, <1>7
  <2>6. CASE Len(todo) > 1
    <3>1. T(N - 1 - Len(todo')) + spent' = T(N - 1 - Len(todo'))
      BY <1>1, <1>3, <2>3
    <3> QED
      BY <1>2, <1>7, <2>4, <2>5, <2>6, <3>1
  <2>7. CASE Len(todo) = 1
    <3>1. Len(failed') <= N - 1 /\ N - 1 - Len(todo') = N - 1
      BY <1>1, <1>3, <2>4, <2>7
    <3> QED
      BY <1>2, <2>4, <2>5, <2>7, <3>1
  <2> QED
    BY <1>1, <2>6, <2>7
<1> QED
  BY <1>5, <1>6, <1>7, Numbers

LEMMA TimelyRead ==
    ASSUME NEW bad \in 0..1
    PROVE  /\ IInv /\ Timely /\ ReadAs(bad)
           /\ \A q \in Sources \ {Head(todo)} : sinceFail'[q] = sinceFail[q] /\ age'[q] = age[q]
           /\ bad = 1 => sinceFail'[Head(todo)] = 0
           /\ bad = 0 => age'[Head(todo)] = spent
           => Timely'
<1> SUFFICES ASSUME IInv, FailedSoon, ReadOften, ReadAs(bad),
                    \A q \in Sources \ {Head(todo)} : sinceFail'[q] = sinceFail[q] /\ age'[q] = age[q],
                    bad = 1 => sinceFail'[Head(todo)] = 0,
                    bad = 0 => age'[Head(todo)] = spent
             PROVE  FailedSoon' /\ ReadOften'
  BY DEF Timely, ReadAs
<1>1. FailedSoon'
  BY FailedSoonAfterRead
<1>2. ok'[Head(todo)] = (bad = 0) /\ \A q \in Sources \ {Head(todo)} : ok'[q] = ok[q]
  BY AfterRead
<1>3. ASSUME NEW p \in 1..N, ok'[Order[p]], Order[p] = Head(todo)
      PROVE  bad = 0
  <2>1. bad # 0 => (bad = 0) = FALSE
    OBVIOUS
  <2> QED
    BY <1>2, <1>3, <2>1
<1>4. ASSUME NEW p \in 1..N, ok'[Order[p]], Order[p] # Head(todo)
      PROVE  ok[Order[p]] /\ age'[Order[p]] = age[Order[p]]
  BY <1>2, <1>4, OrderIs
<1>5. ReadOften'
  BY <1>3, <1>4, ReadOftenJustRead, ReadOftenOthers DEF ReadOften
<1> QED
  BY <1>1, <1>5

LEMMA TimelyReadOk == IInv /\ Timely /\ ReadOk => Timely'
<1> SUFFICES ASSUME IInv, Timely, ReadOk PROVE Timely'
  OBVIOUS
<1>1. ReadAs(0) /\ Head(todo) \in Sources
  BY ReadsAre, AfterRead
<1>2. /\ \A q \in Sources \ {Head(todo)} : sinceFail'[q] = sinceFail[q] /\ age'[q] = age[q]
      /\ age'[Head(todo)] = spent
  BY <1>1 DEF ReadOk, IInv, TypeOK
<1> QED
  BY <1>1, <1>2, TimelyRead

LEMMA TimelyReadFail == IInv /\ Timely /\ ReadFail => Timely'
<1> SUFFICES ASSUME IInv, Timely, ReadFail PROVE Timely'
  OBVIOUS
<1>1. ReadAs(1) /\ Head(todo) \in Sources
  BY ReadsAre, AfterRead
<1>2. /\ \A q \in Sources \ {Head(todo)} : sinceFail'[q] = sinceFail[q] /\ age'[q] = age[q]
      /\ sinceFail'[Head(todo)] = 0
  BY <1>1 DEF ReadFail, IInv, TypeOK
<1> QED
  BY <1>1, <1>2, TimelyRead

LEMMA TimelyWake == IInv /\ Timely /\ Wake => Timely'
<1> SUFFICES ASSUME IInv, Wake, FailedSoon, ReadOften PROVE FailedSoon' /\ ReadOften'
  BY DEF Timely, Wake
<1>1. /\ UNCHANGED <<kind, spent, wait, untilNext, ok, age, sinceFail>>
      /\ phase = "sleeping" /\ wait = 0 /\ phase' = "reading"
      /\ todo' = (IF kind = "retry" THEN failed ELSE Order) /\ failed' = <<>>
  BY DEF Wake, ages
<1>2. /\ spent \in Nat /\ untilNext \in Nat /\ Period \in Nat /\ Retry \in Nat /\ Len(failed) \in Nat
      /\ Len(failed) <= N /\ N \in Nat /\ N >= 1 /\ kind \in {"cycle", "retry"}
      /\ kind = "cycle" => untilNext = 0
      /\ kind = "retry" => untilNext > 0
  BY <1>1, Numbers, SomeSources DEF IInv, Passes
<1>3. Len(failed') = 0 /\ Len(todo') \in Nat /\ Len(todo') <= N /\ (kind = "cycle" => Len(todo') = N)
  BY <1>1, <1>2, EmptySeq, OrderIs
<1>4. T(N - 1) \in Nat /\ T(N - Len(todo')) \in Nat
  <2>1. N - 1 \in Nat /\ N - Len(todo') \in Nat
    BY <1>2, <1>3
  <2> QED
    BY <2>1, TimeIs
<1>5. FailedSoon'
  <2> SUFFICES ASSUME NEW q \in Sources, ~ok[q]
               PROVE  In(q, todo') /\ sinceFail[q] <= T(N - 1) + Retry + T(N - Len(todo')) + spent
    BY <1>1 DEF FailedSoon
  <2>1. In(q, failed) /\ sinceFail[q] <= T(N - 1) + Retry - 0 /\ sinceFail[q] \in Nat
    BY <1>1, Numbers DEF FailedSoon
  <2>2. In(q, Order)
    BY OrderIs DEF In
  <2>3. In(q, todo')
    BY <1>1, <2>1, <2>2
  <2> QED
    BY <1>2, <1>4, <2>1, <2>3
<1>6. ReadOften'
  <2> SUFFICES ASSUME NEW p \in 1..N, ok[Order[p]]
      PROVE
        /\ kind = "cycle" =>
              IF N - Len(todo') < p
              THEN age[Order[p]] <= T(N - p + 1) + T(N - 1) + Period + T(N - Len(todo')) + spent
              ELSE /\ Len(todo') + Len(failed') <= N - 1
                   /\ age[Order[p]] <= T(N - Len(todo') - p + 1) + spent
        /\ kind = "retry" =>
              /\ Len(todo') + Len(failed') <= N - 1
              /\ age[Order[p]] <= T(N - p + 1) + (Period - untilNext)
                                  + (IF untilNext = 0 THEN T(N - 1 - Len(todo')) + spent ELSE 0)
    BY <1>1 DEF ReadOften
  <2>1. /\ Len(failed) <= N - 1
        /\ age[Order[p]] <= T(N - p + 1) + (Period - untilNext) + (IF untilNext = 0 THEN T(N - 1) ELSE 0)
    BY <1>1 DEF ReadOften
  <2>2. age[Order[p]] \in Nat /\ T(N - p + 1) \in Nat
    <3>1. N - p + 1 \in Nat /\ Order[p] \in Sources
      BY <1>2, OrderIs
    <3> QED
      BY <3>1, TimeIs, Numbers
  <2>3. CASE kind = "cycle"
    <3>1. untilNext = 0 /\ N - Len(todo') < p
      BY <1>2, <1>3, <2>3
    <3>2. age[Order[p]] <= T(N - p + 1) + Period + T(N - 1)
      BY <1>2, <2>1, <3>1
    <3>3. age[Order[p]] <= T(N - p + 1) + T(N - 1) + Period + T(N - Len(todo')) + spent
      BY <1>2, <1>4, <2>2, <3>2
    <3> QED
      BY <2>3, <3>1, <3>3
  <2>4. CASE kind = "retry"
    <3>1. untilNext # 0 /\ Len(todo') + Len(failed') <= N - 1
      BY <1>1, <1>2, <1>3, <2>1, <2>4
    <3> QED
      BY <2>1, <2>4, <3>1
  <2> QED
    BY <1>2, <2>3, <2>4
<1> QED
  BY <1>5, <1>6

LEMMA TimelyInductive == IInv /\ Timely /\ [Next]_vars => Timely'
<1>1. ASSUME Timely, UNCHANGED vars PROVE Timely'
  BY <1>1 DEF vars, loop, ages, Timely, FailedSoon, ReadOften, In
<1>2. ASSUME Timely, Hang PROVE Timely'
  BY <1>2 DEF Timely, Hang
<1>3. ASSUME IInv, Restart PROVE Timely'
  <2>1. restarts' # 0
    BY <1>3, Numbers DEF Restart
  <2> QED
    BY <2>1 DEF Timely
<1> QED
  BY <1>1, <1>2, <1>3, TimelyTick, TimelyCall, TimelyReadOk, TimelyReadFail, TimelyWake DEF Next

LEMMA TimelyAlways == Spec => []Timely
BY TimelyInit, TimelyInductive, Always, PTL DEF Spec

\* A source that failed is read again within the retry and two passes, however many sources
\* fail with it (Reconciler.Run, "waiting a full period for the next one left the source
\* unread").
THEOREM FailedReadAgain == Spec => []FailedIsRetried
<1>1. IInv /\ Timely => FailedIsRetried
  <2> SUFFICES ASSUME IInv, FailedSoon, phase # "hung", NEW s \in Sources, ~ok[s]
               PROVE  sinceFail[s] <= Retry + (2 * N - 1) * ReadTime
    BY DEF Timely, FailedIsRetried
  <2>1. /\ spent \in Nat /\ spent <= ReadTime /\ ReadTime \in Nat /\ wait \in Nat /\ Retry \in Nat
        /\ Len(todo) \in Nat /\ Len(failed) \in Nat /\ Len(todo) + Len(failed) <= N
        /\ N \in Nat /\ N >= 1 /\ sinceFail[s] \in Nat /\ (phase # "sleeping" => Len(todo) >= 1)
    BY Numbers, SomeSources
  <2>2. T(N - 1) \in Nat /\ (2 * N - 1) * ReadTime = T(N - 1) + T(N - 1) + ReadTime
    <3>1. PICK m \in Nat : N = m + 1
      <4>1. N - 1 \in Nat /\ N = (N - 1) + 1
        BY <2>1
      <4> QED
        BY <4>1
    <3>2. N - 1 = m /\ 2 * N - 1 = m + m + 1
      BY <3>1
    <3>3. (m + m + 1) * ReadTime = m * ReadTime + m * ReadTime + ReadTime /\ m * ReadTime \in Nat
      BY <2>1
    <3> QED
      BY <3>2, <3>3 DEF T
  <2>3. CASE phase = "sleeping"
    <3>1. sinceFail[s] <= T(N - 1) + Retry - wait
      BY <2>3 DEF FailedSoon
    <3> QED
      BY <2>1, <2>2, <3>1
  <2>4. CASE phase = "reading"
    <3>1. CASE In(s, failed) /\ sinceFail[s] <= T(N - 1 - Len(todo)) + spent
      <4>1. N - 1 - Len(todo) \in Nat /\ N - 1 - Len(todo) <= N - 1 /\ N - 1 \in Nat
        BY <2>1, <3>1 DEF In
      <4>2. T(N - 1 - Len(todo)) <= T(N - 1) /\ T(N - 1 - Len(todo)) \in Nat
        BY <4>1, TimesGrow, TimeIs
      <4>3. sinceFail[s] <= T(N - 1) + ReadTime
        BY <2>1, <2>2, <3>1, <4>2
      <4>4. T(N - 1) + ReadTime <= Retry + (T(N - 1) + T(N - 1) + ReadTime)
        BY <2>1, <2>2
      <4> QED
        BY <2>1, <2>2, <4>3, <4>4
    <3>2. CASE sinceFail[s] <= T(N - 1) + Retry + T(N - Len(todo)) + spent
      <4>1. N - Len(todo) \in Nat /\ N - Len(todo) <= N - 1 /\ N - 1 \in Nat
        BY <2>1, <2>4
      <4>2. T(N - Len(todo)) <= T(N - 1) /\ T(N - Len(todo)) \in Nat
        BY <4>1, TimesGrow, TimeIs
      <4> QED
        BY SMTT(60), <2>1, <2>2, <3>2, <4>2
    <3> QED
      BY <2>4, <3>1, <3>2 DEF FailedSoon
  <2> QED
    BY <2>3, <2>4 DEF IInv, TypeOK
<1> QED
  BY <1>1, Always, TimelyAlways, PTL

\* No source whose reads succeed is ever as old as the alert's bound, however the others
\* fail and however far their retries overrun the period: what CycleAssumption says of the
\* periods is enough for any number of sources ("ReconcilePeriod and the alert bound of 20
\* minutes are one decision").
THEOREM NoAlarmWithoutCause == Spec => []NoFalseAlarm
<1>1. IInv /\ Timely => NoFalseAlarm
  <2> SUFFICES ASSUME IInv, ReadOften, phase # "hung", NEW p \in 1..N, ok[Order[p]]
               PROVE  age[Order[p]] <= AlertBound
    BY OrderIs DEF Timely, NoFalseAlarm
  <2>1. /\ spent \in Nat /\ spent <= ReadTime /\ ReadTime \in Nat /\ untilNext \in Nat
        /\ untilNext <= Period /\ Period \in Nat /\ kind \in {"cycle", "retry"}
        /\ Len(todo) \in Nat /\ Len(failed) \in Nat /\ Len(todo) + Len(failed) <= N
        /\ N \in Nat /\ N >= 1 /\ (phase # "sleeping" => Len(todo) >= 1)
    BY Numbers, SomeSources
  <2>2. age[Order[p]] \in Nat
    BY Numbers, OrderIs
  \* Two cycles take no longer than the period.
  <2>3. ASSUME NEW j \in Nat, NEW k \in Nat, j + k <= 2 * N
        PROVE  T(j) \in Nat /\ T(k) \in Nat /\ T(j) + T(k) <= Period
    <3>1. T(j) + T(k) = T(j + k) /\ T(j) \in Nat /\ T(k) \in Nat /\ T(2 * N) = 2 * N * ReadTime
      BY <2>1 DEF T
    <3>2. T(j + k) <= T(2 * N) /\ T(2 * N) \in Nat
      <4>1. j + k \in Nat /\ 2 * N \in Nat
        BY <2>1
      <4> QED
        BY <2>3, <4>1, TimesGrow, TimeIs
    <3> QED
      BY <2>1, <3>1, <3>2, CycleAssumption
  <2>4. CASE phase = "sleeping"
    <3>1. age[Order[p]] <= T(N - p + 1) + (Period - untilNext) + (IF untilNext = 0 THEN T(N - 1) ELSE 0)
      BY <2>4 DEF ReadOften
    <3>2. N - p + 1 \in Nat /\ N - 1 \in Nat /\ (N - p + 1) + (N - 1) <= 2 * N
      BY <2>1
    <3>3. T(N - p + 1) \in Nat /\ T(N - 1) \in Nat /\ T(N - p + 1) + T(N - 1) <= Period
      BY <2>3, <3>2
    <3> QED
      BY <2>1, <2>2, <3>1, <3>3 DEF AlertBound
  <2>5. CASE phase = "reading" /\ kind = "cycle" /\ N - Len(todo) < p
    <3>1. age[Order[p]] <= T(N - p + 1) + T(N - 1) + Period + T(N - Len(todo)) + spent
      BY <2>5 DEF ReadOften
    <3>2. /\ N - p + 1 \in Nat /\ N - Len(todo) \in Nat /\ N - 1 \in Nat
          /\ (N - p + 1) + (N - Len(todo)) \in Nat /\ (N - p + 1) + (N - Len(todo)) <= N
      BY <2>1, <2>5
    <3>3. /\ T(N - p + 1) \in Nat /\ T(N - Len(todo)) \in Nat /\ T(N - 1) \in Nat
          /\ T((N - p + 1) + (N - Len(todo))) = T(N - p + 1) + T(N - Len(todo))
      <4>1. \A j, k \in Nat : T(j + k) = T(j) + T(k)
        BY <2>1 DEF T
      <4> QED
        BY <3>2, <4>1, TimeIs
    <3>4. T((N - p + 1) + (N - Len(todo))) <= T(N) /\ T(N) = T(N - 1) + ReadTime
      <4>1. N = (N - 1) + 1
        BY <2>1
      <4> QED
        BY <2>1, <3>2, <4>1, TimesGrow, OneMore
    <3>5. T(N) \in Nat /\ T(N) + T(N) <= Period
      <4>1. N + N <= 2 * N
        BY <2>1
      <4> QED
        BY <2>1, <2>3, <4>1
    <3> QED
      <4>1. T(N - p + 1) + T(N - Len(todo)) <= T(N) /\ T(N - 1) + spent <= T(N)
        BY <2>1, <3>3, <3>4
      <4>2. AlertBound = Period + Period
        BY <2>1 DEF AlertBound
      <4>3. T(N - p + 1) + T(N - 1) + Period + T(N - Len(todo)) + spent <= T(N) + T(N) + Period
        BY SMTT(60), <2>1, <3>3, <3>5, <4>1
      <4> QED
        BY SMTT(60), <2>1, <2>2, <3>1, <3>3, <3>5, <4>2, <4>3
  <2>6. CASE phase = "reading" /\ kind = "cycle" /\ ~(N - Len(todo) < p)
    <3>1. age[Order[p]] <= T(N - Len(todo) - p + 1) + spent
      BY <2>6 DEF ReadOften
    <3>2. N - Len(todo) - p + 1 \in Nat /\ (N - Len(todo) - p + 1) + 1 <= 2 * N
      BY <2>1, <2>6
    <3>3. T(N - Len(todo) - p + 1) \in Nat /\ T(N - Len(todo) - p + 1) + T(1) <= Period
      BY <2>3, <3>2
    <3>4. T(1) = ReadTime
      BY DEF T
    <3> QED
      BY <2>1, <2>2, <3>1, <3>3, <3>4 DEF AlertBound
  <2>7. CASE phase = "reading" /\ kind = "retry"
    <3>1. /\ Len(todo) + Len(failed) <= N - 1
          /\ age[Order[p]] <= T(N - p + 1) + (Period - untilNext)
                              + (IF untilNext = 0 THEN T(N - 1 - Len(todo)) + spent ELSE 0)
      BY <2>7 DEF ReadOften
    <3>2. /\ N - p + 1 \in Nat /\ N - 1 - Len(todo) \in Nat /\ (N - 1 - Len(todo)) + 1 = N - Len(todo)
          /\ N - Len(todo) \in Nat /\ (N - p + 1) + (N - Len(todo)) <= 2 * N
      BY <2>1, <3>1
    <3>3. /\ T(N - p + 1) \in Nat /\ T(N - p + 1) + T(N - Len(todo)) <= Period
          /\ T(N - Len(todo)) = T(N - 1 - Len(todo)) + ReadTime /\ T(N - 1 - Len(todo)) \in Nat
      BY <2>3, <3>2, OneMore, TimeIs
    <3> QED
      <4>1. AlertBound = Period + Period
        BY <2>1 DEF AlertBound
      <4>2. T(N - 1 - Len(todo)) + spent <= T(N - Len(todo)) /\ Period - untilNext <= Period
        BY <2>1, <3>3
      <4>3. age[Order[p]] <= T(N - p + 1) + Period + T(N - Len(todo))
        <5>1. CASE untilNext = 0
          BY SMTT(60), <2>1, <2>2, <3>1, <3>3, <4>2, <5>1
        <5>2. CASE untilNext # 0
          BY SMTT(60), <2>1, <2>2, <3>1, <3>3, <4>2, <5>2
        <5> QED
          BY <5>1, <5>2
      <4> QED
        BY SMTT(60), <2>1, <2>2, <3>3, <4>1, <4>3
  <2> QED
    BY <2>1, <2>4, <2>5, <2>6, <2>7 DEF IInv, TypeOK
<1> QED
  BY <1>1, Always, TimelyAlways, PTL
=============================================================================
