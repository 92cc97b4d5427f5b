-------------------------- MODULE VtimerClockProofs --------------------------
(***************************************************************************)
(* The counter is coherent for any finite set of vCPUs, any number of      *)
(* steppers and any rate. The guard's count is exact (CountInv), so a step *)
(* that finds it zero finds no vCPU between enter() and leave(): no entry  *)
(* can have read the old epoch and still be on its way in (EntryInv).  For *)
(* a rate of at least one and counters below 2^64 the guest's counter      *)
(* never goes back and stays between the host's rate and the curve         *)
(* (CurveInv).                                                             *)
(***************************************************************************)
EXTENDS VtimerClock, FiniteSetTheorems, TLAPS

\* Offsets and counters are residues modulo Wrap.
LEMMA ModBounds == ASSUME NEW x \in Int PROVE x % Wrap \in 0..(Wrap - 1)
BY ClockAssumption DEF ClockAssumption

\* The curve is an integer whatever the rate.
LEMMA OffsetType == TypeOK => NextOffset \in 0..(Wrap - 1)
<1> SUFFICES ASSUME TypeOK PROVE NextOffset \in 0..(Wrap - 1)
  OBVIOUS
<1>1. now \in Int /\ Elapsed(now) \in Int
  BY ClockAssumption DEF ClockAssumption, TypeOK, Elapsed
<1>2. (Elapsed(now) * Num) \div Den \in Int
  BY <1>1, ClockAssumption DEF ClockAssumption
<1>3. scaled_cntvct(now) \in Int
  <2>1. BaseGuest + (Elapsed(now) * Num) \div Den \in Int
    BY <1>2, ClockAssumption DEF ClockAssumption
  <2> QED BY <2>1, ModBounds DEF scaled_cntvct
<1> QED BY <1>1, <1>3, ModBounds DEF NextOffset

\* The guard is held by finitely many vCPUs, and by none when the count is zero.
LEMMA CountFacts ==
  ASSUME CountInv
  PROVE  /\ IsFiniteSet(Inside)
         /\ Cardinality(Inside) \in Nat
         /\ in_guest = 0 => Inside = {}
BY ClockAssumption, FS_Subset, FS_CardinalityType, FS_EmptySet
   DEF ClockAssumption, Inside, CountInv

\* notify_all moves waiting entries on, and nobody else.
LEMMA NotifyAllFacts ==
  ASSUME TypeOK
  PROVE  /\ NotifyAll(vpc) \in [VCPUS -> VcpuPc]
         /\ \A u \in VCPUS :
              \/ NotifyAll(vpc)[u] = vpc[u]
              \/ vpc[u] = "waiting" /\ NotifyAll(vpc)[u] = "woken"
<1>1. \A u \in VCPUS :
        NotifyAll(vpc)[u] = IF vpc[u] = "waiting" THEN "woken" ELSE vpc[u]
  BY DEF NotifyAll
<1>2. NotifyAll(vpc) \in [VCPUS -> VcpuPc]
  BY DEF TypeOK, NotifyAll, VcpuPc
<1> QED BY <1>1, <1>2

\* attach_clock has programmed every vCPU, and none has entered.
LEMMA InitIInv == Init => IInv
<1> SUFFICES ASSUME Init PROVE IInv
  OBVIOUS
<1>1. offset \in 0..(Wrap - 1)
  <2>1. BaseHost - BaseGuest \in Int
    BY ClockAssumption DEF ClockAssumption
  <2> QED BY <2>1, ModBounds DEF Init
<1>2. TypeOK
  <2>1. now \in BaseHost..MaxNow /\ last_read \in 0..(Wrap - 1)
    BY ClockAssumption DEF Init, ClockAssumption
  <2> QED BY <1>1, <2>1 DEF Init, TypeOK, VcpuPc, StepperPc, TeardownPc
<1>3. Inside = {}
  BY DEF Init, Inside
<1>4. CountInv
  BY <1>3, FS_EmptySet DEF Init, CountInv
<1> QED
  BY <1>2, <1>4 DEF Init, IInv, EpochInv, EntryInv

\* A step of a vCPU preserves IInv.
LEMMA VcpuStep ==
  ASSUME IInv, NEW v \in VCPUS, Vcpu(v)
  PROVE  IInv'
<1> USE DEF IInv, Go, clockVars, progVars
<1>0. IsFiniteSet(Inside) /\ Cardinality(Inside) \in Nat
  BY CountFacts
<1>1. CASE TestRunning(v) \/ EnterWait(v) \/ StartGuest(v) \/ ExitGuest(v)
            \/ ExitKicked(v) \/ Serviced(v) \/ StopRunning(v)
  <2> USE <1>1 DEF TestRunning, EnterWait, StartGuest, ExitGuest, ExitKicked, Serviced,
                   StopRunning
  <2>1. TypeOK'
    BY DEF TypeOK, VcpuPc
  <2>2. CountInv'
    <3>1. Inside' = Inside
      BY DEF Inside, TypeOK
    <3> QED BY <3>1 DEF CountInv
  <2>3. EpochInv'
    BY DEF EpochInv
  <2>4. EntryInv'
    BY DEF EntryInv, TypeOK
  <2> QED BY <2>1, <2>2, <2>3, <2>4
<1>2. CASE Enter(v) \/ EnterNotified(v) \/ EnterTimeout(v)
  <2> USE <1>2 DEF Enter, EnterNotified, EnterTimeout, EnterAnyway
  <2>1. TypeOK'
    BY DEF TypeOK, VcpuPc
  <2>2. CountInv'
    <3>1. Inside' = Inside \cup {v} /\ v \notin Inside
      BY DEF Inside, TypeOK
    <3> QED BY <1>0, <3>1, FS_AddElement DEF CountInv
  <2>3. EpochInv'
    BY DEF EpochInv
  <2>4. EntryInv'
    BY DEF EntryInv, TypeOK
  <2> QED BY <2>1, <2>2, <2>3, <2>4
<1>3. CASE ReadEpoch(v) \/ Program(v) \/ ProgramFails(v)
  <2> USE <1>3 DEF ReadEpoch, Program, ProgramFails
  <2>1. TypeOK'
    BY DEF TypeOK, VcpuPc
  <2>2. CountInv'
    <3>1. Inside' = Inside
      BY DEF Inside, TypeOK
    <3> QED BY <3>1 DEF CountInv
  <2>3. EpochInv'
    BY DEF EpochInv, EntryInv, TypeOK
  <2>4. EntryInv'
    BY DEF EntryInv, TypeOK
  <2> QED BY <2>1, <2>2, <2>3, <2>4
<1>4. CASE GuestRead(v)
  <2> USE <1>4 DEF GuestRead
  <2>1. last_read' \in 0..(Wrap - 1)
    <3>1. now - programmed[v] \in Int
      BY ClockAssumption DEF TypeOK, ClockAssumption
    <3> QED BY <3>1, ModBounds DEF Counter
  <2>2. TypeOK'
    BY <2>1 DEF TypeOK
  <2> QED BY <2>2 DEF CountInv, Inside, EpochInv, EntryInv
<1>5. CASE Leave(v)
  <2> USE <1>5 DEF Leave
  <2>0. /\ vpc' \in [VCPUS -> VcpuPc]
        /\ vpc'[v] = "exited"
        /\ \A u \in VCPUS \ {v} :
              vpc'[u] = vpc[u] \/ (vpc[u] = "waiting" /\ vpc'[u] = "woken")
    BY NotifyAllFacts DEF TypeOK, VcpuPc
  <2>1. Inside' = Inside \ {v} /\ v \in Inside
    BY <2>0 DEF Inside
  <2>2. in_guest # 0
    BY <1>0, <2>1, FS_EmptySet DEF CountInv
  <2>3. TypeOK'
    BY <2>0, <2>2 DEF TypeOK
  <2>4. CountInv'
    BY <1>0, <2>1, FS_RemoveElement DEF CountInv
  <2>5. EpochInv'
    BY DEF EpochInv
  <2>6. EntryInv'
    BY <2>0 DEF EntryInv
  <2> QED BY <2>3, <2>4, <2>5, <2>6
<1> QED
  BY <1>1, <1>2, <1>3, <1>4, <1>5 DEF Vcpu, Entering, Leaving

\* Waking the vCPUs that wait in enter(), with the offset left alone, disturbs
\* no vCPU that has entered.
LEMMA NotifyKeeps ==
  ASSUME IInv, vpc' = NotifyAll(vpc),
         UNCHANGED <<offset, epoch, in_guest, progVars>>
  PROVE  vpc' \in [VCPUS -> VcpuPc] /\ CountInv' /\ EpochInv' /\ EntryInv'
<1> USE DEF IInv, progVars
<1>1. /\ vpc' \in [VCPUS -> VcpuPc]
      /\ \A u \in VCPUS : vpc'[u] = vpc[u] \/ (vpc[u] = "waiting" /\ vpc'[u] = "woken")
  BY NotifyAllFacts
<1>2. Inside' = Inside
  BY <1>1 DEF Inside
<1> QED BY <1>1, <1>2 DEF CountInv, EpochInv, EntryInv

\* A step of a stepper preserves IInv. Publishing is where the count matters.
LEMMA StepperStep ==
  ASSUME IInv, NEW s \in STEPPERS, Stepper(s)
  PROVE  IInv'
<1> USE DEF IInv, Move, clockVars, progVars
<1>1. CASE StepperTest(s) \/ StepBusy(s) \/ StepClaim(s) \/ ForceExit(s)
  <2> USE <1>1 DEF StepperTest, StepBusy, StepClaim, ForceExit
  <2>1. TypeOK'
    BY DEF TypeOK, StepperPc
  <2> QED BY <2>1 DEF CountInv, Inside, EpochInv, EntryInv
<1>2. CASE GiveUp(s) \/ StepperRelease(s)
  <2> USE <1>2 DEF GiveUp, StepperRelease, EndStep
  <2>1. vpc' \in [VCPUS -> VcpuPc] /\ CountInv' /\ EpochInv' /\ EntryInv'
    BY NotifyKeeps
  <2>2. TypeOK'
    BY <2>1 DEF TypeOK, StepperPc
  <2> QED BY <2>1, <2>2
<1>3. CASE Publish(s)
  <2> USE <1>3 DEF Publish, EndStep
  <2>1. CASE ~(NextOffset < offset)
    <3>1. vpc' \in [VCPUS -> VcpuPc] /\ CountInv' /\ EpochInv' /\ EntryInv'
      BY <2>1, NotifyKeeps
    <3>2. TypeOK'
      BY <2>1, <3>1 DEF TypeOK, StepperPc
    <3> QED BY <3>1, <3>2
  <2>2. CASE NextOffset < offset
    <3>1. /\ vpc' \in [VCPUS -> VcpuPc]
          /\ \A u \in VCPUS : vpc'[u] = vpc[u] \/ (vpc[u] = "waiting" /\ vpc'[u] = "woken")
      BY NotifyAllFacts
    <3>2. Inside = {} /\ Inside' = {}
      BY <3>1, CountFacts DEF Inside
    <3>3. TypeOK'
      <4>1. offset' = NextOffset /\ epoch' = epoch + 1
        BY <2>2
      <4>2. offset' \in 0..(Wrap - 1) /\ epoch' \in Nat
        BY <4>1, OffsetType DEF TypeOK
      <4> QED BY <3>1, <4>2 DEF TypeOK, StepperPc
    <3>4. CountInv'
      BY <3>2 DEF CountInv
    <3>5. EpochInv'
      BY <2>2 DEF EpochInv, TypeOK
    <3>6. EntryInv'
      BY <3>2, <3>1 DEF EntryInv, Inside
    <3> QED BY <3>3, <3>4, <3>5, <3>6
  <2> QED BY <2>1, <2>2
<1> QED
  BY <1>1, <1>2, <1>3 DEF Stepper

\* Teardown and the passing of time preserve IInv.
LEMMA OtherStep ==
  ASSUME IInv, Tick \/ Teardown \/ Down \/ UNCHANGED vars
  PROVE  IInv'
<1> USE DEF IInv, Then, clockVars, progVars
<1>1. CASE Tick
  <2>1. TypeOK'
    BY <1>1, ClockAssumption DEF Tick, TypeOK, ClockAssumption
  <2> QED BY <1>1, <2>1 DEF Tick, CountInv, Inside, EpochInv, EntryInv
<1>2. CASE BeginTeardown \/ KickAll \/ JoinStepper \/ JoinVcpus
  <2> USE <1>2 DEF BeginTeardown, KickAll, JoinStepper, JoinVcpus
  <2>1. TypeOK'
    BY DEF TypeOK, TeardownPc
  <2> QED BY <2>1 DEF CountInv, Inside, EpochInv, EntryInv
<1>3. CASE ReleaseClock
  <2> USE <1>3 DEF ReleaseClock
  <2>1. vpc' \in [VCPUS -> VcpuPc] /\ CountInv' /\ EpochInv' /\ EntryInv'
    BY NotifyKeeps
  <2>2. TypeOK'
    BY <2>1 DEF TypeOK, TeardownPc
  <2> QED BY <2>1, <2>2
<1>4. CASE Down \/ UNCHANGED vars
  BY <1>4 DEF Down, vars, TypeOK, CountInv, Inside, EpochInv, EntryInv
<1> QED
  BY <1>1, <1>2, <1>3, <1>4 DEF Teardown

\* Every step keeps the invariant.
LEMMA NextIInv == IInv /\ [Next]_vars => IInv'
BY VcpuStep, StepperStep, OtherStep DEF Next

\* Every reachable state of the clock is well typed; in particular the guard's
\* count never goes below zero.
THEOREM ClockTypeCorrect == Spec => []TypeOK
<1>1. IInv => TypeOK
  BY DEF IInv
<1> QED
  BY <1>1, InitIInv, NextIInv, PTL DEF Spec

\* A vCPU executes guest code only under the offset every other one has
\* (sync_vtimer_offset inside the guard, step() only when the guard is free).
THEOREM ClockCoherent == Spec => []CoherentOffset
<1>1. IInv => CoherentOffset
  BY DEF IInv, EpochInv, EntryInv, CoherentOffset
<1> QED
  BY <1>1, InitIInv, NextIInv, PTL DEF Spec

-----------------------------------------------------------------------------
(* The counter and the curve.                                                *)

\* The curve before it is taken modulo Wrap.
Curve(t) == BaseGuest + (Elapsed(t) * Num) \div Den

\* The guest's rate is not below the host's (a scaled clock only speeds up), and
\* the guest's counter does not reach 2^64 while the host's is within the bound.
SpeedsUp == Num >= Den /\ \A t \in BaseHost..MaxNow : Curve(t) < Wrap

\* The counter is between the host's rate and the curve, and the guest has read
\* nothing later than the counter.
CurveInv ==
    /\ BaseGuest + Elapsed(now) <= Counter(offset)
    /\ Counter(offset) <= Curve(now)
    /\ (\E v \in VCPUS : failed[v]) \/ last_read <= Counter(offset)

\* Residues of the differences that counters and offsets have.
LEMMA ModSmall ==
  ASSUME NEW a \in Int
  PROVE  /\ 0 <= a /\ a < Wrap => a % Wrap = a
         /\ -Wrap <= a /\ a < 0 => a % Wrap = a + Wrap
<1>0. Wrap \in Int /\ Wrap > 0
  BY ClockAssumption DEF ClockAssumption
<1>1. ASSUME 0 <= a, a < Wrap PROVE a % Wrap = a
  BY <1>0, <1>1
<1>2. ASSUME -Wrap <= a, a < 0 PROVE a % Wrap = a + Wrap
  BY <1>0, <1>2
<1> QED BY <1>1, <1>2

\* Integer division, by what it satisfies.
LEMMA DivBounds ==
  ASSUME NEW a \in Nat
  PROVE  /\ a \div Den \in Nat
         /\ Den * (a \div Den) <= a
         /\ a < Den * (a \div Den + 1)
BY ClockAssumption DEF ClockAssumption

\* The curve starts at the anchor and gains at least one tick per host tick.
LEMMA CurveRises ==
  ASSUME SpeedsUp
  PROVE  /\ Curve(BaseHost) = BaseGuest
         /\ \A t \in BaseHost..MaxNow :
              Curve(t) \in 0..(Wrap - 1) /\ scaled_cntvct(t) = Curve(t)
         /\ \A t \in BaseHost..(MaxNow - 1) : Curve(t) + 1 <= Curve(t + 1)
<1> USE ClockAssumption DEF ClockAssumption
<1>1. ASSUME NEW t \in BaseHost..MaxNow
      PROVE  /\ Elapsed(t) = t - BaseHost /\ Elapsed(t) \in Nat
             /\ Elapsed(t) * Num \in Nat
             /\ Curve(t) \in 0..(Wrap - 1)
             /\ scaled_cntvct(t) = Curve(t)
  <2>1. Elapsed(t) = t - BaseHost /\ Elapsed(t) \in Nat
    BY DEF Elapsed
  <2>2. Elapsed(t) * Num \in Nat
    BY <2>1
  <2>3. Curve(t) \in 0..(Wrap - 1)
    <3>1. (Elapsed(t) * Num) \div Den \in Nat
      BY <2>2, DivBounds
    <3> HIDE DEF ClockAssumption
    <3>2. Curve(t) \in Nat
      <4>1. BaseGuest \in Nat
        BY DEF ClockAssumption
      <4> QED BY <3>1, <4>1 DEF Curve
    <3> QED BY <3>2 DEF SpeedsUp, ClockAssumption
  <2>4. scaled_cntvct(t) = Curve(t) % Wrap
    BY DEF scaled_cntvct, Curve
  <2> QED BY <2>1, <2>2, <2>3, <2>4, ModSmall
<1>2. Curve(BaseHost) = BaseGuest
  <2>1. Elapsed(BaseHost) * Num = 0
    BY <1>1
  <2>2. 0 \div Den = 0
    OBVIOUS
  <2> QED BY <2>1, <2>2 DEF Curve
<1>3. ASSUME NEW t \in BaseHost..(MaxNow - 1)
      PROVE  Curve(t) + 1 <= Curve(t + 1)
  <2> DEFINE a == Elapsed(t) * Num
             b == Elapsed(t + 1) * Num
  <2>1. t \in BaseHost..MaxNow /\ t + 1 \in BaseHost..MaxNow
    OBVIOUS
  <2>2. a \in Nat /\ b \in Nat /\ b = a + Num
    <3>1. Elapsed(t + 1) = Elapsed(t) + 1 /\ Elapsed(t) \in Nat
      BY <1>1, <2>1
    <3> QED BY <1>1, <2>1, <3>1
  <2> HIDE DEF a, b
  <2>3. a \div Den \in Nat /\ b \div Den \in Nat
    BY <2>2, DivBounds
  <2>4. Den * (a \div Den) <= a /\ b < Den * (b \div Den + 1)
    BY <2>2, DivBounds
  <2>5. a \div Den + 1 <= b \div Den
    <3>1. ASSUME NEW q \in Nat, NEW r \in Nat, Den * q <= a, b < Den * (r + 1)
          PROVE  q + 1 <= r
      <4>1. Den * (q + 1) = Den * q + Den
        OBVIOUS
      <4>2. Den * (q + 1) < Den * (r + 1)
        BY <2>2, <3>1, <4>1 DEF SpeedsUp
      <4> QED BY <4>2
    <3> QED BY <2>3, <2>4, <3>1
  <2> QED BY <2>3, <2>5 DEF a, b, Curve
<1> QED BY <1>1, <1>2, <1>3

\* Publishing puts the counter on the curve.
LEMMA OnTheCurve ==
  ASSUME SpeedsUp, TypeOK
  PROVE  (now - NextOffset) % Wrap = Curve(now)
<1>1. Curve(now) \in 0..(Wrap - 1) /\ scaled_cntvct(now) = Curve(now)
  BY CurveRises DEF TypeOK
<1>2. now \in Int /\ 0 <= now /\ now < Wrap /\ Wrap \in Int
  BY ClockAssumption DEF ClockAssumption, TypeOK
<1>3. NextOffset = IF now >= Curve(now) THEN now - Curve(now) ELSE now - Curve(now) + Wrap
  BY <1>1, <1>2, ModSmall DEF NextOffset
<1> QED BY <1>1, <1>2, <1>3, ModSmall

\* The counter, without the modulus.
LEMMA CounterValue ==
  ASSUME TypeOK
  PROVE  /\ now \in Int /\ 0 <= now /\ now < Wrap /\ Wrap \in Int
         /\ offset \in Int /\ 0 <= offset /\ offset < Wrap
         /\ Counter(offset) = IF now >= offset THEN now - offset ELSE now - offset + Wrap
<1>1. /\ now \in Int /\ 0 <= now /\ now < Wrap /\ Wrap \in Int
      /\ offset \in Int /\ 0 <= offset /\ offset < Wrap
  BY ClockAssumption DEF ClockAssumption, TypeOK
<1> QED BY <1>1, ModSmall DEF Counter

\* attach_clock leaves the counter at the anchor.
LEMMA InitCurve ==
  ASSUME SpeedsUp
  PROVE  Init => CurveInv
<1> SUFFICES ASSUME Init PROVE CurveInv
  OBVIOUS
<1>1. TypeOK /\ now = BaseHost /\ last_read = BaseGuest
  BY InitIInv DEF IInv, Init
<1>2. /\ BaseHost \in Int /\ BaseGuest \in Int /\ Wrap \in Int
      /\ 0 <= BaseHost /\ BaseHost < Wrap /\ 0 <= BaseGuest /\ BaseGuest < Wrap
  BY ClockAssumption DEF ClockAssumption
<1>3. offset = IF BaseHost >= BaseGuest THEN BaseHost - BaseGuest ELSE BaseHost - BaseGuest + Wrap
  BY <1>2, ModSmall DEF Init
<1>4. Counter(offset) = BaseGuest
  BY <1>1, <1>2, <1>3, CounterValue
<1>5. Curve(now) = BaseGuest
  BY <1>1, CurveRises
<1>6. Elapsed(now) = 0
  BY <1>1, <1>2 DEF Elapsed
<1> QED BY <1>1, <1>2, <1>4, <1>5, <1>6 DEF CurveInv

\* A step that moves neither the host's clock nor the offset, and reads nothing.
LEMMA CurveFrame ==
  ASSUME CurveInv, TypeOK, UNCHANGED <<now, offset, last_read>>,
         \A v \in VCPUS : failed[v] => failed'[v]
  PROVE  CurveInv'
BY DEF CurveInv, Counter, Elapsed

\* Every step keeps the counter at or below the curve and above what was read.
LEMMA NextCurve ==
  ASSUME SpeedsUp
  PROVE  IInv /\ CurveInv /\ [Next]_vars => CurveInv'
<1> SUFFICES ASSUME IInv, CurveInv, [Next]_vars PROVE CurveInv'
  OBVIOUS
<1>0. TypeOK /\ TypeOK'
  BY NextIInv DEF IInv
<1>1. CASE Tick
  <2>1. now' = now + 1 /\ now < MaxNow /\ UNCHANGED <<offset, last_read, failed>>
    BY <1>1 DEF Tick, clockVars, progVars
  <2>2. now \in BaseHost..MaxNow /\ now' \in BaseHost..MaxNow /\ now \in BaseHost..(MaxNow - 1)
    BY <1>0, <2>1, ClockAssumption DEF TypeOK, ClockAssumption
  <2>3. /\ Curve(now) \in 0..(Wrap - 1) /\ Curve(now') \in 0..(Wrap - 1)
        /\ Curve(now) + 1 <= Curve(now')
    BY <2>1, <2>2, CurveRises
  <2>4. /\ now \in Int /\ offset \in Int /\ Wrap \in Int
        /\ Counter(offset) = IF now >= offset THEN now - offset ELSE now - offset + Wrap
    BY <1>0, CounterValue
  <2>5. Counter(offset)' = IF now + 1 >= offset THEN now + 1 - offset ELSE now + 1 - offset + Wrap
    <3>1. /\ now + 1 \in Int /\ 0 <= now + 1 /\ now + 1 < Wrap
          /\ 0 <= offset /\ offset < Wrap
      BY <1>0, <2>2, <2>1, ClockAssumption DEF ClockAssumption, TypeOK
    <3>2. now' - offset' = now + 1 - offset
      BY <2>1, <2>4
    <3>3. Counter(offset)' = (now' - offset') % Wrap
      BY DEF Counter
    <3>4. Counter(offset)' = (now + 1 - offset) % Wrap
      BY <3>2, <3>3
    <3> QED BY <2>4, <3>1, <3>4, ModSmall
  <2>6. Counter(offset)' = Counter(offset) + 1
    BY <2>3, <2>4, <2>5 DEF CurveInv
  <2>7. Counter(offset) \in Int /\ last_read \in Int
    BY <1>0, <2>4 DEF TypeOK
  <2>8. Counter(offset)' <= Curve(now')
    BY <2>3, <2>6, <2>7 DEF CurveInv
  <2>9. (\E v \in VCPUS : failed'[v]) \/ last_read' <= Counter(offset)'
    BY <2>1, <2>6, <2>7 DEF CurveInv
  <2>10. BaseGuest + Elapsed(now') <= Counter(offset)'
    <3>1. Elapsed(now') = Elapsed(now) + 1 /\ Elapsed(now) \in Int /\ BaseGuest \in Int
      BY <2>1, <2>2, ClockAssumption DEF Elapsed, ClockAssumption
    <3> QED BY <2>6, <2>7, <3>1 DEF CurveInv
  <2>11. Elapsed(now)' = Elapsed(now')
    BY DEF Elapsed
  <2> QED BY <2>8, <2>9, <2>10, <2>11 DEF CurveInv
<1>2. ASSUME NEW v \in VCPUS, Vcpu(v)
      PROVE  CurveInv'
  <2>1. CASE GuestRead(v)
    <3>1. UNCHANGED <<now, offset, failed>> /\ last_read' = Counter(programmed[v]) /\ vpc[v] = "guest"
      BY <2>1 DEF GuestRead, clockVars, progVars
    <3>2. failed[v] \/ programmed[v] = offset
      BY <3>1 DEF IInv, EntryInv, EpochInv
    <3>3. Counter(offset)' = Counter(offset) /\ Counter(offset) \in Int
      BY <1>0, <3>1, CounterValue DEF Counter
    <3> QED BY <3>1, <3>2, <3>3 DEF CurveInv, Elapsed
  <2>2. CASE ~GuestRead(v)
    <3>1. UNCHANGED <<now, offset, last_read>>
      BY <1>2, <2>2 DEF Vcpu, Entering, Leaving, TestRunning, Enter, EnterWait, EnterNotified, EnterTimeout,
         EnterAnyway, ReadEpoch, Program, ProgramFails, StartGuest, ExitKicked, Leave, Serviced, ExitGuest,
         StopRunning, clockVars
    <3>2. \A u \in VCPUS : failed[u] => failed'[u]
      BY <1>0, <1>2, <2>2 DEF TypeOK, Vcpu, Entering, Leaving, TestRunning, Enter, EnterWait, EnterNotified,
         EnterTimeout, EnterAnyway, ReadEpoch, Program, ProgramFails, StartGuest, ExitKicked, Leave, Serviced,
         ExitGuest, StopRunning, progVars
    <3> QED BY <1>0, <3>1, <3>2, CurveFrame
  <2> QED BY <2>1, <2>2
<1>3. ASSUME NEW s \in STEPPERS, Stepper(s)
      PROVE  CurveInv'
  <2>1. CASE Publish(s) /\ NextOffset < offset
    <3>1. offset' = NextOffset /\ UNCHANGED <<now, last_read, failed>>
      BY <2>1 DEF Publish, EndStep, progVars
    <3>2. Counter(offset)' = Curve(now)
      BY <1>0, <3>1, OnTheCurve DEF Counter
    <3>3. Counter(offset) \in Int /\ last_read \in Int /\ Curve(now) \in Int /\ now \in BaseHost..MaxNow
      BY <1>0, CounterValue, CurveRises DEF TypeOK
    <3>4. BaseGuest + Elapsed(now) <= Curve(now) /\ Elapsed(now)' = Elapsed(now)
      <4>1. BaseGuest + Elapsed(now) \in Int
        BY <3>3, ClockAssumption DEF Elapsed, ClockAssumption
      <4> QED BY <3>1, <3>3, <4>1 DEF CurveInv, Elapsed
    <3>5. Curve(now)' = Curve(now)
      BY <3>1
    <3>6. last_read <= Counter(offset) => last_read <= Curve(now)
      BY <3>3 DEF CurveInv
    <3> QED BY <3>1, <3>2, <3>3, <3>4, <3>5, <3>6 DEF CurveInv
  <2>2. CASE ~(Publish(s) /\ NextOffset < offset)
    <3>1. UNCHANGED <<now, offset, last_read, failed>>
      BY <1>3, <2>2 DEF Stepper, StepperTest, StepBusy, StepClaim, ForceExit, Publish, GiveUp, EndStep,
         StepperRelease, clockVars, progVars
    <3> QED BY <1>0, <3>1, CurveFrame
  <2> QED BY <2>1, <2>2
<1>4. CASE Teardown \/ Down \/ UNCHANGED vars
  <2>1. UNCHANGED <<now, offset, last_read, failed>>
    BY <1>4 DEF Teardown, BeginTeardown, ReleaseClock, KickAll, JoinStepper, JoinVcpus, Down, vars, clockVars,
       progVars
  <2> QED BY <1>0, <2>1, CurveFrame
<1> QED BY <1>1, <1>2, <1>3, <1>4 DEF Next

\* On a clock that only speeds up, and before the counter reaches 2^64, no guest
\* ever reads an earlier CNTVCT_EL0 than one that was read before it on any
\* vCPU, unless the hypervisor refused an offset (VtimerClock::step, enter,
\* sync_vtimer_offset).
THEOREM GuestNeverRewinds == ASSUME SpeedsUp PROVE Spec => NeverRewinds
<1>1. IInv /\ CurveInv /\ [Next]_vars => (last_read' >= last_read \/ \E v \in VCPUS : failed[v])
  <2>1. SUFFICES ASSUME IInv, CurveInv, [Next]_vars PROVE last_read' >= last_read \/ \E v \in VCPUS : failed[v]
    OBVIOUS
  <2>2. last_read \in Int
    BY <2>1 DEF IInv, TypeOK
  <2>3. CASE \E v \in VCPUS : GuestRead(v)
    <3>1. PICK v \in VCPUS : vpc[v] = "guest" /\ last_read' = Counter(programmed[v])
      BY <2>3 DEF GuestRead
    <3>2. failed[v] \/ programmed[v] = offset
      BY <2>1, <3>1 DEF IInv, EntryInv, EpochInv
    <3>3. Counter(offset) \in Int
      BY <2>1, CounterValue DEF IInv
    <3> QED BY <2>1, <2>2, <3>1, <3>2, <3>3 DEF CurveInv
  <2>4. CASE ~\E v \in VCPUS : GuestRead(v)
    <3>1. UNCHANGED last_read
      BY <2>1, <2>4 DEF Next, Tick, Vcpu, Entering, Leaving, TestRunning, Enter, EnterWait, EnterNotified,
         EnterTimeout, EnterAnyway, ReadEpoch, Program, ProgramFails, StartGuest, ExitKicked, Leave, Serviced,
         ExitGuest, StopRunning, Stepper, StepperTest, StepBusy, StepClaim, ForceExit, Publish, GiveUp, EndStep,
         StepperRelease, Teardown, BeginTeardown, ReleaseClock, KickAll, JoinStepper, JoinVcpus, Down, vars
    <3> QED BY <2>2, <3>1
  <2> QED BY <2>3, <2>4
<1>2. Init => IInv /\ CurveInv
  BY InitIInv, InitCurve
<1>3. IInv /\ CurveInv /\ [Next]_vars => IInv' /\ CurveInv'
  BY NextIInv, NextCurve
<1> QED BY <1>1, <1>2, <1>3, PTL DEF Spec, NeverRewinds

\* On a clock that only speeds up, and before the counter reaches 2^64, the
\* guest's counter is at all times at or above the host's rate since the anchor
\* and at or below the scaled curve, whatever steps are abandoned or dropped and
\* wherever the curve crosses the host's clock (VtimerClock::step).
THEOREM CounterStaysInBand == ASSUME SpeedsUp PROVE Spec => []SlowButCorrect
<1>1. IInv /\ CurveInv => SlowButCorrect
  <2>1. IInv => scaled_cntvct(now) = Curve(now)
    BY CurveRises DEF IInv, TypeOK
  <2> QED BY <2>1 DEF CurveInv, SlowButCorrect
<1>2. Init => IInv /\ CurveInv
  BY InitIInv, InitCurve
<1>3. IInv /\ CurveInv /\ [Next]_vars => IInv' /\ CurveInv'
  BY NextIInv, NextCurve
<1> QED BY <1>1, <1>2, <1>3, PTL DEF Spec

=============================================================================
