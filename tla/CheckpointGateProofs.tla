------------------------ MODULE CheckpointGateProofs ------------------------
(***************************************************************************)
(* The gate's safety, for any set of vCPUs and of coordinators. IInv (see  *)
(* CheckpointGate) is inductive: a request is owned by one coordinator     *)
(* (RequestInv), so the only steps that lift the watermark while the world *)
(* is held are that coordinator's own; a capture that answers the request  *)
(* was deposited while the watermark was below it, so its vCPU waits.      *)
(***************************************************************************)
EXTENDS CheckpointGate, TLAPS

\* None (0) and u64::MAX are epochs.
LEMMA EpochBounds == 0 \in Epochs /\ MaxEpoch \in Epochs
  BY GateAssumption DEF GateAssumption, Epochs

\* The gate starts idle: nothing is claimed, captured or held.
LEMMA InitIInv == Init => IInv
<1> SUFFICES ASSUME Init PROVE IInv
  OBVIOUS
<1> USE GateAssumption DEF Init
<1>1. TypeOK
  BY EpochBounds DEF TypeOK, VcpuPc, CoordPc, TeardownPc
<1>2. RequestInv
  BY DEF RequestInv, InRequest
<1>3. CloseInv
  BY DEF CloseInv, Ended
<1>4. CaptureInv
  BY DEF CaptureInv
<1>5. OnTimeCapturesAreHeld /\ NoShortCheckpoint
  BY DEF OnTimeCapturesAreHeld, NoShortCheckpoint
<1> QED
  BY <1>1, <1>2, <1>3, <1>4, <1>5 DEF IInv

\* notify_all moves waiting vCPUs to "woken" and leaves the others alone.
LEMMA NotifyAllType ==
  ASSUME NEW pc \in [VCPUS -> VcpuPc]
  PROVE  NotifyAll(pc) \in [VCPUS -> VcpuPc]
  BY DEF NotifyAll, VcpuPc

\* A step of a vCPU thread preserves IInv: it never touches the watermark, the
\* epoch or a coordinator, and never leaves the barrier while held.
LEMMA VcpuStep ==
  ASSUME IInv, NEW v \in VCPUS, Vcpu(v)
  PROVE  IInv'
<1> USE GateAssumption DEF GateAssumption, Epochs, VcpuPc
<1>1. CASE TestRunning(v) \/ EnterGuest(v) \/ ExitKicked(v) \/ ExitGuest(v)
           \/ StopRunning(v)
  <2> USE <1>1 DEF TestRunning, EnterGuest, ExitKicked, ExitGuest, StopRunning,
          gateVars, coordVars, IInv
  <2>1. TypeOK'
    BY DEF TypeOK
  <2>2. RequestInv'
    BY DEF RequestInv, InRequest
  <2>3. CloseInv'
    BY DEF CloseInv, Ended, TypeOK
  <2>4. CaptureInv'
    BY DEF CaptureInv, HeldFor, TypeOK
  <2>5. OnTimeCapturesAreHeld' /\ NoShortCheckpoint'
    BY DEF OnTimeCapturesAreHeld, NoShortCheckpoint, HeldFor, TypeOK
  <2> QED
    BY <2>1, <2>2, <2>3, <2>4, <2>5
<1>2. CASE CheckEpoch(v)
  BY <1>2 DEF IInv, TypeOK, RequestInv, CloseInv, CaptureInv,
      OnTimeCapturesAreHeld, NoShortCheckpoint, InRequest, HeldFor, Ended,
      CheckEpoch, gateVars, coordVars
<1>3. CASE Arrive(v)
  BY <1>3 DEF IInv, TypeOK, RequestInv, CloseInv, CaptureInv,
      OnTimeCapturesAreHeld, NoShortCheckpoint, InRequest, HeldFor, Ended,
      Arrive, MustWait, NotifyAll, coordVars
<1>4. CASE Recheck(v)
  BY <1>4 DEF IInv, TypeOK, RequestInv, CloseInv, CaptureInv,
      OnTimeCapturesAreHeld, NoShortCheckpoint, InRequest, HeldFor, Ended,
      Recheck, MustWait, gateVars, coordVars
<1> QED
  BY <1>1, <1>2, <1>3, <1>4 DEF Vcpu

\* A step of a coordinator preserves IInv: a claim needs a free gate, and only
\* the owner of the request lifts the watermark.
LEMMA CoordinatorStep ==
  ASSUME IInv, NEW c \in COORDINATORS, Coordinator(c)
  PROVE  IInv'
<1> USE GateAssumption DEF GateAssumption, Epochs, IInv
<1>1. CASE Poll(c) \/ Skip(c) \/ Refused(c)
  <2> USE <1>1 DEF Poll, Skip, Refused, gateVars, vcpuVars
  <2>1. TypeOK'
    BY DEF TypeOK, RequestInv, CoordPc, TeardownPc
  <2>2. RequestInv'
    BY DEF RequestInv, CloseInv, InRequest, Ended, TypeOK
  <2>3. CloseInv'
    BY DEF CloseInv, RequestInv, InRequest, Ended, TypeOK
  <2>4. CaptureInv'
    BY DEF CaptureInv, RequestInv, CloseInv, InRequest, HeldFor, Ended, TypeOK
  <2>5. OnTimeCapturesAreHeld'
    BY DEF OnTimeCapturesAreHeld, CaptureInv, RequestInv, CloseInv, InRequest,
           HeldFor, Ended, TypeOK
  <2>6. NoShortCheckpoint'
    BY DEF NoShortCheckpoint, AllCaptured, TypeOK
  <2> QED
    BY <2>1, <2>2, <2>3, <2>4, <2>5, <2>6
<1>2. CASE Claim(c)
  <2> USE <1>2 DEF Claim, vcpuVars
  <2>1. TypeOK'
    BY DEF TypeOK, RequestInv, CoordPc, TeardownPc
  <2>2. RequestInv'
    BY DEF RequestInv, CloseInv, InRequest, Ended, TypeOK
  <2>3. CloseInv'
    BY DEF CloseInv, RequestInv, InRequest, Ended, TypeOK
  <2>4. CaptureInv'
    BY DEF CaptureInv, RequestInv, CloseInv, InRequest, HeldFor, Ended, TypeOK
  <2>5. OnTimeCapturesAreHeld'
    BY DEF OnTimeCapturesAreHeld, CaptureInv, RequestInv, CloseInv, InRequest,
           HeldFor, Ended, TypeOK
  <2>6. NoShortCheckpoint'
    BY DEF NoShortCheckpoint, AllCaptured, TypeOK
  <2> QED
    BY <2>1, <2>2, <2>3, <2>4, <2>5, <2>6
<1>3. CASE Advance(c)
  <2> USE <1>3 DEF Advance, vcpuVars
  <2>1. TypeOK'
    BY DEF TypeOK, RequestInv, CoordPc, TeardownPc
  <2>2. RequestInv'
    BY DEF RequestInv, CloseInv, InRequest, Ended, TypeOK
  <2>3. CloseInv'
    BY DEF CloseInv, RequestInv, InRequest, Ended, TypeOK
  <2>4. CaptureInv'
    BY DEF CaptureInv, RequestInv, CloseInv, InRequest, HeldFor, Ended, TypeOK
  <2>5. OnTimeCapturesAreHeld'
    BY DEF OnTimeCapturesAreHeld, CaptureInv, RequestInv, CloseInv, InRequest,
           HeldFor, Ended, TypeOK
  <2>6. NoShortCheckpoint'
    BY DEF NoShortCheckpoint, AllCaptured, TypeOK
  <2> QED
    BY <2>1, <2>2, <2>3, <2>4, <2>5, <2>6
<1>4. CASE Kick(c)
  <2> USE <1>4 DEF Kick, gateVars
  <2>1. TypeOK'
    BY DEF TypeOK, RequestInv, CoordPc, TeardownPc
  <2>2. RequestInv'
    BY DEF RequestInv, CloseInv, InRequest, Ended, TypeOK
  <2>3. CloseInv'
    BY DEF CloseInv, RequestInv, InRequest, Ended, TypeOK
  <2>4. CaptureInv'
    BY DEF CaptureInv, RequestInv, CloseInv, InRequest, HeldFor, Ended, TypeOK
  <2>5. OnTimeCapturesAreHeld'
    BY DEF OnTimeCapturesAreHeld, CaptureInv, RequestInv, CloseInv, InRequest,
           HeldFor, Ended, TypeOK
  <2>6. NoShortCheckpoint'
    BY DEF NoShortCheckpoint, AllCaptured, TypeOK
  <2> QED
    BY <2>1, <2>2, <2>3, <2>4, <2>5, <2>6
<1>5. CASE Stopped(c)
  <2> USE <1>5 DEF Stopped, vcpuVars
  <2>1. TypeOK'
    BY DEF TypeOK, RequestInv, CoordPc, TeardownPc
  <2>2. RequestInv'
    BY DEF RequestInv, CloseInv, InRequest, Ended, TypeOK
  <2>3. CloseInv'
    BY DEF CloseInv, RequestInv, InRequest, Ended, TypeOK
  <2>4. CaptureInv'
    BY DEF CaptureInv, RequestInv, CloseInv, InRequest, HeldFor, Ended, TypeOK
  <2>5. OnTimeCapturesAreHeld'
    BY DEF OnTimeCapturesAreHeld, CaptureInv, RequestInv, CloseInv, InRequest,
           HeldFor, Ended, TypeOK
  <2>6. NoShortCheckpoint'
    BY DEF NoShortCheckpoint, AllCaptured, TypeOK
  <2> QED
    BY <2>1, <2>2, <2>3, <2>4, <2>5, <2>6
<1>6. CASE Abandon(c)
  <2> USE <1>6 DEF Abandon, AbandonTo
  <2>1. TypeOK'
    BY NotifyAllType, EpochBounds DEF TypeOK, RequestInv, CoordPc, TeardownPc
  <2>2. RequestInv'
    BY DEF RequestInv, CloseInv, InRequest, Ended, TypeOK
  <2>3. CloseInv'
    BY DEF CloseInv, RequestInv, InRequest, Ended, TypeOK
  <2>4. CaptureInv'
    BY DEF CaptureInv, RequestInv, CloseInv, InRequest, HeldFor, Ended, TypeOK,
           NotifyAll
  <2>5. OnTimeCapturesAreHeld'
    BY DEF OnTimeCapturesAreHeld, CaptureInv, RequestInv, CloseInv, InRequest,
           HeldFor, Ended, TypeOK, NotifyAll
  <2>6. NoShortCheckpoint'
    BY DEF NoShortCheckpoint, AllCaptured, TypeOK
  <2> QED
    BY <2>1, <2>2, <2>3, <2>4, <2>5, <2>6
<1>7. CASE Release(c)
  <2> USE <1>7 DEF Release
  <2>1. TypeOK'
    BY NotifyAllType, EpochBounds DEF TypeOK, RequestInv, CoordPc, TeardownPc
  <2>2. RequestInv'
    BY DEF RequestInv, CloseInv, InRequest, Ended, TypeOK
  <2>3. CloseInv'
    BY DEF CloseInv, RequestInv, InRequest, Ended, TypeOK
  <2>4. CaptureInv'
    BY DEF CaptureInv, RequestInv, CloseInv, InRequest, HeldFor, Ended, TypeOK,
           NotifyAll
  <2>5. OnTimeCapturesAreHeld'
    BY DEF OnTimeCapturesAreHeld, CaptureInv, RequestInv, CloseInv, InRequest,
           HeldFor, Ended, TypeOK, NotifyAll
  <2>6. NoShortCheckpoint'
    BY DEF NoShortCheckpoint, AllCaptured, TypeOK
  <2> QED
    BY <2>1, <2>2, <2>3, <2>4, <2>5, <2>6
<1>8. CASE CoordCloseFlag(c)
  <2> USE <1>8 DEF CoordCloseFlag, vcpuVars
  <2>1. TypeOK'
    BY DEF TypeOK, RequestInv, CoordPc, TeardownPc
  <2>2. RequestInv'
    BY DEF RequestInv, CloseInv, InRequest, Ended, TypeOK
  <2>3. CloseInv'
    BY DEF CloseInv, RequestInv, InRequest, Ended, TypeOK
  <2>4. CaptureInv'
    BY DEF CaptureInv, RequestInv, CloseInv, InRequest, HeldFor, Ended, TypeOK
  <2>5. OnTimeCapturesAreHeld'
    BY DEF OnTimeCapturesAreHeld, CaptureInv, RequestInv, CloseInv, InRequest,
           HeldFor, Ended, TypeOK
  <2>6. NoShortCheckpoint'
    BY DEF NoShortCheckpoint, AllCaptured, TypeOK
  <2> QED
    BY <2>1, <2>2, <2>3, <2>4, <2>5, <2>6
<1>9. CASE CoordCloseRelease(c)
  <2> USE <1>9 DEF CoordCloseRelease
  <2>1. TypeOK'
    BY NotifyAllType, EpochBounds DEF TypeOK, RequestInv, CoordPc, TeardownPc
  <2>2. RequestInv'
    BY DEF RequestInv, CloseInv, InRequest, Ended, TypeOK
  <2>3. CloseInv'
    BY DEF CloseInv, RequestInv, InRequest, Ended, TypeOK
  <2>4. CaptureInv'
    BY DEF CaptureInv, RequestInv, CloseInv, InRequest, HeldFor, Ended, TypeOK,
           NotifyAll
  <2>5. OnTimeCapturesAreHeld'
    BY DEF OnTimeCapturesAreHeld, CaptureInv, RequestInv, CloseInv, InRequest,
           HeldFor, Ended, TypeOK, NotifyAll
  <2>6. NoShortCheckpoint'
    BY DEF NoShortCheckpoint, AllCaptured, TypeOK
  <2> QED
    BY <2>1, <2>2, <2>3, <2>4, <2>5, <2>6
<1> QED
  BY <1>1, <1>2, <1>3, <1>4, <1>5, <1>6, <1>7, <1>8, <1>9 DEF Coordinator

\* A step of the orchestrator preserves IInv: it closes the gate only after the
\* coordinators have joined.
LEMMA TeardownStep ==
  ASSUME IInv, Teardown
  PROVE  IInv'
<1> USE GateAssumption DEF GateAssumption, Epochs, IInv
<1>1. CASE BeginTeardown \/ KickAll \/ JoinCoordinators \/ JoinVcpus
  <2> USE <1>1 DEF BeginTeardown, KickAll, JoinCoordinators, JoinVcpus, gateVars, vcpuVars, coordVars
  <2>1. TypeOK'
    BY DEF TypeOK, RequestInv, CoordPc, TeardownPc
  <2>2. RequestInv'
    BY DEF RequestInv, CloseInv, InRequest, Ended, TypeOK
  <2>3. CloseInv'
    BY DEF CloseInv, RequestInv, InRequest, Ended, TypeOK
  <2>4. CaptureInv'
    BY DEF CaptureInv, RequestInv, CloseInv, InRequest, HeldFor, Ended, TypeOK
  <2>5. OnTimeCapturesAreHeld'
    BY DEF OnTimeCapturesAreHeld, CaptureInv, RequestInv, CloseInv, InRequest,
           HeldFor, Ended, TypeOK
  <2>6. NoShortCheckpoint'
    BY DEF NoShortCheckpoint, AllCaptured, TypeOK
  <2> QED
    BY <2>1, <2>2, <2>3, <2>4, <2>5, <2>6
<1>2. CASE CloseFlag
  <2> USE <1>2 DEF CloseFlag, vcpuVars, coordVars
  <2>1. TypeOK'
    BY DEF TypeOK, RequestInv, CoordPc, TeardownPc
  <2>2. RequestInv'
    BY DEF RequestInv, CloseInv, InRequest, Ended, TypeOK
  <2>3. CloseInv'
    BY DEF CloseInv, RequestInv, InRequest, Ended, TypeOK
  <2>4. CaptureInv'
    BY DEF CaptureInv, RequestInv, CloseInv, InRequest, HeldFor, Ended, TypeOK
  <2>5. OnTimeCapturesAreHeld'
    BY DEF OnTimeCapturesAreHeld, CaptureInv, RequestInv, CloseInv, InRequest,
           HeldFor, Ended, TypeOK
  <2>6. NoShortCheckpoint'
    BY DEF NoShortCheckpoint, AllCaptured, TypeOK
  <2> QED
    BY <2>1, <2>2, <2>3, <2>4, <2>5, <2>6
<1>3. CASE CloseRelease
  <2> USE <1>3 DEF CloseRelease, coordVars
  <2>1. TypeOK'
    BY NotifyAllType, EpochBounds DEF TypeOK, RequestInv, CoordPc, TeardownPc
  <2>2. RequestInv'
    BY DEF RequestInv, CloseInv, InRequest, Ended, TypeOK
  <2>3. CloseInv'
    BY DEF CloseInv, RequestInv, InRequest, Ended, TypeOK
  <2>4. CaptureInv'
    BY DEF CaptureInv, RequestInv, CloseInv, InRequest, HeldFor, Ended, TypeOK,
           NotifyAll
  <2>5. OnTimeCapturesAreHeld'
    BY DEF OnTimeCapturesAreHeld, CaptureInv, RequestInv, CloseInv, InRequest,
           HeldFor, Ended, TypeOK, NotifyAll
  <2>6. NoShortCheckpoint'
    BY DEF NoShortCheckpoint, AllCaptured, TypeOK
  <2> QED
    BY <2>1, <2>2, <2>3, <2>4, <2>5, <2>6
<1> QED
  BY <1>1, <1>2, <1>3 DEF Teardown

\* Every step of the gate preserves the inductive invariant.
LEMMA NextIInv == IInv /\ [Next]_vars => IInv'
<1> SUFFICES ASSUME IInv, [Next]_vars PROVE IInv'
  OBVIOUS
<1>1. CASE UNCHANGED vars
  BY <1>1 DEF vars, gateVars, vcpuVars, coordVars, IInv, TypeOK, RequestInv,
     CloseInv, CaptureInv, OnTimeCapturesAreHeld, NoShortCheckpoint, InRequest,
     HeldFor
<1>2. CASE OtherKick
  BY <1>2 DEF OtherKick, gateVars, coordVars, IInv, TypeOK, RequestInv, CloseInv,
     CaptureInv, OnTimeCapturesAreHeld, NoShortCheckpoint, InRequest, HeldFor
<1> QED
  BY <1>1, <1>2, VcpuStep, CoordinatorStep, TeardownStep DEF Next, Down

\* Type correctness of the gate and the threads that use it.
THEOREM GateTypeCorrect == Spec => []TypeOK
<1>1. IInv => TypeOK
  BY DEF IInv
<1> QED
  BY <1>1, InitIInv, NextIInv, PTL DEF Spec

\* At most one coordinator is inside a request, and the epoch is its own: two
\* coordinators cannot both believe they stopped the world.
THEOREM GateOneCoordinator == Spec => []OneCoordinator
<1>1. IInv => OneCoordinator
  BY DEF IInv, RequestInv, OneCoordinator
<1> QED
  BY <1>1, InitIInv, NextIInv, PTL DEF Spec

\* A vCPU whose capture answers the request is held for as long as the
\* coordinator holds the world.
THEOREM GateHoldsOnTimeVcpus == Spec => []OnTimeCapturesAreHeld
<1>1. IInv => OnTimeCapturesAreHeld
  BY DEF IInv
<1> QED
  BY <1>1, InitIInv, NextIInv, PTL DEF Spec

\* stop_the_world never succeeds short of a vCPU.
THEOREM GateNoShortCheckpoint == Spec => []NoShortCheckpoint
<1>1. IInv => NoShortCheckpoint
  BY DEF IInv
<1> QED
  BY <1>1, InitIInv, NextIInv, PTL DEF Spec

=============================================================================
