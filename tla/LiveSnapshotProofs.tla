------------------------- MODULE LiveSnapshotProofs -------------------------
(***************************************************************************)
(* The engine uses the gate and the latch within their contracts: every    *)
(* step of the composition is a step of each component or leaves it alone, *)
(* so the components' theorems carry over, and together with the order in  *)
(* which the snapshotter takes their steps they give DumpHasNoWriter for   *)
(* any number of vCPUs, writers and requests.                              *)
(***************************************************************************)
EXTENDS LiveSnapshot, TLAPS

GateP == INSTANCE CheckpointGateProofs
         WITH COORDINATORS <- {Snap}, closed <- gate_closed
LatchP == INSTANCE QuiesceProofs WITH JoinFirst <- TRUE, closed <- latch_closed

-----------------------------------------------------------------------------
(* The components' inductive invariants, carried over.                       *)

\* The gate's invariant is the one that is proved inductive.
LEMMA GateInvSame == Gate!IInv <=> GateP!IInv
BY DEF Gate!IInv, GateP!IInv, Gate!TypeOK, GateP!TypeOK, Gate!RequestInv,
   GateP!RequestInv, Gate!CloseInv, GateP!CloseInv, Gate!CaptureInv,
   GateP!CaptureInv, Gate!OnTimeCapturesAreHeld, GateP!OnTimeCapturesAreHeld,
   Gate!NoShortCheckpoint, GateP!NoShortCheckpoint, Gate!HeldFor, GateP!HeldFor,
   Gate!InRequest, GateP!InRequest, Gate!Ended, GateP!Ended, Gate!Epochs,
   GateP!Epochs, Gate!VcpuPc, GateP!VcpuPc, Gate!CoordPc, GateP!CoordPc,
   Gate!TeardownPc, GateP!TeardownPc

\* Both instances stutter together.
LEMMA GateVarsSame == (UNCHANGED Gate!vars) <=> (UNCHANGED GateP!vars)
BY DEF Gate!vars, GateP!vars, Gate!gateVars, GateP!gateVars, Gate!vcpuVars,
   GateP!vcpuVars, Gate!coordVars, GateP!coordVars

\* Both count alike.
LEMMA GateCountSame == ASSUME NEW S PROVE Gate!Cardinality(S) = GateP!Cardinality(S)
BY DEF Gate!Cardinality, GateP!Cardinality

\* A vCPU's step is the same in both.
LEMMA GateVcpuSame == ASSUME NEW v \in VCPUS PROVE Gate!Vcpu(v) <=> GateP!Vcpu(v)
BY GateCountSame DEF Gate!Vcpu, GateP!Vcpu, Gate!TestRunning, GateP!TestRunning,
   Gate!EnterGuest, GateP!EnterGuest, Gate!ExitKicked, GateP!ExitKicked,
   Gate!ExitGuest, GateP!ExitGuest, Gate!StopRunning, GateP!StopRunning,
   Gate!CheckEpoch, GateP!CheckEpoch, Gate!Arrive, GateP!Arrive, Gate!Recheck,
   GateP!Recheck, Gate!MustWait, GateP!MustWait, Gate!NotifyAll, GateP!NotifyAll,
   Gate!gateVars, GateP!gateVars, Gate!coordVars, GateP!coordVars

\* So is a requester's.
LEMMA GateCoordinatorSame ==
    ASSUME NEW c \in {Snap} PROVE Gate!Coordinator(c) <=> GateP!Coordinator(c)
BY GateCountSame DEF Gate!Coordinator, GateP!Coordinator, Gate!Poll, GateP!Poll, Gate!Skip,
   GateP!Skip, Gate!Refused, GateP!Refused, Gate!Claim, GateP!Claim,
   Gate!Advance, GateP!Advance, Gate!Kick, GateP!Kick, Gate!Stopped,
   GateP!Stopped, Gate!Abandon, GateP!Abandon, Gate!AbandonTo,
   GateP!AbandonTo, Gate!AllCaptured, GateP!AllCaptured, Gate!Release,
   GateP!Release, Gate!CoordCloseFlag, GateP!CoordCloseFlag,
   Gate!CoordCloseRelease, GateP!CoordCloseRelease, Gate!NotifyAll,
   GateP!NotifyAll, Gate!Ended, GateP!Ended, Gate!gateVars, GateP!gateVars,
   Gate!vcpuVars, GateP!vcpuVars, Gate!coordVars, GateP!coordVars

\* So is the teardown's.
LEMMA GateTeardownSame == Gate!Teardown <=> GateP!Teardown
BY DEF Gate!Teardown, GateP!Teardown, Gate!BeginTeardown, GateP!BeginTeardown,
   Gate!KickAll, GateP!KickAll, Gate!JoinCoordinators,
   GateP!JoinCoordinators, Gate!CloseFlag, GateP!CloseFlag,
   Gate!CloseRelease, GateP!CloseRelease, Gate!JoinVcpus, GateP!JoinVcpus,
   Gate!NotifyAll, GateP!NotifyAll, Gate!gateVars, GateP!gateVars,
   Gate!vcpuVars, GateP!vcpuVars, Gate!coordVars, GateP!coordVars

\* So are forced exits that are not the gate's.
LEMMA GateOtherSame ==
    (Gate!OtherKick <=> GateP!OtherKick) /\ (Gate!Down <=> GateP!Down)
BY GateVarsSame DEF Gate!OtherKick, GateP!OtherKick, Gate!Down, GateP!Down, Gate!gateVars,
   GateP!gateVars, Gate!vcpuVars, GateP!vcpuVars, Gate!coordVars,
   GateP!coordVars

\* A step of the gate keeps the gate's invariant.
LEMMA GateKeepsInv == Gate!IInv /\ [Gate!Next]_(Gate!vars) => Gate!IInv'
<1>1. [Gate!Next]_(Gate!vars) => [GateP!Next]_(GateP!vars)
  <2>1. Gate!Next => GateP!Next
    BY GateVcpuSame, GateCoordinatorSame, GateTeardownSame, GateOtherSame
       DEF Gate!Next, GateP!Next
  <2> QED BY <2>1, GateVarsSame
<1>2. GateP!IInv /\ [GateP!Next]_(GateP!vars) => GateP!IInv'
  BY GateP!NextIInv, EngineAssumption
     DEF GateP!NextIInv, EngineAssumption, GateP!IsFiniteSet, IsFiniteSet
<1>3. Gate!IInv' <=> GateP!IInv'
  BY GateInvSame, PTL
<1> QED BY <1>1, <1>2, <1>3, GateInvSame

\* The latch's instances count alike.
LEMMA LatchCountSame == ASSUME NEW S PROVE Latch!Cardinality(S) = LatchP!Cardinality(S)
BY DEF Latch!Cardinality, LatchP!Cardinality

\* The latch's invariant is the one that is proved inductive.
LEMMA LatchInvSame == Latch!IInv <=> LatchP!IInv
BY LatchCountSame DEF Latch!IInv, LatchP!IInv, Latch!TypeOK, LatchP!TypeOK, Latch!LockInv,
   LatchP!LockInv, Latch!CountInv, LatchP!CountInv, Latch!FlagInv,
   LatchP!FlagInv, Latch!CommitInv, LatchP!CommitInv, Latch!HeldMeansParked,
   LatchP!HeldMeansParked, Latch!NoLostWakeup, LatchP!NoLostWakeup,
   Latch!PauserCommitInv, LatchP!PauserCommitInv, Latch!PauserNotForgotten,
   LatchP!PauserNotForgotten,
   Latch!Counted, LatchP!Counted, Latch!Critical, LatchP!Critical,
   Latch!WriterPc, LatchP!WriterPc, Latch!PauserPc, LatchP!PauserPc,
   Latch!HostPc, LatchP!HostPc

\* Both instances stutter together.
LEMMA LatchVarsSame == (UNCHANGED Latch!vars) <=> (UNCHANGED LatchP!vars)
BY DEF Latch!vars, LatchP!vars, Latch!latchVars, LatchP!latchVars

\* A writer's step is the same in both.
LEMMA LatchWriterSame ==
    ASSUME NEW w \in WRITERS PROVE Latch!Writer(w) <=> LatchP!Writer(w)
BY DEF Latch!Writer, LatchP!Writer, Latch!Go, LatchP!Go, Latch!TestRunning,
   LatchP!TestRunning, Latch!CheckPaused, LatchP!CheckPaused,
   Latch!TakeLock, LatchP!TakeLock, Latch!CountParked, LatchP!CountParked,
   Latch!Commit, LatchP!Commit, Latch!Wait, LatchP!Wait, Latch!Rewake,
   LatchP!Rewake, Latch!Leave, LatchP!Leave, Latch!EndPass, LatchP!EndPass,
   Latch!WakeUp, LatchP!WakeUp, Latch!NotifyWriters, LatchP!NotifyWriters,
   Latch!NotifyPauser, LatchP!NotifyPauser, Latch!latchVars,
   LatchP!latchVars

\* So is the snapshotter's.
LEMMA LatchPauserSame == Latch!Pauser <=> LatchP!Pauser
BY LatchCountSame DEF Latch!Pauser, LatchP!Pauser, Latch!Move, LatchP!Move, Latch!Poll,
   LatchP!Poll, Latch!Pause, LatchP!Pause, Latch!PauseRefused,
   LatchP!PauseRefused,
   Latch!PauseStore, LatchP!PauseStore, Latch!PauseWake, LatchP!PauseWake,
   Latch!PauseLock, LatchP!PauseLock, Latch!PauseHeld, LatchP!PauseHeld,
   Latch!PauseClosed, LatchP!PauseClosed, Latch!PauseExpire,
   LatchP!PauseExpire, Latch!PauseCommit, LatchP!PauseCommit, Latch!PauseWait, LatchP!PauseWait,
   Latch!PauseTimeout, LatchP!PauseTimeout, Latch!DumpOver, LatchP!DumpOver,
   Latch!Resume, LatchP!Resume, Latch!ResumeStore, LatchP!ResumeStore,
   Latch!ResumeDrain, LatchP!ResumeDrain, Latch!ResumeNotify,
   LatchP!ResumeNotify, Latch!NotifyWriters, LatchP!NotifyWriters,
   Latch!latchVars, LatchP!latchVars

\* So is the teardown's.
LEMMA LatchHostSame ==
    /\ Latch!Closer <=> LatchP!Closer
    /\ Latch!StopRunning <=> LatchP!StopRunning
    /\ Latch!JoinSnapshotter <=> LatchP!JoinSnapshotter
    /\ Latch!JoinWriters <=> LatchP!JoinWriters
    /\ Latch!Down <=> LatchP!Down
BY DEF Latch!Closer, LatchP!Closer, Latch!Move, LatchP!Move, Latch!CloseFlag,
   LatchP!CloseFlag, Latch!CloseUnpause, LatchP!CloseUnpause,
   Latch!CloseDrain, LatchP!CloseDrain, Latch!CloseNotify,
   LatchP!CloseNotify, Latch!NotifyWriters, LatchP!NotifyWriters,
   Latch!NotifyPauser, LatchP!NotifyPauser,
   Latch!StopRunning, LatchP!StopRunning, Latch!JoinSnapshotter,
   LatchP!JoinSnapshotter, Latch!JoinWriters, LatchP!JoinWriters,
   Latch!Down, LatchP!Down, Latch!vars, LatchP!vars, Latch!latchVars,
   LatchP!latchVars

\* A step of the latch keeps the latch's invariant.
LEMMA LatchKeepsInv == Latch!IInv /\ [Latch!Next]_(Latch!vars) => Latch!IInv'
<1>1. [Latch!Next]_(Latch!vars) => [LatchP!Next]_(LatchP!vars)
  <2>1. Latch!Next => LatchP!Next
    BY LatchWriterSame, LatchPauserSame, LatchHostSame DEF Latch!Next, LatchP!Next
  <2> QED BY <2>1, LatchVarsSame
<1>2. LatchP!IInv /\ [LatchP!Next]_(LatchP!vars) => LatchP!IInv'
  BY LatchP!NextIInv, EngineAssumption
     DEF LatchP!NextIInv, EngineAssumption, LatchP!IsFiniteSet, IsFiniteSet
<1>3. Latch!IInv' <=> LatchP!IInv'
  BY LatchInvSame, PTL
<1> QED BY <1>1, <1>2, <1>3, LatchInvSame

-----------------------------------------------------------------------------
(* Every step of the composition is a step, or a stutter, of each component. *)

\* A vCPU's step is the gate's; the latch sees the run flag at most.
LEMMA VcpuRefines ==
    ASSUME NEW v \in VCPUS, Vcpu(v), running \in BOOLEAN
    PROVE  Gate!Next /\ [Latch!Next]_(Latch!vars)
<1>1. Gate!Next
  BY DEF Vcpu, Gate!Next
<1>2. UNCHANGED latchOnly /\ (running' = running \/ running' = FALSE)
  BY DEF Vcpu, Gate!Vcpu, Gate!TestRunning, Gate!EnterGuest, Gate!ExitKicked,
     Gate!ExitGuest, Gate!StopRunning, Gate!CheckEpoch, Gate!Arrive,
     Gate!Recheck, Gate!gateVars, Gate!coordVars
<1>3. CASE UNCHANGED running
  BY <1>1, <1>2, <1>3 DEF latchOnly, Latch!vars, Latch!latchVars
<1>4. CASE running /\ running' = FALSE
  <2>1. Latch!StopRunning
    BY <1>2, <1>4 DEF latchOnly, Latch!StopRunning, Latch!latchVars
  <2> QED BY <1>1, <2>1 DEF Latch!Next
<1>5. UNCHANGED running \/ (running /\ running' = FALSE)
  BY <1>2
<1> QED BY <1>1, <1>3, <1>4, <1>5

\* A writer's step is the latch's.
LEMMA WriterRefines ==
    ASSUME NEW w \in WRITERS, Writer(w)
    PROVE  [Gate!Next]_(Gate!vars) /\ Latch!Next
<1>1. Latch!Writer(w)
  BY DEF Writer, Deliver, Latch!Writer
<1>2. Gate!OtherKick \/ UNCHANGED gateOnly
  BY DEF Writer, Deliver
<1>3. UNCHANGED running
  BY <1>1 DEF Latch!Writer, Latch!Go, Latch!TestRunning, Latch!CheckPaused,
     Latch!TakeLock, Latch!CountParked, Latch!Commit, Latch!Wait,
     Latch!Rewake, Latch!Leave, Latch!EndPass, Latch!WakeUp,
     Latch!latchVars
<1> QED BY <1>1, <1>2, <1>3 DEF Latch!Next, Gate!Next, gateOnly,
     Gate!gateVars, Gate!vcpuVars, Gate!coordVars, Gate!vars

\* The snapshotter's step is a step of the gate, of the latch, or of both.
LEMMA SnapshotterRefines ==
    ASSUME Snapshotter
    PROVE  [Gate!Next]_(Gate!vars) /\ [Latch!Next]_(Latch!vars)
<1> USE DEF Gate!Next, Latch!Next, gateOnly, latchOnly,
     Gate!gateVars, Gate!vcpuVars, Gate!coordVars, Gate!vars,
     Latch!vars, Latch!latchVars
<1>1. CASE SnapPoll
  BY <1>1 DEF SnapPoll, Gate!Coordinator, Latch!Pauser
<1>2. CASE SnapPause \/ SnapResume
  <2>1. Latch!Pauser
    BY <1>2 DEF SnapPause, SnapResume, Latch!Pauser
  <2> QED BY <1>2, <2>1 DEF SnapPause, SnapResume
<1>3. CASE SnapSkip \/ SnapGate \/ SnapCloseGate
  <2>1. Gate!Coordinator(Snap)
    BY <1>3 DEF SnapSkip, SnapGate, GateAttempt, SnapCloseGate, Gate!Coordinator
  <2> QED BY <1>3, <2>1 DEF SnapSkip, SnapGate, GateAttempt, SnapCloseGate
<1>4. CASE SnapCloseLatch
  BY <1>4 DEF SnapCloseLatch, CloseLatch
<1> QED BY <1>1, <1>2, <1>3, <1>4 DEF Snapshotter

\* So is the teardown's.
LEMMA HostRefines ==
    ASSUME Host, running \in BOOLEAN
    PROVE  [Gate!Next]_(Gate!vars) /\ [Latch!Next]_(Latch!vars)
<1> USE DEF Gate!Next, Latch!Next, gateOnly, latchOnly,
     Gate!gateVars, Gate!vcpuVars, Gate!coordVars, Gate!vars,
     Latch!vars, Latch!latchVars
<1>1. CASE HostStop
  <2>1. Gate!Teardown
    BY <1>1 DEF HostStop, Gate!Teardown
  <2>2. UNCHANGED latchOnly /\ (running' = running \/ running' = FALSE)
    BY <1>1 DEF HostStop, Gate!BeginTeardown, Gate!KickAll
  <2> QED BY <2>1, <2>2 DEF Latch!StopRunning
<1>2. CASE HostJoinSnapshotter
  BY <1>2 DEF HostJoinSnapshotter, Gate!Teardown
<1>3. CASE HostCloseGate \/ HostJoinVcpus
  <2>1. Gate!Teardown
    BY <1>3 DEF HostCloseGate, HostJoinVcpus, Gate!Teardown
  <2>2. UNCHANGED <<latchOnly, running>>
    BY <1>3 DEF HostCloseGate, HostJoinVcpus, Gate!CloseFlag, Gate!CloseRelease,
       Gate!JoinVcpus
  <2> QED BY <2>1, <2>2
<1>4. CASE HostCloseLatch
  BY <1>4 DEF HostCloseLatch, CloseLatch
<1>5. CASE HostJoinWriters
  BY <1>5 DEF HostJoinWriters, Latch!JoinWriters
<1> QED BY <1>1, <1>2, <1>3, <1>4, <1>5 DEF Host

\* Every step is a step or a stutter of each component.
LEMMA StepRefines ==
    ASSUME [Next]_vars, running \in BOOLEAN
    PROVE  [Gate!Next]_(Gate!vars) /\ [Latch!Next]_(Latch!vars)
<1>1. CASE \E v \in VCPUS : Vcpu(v)
  BY <1>1, VcpuRefines
<1>2. CASE \E w \in WRITERS : Writer(w)
  BY <1>2, WriterRefines
<1>3. CASE OtherExit
  BY <1>3 DEF OtherExit, Gate!Next, latchOnly, Latch!vars, Latch!latchVars
<1>4. CASE Snapshotter
  BY <1>4, SnapshotterRefines
<1>5. CASE Host
  BY <1>5, HostRefines
<1>6. CASE Down \/ UNCHANGED vars
  BY <1>6 DEF Down, vars, gateOnly, latchOnly, Latch!vars, Latch!latchVars,
     Gate!gateVars, Gate!vcpuVars, Gate!coordVars, Gate!vars
<1> QED BY <1>1, <1>2, <1>3, <1>4, <1>5, <1>6 DEF Next

-----------------------------------------------------------------------------
(* The snapshotter's order keeps its two positions together.                 *)

\* A request in flight has the latch held.
LEMMA SyncKept ==
    ASSUME IInv, [Next]_vars
    PROVE  SyncInv'
<1> USE DEF SyncInv, Gate!InRequest, gateOnly, latchOnly
<1>a. SyncInv /\ cpc \in [{Snap} -> Gate!CoordPc]
  BY DEF IInv, Gate!IInv, Gate!TypeOK
<1>1. CASE \E v \in VCPUS : Vcpu(v)
  <2>1. UNCHANGED cpc
    BY <1>1 DEF Vcpu, Gate!Vcpu, Gate!TestRunning, Gate!EnterGuest, Gate!ExitKicked,
     Gate!ExitGuest, Gate!StopRunning, Gate!CheckEpoch, Gate!Arrive,
     Gate!Recheck, Gate!coordVars
  <2> QED BY <1>1, <1>a, <2>1 DEF Vcpu
<1>2. CASE \E w \in WRITERS : Writer(w)
  <2>1. UNCHANGED cpc
    BY <1>2 DEF Writer, Deliver, Gate!OtherKick, Gate!coordVars
  <2>2. UNCHANGED latch_closed /\ (ppc = "held" => ppc' = "held")
    BY <1>2 DEF Writer, Deliver, Latch!Go, Latch!TestRunning, Latch!CheckPaused, Latch!TakeLock,
     Latch!CountParked, Latch!Commit, Latch!Wait, Latch!Rewake,
     Latch!Leave, Latch!EndPass, Latch!WakeUp, Latch!NotifyPauser,
     Latch!latchVars
  <2> QED BY <1>a, <2>1, <2>2
<1>3. CASE OtherExit
  BY <1>3, <1>a DEF OtherExit, Gate!OtherKick, Gate!coordVars
<1>4. CASE SnapPoll
  BY <1>4, <1>a DEF SnapPoll, Gate!Poll, Latch!Poll, Latch!Move, Latch!latchVars
<1>5. CASE SnapPause
  BY <1>5, <1>a DEF SnapPause, Latch!Pause, Latch!PauseRefused, Latch!PauseStore,
     Latch!PauseWake, Latch!PauseLock, Latch!PauseHeld, Latch!PauseClosed,
     Latch!PauseExpire, Latch!PauseCommit, Latch!PauseWait, Latch!PauseTimeout,
     Latch!latchVars
<1>6. CASE SnapSkip \/ SnapGate \/ SnapCloseGate
  BY <1>6, <1>a DEF SnapSkip, SnapGate, GateAttempt, SnapCloseGate,
     Gate!Skip, Gate!Refused, Gate!Claim, Gate!Advance, Gate!Kick,
     Gate!Stopped, Gate!Abandon, Gate!AbandonTo, Gate!Release,
     Gate!CoordCloseFlag, Gate!CoordCloseRelease
<1>7. CASE SnapResume
  BY <1>7, <1>a DEF SnapResume, Latch!Move, Latch!DumpOver, Latch!Resume, Latch!ResumeStore,
     Latch!ResumeDrain, Latch!ResumeNotify, Latch!latchVars
<1>8. CASE SnapCloseLatch \/ HostCloseLatch
  <2>1. cpc[Snap] = "finished"
    BY <1>8 DEF SnapCloseLatch, HostCloseLatch, IInv, Gate!IInv, Gate!CloseInv
  <2>2. UNCHANGED cpc
    BY <1>8 DEF SnapCloseLatch, HostCloseLatch, CloseLatch
  <2> QED BY <2>1, <2>2
<1>9. CASE HostStop \/ HostCloseGate \/ HostJoinVcpus
  BY <1>9, <1>a DEF HostStop, HostCloseGate, HostJoinVcpus,
     Gate!BeginTeardown, Gate!KickAll, Gate!CloseFlag, Gate!CloseRelease,
     Gate!JoinVcpus, Gate!coordVars
<1>10. CASE HostJoinSnapshotter \/ HostJoinWriters
  BY <1>10, <1>a DEF HostJoinSnapshotter, HostJoinWriters, Gate!JoinCoordinators,
     Gate!coordVars, Latch!JoinSnapshotter, Latch!JoinWriters, Latch!latchVars
<1>11. CASE Down \/ UNCHANGED vars
  BY <1>11, <1>a DEF Down, vars
<1> QED
  BY <1>1, <1>2, <1>3, <1>4, <1>5, <1>6, <1>7, <1>8, <1>9, <1>10, <1>11
     DEF Next, Snapshotter, Host

\* Both components start in their initial states.
LEMMA InitIInv == Init => IInv
<1> SUFFICES ASSUME Init PROVE IInv
  OBVIOUS
<1>1. Gate!IInv
  <2>1. GateP!Init
    BY DEF Init, Gate!Init, GateP!Init
  <2> QED
    BY <2>1, GateInvSame, GateP!InitIInv, EngineAssumption
       DEF GateP!InitIInv, EngineAssumption, GateP!IsFiniteSet, IsFiniteSet
<1>2. Latch!IInv
  <2>1. LatchP!Init
    BY DEF Init, Latch!Init, LatchP!Init
  <2> QED
    BY <2>1, LatchInvSame, LatchP!InitIInv, EngineAssumption
       DEF LatchP!InitIInv, EngineAssumption, LatchP!IsFiniteSet, IsFiniteSet
<1>3. SyncInv
  BY DEF Init, Gate!Init, Latch!Init, SyncInv, Gate!InRequest
<1> QED BY <1>1, <1>2, <1>3 DEF IInv

\* Every step keeps the invariant.
LEMMA NextIInv == IInv /\ [Next]_vars => IInv'
<1> SUFFICES ASSUME IInv, [Next]_vars PROVE IInv'
  OBVIOUS
<1>1. running \in BOOLEAN
  BY DEF IInv, Gate!IInv, Gate!TypeOK
<1>2. Gate!IInv' /\ Latch!IInv'
  BY <1>1, StepRefines, GateKeepsInv, LatchKeepsInv DEF IInv
<1> QED BY <1>2, SyncKept DEF IInv

-----------------------------------------------------------------------------
(* The engine drives the stop-the-world gate only through the gate's own     *)
(* steps: what CheckpointGate proves holds of the running engine.            *)
THEOREM EngineUsesGate == Spec => GateSpec
<1>1. Init => Gate!Init
  BY DEF Init
<1>2. IInv /\ [Next]_vars => [Gate!Next]_(Gate!vars)
  BY StepRefines DEF IInv, Gate!IInv, Gate!TypeOK
<1> QED
  BY <1>1, <1>2, InitIInv, NextIInv, PTL DEF Spec, GateSpec, Gate!Spec

(* The same for the writers' pause latch.                                    *)
THEOREM EngineUsesLatch == Spec => LatchSpec
<1>1. Init => Latch!Init
  BY DEF Init
<1>2. IInv /\ [Next]_vars => [Latch!Next]_(Latch!vars)
  BY StepRefines DEF IInv, Gate!IInv, Gate!TypeOK
<1> QED
  BY <1>1, <1>2, InitIInv, NextIInv, PTL DEF Spec, LatchSpec, Latch!Spec

(* While a live checkpoint is written no host thread writes guest memory and *)
(* no vCPU captured for it runs (pause before stop_the_world, resume after   *)
(* release), for any number of vCPUs, writers and requests.                  *)
THEOREM EngineDumpHasNoWriter == Spec => []DumpHasNoWriter
<1>1. IInv => DumpHasNoWriter
  <2> SUFFICES ASSUME IInv, cpc[Snap] = "holding"
               PROVE  /\ \A w \in WRITERS : wpc[w] # "pass"
                      /\ \A v \in VCPUS : out[v] = req[Snap] => Gate!HeldFor(v, req[Snap])
    BY DEF DumpHasNoWriter
  <2>1. \A v \in VCPUS : out[v] = req[Snap] => Gate!HeldFor(v, req[Snap])
    BY DEF IInv, Gate!IInv, Gate!OnTimeCapturesAreHeld
  <2>2. ppc = "held" /\ ~latch_closed
    BY DEF IInv, SyncInv, Gate!InRequest, Latch!IInv, Latch!TypeOK
  <2>3. \A w \in WRITERS : wpc[w] # "pass"
    BY <2>2 DEF IInv, Latch!IInv, Latch!HeldMeansParked, Latch!Counted
  <2> QED BY <2>1, <2>3
<1> QED
  BY <1>1, InitIInv, NextIInv, PTL DEF Spec

=============================================================================
