---------------------------- MODULE QuiesceProofs ----------------------------
(***************************************************************************)
(* The latch's safety for any finite set of writers and either teardown    *)
(* order. The mutex is exclusive (LockInv), so the count is exact          *)
(* (CountInv) and a full count means that every writer is parked; whoever  *)
(* clears the condition passes through the mutex before it notifies, so no *)
(* writer can commit to a wait that nobody will end (CommitInv), nor can   *)
(* the thread that waits for them (PauserCommitInv).                       *)
(***************************************************************************)
EXTENDS Quiesce, FiniteSetTheorems, TLAPS

\* A count that has reached the number of writers is all of them.
LEMMA HoldAll ==
  ASSUME CountInv, parked >= Cardinality(WRITERS)
  PROVE  Counted = WRITERS
<1>1. Counted \in SUBSET WRITERS
  BY DEF Counted
<1>2. /\ IsFiniteSet(Counted)
      /\ Cardinality(Counted) <= Cardinality(WRITERS)
      /\ Cardinality(WRITERS) = Cardinality(Counted) => WRITERS = Counted
  BY <1>1, LatchAssumption, FS_Subset DEF LatchAssumption
<1>3. Cardinality(Counted) \in Nat /\ Cardinality(WRITERS) \in Nat
  BY <1>2, LatchAssumption, FS_CardinalityType DEF LatchAssumption
<1> QED
  BY <1>2, <1>3 DEF CountInv

\* The latch starts open and unpaused, with nobody parked.
LEMMA InitIInv == Init => IInv
<1> SUFFICES ASSUME Init PROVE IInv
  OBVIOUS
<1>1. TypeOK
  BY DEF Init, TypeOK, WriterPc, PauserPc, HostPc
<1>2. Counted = {}
  BY DEF Init, Counted
<1>3. CountInv
  BY <1>2, FS_EmptySet DEF Init, CountInv
<1> QED
  BY <1>1, <1>3 DEF Init, IInv, LockInv, Critical, FlagInv, CommitInv,
     HeldMeansParked, NoLostWakeup, PauserCommitInv, PauserNotForgotten

\* A step of a writer preserves IInv.
LEMMA WriterStep ==
  ASSUME IInv, NEW w \in WRITERS, Writer(w)
  PROVE  IInv'
<1> USE DEF IInv, Go, latchVars
<1>0. IsFiniteSet(Counted) /\ Cardinality(Counted) \in Nat
  BY LatchAssumption, FS_Subset, FS_CardinalityType DEF LatchAssumption, Counted
<1>1. CASE TestRunning(w) \/ CheckPaused(w) \/ EndPass(w) \/ WakeUp(w)
  <2> USE <1>1 DEF TestRunning, CheckPaused, EndPass, WakeUp
  <2>1. TypeOK'
    BY DEF TypeOK, WriterPc, PauserPc, HostPc
  <2>2. LockInv'
    BY DEF LockInv, Critical, TypeOK
  <2>3. CountInv'
    BY DEF CountInv, Counted, TypeOK
  <2>4. FlagInv'
    BY DEF FlagInv, TypeOK
  <2>5. CommitInv'
    BY DEF CommitInv, LockInv, Critical, FlagInv, TypeOK
  <2>6. HeldMeansParked'
    BY HoldAll DEF HeldMeansParked, Counted, FlagInv, LockInv, TypeOK
  <2>7. NoLostWakeup'
    BY DEF NoLostWakeup, CommitInv, LockInv, Critical, FlagInv, TypeOK
  <2>8. PauserCommitInv' /\ PauserNotForgotten'
    BY DEF PauserCommitInv, PauserNotForgotten, LockInv, Critical, FlagInv, TypeOK
  <2> QED
    BY <2>1, <2>2, <2>3, <2>4, <2>5, <2>6, <2>7, <2>8
<1>2. CASE TakeLock(w) \/ Commit(w) \/ Wait(w) \/ Rewake(w)
  <2> USE <1>2 DEF TakeLock, Commit, Wait, Rewake
  <2>1. TypeOK'
    BY DEF TypeOK, WriterPc, PauserPc, HostPc
  <2>2. LockInv'
    BY DEF LockInv, Critical, TypeOK
  <2>3. CountInv'
    BY DEF CountInv, Counted, TypeOK
  <2>4. FlagInv'
    BY DEF FlagInv, TypeOK
  <2>5. CommitInv'
    BY DEF CommitInv, LockInv, Critical, FlagInv, TypeOK
  <2>6. HeldMeansParked'
    BY HoldAll DEF HeldMeansParked, Counted, FlagInv, LockInv, TypeOK
  <2>7. NoLostWakeup'
    BY DEF NoLostWakeup, CommitInv, LockInv, Critical, FlagInv, TypeOK
  <2>8. PauserCommitInv' /\ PauserNotForgotten'
    BY DEF PauserCommitInv, PauserNotForgotten, LockInv, Critical, FlagInv, TypeOK
  <2> QED
    BY <2>1, <2>2, <2>3, <2>4, <2>5, <2>6, <2>7, <2>8
<1>3. CASE CountParked(w)
  <2> USE <1>3 DEF CountParked, NotifyWriters, NotifyPauser
  <2>1. TypeOK'
    BY DEF TypeOK, WriterPc, PauserPc, HostPc
  <2>2. LockInv'
    BY DEF LockInv, Critical, TypeOK
  <2>3. CountInv'
    <3>1. Counted' = Counted \cup {w} /\ w \notin Counted
      BY DEF Counted, TypeOK
    <3> QED
      BY <1>0, <3>1, FS_AddElement DEF CountInv
  <2>4. FlagInv'
    BY DEF FlagInv, TypeOK
  <2>5. CommitInv'
    BY DEF CommitInv, LockInv, Critical, FlagInv, TypeOK
  <2>6. HeldMeansParked'
    BY HoldAll DEF HeldMeansParked, Counted, FlagInv, LockInv, TypeOK
  <2>7. NoLostWakeup'
    BY DEF NoLostWakeup, CommitInv, LockInv, Critical, FlagInv, TypeOK
  <2>8. PauserCommitInv' /\ PauserNotForgotten'
    BY DEF PauserCommitInv, PauserNotForgotten, LockInv, Critical, FlagInv, TypeOK
  <2> QED
    BY <2>1, <2>2, <2>3, <2>4, <2>5, <2>6, <2>7, <2>8
<1>4. CASE Leave(w)
  <2> USE <1>4 DEF Leave
  <2>0. Counted' = Counted \ {w} /\ w \in Counted
    BY DEF Counted, TypeOK
  <2>a. parked # 0
    BY <1>0, <2>0, FS_EmptySet DEF CountInv
  <2>1. TypeOK'
    BY <2>a DEF TypeOK, WriterPc, PauserPc, HostPc
  <2>2. LockInv'
    BY DEF LockInv, Critical, TypeOK
  <2>3. CountInv'
    BY <1>0, <2>0, FS_RemoveElement DEF CountInv
  <2>4. FlagInv'
    BY DEF FlagInv, TypeOK
  <2>5. CommitInv'
    BY DEF CommitInv, LockInv, Critical, FlagInv, TypeOK
  <2>6. HeldMeansParked'
    BY HoldAll DEF HeldMeansParked, Counted, FlagInv, LockInv, TypeOK
  <2>7. NoLostWakeup'
    BY DEF NoLostWakeup, CommitInv, LockInv, Critical, FlagInv, TypeOK
  <2>8. PauserCommitInv' /\ PauserNotForgotten'
    BY DEF PauserCommitInv, PauserNotForgotten, LockInv, Critical, FlagInv, TypeOK
  <2> QED
    BY <2>1, <2>2, <2>3, <2>4, <2>5, <2>6, <2>7, <2>8
<1> QED
  BY <1>1, <1>2, <1>3, <1>4 DEF Writer

\* A step of the snapshotter preserves IInv.
LEMMA PauserStep ==
  ASSUME IInv, Pauser
  PROVE  IInv'
<1> USE DEF IInv, Move, latchVars
<1>1. CASE Poll \/ PauseRefused \/ PauseStore
  <2> USE <1>1 DEF Poll, PauseRefused, PauseStore
  <2>1. TypeOK'
    BY DEF TypeOK, WriterPc, PauserPc, HostPc
  <2>2. LockInv'
    BY DEF LockInv, Critical, TypeOK
  <2>3. CountInv'
    BY DEF CountInv, Counted, TypeOK
  <2>4. FlagInv'
    BY DEF FlagInv, TypeOK
  <2>5. CommitInv'
    BY DEF CommitInv, LockInv, Critical, FlagInv, TypeOK
  <2>6. HeldMeansParked'
    BY HoldAll DEF HeldMeansParked, Counted, FlagInv, LockInv, TypeOK
  <2>7. NoLostWakeup'
    BY DEF NoLostWakeup, CommitInv, LockInv, Critical, FlagInv, TypeOK
  <2>8. PauserCommitInv' /\ PauserNotForgotten'
    BY DEF PauserCommitInv, PauserNotForgotten, LockInv, Critical, FlagInv, TypeOK
  <2> QED
    BY <2>1, <2>2, <2>3, <2>4, <2>5, <2>6, <2>7, <2>8
<1>2. CASE PauseWake \/ PauseTimeout \/ DumpOver
  <2> USE <1>2 DEF PauseWake, PauseTimeout, DumpOver
  <2>1. TypeOK'
    BY DEF TypeOK, WriterPc, PauserPc, HostPc
  <2>2. LockInv'
    BY DEF LockInv, Critical, TypeOK
  <2>3. CountInv'
    BY DEF CountInv, Counted, TypeOK
  <2>4. FlagInv'
    BY DEF FlagInv, TypeOK
  <2>5. CommitInv'
    BY DEF CommitInv, LockInv, Critical, FlagInv, TypeOK
  <2>6. HeldMeansParked'
    BY HoldAll DEF HeldMeansParked, Counted, FlagInv, LockInv, TypeOK
  <2>7. NoLostWakeup'
    BY DEF NoLostWakeup, CommitInv, LockInv, Critical, FlagInv, TypeOK
  <2>8. PauserCommitInv' /\ PauserNotForgotten'
    BY DEF PauserCommitInv, PauserNotForgotten, LockInv, Critical, FlagInv, TypeOK
  <2> QED
    BY <2>1, <2>2, <2>3, <2>4, <2>5, <2>6, <2>7, <2>8
<1>3. CASE PauseLock \/ PauseHeld
  <2> USE <1>3 DEF PauseLock, PauseHeld
  <2>1. TypeOK'
    BY DEF TypeOK, WriterPc, PauserPc, HostPc
  <2>2. LockInv'
    BY DEF LockInv, Critical, TypeOK
  <2>3. CountInv'
    BY DEF CountInv, Counted, TypeOK
  <2>4. FlagInv'
    BY DEF FlagInv, TypeOK
  <2>5. CommitInv'
    BY DEF CommitInv, LockInv, Critical, FlagInv, TypeOK
  <2>6. HeldMeansParked'
    BY HoldAll DEF HeldMeansParked, Counted, FlagInv, LockInv, TypeOK
  <2>7. NoLostWakeup'
    BY DEF NoLostWakeup, CommitInv, LockInv, Critical, FlagInv, TypeOK
  <2>8. PauserCommitInv' /\ PauserNotForgotten'
    BY DEF PauserCommitInv, PauserNotForgotten, LockInv, Critical, FlagInv, TypeOK
  <2> QED
    BY <2>1, <2>2, <2>3, <2>4, <2>5, <2>6, <2>7, <2>8
<1>4. CASE PauseClosed \/ PauseExpire \/ PauseCommit \/ PauseWait
  <2> USE <1>4 DEF PauseClosed, PauseExpire, PauseCommit, PauseWait
  <2>1. TypeOK'
    BY DEF TypeOK, WriterPc, PauserPc, HostPc
  <2>2. LockInv'
    BY DEF LockInv, Critical, TypeOK
  <2>3. CountInv'
    BY DEF CountInv, Counted, TypeOK
  <2>4. FlagInv'
    BY DEF FlagInv, TypeOK
  <2>5. CommitInv'
    BY DEF CommitInv, LockInv, Critical, FlagInv, TypeOK
  <2>6. HeldMeansParked'
    BY HoldAll DEF HeldMeansParked, Counted, FlagInv, LockInv, TypeOK
  <2>7. NoLostWakeup'
    BY DEF NoLostWakeup, CommitInv, LockInv, Critical, FlagInv, TypeOK
  <2>8. PauserCommitInv' /\ PauserNotForgotten'
    BY DEF PauserCommitInv, PauserNotForgotten, LockInv, Critical, FlagInv, TypeOK
  <2> QED
    BY <2>1, <2>2, <2>3, <2>4, <2>5, <2>6, <2>7, <2>8
<1>5. CASE ResumeStore \/ ResumeDrain
  <2> USE <1>5 DEF ResumeStore, ResumeDrain
  <2>1. TypeOK'
    BY DEF TypeOK, WriterPc, PauserPc, HostPc
  <2>2. LockInv'
    BY DEF LockInv, Critical, TypeOK
  <2>3. CountInv'
    BY DEF CountInv, Counted, TypeOK
  <2>4. FlagInv'
    BY DEF FlagInv, TypeOK
  <2>5. CommitInv'
    BY DEF CommitInv, LockInv, Critical, FlagInv, TypeOK
  <2>6. HeldMeansParked'
    BY HoldAll DEF HeldMeansParked, Counted, FlagInv, LockInv, TypeOK
  <2>7. NoLostWakeup'
    BY DEF NoLostWakeup, CommitInv, LockInv, Critical, FlagInv, TypeOK
  <2>8. PauserCommitInv' /\ PauserNotForgotten'
    BY DEF PauserCommitInv, PauserNotForgotten, LockInv, Critical, FlagInv, TypeOK
  <2> QED
    BY <2>1, <2>2, <2>3, <2>4, <2>5, <2>6, <2>7, <2>8
<1>6. CASE ResumeNotify
  <2> USE <1>6 DEF ResumeNotify, NotifyWriters
  <2>1. TypeOK'
    BY DEF TypeOK, WriterPc, PauserPc, HostPc
  <2>2. LockInv'
    BY DEF LockInv, Critical, TypeOK
  <2>3. CountInv'
    BY DEF CountInv, Counted, TypeOK
  <2>4. FlagInv'
    BY DEF FlagInv, TypeOK
  <2>5. CommitInv'
    BY DEF CommitInv, LockInv, Critical, FlagInv, TypeOK
  <2>6. HeldMeansParked'
    BY HoldAll DEF HeldMeansParked, Counted, FlagInv, LockInv, TypeOK
  <2>7. NoLostWakeup'
    BY DEF NoLostWakeup, CommitInv, LockInv, Critical, FlagInv, TypeOK
  <2>8. PauserCommitInv' /\ PauserNotForgotten'
    BY DEF PauserCommitInv, PauserNotForgotten, LockInv, Critical, FlagInv, TypeOK
  <2> QED
    BY <2>1, <2>2, <2>3, <2>4, <2>5, <2>6, <2>7, <2>8
<1> QED
  BY <1>1, <1>2, <1>3, <1>4, <1>5, <1>6 DEF Pauser, Pause, Resume

\* A step of close() or of the orchestrator preserves IInv.
LEMMA HostStep ==
  ASSUME IInv, Closer \/ StopRunning \/ JoinSnapshotter \/ JoinWriters
  PROVE  IInv'
<1> USE DEF IInv, Move, latchVars
<1>1. CASE CloseFlag \/ CloseUnpause
  <2> USE <1>1 DEF CloseFlag, CloseUnpause
  <2>1. TypeOK'
    BY DEF TypeOK, WriterPc, PauserPc, HostPc
  <2>2. LockInv'
    BY DEF LockInv, Critical, TypeOK
  <2>3. CountInv'
    BY DEF CountInv, Counted, TypeOK
  <2>4. FlagInv'
    BY DEF FlagInv, TypeOK
  <2>5. CommitInv'
    BY DEF CommitInv, LockInv, Critical, FlagInv, TypeOK
  <2>6. HeldMeansParked'
    BY HoldAll DEF HeldMeansParked, Counted, FlagInv, LockInv, TypeOK
  <2>7. NoLostWakeup'
    BY DEF NoLostWakeup, CommitInv, LockInv, Critical, FlagInv, TypeOK
  <2>8. PauserCommitInv' /\ PauserNotForgotten'
    BY DEF PauserCommitInv, PauserNotForgotten, LockInv, Critical, FlagInv, TypeOK
  <2> QED
    BY <2>1, <2>2, <2>3, <2>4, <2>5, <2>6, <2>7, <2>8
<1>2. CASE CloseDrain \/ CloseNotify
  <2> USE <1>2 DEF CloseDrain, CloseNotify, NotifyWriters, NotifyPauser
  <2>1. TypeOK'
    BY DEF TypeOK, WriterPc, PauserPc, HostPc
  <2>2. LockInv'
    BY DEF LockInv, Critical, TypeOK
  <2>3. CountInv'
    BY DEF CountInv, Counted, TypeOK
  <2>4. FlagInv'
    BY DEF FlagInv, TypeOK
  <2>5. CommitInv'
    BY DEF CommitInv, LockInv, Critical, FlagInv, TypeOK
  <2>6. HeldMeansParked'
    BY HoldAll DEF HeldMeansParked, Counted, FlagInv, LockInv, TypeOK
  <2>7. NoLostWakeup'
    BY DEF NoLostWakeup, CommitInv, LockInv, Critical, FlagInv, TypeOK
  <2>8. PauserCommitInv' /\ PauserNotForgotten'
    BY DEF PauserCommitInv, PauserNotForgotten, LockInv, Critical, FlagInv, TypeOK
  <2> QED
    BY <2>1, <2>2, <2>3, <2>4, <2>5, <2>6, <2>7, <2>8
<1>3. CASE StopRunning \/ JoinSnapshotter \/ JoinWriters
  <2> USE <1>3 DEF StopRunning, JoinSnapshotter, JoinWriters
  <2>1. TypeOK'
    BY DEF TypeOK, WriterPc, PauserPc, HostPc
  <2>2. LockInv'
    BY DEF LockInv, Critical, TypeOK
  <2>3. CountInv'
    BY DEF CountInv, Counted, TypeOK
  <2>4. FlagInv'
    BY DEF FlagInv, TypeOK
  <2>5. CommitInv'
    BY DEF CommitInv, LockInv, Critical, FlagInv, TypeOK
  <2>6. HeldMeansParked'
    BY HoldAll DEF HeldMeansParked, Counted, FlagInv, LockInv, TypeOK
  <2>7. NoLostWakeup'
    BY DEF NoLostWakeup, CommitInv, LockInv, Critical, FlagInv, TypeOK
  <2>8. PauserCommitInv' /\ PauserNotForgotten'
    BY DEF PauserCommitInv, PauserNotForgotten, LockInv, Critical, FlagInv, TypeOK
  <2> QED
    BY <2>1, <2>2, <2>3, <2>4, <2>5, <2>6, <2>7, <2>8
<1> QED
  BY <1>1, <1>2, <1>3 DEF Closer

\* Every step of the latch preserves the inductive invariant.
LEMMA NextIInv == IInv /\ [Next]_vars => IInv'
<1> SUFFICES ASSUME IInv, [Next]_vars PROVE IInv'
  OBVIOUS
<1>1. CASE UNCHANGED vars
  BY <1>1 DEF vars, latchVars, IInv, TypeOK, LockInv, CountInv, FlagInv,
     CommitInv, HeldMeansParked, NoLostWakeup, PauserCommitInv, PauserNotForgotten,
     Counted
<1> QED
  BY <1>1, WriterStep, PauserStep, HostStep DEF Next, Down

\* Type correctness of the latch and of its threads.
THEOREM LatchTypeCorrect == Spec => []TypeOK
<1>1. IInv => TypeOK
  BY DEF IInv
<1> QED
  BY <1>1, InitIInv, NextIInv, PTL DEF Spec

\* While pause() holds, no writer is in a service pass.
THEOREM LatchHolds == Spec => []HeldMeansParked
<1>1. IInv => HeldMeansParked
  BY DEF IInv
<1> QED
  BY <1>1, InitIInv, NextIInv, PTL DEF Spec

\* No writer sleeps on a condition that nobody will notify again.
THEOREM LatchLosesNoWakeup == Spec => []NoLostWakeup
<1>1. IInv => NoLostWakeup
  BY DEF IInv
<1> QED
  BY <1>1, InitIInv, NextIInv, PTL DEF Spec

\* The thread in pause() never sleeps past the arrival of the last writer or
\* past a close().
THEOREM LatchWakesPauser == Spec => []PauserNotForgotten
<1>1. IInv => PauserNotForgotten
  BY DEF IInv
<1> QED
  BY <1>1, InitIInv, NextIInv, PTL DEF Spec

=============================================================================
