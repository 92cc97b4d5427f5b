---------------------------- MODULE LiveSnapshot ----------------------------
(***************************************************************************)
(* Live checkpointing as the engine composes it (chm/src/imp.rs,           *)
(* run_usgic_engine and spawn_live_snapshotter): the vCPU threads meet the *)
(* snapshotter at the CheckpointGate, the net service meets it at the      *)
(* Quiesce latch, and the orchestrator tears all of them down. Each        *)
(* component keeps its own state and actions; this module says in which    *)
(* order the snapshotter and the orchestrator take them.                   *)
(***************************************************************************)
EXTENDS Integers, FiniteSets

CONSTANTS VCPUS, WRITERS, MaxEpoch

ASSUME EngineAssumption ==
    /\ IsFiniteSet(VCPUS)
    /\ IsFiniteSet(WRITERS)
    /\ MaxEpoch \in Nat \ {0}

VARIABLES
    epoch, gate_closed, captures, arrived, released_through, in_flight,
    kicked, vpc, my_epoch, cpc, req, out, tpc,          \* CheckpointGate
    paused, latch_closed, parked, lock, wpc, ppc, hpc,  \* Quiesce
    running                                             \* shared

Snap == "snapshotter"

Gate == INSTANCE CheckpointGate WITH COORDINATORS <- {Snap}, closed <- gate_closed
Latch == INSTANCE Quiesce WITH JoinFirst <- TRUE, closed <- latch_closed

gateOnly == <<epoch, gate_closed, captures, arrived, released_through, in_flight,
              kicked, vpc, my_epoch, cpc, req, out, tpc>>
latchOnly == <<paused, latch_closed, parked, lock, wpc, ppc, hpc>>
vars == <<gateOnly, latchOnly, running>>

Init == Gate!Init /\ Latch!Init

-----------------------------------------------------------------------------
Vcpu(v) == Gate!Vcpu(v) /\ UNCHANGED latchOnly

\* A pass that delivered frames nudges the vCPUs and goes straight round; one
\* that did not waits for a kick or its interval.
Deliver(w) ==
    /\ Latch!EndPass(w)
    /\ \/ wpc'[w] = "loop" /\ Gate!OtherKick
       \/ wpc'[w] = "asleep" /\ UNCHANGED gateOnly

Writer(w) ==
    \/ Deliver(w)
    \/ /\ \/ Latch!TestRunning(w) \/ Latch!CheckPaused(w) \/ Latch!TakeLock(w)
          \/ Latch!CountParked(w) \/ Latch!Commit(w) \/ Latch!Wait(w)
          \/ Latch!Rewake(w) \/ Latch!Leave(w) \/ Latch!WakeUp(w)
       /\ UNCHANGED gateOnly

\* The run watchdog and the vtimer stepper.
OtherExit == Gate!OtherKick /\ UNCHANGED <<latchOnly, running>>

-----------------------------------------------------------------------------
(* The snapshotter's loop *)

\* `while running`: both components see the same test.
SnapPoll == Gate!Poll(Snap) /\ Latch!Poll

\* stop_the_world, the checkpoint write, and release().
GateAttempt ==
    /\ \/ Gate!Refused(Snap) \/ Gate!Claim(Snap) \/ Gate!Advance(Snap)
       \/ Gate!Kick(Snap) \/ Gate!Stopped(Snap) \/ Gate!Abandon(Snap)
       \/ Gate!Release(Snap)
    /\ UNCHANGED <<latchOnly, running>>

\* "Order matters: hold the host-side writers first, then the vCPUs."
SnapPause ==
    /\ cpc[Snap] = "requesting"
    /\ Latch!Pause
    /\ UNCHANGED <<gateOnly, running>>

\* pause() failed: `continue`.
SnapSkip ==
    /\ ppc = "poll"
    /\ Gate!Skip(Snap)
    /\ UNCHANGED <<latchOnly, running>>

\* Mutant: the vCPUs are stopped without waiting for the writers.
GateFirst ==
    /\ ppc \in {"pausing", "waking", "locking", "testing", "committed", "waiting",
              "held"}
    /\ GateAttempt

\* The writers are held from before the request until after release().
SnapGate == ppc = "held" /\ GateAttempt

\* Mutant: resume() before release().
ResumeFirst ==
    /\ (Latch!DumpOver /\ cpc[Snap] \in {"holding", "poll"}) \/ Latch!Resume
    /\ UNCHANGED <<gateOnly, running>>

\* Mutant: the attempt ends without resume().
ResumeMissing ==
    /\ \/ ppc = "held" /\ ppc' = "poll" /\ cpc[Snap] = "poll"
          /\ UNCHANGED <<paused, latch_closed, parked, lock, wpc, hpc>>
       \/ Latch!Resume
    /\ UNCHANGED <<gateOnly, running>>

\* quiesce.resume(), after the gate let go; or on pause()'s own timeout path.
SnapResume ==
    /\ (Latch!DumpOver /\ cpc[Snap] = "poll") \/ Latch!Resume
    /\ UNCHANGED <<gateOnly, running>>

\* After the loop: gate.close(), then quiesce.close().
SnapCloseGate ==
    /\ Gate!CoordCloseFlag(Snap) \/ Gate!CoordCloseRelease(Snap)
    /\ UNCHANGED <<latchOnly, running>>

CloseLatch == Latch!Closer /\ UNCHANGED <<gateOnly, running>>

SnapCloseLatch == cpc[Snap] = "finished" /\ CloseLatch /\ UNCHANGED hpc

Snapshotter ==
    SnapPoll \/ SnapPause \/ SnapSkip \/ SnapGate \/ SnapResume \/ SnapCloseGate
    \/ SnapCloseLatch

-----------------------------------------------------------------------------
(* The orchestrator's teardown *)

HostStop == (Gate!BeginTeardown \/ Gate!KickAll) /\ UNCHANGED latchOnly

\* live_snapshotter.join() returns after both of the snapshotter's closes.
HostJoinSnapshotter ==
    Gate!JoinCoordinators /\ Latch!JoinSnapshotter

\* Mutant: the gate is closed before the snapshotter has joined.
HostCloseEarly ==
    /\ \/ /\ tpc = "kicked"
          /\ gate_closed' = TRUE
          /\ tpc' = "closing"
          /\ UNCHANGED <<epoch, captures, arrived, released_through, in_flight,
                         kicked, vpc, my_epoch, cpc, req, out, running>>
       \/ Gate!CloseFlag \/ Gate!CloseRelease
    /\ UNCHANGED latchOnly

\* gate.close()
HostCloseGate == (Gate!CloseFlag \/ Gate!CloseRelease) /\ UNCHANGED latchOnly

HostCloseLatch == tpc = "closed" /\ CloseLatch /\ UNCHANGED ppc

\* net_service.join(), then the vCPU threads.
HostJoinWriters == Latch!JoinWriters /\ UNCHANGED gateOnly
HostJoinVcpus == hpc = "down" /\ Gate!JoinVcpus /\ UNCHANGED latchOnly

Host ==
    HostStop \/ HostJoinSnapshotter \/ HostCloseGate \/ HostCloseLatch
    \/ HostJoinWriters \/ HostJoinVcpus

Down == tpc = "down" /\ UNCHANGED vars

Next ==
    \/ \E v \in VCPUS : Vcpu(v)
    \/ \E w \in WRITERS : Writer(w)
    \/ OtherExit
    \/ Snapshotter
    \/ Host
    \/ Down

Spec == Init /\ [][Next]_vars

\* As in the components: threads run, mutexes are fair, deadlines pass and a
\* forced exit takes effect; the guest and the operator owe nothing.
Fairness ==
    /\ \A v \in VCPUS :
         /\ WF_vars(Vcpu(v) /\ (Gate!TestRunning(v) \/ Gate!EnterGuest(v) \/ Gate!ExitKicked(v)))
         /\ WF_vars(Vcpu(v) /\ (Gate!CheckEpoch(v) \/ Gate!Arrive(v) \/ Gate!Recheck(v)))
    /\ \A w \in WRITERS :
         /\ WF_vars(Writer(w))
         /\ SF_vars(Writer(w) /\ (Latch!TakeLock(w) \/ Latch!Rewake(w)))
    /\ WF_vars(Snapshotter)
    /\ SF_vars(Snapshotter /\ (Latch!PauseLock \/ Latch!ResumeDrain \/ Latch!CloseDrain))
    /\ SF_vars(SnapPause /\ Latch!PauseExpire)
    /\ WF_vars(Host /\ ~Gate!BeginTeardown)
    /\ SF_vars(Host /\ Latch!CloseDrain)
    /\ WF_vars(~running /\ HostStop)

FairSpec == Spec /\ Fairness

-----------------------------------------------------------------------------
(* Properties *)

\* The session uses the gate within its contract: every step of the snapshotter,
\* the vCPUs and the teardown is a step of the gate's own specification, or
\* leaves the gate alone. What is proved of the gate therefore holds here.
GateSpec == Gate!Spec

\* The same for the latch: pause, dump and resume come in that order on every
\* path of the snapshotter's loop, and the latch is closed by whoever may.
LatchSpec == Latch!Spec

\* While the checkpoint is written no host thread writes guest memory, and no
\* vCPU whose capture answers this request runs: the dump of RAM is of one
\* moment. (imp.rs: "hold the host-side writers first, then the vCPUs".)
DumpHasNoWriter ==
    cpc[Snap] = "holding" =>
        /\ \A w \in WRITERS : wpc[w] # "pass"
        /\ \A v \in VCPUS : out[v] = req[Snap] => Gate!HeldFor(v, req[Snap])

\* Every pause() of the writers returns, held or not, also when the session is
\* told to stop in the middle of it.
PauseReturns == Latch!PauseReturns

\* A session that ends, in the middle of a snapshot or not, is torn down: the
\* snapshotter, the net service and every vCPU join.
SessionEnds == ~running ~> tpc = "down"

-----------------------------------------------------------------------------
(* The strengthening that makes DumpHasNoWriter inductive: the components'   *)
(* own invariants, and how the snapshotter's two positions go together.      *)

SyncInv ==
    /\ Gate!InRequest(Snap) => ppc = "held"
    /\ latch_closed => cpc[Snap] = "finished"

IInv == Gate!IInv /\ Latch!IInv /\ SyncInv

=============================================================================
