--------------------------- MODULE CheckpointGate ---------------------------
(***************************************************************************)
(* The stop-the-world barrier of chm/src/livesnap.rs together with the     *)
(* threads of chm/src/imp.rs that meet at it: one thread per vCPU, the     *)
(* coordinators that ask for a live checkpoint (the engine starts one, the *)
(* live snapshotter), and the orchestrator that tears the VM down.         *)
(*                                                                         *)
(* A vCPU can only be captured by its own thread, so a live checkpoint is  *)
(* a rendezvous: the coordinator advances an epoch and kicks every vCPU    *)
(* out of the guest; a vCPU that finds the epoch moved captures itself,    *)
(* deposits the capture and parks until the coordinator is done with it.   *)
(*                                                                         *)
(* One action is one critical section of the gate's mutex, or one access   *)
(* to an atomic outside it.                                                *)
(***************************************************************************)
EXTENDS Integers, FiniteSets

CONSTANTS
    VCPUS,         \* the vCPU threads
    COORDINATORS,  \* the threads that may call stop_the_world
    MaxEpoch       \* u64::MAX: no epoch, and no watermark, is above it

ASSUME GateAssumption ==
    /\ IsFiniteSet(VCPUS)
    /\ MaxEpoch \in Nat \ {0}

VARIABLES
    epoch,            \* CheckpointGate::epoch, the request generation
    closed,           \* CheckpointGate::closed
    captures,         \* GateState::captures: for each vCPU the epoch whose
                      \* request the deposited capture answers, 0 for None
    arrived,          \* GateState::arrived
    released_through, \* GateState::released_through, the watermark
    in_flight,        \* GateState::in_flight
    running,          \* the engine's run flag
    kicked,           \* vCPUs with an hv_vcpus_exit they have not yet consumed
    vpc,              \* where each vCPU thread is
    my_epoch,         \* the epoch each vCPU last serviced (or is servicing)
    cpc,              \* where each coordinator is
    req,              \* the epoch of each coordinator's last request
    out,              \* the captures a successful stop_the_world returned
    tpc               \* where the orchestrator's teardown is

gateVars == <<epoch, closed, captures, arrived, released_through, in_flight>>
vcpuVars == <<kicked, vpc, my_epoch>>
coordVars == <<cpc, req, out>>
vars == <<gateVars, running, vcpuVars, coordVars, tpc>>

Epochs == 0..MaxEpoch

\* loop: about to test `running`; entering: has seen it set and is on its way
\* into hv_vcpu_run; guest: executing guest code; exited: the exit is serviced;
\* capturing: has read a new epoch and reads its own registers; parked and
\* woken: inside arrive_and_park, waiting and told to look again; done: the
\* thread has left its run loop.
VcpuPc == {"loop", "entering", "guest", "exited", "capturing", "parked",
           "woken", "done"}

\* poll: the top of the snapshotter's loop; requesting: about to call
\* stop_the_world; reset, advanced, waiting: inside it, after its first
\* critical section, after advancing the epoch, and after the kick; holding:
\* it returned Ok and the world is held; ended: the loop is over; closing:
\* inside the close() that follows it; finished: the thread is over.
CoordPc == {"poll", "requesting", "reset", "advanced", "waiting", "holding",
            "ended", "closing", "finished"}

Ended == {"ended", "closing", "finished"}

\* up: supervising; stopping: `running` is cleared; kicked: every vCPU told to
\* exit; joined: the snapshotter has joined; closing and closed: inside and
\* after close(); down: every vCPU thread has joined.
TeardownPc == {"up", "stopping", "kicked", "joined", "closing", "closed", "down"}

Init ==
    /\ epoch = 0
    /\ closed = FALSE
    /\ captures = [v \in VCPUS |-> 0]
    /\ arrived = 0
    /\ released_through = 0
    /\ in_flight = FALSE
    /\ running = TRUE
    /\ kicked = {}
    /\ vpc = [v \in VCPUS |-> "loop"]
    /\ my_epoch = [v \in VCPUS |-> 0]
    /\ cpc = [c \in COORDINATORS |-> "poll"]
    /\ req = [c \in COORDINATORS |-> 0]
    /\ out = [v \in VCPUS |-> 0]
    /\ tpc = "up"

-----------------------------------------------------------------------------
(* vCPU threads *)

\* `while running`: another round, or leave the loop.
TestRunning(v) ==
    /\ vpc[v] = "loop"
    /\ vpc' = [vpc EXCEPT ![v] = IF running THEN "entering" ELSE "done"]
    /\ UNCHANGED <<gateVars, running, kicked, my_epoch, coordVars, tpc>>

\* hv_vcpu_run with no exit pending executes guest code.
EnterGuest(v) ==
    /\ vpc[v] = "entering"
    /\ v \notin kicked
    /\ vpc' = [vpc EXCEPT ![v] = "guest"]
    /\ UNCHANGED <<gateVars, running, kicked, my_epoch, coordVars, tpc>>

\* hv_vcpu_run returns CANCELED: at once when the exit was already pending, or
\* out of the guest. The exit is consumed.
ExitKicked(v) ==
    /\ vpc[v] \in {"entering", "guest"}
    /\ v \in kicked
    /\ kicked' = kicked \ {v}
    /\ vpc' = [vpc EXCEPT ![v] = "exited"]
    /\ UNCHANGED <<gateVars, running, my_epoch, coordVars, tpc>>

\* Any other exit the run body services itself (VmExit::Ignore).
ExitGuest(v) ==
    /\ vpc[v] = "guest"
    /\ vpc' = [vpc EXCEPT ![v] = "exited"]
    /\ UNCHANGED <<gateVars, running, kicked, my_epoch, coordVars, tpc>>

\* The guest powers off or resets, or the run fails: this thread clears
\* `running` for everyone and leaves its loop without meeting the barrier.
StopRunning(v) ==
    /\ vpc[v] = "guest"
    /\ vpc' = [vpc EXCEPT ![v] = "done"]
    /\ running' = FALSE
    /\ UNCHANGED <<gateVars, kicked, my_epoch, coordVars, tpc>>

\* `let e = gate.epoch(); if e != my_epoch { my_epoch = e; capture ... }`
CheckEpoch(v) ==
    /\ vpc[v] = "exited"
    /\ my_epoch' = [my_epoch EXCEPT ![v] = epoch]
    /\ vpc' = [vpc EXCEPT ![v] = IF epoch = my_epoch[v] THEN "loop" ELSE "capturing"]
    /\ UNCHANGED <<gateVars, running, kicked, coordVars, tpc>>

\* Condvar::notify_all: whoever waits looks again.
NotifyAll(pc) == [v \in VCPUS |-> IF pc[v] = "parked" THEN "woken" ELSE pc[v]]

\* The while condition of arrive_and_park, under the lock.
MustWait(v) == released_through < my_epoch[v] /\ ~closed

\* arrive_and_park up to its first wait. The count includes the arrival
\* whatever request it answers; the last one expected notifies.
Arrive(v) ==
    /\ vpc[v] = "capturing"
    /\ captures' = [captures EXCEPT ![v] = my_epoch[v]]
    /\ arrived' = arrived + 1
    /\ LET others == IF arrived + 1 = Cardinality(VCPUS) THEN NotifyAll(vpc) ELSE vpc
       IN  vpc' = [others EXCEPT ![v] = IF MustWait(v) THEN "parked" ELSE "loop"]
    /\ UNCHANGED <<epoch, closed, released_through, in_flight, running, kicked,
                   my_epoch, coordVars, tpc>>

\* A woken vCPU re-evaluates the condition: it waits again or goes on.
Recheck(v) ==
    /\ vpc[v] = "woken"
    /\ vpc' = [vpc EXCEPT ![v] = IF MustWait(v) THEN "parked" ELSE "loop"]
    /\ UNCHANGED <<gateVars, running, kicked, my_epoch, coordVars, tpc>>

\* Other threads force exits too, for their own reasons: the net service after a
\* delivery, the run watchdog, the vtimer stepper.
OtherKick ==
    /\ tpc # "down"
    /\ kicked' = VCPUS
    /\ UNCHANGED <<gateVars, running, vpc, my_epoch, coordVars, tpc>>

-----------------------------------------------------------------------------
(* Coordinators: the live snapshotter's loop around stop_the_world/release *)

\* `while running`: take another point, or finish.
Poll(c) ==
    /\ cpc[c] = "poll"
    /\ cpc' = [cpc EXCEPT ![c] = IF running THEN "requesting" ELSE "ended"]
    /\ UNCHANGED <<gateVars, running, vcpuVars, req, out, tpc>>

\* stop_the_world: closed, or another request in flight: Unavailable. (Bound:
\* the model makes no request beyond MaxEpoch.)
Refused(c) ==
    /\ cpc[c] = "requesting"
    /\ closed \/ in_flight \/ epoch = MaxEpoch
    /\ cpc' = [cpc EXCEPT ![c] = "poll"]
    /\ UNCHANGED <<gateVars, running, vcpuVars, req, out, tpc>>

\* The attempt ends before it reaches the gate: quiesce.pause() failed.
Skip(c) ==
    /\ cpc[c] = "requesting"
    /\ cpc' = [cpc EXCEPT ![c] = "poll"]
    /\ UNCHANGED <<gateVars, running, vcpuVars, req, out, tpc>>

\* Mutant: the in_flight test is missing.
ClaimTaken(c) ==
    /\ cpc[c] = "requesting"
    /\ ~closed
    /\ epoch < MaxEpoch
    /\ in_flight' = TRUE
    /\ arrived' = 0
    /\ captures' = [v \in VCPUS |-> 0]
    /\ cpc' = [cpc EXCEPT ![c] = "reset"]
    /\ UNCHANGED <<epoch, closed, released_through, running, vcpuVars, req, out, tpc>>

\* The first critical section of stop_the_world: claim the gate and clear the
\* previous request's count and captures.
Claim(c) ==
    /\ cpc[c] = "requesting"
    /\ ~closed
    /\ ~in_flight
    /\ epoch < MaxEpoch
    /\ in_flight' = TRUE
    /\ arrived' = 0
    /\ captures' = [v \in VCPUS |-> 0]
    /\ cpc' = [cpc EXCEPT ![c] = "reset"]
    /\ UNCHANGED <<epoch, closed, released_through, running, vcpuVars, req, out, tpc>>

\* epoch.fetch_add, outside the lock.
Advance(c) ==
    /\ cpc[c] = "reset"
    /\ epoch' = epoch + 1
    /\ req' = [req EXCEPT ![c] = epoch + 1]
    /\ cpc' = [cpc EXCEPT ![c] = "advanced"]
    /\ UNCHANGED <<closed, captures, arrived, released_through, in_flight, running,
                   vcpuVars, out, tpc>>

\* Mutant: the kick reaches no vCPU.
KickNobody(c) ==
    /\ cpc[c] = "advanced"
    /\ cpc' = [cpc EXCEPT ![c] = "waiting"]
    /\ UNCHANGED <<gateVars, running, vcpuVars, req, out, tpc>>

\* kick(): every vCPU, in the guest or not, is told to exit.
Kick(c) ==
    /\ cpc[c] = "advanced"
    /\ kicked' = VCPUS
    /\ cpc' = [cpc EXCEPT ![c] = "waiting"]
    /\ UNCHANGED <<gateVars, running, vpc, my_epoch, req, out, tpc>>

\* `out.len() == self.vcpus`: every slot holds a capture.
AllCaptured == \A v \in VCPUS : captures[v] # 0

\* Mutant: the arrival count alone decides.
StoppedByCount(c) ==
    /\ cpc[c] = "waiting"
    /\ arrived >= Cardinality(VCPUS)
    /\ out' = captures
    /\ captures' = [v \in VCPUS |-> 0]
    /\ cpc' = [cpc EXCEPT ![c] = "holding"]
    /\ UNCHANGED <<epoch, closed, arrived, released_through, in_flight, running,
                   vcpuVars, req, tpc>>

\* Enough arrivals and a capture in every slot: stop_the_world returns Ok with
\* the captures taken out of the gate, and its caller holds the world.
Stopped(c) ==
    /\ cpc[c] = "waiting"
    /\ arrived >= Cardinality(VCPUS)
    /\ AllCaptured
    /\ out' = captures
    /\ captures' = [v \in VCPUS |-> 0]
    /\ cpc' = [cpc EXCEPT ![c] = "holding"]
    /\ UNCHANGED <<epoch, closed, arrived, released_through, in_flight, running,
                   vcpuVars, req, tpc>>

\* The deadline passed with too few arrivals, or the count was reached with a
\* slot empty: give the request up and free whoever did arrive.
AbandonTo(c, watermark) ==
    /\ cpc[c] = "waiting"
    /\ arrived < Cardinality(VCPUS) \/ ~AllCaptured
    /\ captures' = [v \in VCPUS |-> 0]
    /\ released_through' = watermark
    /\ in_flight' = FALSE
    /\ vpc' = NotifyAll(vpc)
    /\ cpc' = [cpc EXCEPT ![c] = "poll"]
    /\ UNCHANGED <<epoch, closed, arrived, running, kicked, my_epoch, req, out, tpc>>

\* Mutant: the watermark is lifted one epoch too far.
AbandonTooFar(c) == AbandonTo(c, req[c] + 1)

\* Mutant: the watermark is not lifted.
AbandonKeepsHeld(c) == AbandonTo(c, released_through)

\* A given-up request frees exactly the vCPUs parked for it.
Abandon(c) == AbandonTo(c, req[c])

\* release(): the checkpoint is written, or its write failed; the world goes on.
Release(c) ==
    /\ cpc[c] = "holding"
    /\ released_through' = epoch
    /\ in_flight' = FALSE
    /\ vpc' = NotifyAll(vpc)
    /\ cpc' = [cpc EXCEPT ![c] = "poll"]
    /\ UNCHANGED <<epoch, closed, captures, arrived, running, kicked, my_epoch, req,
                   out, tpc>>

\* After its loop the snapshotter calls close(), which stores the flag first ...
\* (The engine has one snapshotter; were there more, only the last may close.)
CoordCloseFlag(c) ==
    /\ cpc[c] = "ended"
    /\ \A d \in COORDINATORS : cpc[d] \in Ended
    /\ closed' = TRUE
    /\ cpc' = [cpc EXCEPT ![c] = "closing"]
    /\ UNCHANGED <<epoch, captures, arrived, released_through, in_flight, running,
                   vcpuVars, req, out, tpc>>

\* ... then takes the lock, lifts the watermark for good, and notifies.
CoordCloseRelease(c) ==
    /\ cpc[c] = "closing"
    /\ released_through' = MaxEpoch
    /\ in_flight' = FALSE
    /\ vpc' = NotifyAll(vpc)
    /\ cpc' = [cpc EXCEPT ![c] = "finished"]
    /\ UNCHANGED <<epoch, closed, captures, arrived, running, kicked, my_epoch, req,
                   out, tpc>>

-----------------------------------------------------------------------------
(* The orchestrator: supervise, then tear down *)

\* supervise() returns (a limit, an interrupt, or `running` cleared by a vCPU)
\* and the orchestrator clears `running`.
BeginTeardown ==
    /\ tpc = "up"
    /\ running' = FALSE
    /\ tpc' = "stopping"
    /\ UNCHANGED <<gateVars, vcpuVars, coordVars>>

\* Mutant: teardown forces nobody out of the guest.
KickAllMissing ==
    /\ tpc = "stopping"
    /\ tpc' = "kicked"
    /\ UNCHANGED <<gateVars, running, vcpuVars, coordVars>>

\* `for exit in &all_exits { exit() }`
KickAll ==
    /\ tpc = "stopping"
    /\ kicked' = VCPUS
    /\ tpc' = "kicked"
    /\ UNCHANGED <<gateVars, running, vpc, my_epoch, coordVars>>

\* live_snapshotter.join(): it returns once the snapshotter's loop is over.
JoinCoordinators ==
    /\ tpc = "kicked"
    /\ \A c \in COORDINATORS : cpc[c] = "finished"
    /\ tpc' = "joined"
    /\ UNCHANGED <<gateVars, running, vcpuVars, coordVars>>

\* The orchestrator closes as well: there may be no snapshotter.
CloseFlag ==
    /\ tpc = "joined"
    /\ closed' = TRUE
    /\ tpc' = "closing"
    /\ UNCHANGED <<epoch, captures, arrived, released_through, in_flight, running,
                   vcpuVars, coordVars>>

CloseRelease ==
    /\ tpc = "closing"
    /\ released_through' = MaxEpoch
    /\ in_flight' = FALSE
    /\ vpc' = NotifyAll(vpc)
    /\ tpc' = "closed"
    /\ UNCHANGED <<epoch, closed, captures, arrived, running, kicked, my_epoch,
                   coordVars>>

\* `for t in threads { t.join() }`
JoinVcpus ==
    /\ tpc = "closed"
    /\ \A v \in VCPUS : vpc[v] = "done"
    /\ tpc' = "down"
    /\ UNCHANGED <<gateVars, running, vcpuVars, coordVars>>

\* The engine has returned.
Down == tpc = "down" /\ UNCHANGED vars

-----------------------------------------------------------------------------
Vcpu(v) ==
    \/ TestRunning(v) \/ EnterGuest(v) \/ ExitKicked(v) \/ ExitGuest(v)
    \/ StopRunning(v) \/ CheckEpoch(v) \/ Arrive(v) \/ Recheck(v)

Coordinator(c) ==
    \/ Poll(c) \/ Skip(c) \/ Refused(c) \/ Claim(c) \/ Advance(c) \/ Kick(c)
    \/ Stopped(c) \/ Abandon(c) \/ Release(c)
    \/ CoordCloseFlag(c) \/ CoordCloseRelease(c)

Teardown ==
    \/ BeginTeardown \/ KickAll \/ JoinCoordinators \/ CloseFlag
    \/ CloseRelease \/ JoinVcpus

Next ==
    \/ \E v \in VCPUS : Vcpu(v)
    \/ \E c \in COORDINATORS : Coordinator(c)
    \/ OtherKick
    \/ Teardown
    \/ Down

Spec == Init /\ [][Next]_vars

\* Host threads are scheduled, deadlines pass, and hv_vcpus_exit does force its
\* vCPU out. Nothing makes a guest exit on its own, power off, or the
\* orchestrator stop: ExitGuest, StopRunning and BeginTeardown get no fairness.
\* Once a vCPU has cleared `running`, supervise() returns.
Fairness ==
    /\ \A v \in VCPUS :
         /\ WF_vars(TestRunning(v) \/ EnterGuest(v) \/ ExitKicked(v))
         /\ WF_vars(CheckEpoch(v) \/ Arrive(v) \/ Recheck(v))
    /\ \A c \in COORDINATORS : WF_vars(Coordinator(c))
    /\ WF_vars(KickAll \/ JoinCoordinators \/ CloseFlag \/ CloseRelease \/ JoinVcpus)
    /\ WF_vars(~running /\ BeginTeardown)

FairSpec == Spec /\ Fairness

-----------------------------------------------------------------------------
(* Properties *)

\* Type invariant.
TypeOK ==
    /\ epoch \in Epochs
    /\ closed \in BOOLEAN
    /\ captures \in [VCPUS -> Epochs]
    /\ arrived \in Nat
    /\ released_through \in Epochs
    /\ in_flight \in BOOLEAN
    /\ running \in BOOLEAN
    /\ kicked \subseteq VCPUS
    /\ vpc \in [VCPUS -> VcpuPc]
    /\ my_epoch \in [VCPUS -> Epochs]
    /\ cpc \in [COORDINATORS -> CoordPc]
    /\ req \in [COORDINATORS -> Epochs]
    /\ out \in [VCPUS -> Epochs]
    /\ tpc \in TeardownPc

InRequest(c) == cpc[c] \in {"reset", "advanced", "waiting", "holding"}

\* The vCPU is inside arrive_and_park for request e and cannot leave it.
HeldFor(v, e) ==
    /\ vpc[v] \in {"parked", "woken"}
    /\ my_epoch[v] = e
    /\ released_through < e
    /\ ~closed

\* Two coordinators never both believe they stopped the world, and the one
\* that does is the one whose request the epoch names (in_flight).
OneCoordinator ==
    /\ \A c, d \in COORDINATORS : InRequest(c) /\ InRequest(d) => c = d
    /\ \A c \in COORDINATORS : cpc[c] \in {"waiting", "holding"} => req[c] = epoch

\* While a coordinator holds the world, every vCPU whose capture answers that
\* coordinator's own request is held at the barrier: it has run no guest code
\* since the capture and cannot until release(). (arrive_and_park's wait and
\* the released_through watermark.)
OnTimeCapturesAreHeld ==
    \A c \in COORDINATORS, v \in VCPUS :
        cpc[c] = "holding" /\ out[v] = req[c] => HeldFor(v, req[c])

\* stop_the_world never hands back a checkpoint short of a vCPU, even when a
\* slow vCPU was counted twice (the out.len() test).
NoShortCheckpoint ==
    \A c \in COORDINATORS : cpc[c] = "holding" => \A v \in VCPUS : out[v] # 0

\* What stop_the_world documents: until release(), guest RAM has no writer, no
\* vCPU executes guest code. The code does not meet it: a vCPU that is late for
\* an abandoned request is counted towards the next one and is not held.
WorldStopped ==
    \A c \in COORDINATORS :
        cpc[c] = "holding" => \A v \in VCPUS : vpc[v] # "guest"

\* A request is impossible to miss: every vCPU thread notices the epoch a
\* coordinator published, whatever its guest does, unless its loop is over.
RequestNoticed ==
    \A v \in VCPUS :
        (my_epoch[v] < epoch) ~> (my_epoch[v] = epoch \/ vpc[v] = "done")

\* No vCPU is stranded at the barrier: a parked one runs on (or ends) however
\* the request it parked for finished, timed out or was torn down.
NobodyStranded ==
    \A v \in VCPUS : (vpc[v] = "parked") ~> (vpc[v] \in {"loop", "done"})

\* Once `running` is cleared, by a vCPU or by the orchestrator, teardown joins
\* the snapshotter and every vCPU thread, also out of the middle of a request.
TeardownCompletes == ~running ~> tpc = "down"

-----------------------------------------------------------------------------
(* The strengthening that makes OneCoordinator, OnTimeCapturesAreHeld and    *)
(* NoShortCheckpoint inductive.                                              *)

\* A coordinator inside a request owns the gate, alone, before any close();
\* the watermark is still below the epoch it waits for.
RequestInv ==
    /\ \A c, d \in COORDINATORS : InRequest(c) /\ InRequest(d) => c = d
    /\ \A c \in COORDINATORS : InRequest(c) => in_flight /\ ~closed
    /\ \A c \in COORDINATORS : cpc[c] = "reset" => epoch < MaxEpoch
    /\ \A c \in COORDINATORS :
         cpc[c] \in {"advanced", "waiting", "holding"} =>
            req[c] = epoch /\ released_through < epoch

\* The gate is closed only after the coordinators have finished, and until then
\* the watermark does not pass the epoch.
CloseInv ==
    /\ closed => \A c \in COORDINATORS : cpc[c] \in Ended
    /\ \A c \in COORDINATORS : cpc[c] = "closing" => closed
    /\ tpc \in {"joined", "closing", "closed", "down"} =>
         \A c \in COORDINATORS : cpc[c] = "finished"
    /\ (\E c \in COORDINATORS : cpc[c] \notin Ended) => released_through <= epoch

\* No vCPU and no capture is ahead of the epoch; a capture that answers the
\* request in flight belongs to a vCPU held for it.
CaptureInv ==
    /\ \A v \in VCPUS : my_epoch[v] <= epoch /\ captures[v] <= epoch
    /\ \A c \in COORDINATORS, v \in VCPUS :
         cpc[c] \in {"advanced", "waiting"} /\ captures[v] = req[c]
            => HeldFor(v, req[c])

IInv ==
    /\ TypeOK
    /\ RequestInv
    /\ CloseInv
    /\ CaptureInv
    /\ OnTimeCapturesAreHeld
    /\ NoShortCheckpoint

=============================================================================
