----------------------------- MODULE VtimerClock -----------------------------
(***************************************************************************)
(* The shared virtual counter of hypervisor/src/hvf/mod.rs (VtimerClock):  *)
(* one offset that every vCPU programs before it enters the guest, moved   *)
(* by the stepper thread of chm/src/imp.rs onto a scaled curve while no    *)
(* vCPU is in the guest. CNTVCT_EL0 = host ticks - offset, so two vCPUs    *)
(* agree on the time exactly when they have programmed the same offset.    *)
(*                                                                         *)
(* One action is one critical section of the clock's mutex, one access to  *)
(* an atomic outside it, or one call into the hypervisor.                  *)
(***************************************************************************)
EXTENDS Integers, FiniteSets

CONSTANTS
    VCPUS,      \* the vCPU threads
    STEPPERS,   \* the threads that call step(); none for an unscaled clock
    Num, Den,   \* guest_hz / host_hz, reduced
    BaseHost,   \* host tick at which the curve was anchored
    BaseGuest,  \* guest counter at which it was anchored
    MaxNow,     \* bound: the last host tick of the model
    Wrap        \* 2^64: counters and offsets are taken modulo Wrap

ASSUME ClockAssumption ==
    /\ IsFiniteSet(VCPUS)
    /\ Num \in Nat \ {0} /\ Den \in Nat \ {0}
    /\ BaseHost \in Nat /\ BaseGuest \in Nat
    /\ MaxNow \in Nat /\ BaseHost <= MaxNow
    /\ Wrap \in Nat \ {0} /\ MaxNow < Wrap /\ BaseGuest < Wrap

VARIABLES
    now,               \* mach_absolute_time()
    offset,            \* VtimerClock::offset
    epoch,             \* VtimerClock::epoch
    in_guest,          \* ClockGate::in_guest
    stepping,          \* ClockGate::stepping
    running,           \* the engine's run flag
    kicked,            \* vCPUs with an hv_vcpus_exit they have not consumed
    vpc,               \* where each vCPU thread is
    seen,              \* the epoch sync_vtimer_offset has read
    programmed,        \* HVF's virtual-timer offset of each vCPU
    programmed_epoch,  \* HvfVcpu::programmed_epoch
    failed,            \* HvfVcpu::vtimer_reprogram_failed
    last_read,         \* history: the last CNTVCT_EL0 the guest read, anywhere
    spc,               \* where each stepper is
    tpc                \* where the orchestrator's teardown is

clockVars == <<offset, epoch, in_guest, stepping>>
progVars == <<seen, programmed, programmed_epoch, failed>>
vars == <<now, clockVars, running, kicked, vpc, progVars, last_read, spc, tpc>>

\* loop: about to test `running`; entering, waiting, woken: in enter(), before
\* its lock, waiting on the condvar, notified; entered: counted, about to sync;
\* program: found the epoch moved; run: about to call hv_vcpu_run; guest:
\* executing guest code; leaving: out of it, the guard still held; exited: the
\* guard is dropped; done.
VcpuPc == {"loop", "entering", "waiting", "woken", "entered", "program", "run",
           "guest", "leaving", "exited", "done"}

\* idle: the top of the stepper's loop; step: about to call step(); forcing and
\* waiting: inside it, before and after force_exit(); ending: the loop is over.
StepperPc == {"idle", "step", "forcing", "waiting", "ending", "done"}

TeardownPc == {"up", "stopping", "released", "kicked", "joined", "down"}

\* The vCPUs the guard counts.
Inside == {v \in VCPUS : vpc[v] \in {"entered", "program", "run", "guest", "leaving"}}

\* now.saturating_sub(base_host)
Elapsed(t) == IF t < BaseHost THEN 0 ELSE t - BaseHost

\* The counter the scaled curve calls for at host tick t.
scaled_cntvct(t) == (BaseGuest + (Elapsed(t) * Num) \div Den) % Wrap

\* CNTVCT_EL0 under offset o (HVF's definition).
Counter(o) == (now - o) % Wrap

Init ==
    /\ now = BaseHost
    /\ offset = (BaseHost - BaseGuest) % Wrap
    /\ epoch = 1
    /\ in_guest = 0
    /\ stepping = FALSE
    /\ running = TRUE
    /\ kicked = {}
    /\ vpc = [v \in VCPUS |-> "loop"]
    /\ seen = [v \in VCPUS |-> 1]                \* attach_clock has programmed
    /\ programmed = [v \in VCPUS |-> offset]     \* every vCPU once
    /\ programmed_epoch = [v \in VCPUS |-> 1]
    /\ failed = [v \in VCPUS |-> FALSE]
    /\ last_read = BaseGuest
    /\ spc = [s \in STEPPERS |-> "idle"]
    /\ tpc = "up"

\* Host time passes.
Tick ==
    /\ now < MaxNow
    /\ now' = now + 1
    /\ UNCHANGED <<clockVars, running, kicked, vpc, progVars, last_read, spc, tpc>>

\* Condvar::notify_all wakes whoever waits in enter(). (A stepper that waits in
\* step() re-tests in_guest whenever it runs.)
NotifyAll(pc) == [v \in VCPUS |-> IF pc[v] = "waiting" THEN "woken" ELSE pc[v]]

-----------------------------------------------------------------------------
(* vCPU threads: the engine's loop around HvfVcpu::run *)

Go(v, from, to) == vpc[v] = from /\ vpc' = [vpc EXCEPT ![v] = to]

\* `while running`
TestRunning(v) ==
    /\ Go(v, "loop", IF running THEN "entering" ELSE "done")
    /\ UNCHANGED <<now, clockVars, running, kicked, progVars, last_read, spc, tpc>>

\* Mutant: the vCPU enters without being counted.
EnterUncounted(v) ==
    /\ Go(v, "entering", "entered")
    /\ ~stepping
    /\ UNCHANGED <<now, clockVars, running, kicked, progVars, last_read, spc, tpc>>

\* enter() with no step in flight.
Enter(v) ==
    /\ Go(v, "entering", "entered")
    /\ ~stepping
    /\ in_guest' = in_guest + 1
    /\ UNCHANGED <<now, offset, epoch, stepping, running, kicked, progVars, last_read,
                   spc, tpc>>

\* enter() with one: wait on the condvar, once.
EnterWait(v) ==
    /\ Go(v, "entering", "waiting")
    /\ stepping
    /\ UNCHANGED <<now, clockVars, running, kicked, progVars, last_read, spc, tpc>>

\* The wait is over, by a notify or after CLOCK_ENTER_WAIT: enter, whatever
\* `stepping` says now.
EnterAnyway(v, from) ==
    /\ Go(v, from, "entered")
    /\ in_guest' = in_guest + 1
    /\ UNCHANGED <<now, offset, epoch, stepping, running, kicked, progVars, last_read,
                   spc, tpc>>

EnterNotified(v) == EnterAnyway(v, "woken")
EnterTimeout(v) == EnterAnyway(v, "waiting")

\* sync_vtimer_offset: load the epoch, and skip the rest when it is the one
\* this vCPU has programmed.
ReadEpoch(v) ==
    /\ Go(v, "entered", IF programmed_epoch[v] = epoch THEN "run" ELSE "program")
    /\ seen' = [seen EXCEPT ![v] = epoch]
    /\ UNCHANGED <<now, clockVars, running, kicked, programmed, programmed_epoch, failed,
                   last_read, spc, tpc>>

\* Mutant: the epoch is recorded but the offset not programmed.
ProgramForgotten(v) ==
    /\ Go(v, "program", "run")
    /\ programmed_epoch' = [programmed_epoch EXCEPT ![v] = seen[v]]
    /\ UNCHANGED <<now, clockVars, running, kicked, seen, programmed, failed, last_read,
                   spc, tpc>>

\* Load the offset, program it, record the epoch read before.
Program(v) ==
    /\ Go(v, "program", "run")
    /\ programmed' = [programmed EXCEPT ![v] = offset]
    /\ programmed_epoch' = [programmed_epoch EXCEPT ![v] = seen[v]]
    /\ UNCHANGED <<now, clockVars, running, kicked, seen, failed, last_read, spc, tpc>>

\* hv_vcpu_set_vtimer_offset fails: warn, once, and go on with the old offset.
ProgramFails(v) ==
    /\ Go(v, "program", "run")
    /\ failed' = [failed EXCEPT ![v] = TRUE]
    /\ UNCHANGED <<now, clockVars, running, kicked, seen, programmed, programmed_epoch,
                   last_read, spc, tpc>>

StartGuest(v) ==
    /\ Go(v, "run", "guest")
    /\ v \notin kicked
    /\ UNCHANGED <<now, clockVars, running, kicked, progVars, last_read, spc, tpc>>

\* Guest code reads CNTVCT_EL0.
GuestRead(v) ==
    /\ vpc[v] = "guest"
    /\ last_read' = Counter(programmed[v])
    /\ UNCHANGED <<now, clockVars, running, kicked, vpc, progVars, spc, tpc>>

\* hv_vcpu_run returns CANCELED: at once when an exit is pending, or out of the
\* guest.
ExitKicked(v) ==
    /\ Go(v, "run", "leaving") \/ Go(v, "guest", "leaving")
    /\ v \in kicked
    /\ kicked' = kicked \ {v}
    /\ UNCHANGED <<now, clockVars, running, progVars, last_read, spc, tpc>>

\* Any other exit.
ExitGuest(v) ==
    /\ Go(v, "guest", "leaving")
    /\ UNCHANGED <<now, clockVars, running, kicked, progVars, last_read, spc, tpc>>

\* ClockGuard::drop: leave(), which notifies when a step waits for the last one.
Leave(v) ==
    /\ vpc[v] = "leaving"
    /\ in_guest' = in_guest - 1
    /\ LET others == IF stepping /\ in_guest - 1 = 0 THEN NotifyAll(vpc) ELSE vpc
       IN  vpc' = [others EXCEPT ![v] = "exited"]
    /\ UNCHANGED <<now, offset, epoch, stepping, running, kicked, progVars, last_read,
                   spc, tpc>>

\* The exit is serviced.
Serviced(v) ==
    /\ Go(v, "exited", "loop")
    /\ UNCHANGED <<now, clockVars, running, kicked, progVars, last_read, spc, tpc>>

\* The guest powered off, or the run failed.
StopRunning(v) ==
    /\ Go(v, "exited", "done")
    /\ running' = FALSE
    /\ UNCHANGED <<now, clockVars, kicked, progVars, last_read, spc, tpc>>

-----------------------------------------------------------------------------
(* The stepper: spawn_vtimer_stepper's loop around VtimerClock::step *)

Move(s, from, to) == spc[s] = from /\ spc' = [spc EXCEPT ![s] = to]

StepperTest(s) ==
    /\ Move(s, "idle", IF running THEN "step" ELSE "ending")
    /\ UNCHANGED <<now, clockVars, running, kicked, vpc, progVars, last_read, tpc>>

\* Another step is in flight: false.
StepBusy(s) ==
    /\ Move(s, "step", "idle")
    /\ stepping
    /\ UNCHANGED <<now, clockVars, running, kicked, vpc, progVars, last_read, tpc>>

StepClaim(s) ==
    /\ Move(s, "step", "forcing")
    /\ ~stepping
    /\ stepping' = TRUE
    /\ UNCHANGED <<now, offset, epoch, in_guest, running, kicked, vpc, progVars,
                   last_read, tpc>>

\* force_exit()
ForceExit(s) ==
    /\ Move(s, "forcing", "waiting")
    /\ kicked' = VCPUS
    /\ UNCHANGED <<now, clockVars, running, vpc, progVars, last_read, tpc>>

\* Mutant: a step takes the whole gain since the anchor off the current offset.
NextOffsetCumulative ==
    (offset - (scaled_cntvct(now) - BaseGuest - Elapsed(now))) % Wrap

\* The offset that puts the counter on the curve now.
NextOffset == (now - scaled_cntvct(now)) % Wrap

\* The end of step(): publish when `advance`, then let the vCPUs in again.
EndStep(s, advance) ==
    /\ Move(s, "waiting", "idle")
    /\ offset' = IF advance THEN NextOffset ELSE offset
    /\ epoch' = IF advance THEN epoch + 1 ELSE epoch
    /\ stepping' = FALSE
    /\ vpc' = NotifyAll(vpc)
    /\ UNCHANGED <<now, in_guest, running, kicked, progVars, last_read, tpc>>

\* Mutant: the step does not wait for the vCPUs.
PublishAnyway(s) == EndStep(s, NextOffset < offset)

\* Every vCPU is out: publish the curve's offset if it is below the old one.
Publish(s) == in_guest = 0 /\ EndStep(s, NextOffset < offset)

\* The deadline passed first: abandon the step.
GiveUp(s) == in_guest > 0 /\ EndStep(s, FALSE)

\* After the loop the stepper calls release().
StepperRelease(s) ==
    /\ Move(s, "ending", "done")
    /\ stepping' = FALSE
    /\ vpc' = NotifyAll(vpc)
    /\ UNCHANGED <<now, offset, epoch, in_guest, running, kicked, progVars, last_read, tpc>>

-----------------------------------------------------------------------------
(* The orchestrator's teardown *)

Then(from, to) == tpc = from /\ tpc' = to

BeginTeardown ==
    /\ Then("up", "stopping")
    /\ running' = FALSE
    /\ UNCHANGED <<now, clockVars, kicked, vpc, progVars, last_read, spc>>

\* clock.release()
ReleaseClock ==
    /\ Then("stopping", "released")
    /\ stepping' = FALSE
    /\ vpc' = NotifyAll(vpc)
    /\ UNCHANGED <<now, offset, epoch, in_guest, running, kicked, progVars, last_read, spc>>

KickAll ==
    /\ Then("released", "kicked")
    /\ kicked' = VCPUS
    /\ UNCHANGED <<now, clockVars, running, vpc, progVars, last_read, spc>>

JoinStepper ==
    /\ Then("kicked", "joined")
    /\ \A s \in STEPPERS : spc[s] = "done"
    /\ UNCHANGED <<now, clockVars, running, kicked, vpc, progVars, last_read, spc>>

JoinVcpus ==
    /\ Then("joined", "down")
    /\ \A v \in VCPUS : vpc[v] = "done"
    /\ UNCHANGED <<now, clockVars, running, kicked, vpc, progVars, last_read, spc>>

Down == tpc = "down" /\ UNCHANGED vars

-----------------------------------------------------------------------------
Entering(v) ==
    \/ TestRunning(v) \/ Enter(v) \/ EnterWait(v) \/ EnterNotified(v)
    \/ EnterTimeout(v) \/ ReadEpoch(v) \/ Program(v) \/ ProgramFails(v) \/ StartGuest(v)

Leaving(v) == ExitKicked(v) \/ Leave(v) \/ Serviced(v)

Vcpu(v) == Entering(v) \/ GuestRead(v) \/ ExitGuest(v) \/ Leaving(v) \/ StopRunning(v)

Stepper(s) ==
    \/ StepperTest(s) \/ StepBusy(s) \/ StepClaim(s) \/ ForceExit(s) \/ Publish(s)
    \/ GiveUp(s) \/ StepperRelease(s)

Teardown == BeginTeardown \/ ReleaseClock \/ KickAll \/ JoinStepper \/ JoinVcpus

Next ==
    \/ Tick
    \/ \E v \in VCPUS : Vcpu(v)
    \/ \E s \in STEPPERS : Stepper(s)
    \/ Teardown
    \/ Down

Spec == Init /\ [][Next]_vars

-----------------------------------------------------------------------------
(* Properties *)

\* Type invariant.
TypeOK ==
    /\ now \in BaseHost..MaxNow
    /\ offset \in 0..(Wrap - 1)
    /\ epoch \in Nat
    /\ in_guest \in Nat
    /\ stepping \in BOOLEAN
    /\ running \in BOOLEAN
    /\ kicked \subseteq VCPUS
    /\ vpc \in [VCPUS -> VcpuPc]
    /\ seen \in [VCPUS -> Nat]
    /\ programmed \in [VCPUS -> 0..(Wrap - 1)]
    /\ programmed_epoch \in [VCPUS -> Nat]
    /\ failed \in [VCPUS -> BOOLEAN]
    /\ last_read \in 0..(Wrap - 1)
    /\ spc \in [STEPPERS -> StepperPc]
    /\ tpc \in TeardownPc

\* Guest code never runs under another offset than its siblings': a vCPU in the
\* guest has the clock's offset programmed, also across a step that races its
\* entry and an entry that did not wait for the step (unless the hypervisor
\* refused the offset, which is reported).
CoherentOffset ==
    \A v \in VCPUS : vpc[v] = "guest" /\ ~failed[v] => programmed[v] = offset

\* The guest's clocksource never runs backwards, whichever vCPU reads it next:
\* the guard of step() ("a backwards offset move would rewind the guest's clock").
NeverRewinds ==
    [][last_read' >= last_read \/ \E v \in VCPUS : failed[v]]_vars

\* Abandoned and dropped steps leave the guest "slow but correct": its counter is
\* never behind the host's rate since the anchor and never past the scaled
\* curve, also where the curve overtakes the host's clock and step() drops every
\* further offset.
SlowButCorrect ==
    /\ BaseGuest + Elapsed(now) <= Counter(offset)
    /\ Counter(offset) <= scaled_cntvct(now)

\* A step that finds every vCPU out leaves the counter on the scaled curve
\* ("Advance the offset onto the scaled curve"). False once the curve overtakes
\* the host's clock: the new offset is then the larger one.
StepReachesCurve ==
    [][\A s \in STEPPERS :
         spc[s] = "waiting" /\ spc'[s] = "idle" /\ in_guest = 0
            => (now - offset') % Wrap = scaled_cntvct(now)]_vars

\* What enter() documents: it blocks while a step is in flight, up to
\* CLOCK_ENTER_WAIT. A vCPU that has not waited that long does not enter under
\* a step.
EntryWaitsForStep ==
    [][\A v \in VCPUS : vpc[v] = "woken" /\ vpc'[v] = "entered" => ~stepping]_vars

-----------------------------------------------------------------------------
(* The strengthening that makes CoherentOffset inductive.                    *)

\* The guard's count is exact.
CountInv == in_guest = Cardinality(Inside)

\* Whoever has programmed the current epoch has programmed its offset.
EpochInv ==
    \A v \in VCPUS :
        /\ programmed_epoch[v] <= epoch
        /\ programmed_epoch[v] = epoch => programmed[v] = offset

\* An entry in progress holds the epoch still.
EntryInv ==
    \A v \in VCPUS :
        /\ vpc[v] = "program" => seen[v] = epoch
        /\ vpc[v] \in {"run", "guest"} /\ ~failed[v] => programmed_epoch[v] = epoch

IInv == TypeOK /\ CountInv /\ EpochInv /\ EntryInv

=============================================================================
