------------------------------- MODULE UserGic -------------------------------
(***************************************************************************)
(* The user-space interrupt controller (hypervisor/src/hvf/mod.rs): per    *)
(* vCPU a queue that other threads inject into, a list of pending INTIDs   *)
(* and a stack of active ones, and the raw interrupt line that HVF samples *)
(* on entry.  A vCPU thread alternates between run() and the guest; every  *)
(* access of the guest to its CPU interface is an exit.                    *)
(*                                                                         *)
(* One interrupt of each class is enough to tell the paths apart: "ppi" is *)
(* the virtual timer (27), "sgi" an inter-processor interrupt, "spi" a     *)
(* device line routed by GICD_IROUTER, "lpi" a device message that always  *)
(* goes to vCPU 0.  The guest's handlers are external: a handler           *)
(* acknowledges, looks at the source (Handle), and ends the interrupt.     *)
(***************************************************************************)
EXTENDS Integers, Sequences, FiniteSets

CONSTANTS CPUS,        \* vCPU indices
          MaxRaise,    \* bound: interrupts raised by devices and by IPIs
          Checkpoints  \* whether the session is checkpointed and resumed

ASSUME UserGicAssumption ==
    /\ CPUS \subseteq Nat
    /\ 0 \in CPUS
    /\ IsFiniteSet(CPUS)
    /\ MaxRaise \in Nat
    /\ Checkpoints \in BOOLEAN

Timer == "ppi"
EVENTS == {"sgi", "spi", "lpi"}
INTIDS == EVENTS \cup {Timer}

\* GICD_IROUTER.IRM: any vCPU.
OneOfN == -1

VARIABLES queue,    \* inject_queue of a vCPU
          batch,    \* what usgic_drain_injected has taken from it
          pending,  \* UserGic::pending
          active,   \* UserGic::active
          line,     \* the raw IRQ line (external)
          vmask,    \* HVF's mask of the virtual timer (external)
          place,    \* where the vCPU thread is
          eoimode,  \* ICC_CTLR_EL1.EOImode
          spi_on,   \* the distributor's enable bit of the SPI
          route,    \* its GICD_IROUTER
          sgi_on,   \* the enable bit of the SGI in each redistributor
          saved,    \* what a vCPU at the gate has captured of those
          timer,    \* the guest's timer: "off", "armed" or "due"
          masked,   \* PSTATE.I (external)
          phase,    \* how far the guest's handler of an interrupt is (external)
          owed,     \* history: raised at a vCPU and not yet looked at
          lost,     \* history: why what is owed may never arrive
          raised    \* interrupts raised so far

gic == <<queue, batch, pending, active, eoimode, spi_on, route, sgi_on, saved>>
hvf == <<line, vmask>>
guest == <<timer, masked, phase>>
history == <<owed, lost, raised>>
vars == <<queue, batch, pending, active, line, vmask, place, eoimode, spi_on,
          route, sgi_on, saved, timer, masked, phase, owed, lost, raised>>

\* The places of a list an interrupt is at.
In(i, list) == \E k \in 1..Len(list) : list[k] = i

\* UsgicCheckpoint: a clone of the distributor, which the vCPUs share, and of the
\* vCPU's own redistributor.
Config(c) == [spi |-> spi_on, route |-> route, sgi |-> sgi_on[c]]

\* What stands for it between two checkpoints.
Fresh == [spi |-> TRUE, route |-> 0, sgi |-> TRUE]

Init ==
    /\ queue = [c \in CPUS |-> <<>>]
    /\ batch = [c \in CPUS |-> <<>>]
    /\ pending = [c \in CPUS |-> <<>>]
    /\ active = [c \in CPUS |-> <<>>]
    /\ line = [c \in CPUS |-> FALSE]
    /\ vmask = [c \in CPUS |-> FALSE]
    /\ place = [c \in CPUS |-> "host"]
    /\ eoimode \in {0, 1}
    /\ spi_on = TRUE
    /\ route = 0
    /\ sgi_on = [c \in CPUS |-> TRUE]
    /\ saved = [c \in CPUS |-> Fresh]
    /\ timer = [c \in CPUS |-> "armed"]
    /\ masked = [c \in CPUS |-> FALSE]
    /\ phase = [c \in CPUS |-> [i \in INTIDS |-> "none"]]
    /\ owed = [c \in CPUS |-> {}]
    /\ lost = [c \in CPUS |-> [i \in EVENTS |-> {}]]
    /\ raised = 0

Go(c, p) == place' = [place EXCEPT ![c] = p]

-----------------------------------------------------------------------------
\* The CPU interface.

\* Mutant: an interrupt that is being handled may be queued again.
PushAlways(c, i) == IF In(i, pending[c]) THEN pending[c] ELSE Append(pending[c], i)

\* push_pending: not while it is active at any depth, and not twice.
PushPending(c, i) ==
    IF In(i, active[c]) \/ In(i, pending[c]) THEN pending[c] ELSE Append(pending[c], i)

\* Mutant: a spurious read is pushed on the stack too.
AcknowledgeAny(c) ==
    Append(active[c], IF pending[c] = <<>> THEN "spurious" ELSE Head(pending[c]))

\* read_iar: the stack after an acknowledge.
Acknowledge(c) ==
    IF pending[c] = <<>> THEN active[c] ELSE Append(active[c], Head(pending[c]))

\* should_assert.
ShouldAssert(c) == pending[c] # <<>> /\ active[c] = <<>>

\* The last place of an interrupt on the stack.
LastPlace(i, list) ==
    CHOOSE k \in 1..Len(list) : list[k] = i /\ \A j \in (k + 1)..Len(list) : list[j] # i

\* A list without its k-th element.
Without(list, k) == [j \in 1..(Len(list) - 1) |-> IF j < k THEN list[j] ELSE list[j + 1]]

\* deactivate: by name, wherever it is on the stack (rposition).
Deactivate(c, i) ==
    IF In(i, active[c]) THEN Without(active[c], LastPlace(i, active[c])) ELSE active[c]

\* usgic_assert_spi of the timer, whose enable the guest leaves on: pending, and
\* the line up even when another interrupt is active.
AssertTimer(c) ==
    /\ pending' = [pending EXCEPT ![c] = PushPending(c, Timer)]
    /\ line' = [line EXCEPT ![c] = TRUE]

-----------------------------------------------------------------------------
\* Sources, on any thread.

\* What a thread that raises an interrupt does: push and wake.
Inject(c, i) ==
    /\ raised < MaxRaise
    /\ raised' = raised + 1
    /\ queue' = [queue EXCEPT ![c] = Append(@, i)]
    /\ owed' = [owed EXCEPT ![c] = @ \cup {i}]

\* resolve_spi_target: vCPU 0 for "any of them" and for one that is not there.
SpiTarget(affinity) == IF affinity \in CPUS THEN affinity ELSE 0

\* UsgicSpiRouter::deliver_spi: to the vCPU the router names.
DeliverSpi ==
    /\ Inject(SpiTarget(route), "spi")
    /\ UNCHANGED <<batch, pending, active, eoimode, spi_on, route, sgi_on, saved, hvf, place, guest, lost>>

\* UsgicLpiSink::deliver: to the boot vCPU.
DeliverLpi ==
    /\ Inject(0, "lpi")
    /\ UNCHANGED <<batch, pending, active, eoimode, spi_on, route, sgi_on, saved, hvf, place, guest, lost>>

\* Time passes: an armed deadline is due.
TimerDue(c) ==
    /\ timer[c] = "armed"
    /\ timer' = [timer EXCEPT ![c] = "due"]
    /\ UNCHANGED <<gic, hvf, place, masked, phase, history>>

-----------------------------------------------------------------------------
\* run(), up to hv_vcpu_run.

\* usgic_drain_injected, first lock: mem::take of the queue.  Also in the idle
\* park, after a timer that is due has been asserted.
TakeQueue(c) ==
    /\ \/ place[c] = "host" /\ Go(c, "apply") /\ UNCHANGED <<pending, line>>
       \/ /\ place[c] = "park"
          /\ Go(c, "parkapply")
          /\ IF timer[c] = "due" THEN AssertTimer(c) ELSE UNCHANGED <<pending, line>>
    /\ batch' = [batch EXCEPT ![c] = queue[c]]
    /\ queue' = [queue EXCEPT ![c] = <<>>]
    /\ UNCHANGED <<active, eoimode, spi_on, route, sgi_on, saved, vmask, guest, history>>

\* Whether the drain lets an interrupt through.
Enabled(c, i) ==
    CASE i = "lpi" -> TRUE
      [] i = "sgi" -> sgi_on[c]
      [] i = "spi" -> spi_on

\* One interrupt of the batch, gated on its enable bit.  One that is refused is
\* lost to the handler that has already looked.
PushOne(c) ==
    /\ place[c] \in {"apply", "parkapply"}
    /\ batch[c] # <<>>
    /\ LET i == Head(batch[c]) IN
       /\ pending' = [pending EXCEPT ![c] = IF Enabled(c, i) THEN PushPending(c, i) ELSE @]
       /\ lost' = [lost EXCEPT ![c][i] =
                     IF ~Enabled(c, i) THEN @ \cup {"disabled"}
                     ELSE IF In(i, active[c]) THEN @ \cup {"active"} ELSE @]
    /\ batch' = [batch EXCEPT ![c] = Tail(@)]
    /\ UNCHANGED <<active, eoimode, spi_on, route, sgi_on, saved, hvf, place, guest, owed, raised>>

\* Mutant: the queue is copied, and emptied after the copy has been applied.
ApplyThenClear(c) == PushOne(c) /\ queue' = [queue EXCEPT ![c] = <<>>]

\* usgic_drain_injected, second lock.
ApplyOne(c) == PushOne(c) /\ UNCHANGED queue

\* Mutant: the timer is left to VTIMER_ACTIVATED.
RefreshOnly(c) == line' = [line EXCEPT ![c] = @ \/ ShouldAssert(c)] /\ UNCHANGED pending

\* usgic_poll_vtimer, then usgic_refresh_irq_line.
PollAndRefresh(c) ==
    IF timer[c] = "due"
    THEN AssertTimer(c)
    ELSE line' = [line EXCEPT ![c] = @ \/ ShouldAssert(c)] /\ UNCHANGED pending

\* The rest of the entry, and hv_vcpu_run.
Enter(c) ==
    /\ place[c] = "apply"
    /\ batch[c] = <<>>
    /\ PollAndRefresh(c)
    /\ Go(c, "guest")
    /\ UNCHANGED <<queue, batch, active, eoimode, spi_on, route, sgi_on, saved, vmask, guest, history>>

\* The park ends when there is something to take, and after a second in any case.
ParkOver(c) ==
    /\ place[c] = "parkapply"
    /\ batch[c] = <<>>
    /\ Go(c, "host")
    /\ UNCHANGED <<gic, hvf, guest, history>>

\* Otherwise the thread naps, until a wake or for a few milliseconds.
ParkNap(c) ==
    /\ place[c] = "parkapply"
    /\ batch[c] = <<>>
    /\ ~ShouldAssert(c)
    /\ Go(c, "park")
    /\ UNCHANGED <<gic, hvf, guest, history>>

-----------------------------------------------------------------------------
\* Exits of the guest.

\* Nothing for the interrupt controller: a device access, or hv_vcpus_exit from
\* the run watchdog, after which a timer the guest has enabled is unmasked.
OtherExit(c) ==
    /\ place[c] = "guest"
    /\ Go(c, "host")
    /\ vmask' \in {vmask, [vmask EXCEPT ![c] = @ /\ timer[c] = "off"]}
    /\ UNCHANGED <<gic, line, guest, history>>

\* A read of another register of the CPU interface (ICC_RPR_EL1, ICC_HPPIR1_EL1
\* and the rest): the line drops unless it should be up.
ReadIcc(c) ==
    /\ place[c] = "guest"
    /\ line' = [line EXCEPT ![c] = @ /\ ShouldAssert(c)]
    /\ Go(c, "host")
    /\ UNCHANGED <<gic, vmask, guest, history>>

\* WFI or WFE with interrupts unmasked and none taken.
Wfx(c) ==
    /\ place[c] = "guest"
    /\ ~(line[c] /\ ~masked[c])
    /\ Go(c, "park")
    /\ UNCHANGED <<gic, hvf, guest, history>>

\* HV_EXIT_REASON_VTIMER_ACTIVATED: HVF masks the timer on the way out.
VtimerActivated(c) ==
    /\ place[c] = "guest"
    /\ timer[c] = "due"
    /\ ~vmask[c]
    /\ vmask' = [vmask EXCEPT ![c] = TRUE]
    /\ AssertTimer(c)
    /\ Go(c, "host")
    /\ UNCHANGED <<queue, batch, active, eoimode, spi_on, route, sgi_on, saved, guest, history>>

\* The guest takes the line and reads ICC_IAR1_EL1 (read_iar): the oldest
\* pending interrupt becomes active, or the read is spurious.  Nothing can be
\* asserted after either, so the line drops.
ReadIar(c) ==
    /\ place[c] = "guest"
    /\ line[c]
    /\ ~masked[c]
    /\ active' = [active EXCEPT ![c] = Acknowledge(c)]
    /\ IF pending[c] = <<>>
       THEN UNCHANGED <<pending, masked, phase>>
       ELSE /\ pending' = [pending EXCEPT ![c] = Tail(@)]
            /\ phase' = [phase EXCEPT ![c][Head(pending[c])] = "taken"]
            /\ masked' = [masked EXCEPT ![c] = TRUE]
    /\ line' = [line EXCEPT ![c] = FALSE]
    /\ Go(c, "host")
    /\ UNCHANGED <<queue, batch, eoimode, spi_on, route, sgi_on, saved, vmask, timer, history>>

\* The handler looks at the source (external): the device's rings, the flags
\* of an IPI, the deadline, which it sets anew or disables.  With EOImode 1 the
\* end of a device's interrupt may be left to a thread, and the guest can be
\* interrupted again before it; the timer's handler runs to its end masked.
Handle(c, i) ==
    /\ place[c] = "guest"
    /\ phase[c][i] = IF eoimode = 0 THEN "taken" ELSE "dropped"
    /\ phase' = [phase EXCEPT ![c][i] = "looked"]
    /\ IF i = Timer
       THEN (\E t \in {"off", "armed"} : timer' = [timer EXCEPT ![c] = t]) /\ UNCHANGED <<owed, lost>>
       ELSE LET seen == IF i = "sgi" THEN {c} ELSE CPUS IN
            /\ owed' = [d \in CPUS |-> IF d \in seen THEN owed[d] \ {i} ELSE owed[d]]
            /\ lost' = [d \in CPUS |-> IF d \in seen THEN [lost[d] EXCEPT ![i] = {}] ELSE lost[d]]
            /\ UNCHANGED timer
    /\ masked' = [masked EXCEPT ![c] = @ /\ ~(eoimode = 1 /\ i # Timer)]
    /\ UNCHANGED <<gic, hvf, place, raised>>

\* The timer, once it is no longer active, is unmasked again.
Rearm(c, i) == vmask' = [vmask EXCEPT ![c] = @ /\ i # Timer]

\* ICC_EOIR1_EL1 (write_eoir): with EOImode 0 it deactivates; with EOImode 1 it
\* only drops the priority.
WriteEoir(c, i) ==
    /\ place[c] = "guest"
    /\ \/ /\ eoimode = 0
          /\ phase[c][i] = "looked"
          /\ active' = [active EXCEPT ![c] = Deactivate(c, i)]
          /\ phase' = [phase EXCEPT ![c][i] = "none"]
          /\ masked' = [masked EXCEPT ![c] = FALSE]
          /\ Rearm(c, i)
       \/ /\ eoimode = 1
          /\ phase[c][i] = "taken"
          /\ phase' = [phase EXCEPT ![c][i] = "dropped"]
          /\ UNCHANGED <<active, masked, vmask>>
    /\ Go(c, "host")
    /\ UNCHANGED <<queue, batch, pending, eoimode, spi_on, route, sgi_on, saved, line, timer, history>>

\* ICC_DIR_EL1 (write_dir).
WriteDir(c, i) ==
    /\ place[c] = "guest"
    /\ eoimode = 1
    /\ phase[c][i] = "looked"
    /\ active' = [active EXCEPT ![c] = Deactivate(c, i)]
    /\ phase' = [phase EXCEPT ![c][i] = "none"]
    /\ masked' = [masked EXCEPT ![c] = @ /\ i # Timer]
    /\ Rearm(c, i)
    /\ Go(c, "host")
    /\ UNCHANGED <<queue, batch, pending, eoimode, spi_on, route, sgi_on, saved, line, timer, history>>

\* ICC_SGI1R_EL1 (usgic_route_sgi): into the queue of the target.
SendSgi(c, d) ==
    /\ place[c] = "guest"
    /\ Inject(d, "sgi")
    /\ Go(c, "host")
    /\ UNCHANGED <<batch, pending, active, eoimode, spi_on, route, sgi_on, saved, hvf, guest, lost>>

\* The guest enables or disables the SPI, or changes its affinity.
WriteDist(c) ==
    /\ place[c] = "guest"
    /\ spi_on' \in BOOLEAN
    /\ route' \in CPUS \cup {OneOfN}
    /\ Go(c, "host")
    /\ UNCHANGED <<queue, batch, pending, active, eoimode, sgi_on, saved, hvf, guest, history>>

\* It enables or disables the SGI of a vCPU: any core may touch any frame.
WriteRedist(c, d) ==
    /\ place[c] = "guest"
    /\ sgi_on' = [sgi_on EXCEPT ![d] = ~@]
    /\ Go(c, "host")
    /\ UNCHANGED <<queue, batch, pending, active, eoimode, spi_on, route, saved, hvf, guest,
                   history>>

-----------------------------------------------------------------------------
\* Checkpoints.  A vCPU captures itself between two entries and waits at the
\* gate.  Its pending and active lists do not change while it waits; its queue is
\* not captured, and the distributor and the redistributors may still be written
\* by a vCPU that runs.

Capture(c) ==
    /\ Checkpoints
    /\ place[c] = "host"
    /\ saved' = [saved EXCEPT ![c] = Config(c)]
    /\ Go(c, "gate")
    /\ UNCHANGED <<queue, batch, pending, active, eoimode, spi_on, route, sgi_on, hvf, guest,
                   history>>

\* The live snapshot is over and the guest goes on.
Release ==
    /\ \A c \in CPUS : place[c] = "gate"
    /\ place' = [c \in CPUS |-> "host"]
    /\ saved' = [c \in CPUS |-> Fresh]
    /\ UNCHANGED <<queue, batch, pending, active, eoimode, spi_on, route, sgi_on, hvf, guest,
                   history>>

\* The session ends and another one resumes the checkpoint
\* (usgic_restore_softgic): a new process, with empty queues.  Every vCPU's
\* thread puts its own clone in the shared distributor, so the last one's stays.
Resume ==
    /\ \A c \in CPUS : place[c] = "gate"
    /\ place' = [c \in CPUS |-> "host"]
    /\ queue' = [c \in CPUS |-> <<>>]
    /\ line' = [c \in CPUS |-> FALSE]
    /\ vmask' = [c \in CPUS |-> FALSE]
    /\ \E last \in CPUS : spi_on' = saved[last].spi /\ route' = saved[last].route
    /\ sgi_on' = [c \in CPUS |-> saved[c].sgi]
    /\ saved' = [c \in CPUS |-> Fresh]
    /\ lost' = [c \in CPUS |-> [i \in EVENTS |->
                  IF In(i, queue[c]) THEN lost[c][i] \cup {"queued"} ELSE lost[c][i]]]
    /\ UNCHANGED <<batch, pending, active, eoimode, guest, owed, raised>>

-----------------------------------------------------------------------------
Vcpu(c) ==
    \/ TakeQueue(c) \/ ApplyOne(c) \/ Enter(c) \/ ParkOver(c) \/ ParkNap(c)

Handler(c) ==
    \/ ReadIar(c)
    \/ \E i \in INTIDS : Handle(c, i) \/ WriteEoir(c, i) \/ WriteDir(c, i)

Guest(c) ==
    \/ OtherExit(c) \/ ReadIcc(c) \/ Wfx(c) \/ VtimerActivated(c) \/ Handler(c) \/ WriteDist(c)
    \/ \E d \in CPUS : SendSgi(c, d) \/ WriteRedist(c, d)

Next ==
    \/ \E c \in CPUS : Vcpu(c) \/ Guest(c) \/ TimerDue(c) \/ Capture(c)
    \/ DeliverSpi \/ DeliverLpi \/ Release \/ Resume

Spec == Init /\ [][Next]_vars

\* The thread of a vCPU runs, between two checkpoints too (the cadence waits its
\* interval); the run watchdog forces an exit; a guest that can take an interrupt
\* takes it, and its handlers end.  Devices and time owe nothing; a checkpoint
\* that has begun is taken and the world released.
Fairness ==
    /\ WF_vars(Release)
    /\ \A c \in CPUS :
          /\ SF_vars(Vcpu(c)) /\ SF_vars(ParkOver(c))
          /\ WF_vars(OtherExit(c))
          /\ WF_vars(Capture(c) /\ \E d \in CPUS : place[d] = "gate")
          /\ SF_vars(Handler(c))

FairSpec == Spec /\ Fairness

-----------------------------------------------------------------------------
PLACES == {"host", "apply", "guest", "park", "parkapply", "gate"}

\* The type of every variable.
TypeOK ==
    /\ queue \in [CPUS -> Seq(EVENTS)]
    /\ batch \in [CPUS -> Seq(EVENTS)]
    /\ pending \in [CPUS -> Seq(INTIDS)]
    /\ active \in [CPUS -> Seq(INTIDS)]
    /\ line \in [CPUS -> BOOLEAN]
    /\ vmask \in [CPUS -> BOOLEAN]
    /\ place \in [CPUS -> PLACES]
    /\ eoimode \in {0, 1}
    /\ spi_on \in BOOLEAN
    /\ route \in CPUS \cup {OneOfN}
    /\ sgi_on \in [CPUS -> BOOLEAN]
    /\ saved \in [CPUS -> [spi : BOOLEAN, route : CPUS \cup {OneOfN}, sgi : BOOLEAN]]
    /\ timer \in [CPUS -> {"off", "armed", "due"}]
    /\ masked \in [CPUS -> BOOLEAN]
    /\ phase \in [CPUS -> [INTIDS -> {"none", "taken", "dropped", "looked"}]]
    /\ owed \in [CPUS -> SUBSET EVENTS]
    /\ lost \in [CPUS -> [EVENTS -> SUBSET {"active", "disabled", "queued"}]]
    /\ raised \in 0..MaxRaise

\* A list without repetitions.
Once(list) == \A j, k \in 1..Len(list) : list[j] = list[k] => j = k

\* The CPU interface holds an interrupt once: it is not queued twice, not queued
\* while it is active, and active exactly while the guest owes it an end, so
\* that no interrupt stays active for ever and none is taken again inside its
\* own handler.
DeliveredOnce ==
    \A c \in CPUS :
        /\ Once(pending[c])
        /\ Once(active[c])
        /\ \A i \in INTIDS :
              /\ ~(In(i, pending[c]) /\ In(i, active[c]))
              /\ In(i, active[c]) <=> phase[c][i] # "none"

\* An interrupt on its way to the handler that has to look: queued, being
\* drained, pending, or active with the handler still to look.
InFlight(c, i) ==
    \/ In(i, queue[c])
    \/ In(i, batch[c])
    \/ In(i, pending[c])
    \/ phase[c][i] \in {"taken", "dropped"}

\* No interrupt is lost on its way through the queue, the drain and the CPU
\* interface, except for the three reasons the code has: it was drained while
\* active, or while it was disabled, or it was in the queue of a session
\* that was captured.
NoneLost == \A c \in CPUS : \A i \in owed[c] : lost[c][i] = {} => InFlight(c, i)

\* A checkpoint keeps the interrupts of the completions it contains: none is
\* lost because it was in the queue of its vCPU when the checkpoint was complete.
\* It may have been pushed before that vCPU captured itself or after, while the
\* others were still on their way to the gate.
CheckpointKeepsQueued ==
    \A c \in CPUS : \A i \in owed[c] : lost[c][i] \subseteq {"queued"} => InFlight(c, i)

\* A resumed guest finds the interrupt settings it last wrote
\* (usgic_restore_softgic).
ResumeKeepsSettings == [][Resume => UNCHANGED <<spi_on, route, sgi_on>>]_vars

\* The drain always queues an LPI.
LpiAlwaysQueued ==
    \A c \in CPUS : "lpi" \in owed[c] /\ lost[c]["lpi"] \subseteq {"active"}
        => InFlight(c, "lpi")

\* A timer that is due is taken by the guest, wherever its vCPU is: in the
\* guest, in run(), parked, or captured and resumed.
TickReturns == \A c \in CPUS : timer[c] = "due" ~> timer[c] # "due"

=============================================================================
