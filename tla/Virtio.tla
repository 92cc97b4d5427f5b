------------------------------- MODULE Virtio -------------------------------
(***************************************************************************)
(* A virtio device of the HVF back end (hypervisor/src/hvf/virtio): its    *)
(* split queues, the core that drains them under one lock, the two         *)
(* transports in front of it (virtio-pci, which signals from the core, and *)
(* virtio-mmio, which latches InterruptStatus and signals afterwards), and *)
(* the net service thread with the wake handle it sleeps on.               *)
(*                                                                         *)
(* A request is the number of its place in the available ring.  Indices    *)
(* are 16 bits wide in the code and Wrap values wide here.  What a request *)
(* asks for and the frames' bytes are left out.  The guest's driver is     *)
(* external: it posts, decides whether to kick, and takes completions in   *)
(* its interrupt handler, the way the Linux drivers do.                    *)
(***************************************************************************)
EXTENDS Integers, Sequences

CONSTANTS CPUS,        \* vCPU threads
          KINDS,       \* the devices: "block", "net"
          Users,       \* the vCPUs whose tasks use a device of each kind
          Readers,     \* the vCPUs that read Status or ConfigGeneration
          TRANSPORTS,  \* what is in front of them: "pci", "mmio"
          Size,        \* entries of each queue
          Wrap,        \* values of an index of each queue (2^16 in the code)
          MaxSent,     \* bound: the index up to which the guest transmits
          MaxReads,    \* bound: reads of Status and ConfigGeneration
          TxLocked,    \* the driver of a net queue kicks with its lock held
          IrqKept      \* an interrupt on its way at the capture is still there

Main == "main"         \* the thread that builds the session
Service == "service"   \* the net service thread
None == "none"
Line == "line"         \* virtio-mmio's only interrupt; virtio-pci has one per queue
ACTORS == CPUS \cup {Main, Service}
ALLQUEUES == {"req", "rx", "tx"}

ASSUME VirtioAssumption ==
    /\ CPUS \cap {Main, Service, None} = {}
    /\ KINDS \subseteq {"block", "net"}
    /\ TRANSPORTS \subseteq {"pci", "mmio"}
    /\ Users \in [KINDS -> SUBSET CPUS]
    /\ Readers \subseteq CPUS
    /\ Size \in [ALLQUEUES -> Nat \ {0}]
    /\ Wrap \in [ALLQUEUES -> Nat]
    /\ \A q \in ALLQUEUES : Wrap[q] > Size[q]
    /\ MaxSent \in Nat
    /\ MaxReads \in Nat
    /\ TxLocked \in BOOLEAN
    /\ IrqKept \in BOOLEAN

VARIABLES kind, transport,  \* of this device
          event_idx,    \* VIRTIO_RING_F_EVENT_IDX was negotiated
          avail,        \* avail.idx of a queue
          avail_event,  \* the index the driver kicks at
          next_avail,   \* Queue::next_avail
          used,         \* used.idx and Queue::next_used
          used_event,   \* the index the driver wants an interrupt at
          no_interrupt, \* VRING_AVAIL_F_NO_INTERRUPT
          core,         \* who holds the device lock
          regs,         \* who keeps virtio-mmio's register lock
          stage,        \* how far the holder of the device lock is
          old_used,     \* next_used when its pass began
          isr,          \* DeviceCore::isr_status, as far as raise reads it
          intstatus,    \* virtio-mmio's InterruptStatus
          irq,          \* the interrupts pending at the guest, oldest first
          backlog,      \* a frame waits in NetDevice::pending_rx
          kick,         \* NetKick::pending
          pc,           \* where a thread is
          target,       \* the queue it notifies
          last_used,    \* the driver's place in the used ring (external)
          handler,      \* whether its handler has read InterruptStatus (external)
          todo,         \* the queues it is looking at (external)
          asked,        \* history: a wake since the last service pass began
          reads         \* reads of Status and ConfigGeneration so far

device == <<kind, transport, event_idx>>
locks == <<core, regs, reads>>
rings == <<avail, avail_event, next_avail, used, used_event, no_interrupt>>
driver == <<last_used, handler, todo>>
wake == <<kick, asked>>
vars == <<kind, transport, event_idx, avail, avail_event, next_avail, used,
          used_event, no_interrupt, core, regs, stage, old_used, isr, intstatus,
          irq, backlog, kick, pc, target, last_used, handler, todo, asked, reads>>

QUEUES == IF kind = "net" THEN {"rx", "tx"} ELSE {"req"}
First == IF kind = "net" THEN "rx" ELSE "req"
INDEX(q) == 0..(Wrap[q] - 1)

Succ(q, i) == (i + 1) % Wrap[q]

\* How far index j is ahead of index i.
Ahead(q, i, j) == (j - i + Wrap[q]) % Wrap[q]

Go(a, p) == pc' = [pc EXCEPT ![a] = p]

\* A session that has been resumed: the driver had posted requests that the
\* device of the capture never took, that device had armed the notification
\* anywhere, one completion may not have been looked at.  Its interrupt is pending
\* if the capture kept it (it does not keep an injection queue: UserGic's
\* CheckpointKeepsQueued).  Queue::restore puts both cursors at used.idx.
Init ==
    /\ kind \in KINDS
    /\ transport \in TRANSPORTS
    /\ event_idx \in BOOLEAN
    /\ avail \in [ALLQUEUES -> UNION {INDEX(q) : q \in QUEUES}]
    /\ \A q \in QUEUES : avail[q] \in INDEX(q)
    /\ \E unseen \in {{}, {First}} :
        /\ last_used = [q \in ALLQUEUES |-> IF q \in unseen THEN Wrap[q] - 1 ELSE 0]
        /\ intstatus = (transport = "mmio" /\ unseen # {})
        /\ irq = CASE unseen = {} \/ ~IrqKept -> <<>>
                   [] transport = "mmio" -> <<Line>>
                   [] OTHER -> <<First>>
    /\ \A q \in QUEUES : Ahead(q, last_used[q], avail[q]) \in Ahead(q, last_used[q], 0)..Size[q]
    /\ \E late \in SUBSET ALLQUEUES :
            avail_event = [q \in ALLQUEUES |-> IF q \in late THEN Wrap[q] - 1 ELSE 0]
    /\ \A q \in ALLQUEUES : /\ q \notin QUEUES => avail[q] = 0
                            /\ (q \notin QUEUES \/ ~event_idx) => avail_event[q] = 0
    /\ next_avail = [q \in ALLQUEUES |-> 0]
    /\ used = [q \in ALLQUEUES |-> 0]
    /\ used_event = IF event_idx THEN last_used ELSE [q \in ALLQUEUES |-> 0]
    /\ no_interrupt = [q \in ALLQUEUES |-> FALSE]
    /\ core = None
    /\ regs = None
    /\ stage = "none"
    /\ old_used = 0
    /\ isr = FALSE
    /\ backlog = FALSE
    /\ kick = FALSE
    /\ pc = [a \in ACTORS |-> IF a = Main THEN "exit" ELSE "off"]
    /\ target = [a \in ACTORS |-> IF a = Main THEN First ELSE None]
    /\ handler = "idle"
    /\ todo = {}
    /\ asked = FALSE
    /\ reads = 0

-----------------------------------------------------------------------------
\* The queue.

\* Mutant: the comparison is off by one.
PendingOffByOne(q) == Succ(q, next_avail[q]) # avail[q]

\* has_pending, and pop's test.
HasPending(q) == next_avail[q] # avail[q]

\* pop and add_used: nobody sees what is between them.
PopAndUse(q) ==
    /\ next_avail' = [next_avail EXCEPT ![q] = Succ(q, @)]
    /\ used' = [used EXCEPT ![q] = Succ(q, @)]

\* vring_need_event: the index is in the window (old, new].
NeedEvent(q, event, new, old) == Ahead(q, Succ(q, event), new) < Ahead(q, old, new)

\* needs_interrupt.
NeedsInterrupt(q) ==
    IF event_idx THEN NeedEvent(q, used_event[q], used[q], old_used) ELSE ~no_interrupt[q]

\* arm_notification (without EVENT_IDX the device never asks for silence).
ArmNotification(q) ==
    avail_event' = IF event_idx THEN [avail_event EXCEPT ![q] = next_avail[q]] ELSE avail_event

\* InterruptInjector::signal: an edge, which is pending once.
Edge(v) == IF \E k \in 1..Len(irq) : irq[k] = v THEN irq ELSE Append(irq, v)

\* What the core does when a pass has completed something.
Signal(q) ==
    /\ isr' = (transport = "mmio")
    /\ irq' = IF transport = "pci" /\ NeedsInterrupt(q) THEN Edge(q) ELSE irq

-----------------------------------------------------------------------------
\* DeviceCore, with its lock held: notify, notify_net, flush_rx.

Stage(s) == stage' = s

\* The lock is taken for notify(queue).  virtio-mmio has looked at QueueReady,
\* under the register lock.
Enter(a) ==
    /\ pc[a] = "exit" /\ core = None
    /\ transport = "mmio" => regs = None
    /\ core' = a
    /\ Stage(IF target[a] = "rx" THEN "arm" ELSE "pop")
    /\ old_used' = used[target[a]]
    /\ UNCHANGED <<device, rings, regs, reads, isr, intstatus, irq, backlog, pc, target, driver, wake>>

\* One request or transmitted frame.
ServeOne ==
    /\ stage = "pop"
    /\ HasPending(target[core])
    /\ PopAndUse(target[core])
    /\ UNCHANGED <<device, avail, avail_event, used_event, no_interrupt, locks, stage,
                   old_used, isr, intstatus, irq, backlog, pc, target, driver, wake>>

\* The ring is empty: isr_status and the edge, if anything was completed.
Completed ==
    /\ stage = "pop"
    /\ ~HasPending(target[core])
    /\ IF used[target[core]] # old_used THEN Signal(target[core]) ELSE UNCHANGED <<isr, irq>>
    /\ Stage("arm")
    /\ UNCHANGED <<device, rings, locks, old_used, intstatus, backlog, pc, target, driver, wake>>

\* The re-arm, after which a request queue is looked at again and a net queue
\* is not: flush_rx follows.
Arm ==
    /\ stage = "arm"
    /\ ArmNotification(target[core])
    /\ Stage(IF kind = "net" THEN "flush" ELSE "recheck")
    /\ old_used' = IF kind = "net" THEN used["rx"] ELSE old_used
    /\ UNCHANGED <<device, avail, next_avail, used, used_event, no_interrupt, locks, isr,
                   intstatus, irq, backlog, pc, target, driver, wake>>

\* Mutant: there is no second look.
RecheckNever ==
    /\ stage = "recheck"
    /\ Stage("raise")
    /\ UNCHANGED <<device, rings, locks, old_used, isr, intstatus, irq, backlog, pc,
                   target, driver, wake>>

\* What raced in while the queue was drained is the device's to finish.
Recheck ==
    /\ stage = "recheck"
    /\ Stage(IF HasPending(target[core]) THEN "pop" ELSE "raise")
    /\ old_used' = used[target[core]]
    /\ UNCHANGED <<device, rings, locks, isr, intstatus, irq, backlog, pc, target, driver, wake>>

\* One frame into a buffer the guest posted.
FlushOne ==
    /\ stage = "flush"
    /\ backlog /\ HasPending("rx")
    /\ PopAndUse("rx")
    /\ backlog' = FALSE
    /\ UNCHANGED <<device, avail, avail_event, used_event, no_interrupt, locks, stage,
                   old_used, isr, intstatus, irq, pc, target, driver, wake>>

\* No frame or no buffer is left.
FlushEnds ==
    /\ stage = "flush"
    /\ ~(backlog /\ HasPending("rx"))
    /\ IF used["rx"] # old_used
       THEN Signal("rx") /\ Stage("flushed")
       ELSE Stage("raise") /\ UNCHANGED <<isr, irq>>
    /\ UNCHANGED <<device, rings, locks, old_used, intstatus, backlog, pc, target, driver, wake>>

FlushArm ==
    /\ stage = "flushed"
    /\ ArmNotification("rx")
    /\ Stage("raise")
    /\ UNCHANGED <<device, avail, next_avail, used, used_event, no_interrupt, locks, old_used,
                   isr, intstatus, irq, backlog, pc, target, driver, wake>>

\* Where a thread goes when it lets the device lock go: the service thread round
\* again or to its wait, the resume to the next queue, a vCPU that notified a
\* net device to the wake.
After(a) ==
    CASE a = Service -> IF used["rx"] # old_used THEN "pass" ELSE "wait"
      [] a = Main -> IF kind = "net" /\ target[a] = "rx" THEN "exit" ELSE "done"
      [] OTHER -> IF kind = "net" THEN "wake" ELSE "guest"

\* The queue it notifies next; a vCPU keeps the driver's lock of a net queue.
NextTarget(a) ==
    CASE a = Main -> IF target[a] = "rx" THEN "tx" ELSE None
      [] OTHER -> IF kind = "net" THEN target[a] ELSE None

\* VirtioMmioDevice::raise, if the transport is virtio-mmio, and the unlock.
\* raise wants the register lock while it holds the device's.
Raise ==
    /\ stage = "raise"
    /\ isr => regs = None
    /\ IF isr
       THEN intstatus' = TRUE /\ irq' = Edge(Line)
       ELSE UNCHANGED <<intstatus, irq>>
    /\ isr' = FALSE
    /\ core' = None
    /\ Stage("none")
    /\ Go(core, After(core))
    /\ target' = [target EXCEPT ![core] = NextTarget(core)]
    /\ old_used' = 0
    /\ UNCHANGED <<device, rings, regs, reads, backlog, driver, wake>>

\* The queues are drained: the vCPUs and the service thread run.
Start ==
    /\ pc[Main] = "done"
    /\ pc' = [a \in ACTORS |-> CASE a = Main -> "over"
                                 [] a = Service -> IF kind = "net" THEN "pass" ELSE "off"
                                 [] OTHER -> IF a \in Users[kind] THEN "guest" ELSE "off"]
    /\ UNCHANGED <<device, rings, locks, stage, old_used, isr, intstatus, irq, backlog,
                   target, driver, wake>>

-----------------------------------------------------------------------------
\* The net service thread and its wake handle.

\* service_net: the NAT is advanced, and may have a frame for the guest.
Pass ==
    /\ pc[Service] = "pass" /\ core = None
    /\ core' = Service
    /\ backlog' \in {backlog, TRUE}
    /\ Stage("flush")
    /\ old_used' = used["rx"]
    /\ asked' = FALSE
    /\ Go(Service, "serving")
    /\ UNCHANGED <<device, rings, regs, reads, isr, intstatus, irq, kick, target, driver>>

\* Mutant: the flag is cleared before the sleep.
WaitClears ==
    /\ pc[Service] = "wait"
    /\ kick' = FALSE
    /\ Go(Service, "asleep")
    /\ UNCHANGED <<device, rings, locks, stage, old_used, isr, intstatus, irq, backlog,
                   target, driver, asked>>

\* NetKick::wait: a wake that is already there is consumed at once.
Wait ==
    /\ pc[Service] = "wait"
    /\ Go(Service, IF kick THEN "pass" ELSE "asleep")
    /\ kick' = FALSE
    /\ UNCHANGED <<device, rings, locks, stage, old_used, isr, intstatus, irq, backlog,
                   target, driver, asked>>

\* The interval is over.
WaitEnds ==
    /\ pc[Service] = "asleep"
    /\ kick' = FALSE
    /\ Go(Service, "pass")
    /\ UNCHANGED <<device, rings, locks, stage, old_used, isr, intstatus, irq, backlog,
                   target, driver, asked>>

\* NetKick::wake, by a vCPU after its notify: the flag, then the notification,
\* which ends the wait of a thread that is asleep and finds the flag up.
Wake(c) ==
    /\ pc[c] = "wake"
    /\ kick' = TRUE
    /\ asked' = TRUE
    /\ Go(c, "notify")
    /\ UNCHANGED <<device, rings, locks, stage, old_used, isr, intstatus, irq, backlog,
                   target, driver>>

NotifyOne(c) ==
    /\ pc[c] = "notify"
    /\ pc' = [pc EXCEPT ![c] = "guest", ![Service] = IF @ = "asleep" /\ kick THEN "pass" ELSE @]
    /\ kick' = (kick /\ pc[Service] # "asleep")
    /\ target' = [target EXCEPT ![c] = None]
    /\ UNCHANGED <<device, rings, locks, stage, old_used, isr, intstatus, irq, backlog, driver,
                   asked>>

-----------------------------------------------------------------------------
\* The driver, on the vCPUs (external), and its reads of a register.

\* Whether a vCPU keeps the lock of a queue: until its decision, and for a net
\* queue until its exit is over.
Holds(c, q) ==
    /\ target[c] = q
    /\ pc[c] \in {"posted"} \cup (IF kind = "net" /\ TxLocked THEN {"exit", "wake", "notify"} ELSE {})

\* Bound: less than a whole turn of the index is posted during one pass.
NoLap(q) == (core # None /\ target[core] = q) => Ahead(q, old_used, avail[q]) < Wrap[q] - 1

\* A request or a buffer is in the ring, and avail.idx says so.
Post(c, q) ==
    /\ pc[c] = "guest" /\ q \in QUEUES
    /\ Ahead(q, last_used[q], avail[q]) < Size[q]
    /\ q = "tx" => avail[q] < MaxSent
    /\ NoLap(q)
    /\ \A d \in CPUS : ~Holds(d, q)
    /\ avail' = [avail EXCEPT ![q] = Succ(q, @)]
    /\ target' = [target EXCEPT ![c] = q]
    /\ Go(c, "posted")
    /\ UNCHANGED <<device, avail_event, next_avail, used, used_event, no_interrupt, locks,
                   stage, old_used, isr, intstatus, irq, backlog, driver, wake>>

\* The driver reads the device's index and kicks if its own has just passed it.
Decide(c) ==
    /\ pc[c] = "posted"
    /\ LET q == target[c]
           old == Ahead(q, 1, avail[q]) IN
       IF ~event_idx \/ NeedEvent(q, avail_event[q], avail[q], old)
       THEN Go(c, "exit") /\ UNCHANGED target
       ELSE Go(c, "guest") /\ target' = [target EXCEPT ![c] = None]
    /\ UNCHANGED <<device, rings, locks, stage, old_used, isr, intstatus, irq, backlog,
                   driver, wake>>

\* The interrupt is taken.  The handler of virtio-mmio reads InterruptStatus.  The
\* block driver looks at its queue in the handler, the net driver after it (NAPI).
TakeIrq ==
    /\ handler = "idle" /\ irq # <<>>
    /\ pc[Main] = "over"
    /\ kind = "block" => todo = {}
    /\ irq' = Tail(irq)
    /\ IF transport = "pci"
       THEN /\ todo' = todo \cup {Head(irq)}
            /\ UNCHANGED handler
            /\ no_interrupt' = [no_interrupt EXCEPT ![Head(irq)] = ~event_idx]
       ELSE /\ regs = None
            /\ handler' = IF intstatus THEN "ack" ELSE "idle"
            /\ UNCHANGED <<todo, no_interrupt>>
    /\ UNCHANGED <<device, avail, avail_event, next_avail, used, used_event, locks, stage,
                   old_used, isr, intstatus, backlog, pc, target, last_used, wake>>

\* InterruptACK, a write under the register lock.
Ack ==
    /\ handler = "ack"
    /\ regs = None
    /\ intstatus' = FALSE
    /\ handler' = "idle"
    /\ todo' = QUEUES
    /\ no_interrupt' = [q \in ALLQUEUES |-> ~event_idx /\ q \in QUEUES]
    /\ UNCHANGED <<device, avail, avail_event, next_avail, used, used_event, locks, stage,
                   old_used, isr, irq, backlog, pc, target, last_used, wake>>

\* One completion.
TakeUsed(q) ==
    /\ q \in todo
    /\ last_used[q] # used[q]
    /\ last_used' = [last_used EXCEPT ![q] = Succ(q, @)]
    /\ UNCHANGED <<device, rings, locks, stage, old_used, isr, intstatus, irq, backlog, pc,
                   target, handler, todo, wake>>

\* Nothing is left: the driver asks for the next interrupt, and looks again.
PollEnds(q) ==
    /\ q \in todo
    /\ last_used[q] = used[q]
    /\ used_event' = IF event_idx THEN [used_event EXCEPT ![q] = last_used[q]] ELSE used_event
    /\ no_interrupt' = [no_interrupt EXCEPT ![q] = FALSE]
    /\ todo' = todo \ {q}
    /\ UNCHANGED <<device, avail, avail_event, next_avail, used, locks, stage, old_used, isr,
                   intstatus, irq, backlog, pc, target, last_used, handler, wake>>

\* A read of Status or ConfigGeneration: the register lock is kept while the
\* device's is taken.
StatusRead(c) ==
    /\ transport = "mmio"
    /\ c \in Readers /\ pc[c] = "guest" /\ regs = None
    /\ reads < MaxReads
    /\ reads' = reads + 1
    /\ regs' = c
    /\ Go(c, "status")
    /\ UNCHANGED <<device, rings, core, stage, old_used, isr, intstatus, irq, backlog, target,
                   driver, wake>>

StatusDone(c) ==
    /\ pc[c] = "status" /\ core = None
    /\ regs' = None
    /\ Go(c, "guest")
    /\ UNCHANGED <<device, rings, core, reads, stage, old_used, isr, intstatus, irq, backlog, target,
                   driver, wake>>

-----------------------------------------------------------------------------
Core == ServeOne \/ Completed \/ Arm \/ Recheck \/ FlushOne \/ FlushEnds \/ FlushArm \/ Raise
Poll(q) == TakeUsed(q) \/ PollEnds(q)

Next ==
    \/ \E a \in CPUS \cup {Main} : Enter(a)
    \/ Core
    \/ Start
    \/ Pass \/ Wait \/ WaitEnds
    \/ \E c \in CPUS : Wake(c) \/ NotifyOne(c) \/ Decide(c) \/ StatusRead(c) \/ StatusDone(c)
    \/ \E c \in CPUS, q \in QUEUES : Post(c, q)
    \/ TakeIrq \/ Ack
    \/ \E q \in QUEUES : Poll(q)

Spec == Init /\ [][Next]_vars

\* Threads run, a vCPU that asks for the device lock again and again is granted
\* it, the wait of the service thread ends with its interval, an interrupt is
\* taken in the end, and a driver that is short of receive buffers posts some.
\* Nobody has to send a request or read a register.
FairSpec ==
    /\ Spec
    /\ WF_vars(Core \/ Enter(Main) \/ Start)
    /\ WF_vars(Pass \/ Wait \/ WaitEnds)
    /\ \A c \in CPUS : /\ SF_vars(Enter(c) \/ StatusDone(c))
                       /\ WF_vars(Wake(c) \/ NotifyOne(c) \/ Decide(c))
    /\ WF_vars(TakeIrq \/ Ack)
    /\ WF_vars(Poll("req") \/ Poll("rx")) /\ WF_vars(Poll("tx"))
    /\ WF_vars(\E c \in CPUS : Post(c, "rx"))

-----------------------------------------------------------------------------
\* A ring index is between two others, going up from the first.
Between(q, i, j, k) == Ahead(q, i, j) =< Ahead(q, i, k)

\* The variables have their types, and the indices of a queue their order: the
\* driver looks at nothing the device has not used, the device uses nothing the
\* driver has not posted, nothing is posted twice (queue.rs: pop and add_used).
TypeOK ==
    /\ kind \in KINDS /\ transport \in TRANSPORTS /\ event_idx \in BOOLEAN
    /\ \A f \in {avail, avail_event, used, used_event, last_used} :
            DOMAIN f = ALLQUEUES /\ \A q \in ALLQUEUES : f[q] \in INDEX(q)
    /\ next_avail = used
    /\ no_interrupt \in [ALLQUEUES -> BOOLEAN]
    /\ core \in ACTORS \cup {None} /\ regs \in CPUS \cup {None}
    /\ stage \in {"none", "pop", "arm", "recheck", "flush", "flushed", "raise"}
    /\ (stage = "none") = (core = None)
    /\ old_used \in UNION {INDEX(q) : q \in QUEUES}
    /\ isr \in BOOLEAN /\ intstatus \in BOOLEAN /\ backlog \in BOOLEAN
    /\ irq \in Seq(QUEUES \cup {Line}) /\ Len(irq) =< 2
    /\ todo \subseteq QUEUES
    /\ kick \in BOOLEAN /\ asked \in BOOLEAN /\ reads \in 0..MaxReads
    /\ pc \in [ACTORS -> {"off", "guest", "posted", "exit", "wake", "notify", "status", "pass",
                          "serving", "wait", "asleep", "done", "over"}]
    /\ target \in [ACTORS -> ALLQUEUES \cup {None}]
    /\ handler \in {"idle", "ack"}
    /\ \A q \in QUEUES : /\ Between(q, last_used[q], used[q], avail[q])
                         /\ Ahead(q, last_used[q], avail[q]) =< Size[q]

\* A wake that was raised while the service thread worked is not slept through:
\* when it is asleep and has been asked for a pass, the notification is on its
\* way (net.rs: NetKick::wait, "is not lost").
NoWakeSlept ==
    (pc[Service] = "asleep" /\ asked) => \E c \in CPUS : pc[c] = "notify"

\* A vCPU that reads Status keeps the registers and wants the device; the holder
\* of the device wants the registers.
Wedged ==
    /\ \E c \in CPUS : pc[c] = "status" /\ regs = c
    /\ stage = "raise" /\ isr

\* The driver has looked at everything a queue owes it: the requests and the
\* transmitted frames it posted, the receive buffers that were filled.
Settled(q) == last_used[q] = IF q = "rx" THEN used[q] ELSE avail[q]

\* Every request is completed and its completion looked at, and every frame
\* reaches the guest, whatever the order of posts, kicks, drains and re-arms and
\* whatever was in flight at the capture (devcore.rs: notify, flush_rx; pci.rs,
\* mmio.rs: drain_on_resume), unless the device's two locks are taken crosswise
\* or the capture lost the interrupt (~IrqKept).
\* Completions are looked at in order, so none is left if they go on or end.
NothingStranded ==
    /\ \A q \in ALLQUEUES : \/ []<>(Settled(q) \/ Wedged)
                            \/ []<><<last_used[q]' # last_used[q]>>_vars
    /\ backlog ~> (~backlog \/ Wedged)

\* What was posted and nobody is serving has a notification on its way.  A net
\* queue is not looked at again after the re-arm, so for "tx" this rests on the
\* driver, which keeps the queue's lock until its kick is over.
SomeoneServes ==
    \A q \in QUEUES \ {"rx"} :
        (pc[Main] = "over" /\ core = None /\ HasPending(q))
            => \E c \in CPUS : target[c] = q /\ pc[c] \in {"posted", "exit"}

\* Nobody waits for the register lock with the device lock held while somebody
\* waits for the device lock with the register lock held: "regs first and then
\* core, which is the order every other path in this file uses" (mmio.rs: state).
NoCircularWait == ~Wedged
=============================================================================
