---------------------------- MODULE VirtioProofs ----------------------------
(***************************************************************************)
(* For any number of vCPUs and any rings: the net service thread does not  *)
(* sleep through a wake (NetKick); the indices of a queue keep their order *)
(* when they wrap; and what was posted is served or about to be announced. *)
(***************************************************************************)
EXTENDS Virtio, SequenceTheorems, TLAPS

PLACES == {"off", "guest", "posted", "exit", "wake", "notify", "status", "pass", "serving",
           "wait", "asleep", "done", "over"}

\* Who holds the device lock, and where that thread is.
Holder ==
    /\ pc \in [ACTORS -> PLACES]
    /\ core \in ACTORS \cup {None}
    /\ stage = "none" <=> core = None
    /\ core # None => pc[core] = IF core = Service THEN "serving" ELSE "exit"

\* Until the queues are drained no vCPU runs, and no service thread.
Early == pc[Main] # "over" => \A a \in CPUS \cup {Service} : pc[a] = "off"

\* A wake leaves the flag up until the thread is on its way to a pass.
Flagged == asked => kick \/ pc[Service] = "pass"

\* A thread that is asleep with the flag up is about to be notified.
Notified == pc[Service] = "asleep" /\ kick => \E c \in CPUS : pc[c] = "notify"

Inv == Holder /\ Early /\ Flagged /\ Notified

\* The threads are different.
LEMMA Actors ==
    /\ Main \notin CPUS /\ Service \notin CPUS /\ None \notin CPUS
    /\ Main # Service /\ Main # None /\ Service # None
    /\ Main \in ACTORS /\ Service \in ACTORS /\ None \notin ACTORS /\ CPUS \subseteq ACTORS
BY VirtioAssumption DEF Main, Service, None, ACTORS

\* Nothing runs at first.
LEMMA InitInv == Init => Inv
BY Actors DEF Init, Inv, Holder, Early, Flagged, Notified, PLACES

\* A step of the holder of the device lock that keeps it, and steps of the guest
\* that move no thread.
LEMMA StillInv ==
    ASSUME Inv, UNCHANGED <<pc, core, kick, asked>>, stage' = "none" <=> stage = "none"
    PROVE  Inv'
BY DEF Inv, Holder, Early, Flagged, Notified

\* A vCPU moves between places of the guest.
LEMMA VcpuInv ==
    ASSUME Inv, NEW c \in CPUS, NEW p \in PLACES,
           pc[c] \in {"guest", "posted", "status"},
           pc' = [pc EXCEPT ![c] = p],
           UNCHANGED <<core, stage, kick, asked>>
    PROVE  Inv'
<1> USE DEF Inv
<1>1. \A a \in ACTORS : pc'[a] = IF a = c THEN p ELSE pc[a]
    BY Actors DEF Holder
<1>2. core # c
    BY Actors DEF Holder
<1>3. Holder'
    BY <1>1, <1>2, Actors DEF Holder
<1>4. Early'
    BY <1>1, Actors DEF Early
<1>5. Flagged' /\ Notified'
    BY <1>1, Actors DEF Flagged, Notified
<1> QED BY <1>3, <1>4, <1>5

\* The device lock is taken.
LEMMA EnterInv ==
    ASSUME Inv, Pass \/ \E a \in CPUS \cup {Main} : Enter(a)
    PROVE  Inv'
<1> USE DEF Inv
<1>1. CASE Pass
    <2>1. /\ pc[Service] = "pass" /\ pc' = [pc EXCEPT ![Service] = "serving"]
          /\ core' = Service /\ stage' = "flush" /\ asked' = FALSE /\ UNCHANGED kick
        BY <1>1 DEF Pass, Go, Stage
    <2>2. \A a \in ACTORS : pc'[a] = IF a = Service THEN "serving" ELSE pc[a]
        BY <2>1, Actors DEF Holder
    <2> QED BY <2>1, <2>2, Actors DEF Holder, Early, Flagged, Notified, PLACES
<1>2. ASSUME NEW a \in CPUS \cup {Main}, Enter(a) PROVE Inv'
    <2>1. pc[a] = "exit" /\ core' = a /\ stage' \in {"arm", "pop"} /\ UNCHANGED <<pc, kick, asked>>
        BY <1>2 DEF Enter, Stage, wake
    <2> QED BY <2>1, Actors DEF Holder, Early, Flagged, Notified
<1> QED BY <1>1, <1>2

\* The device lock is let go.
LEMMA RaiseInv ==
    ASSUME Inv, Raise
    PROVE  Inv'
<1> USE DEF Inv
<1> DEFINE p == After(core)
<1>1. /\ stage = "raise" /\ core' = None /\ stage' = "none" /\ pc' = [pc EXCEPT ![core] = p]
      /\ UNCHANGED <<kick, asked>>
    BY DEF Raise, Stage, Go, wake
<1>2. core \in ACTORS /\ pc[core] = IF core = Service THEN "serving" ELSE "exit"
    BY <1>1 DEF Holder
<1>3. /\ core = Service => p \in {"pass", "wait"}
      /\ core = Main => p \in {"exit", "done"}
      /\ core \in CPUS => p \in {"wake", "guest"}
    BY Actors DEF After
<1> HIDE DEF p
<1>4. \A a \in ACTORS : pc'[a] = IF a = core THEN p ELSE pc[a]
    BY <1>1, <1>2 DEF Holder
<1>5. Holder'
    BY <1>1, <1>2, <1>3, <1>4, Actors DEF Holder, PLACES, ACTORS
<1>6. Early'
    BY <1>2, <1>3, <1>4, Actors DEF Early, ACTORS
<1>7. Flagged' /\ Notified'
    BY <1>1, <1>2, <1>3, <1>4, Actors DEF Flagged, Notified, ACTORS
<1> QED BY <1>5, <1>6, <1>7

\* The session starts: nobody holds the device lock.
LEMMA StartInv ==
    ASSUME Inv, Start
    PROVE  Inv'
<1> USE DEF Inv
<1>1. pc[Main] = "done" /\ UNCHANGED <<core, stage, kick, asked>>
    BY DEF Start, locks, wake
<1>2. \A a \in CPUS \cup {Service} : pc[a] = "off"
    BY <1>1 DEF Early
<1>3. core = None
    BY <1>1, <1>2, Actors DEF Holder, ACTORS
<1>4. /\ pc' \in [ACTORS -> PLACES] /\ pc'[Main] = "over"
      /\ pc'[Service] \in {"pass", "off"}
    BY Actors DEF Start, PLACES
<1>5. asked => kick
    BY <1>2 DEF Flagged
<1> QED BY <1>1, <1>3, <1>4, <1>5 DEF Holder, Early, Flagged, Notified

\* The service thread waits, or its interval is over: the flag is consumed only
\* on the way to a pass.
LEMMA WaitInv ==
    ASSUME Inv, Wait \/ WaitEnds
    PROVE  Inv'
<1> USE DEF Inv
<1>1. PICK p \in {"pass", "asleep"} :
         /\ pc' = [pc EXCEPT ![Service] = p]
         /\ p = "asleep" => ~kick /\ pc[Service] = "wait"
    BY DEF Wait, WaitEnds, Go
<1>2. pc[Service] \in {"wait", "asleep"} /\ kick' = FALSE /\ UNCHANGED <<core, stage, asked>>
    BY DEF Wait, WaitEnds, locks
<1>3. \A a \in ACTORS : pc'[a] = IF a = Service THEN p ELSE pc[a]
    BY <1>1, Actors DEF Holder
<1>4. core # Service
    BY <1>2, Actors DEF Holder
<1>5. Holder' /\ Early'
    BY <1>1, <1>2, <1>3, <1>4, Actors DEF Holder, Early, PLACES
<1>6. Flagged' /\ Notified'
    BY <1>1, <1>2, <1>3, Actors DEF Flagged, Notified
<1> QED BY <1>5, <1>6

\* A vCPU raises a wake: the flag, then the notification.
LEMMA WakeInv ==
    ASSUME Inv, NEW c \in CPUS, Wake(c) \/ NotifyOne(c)
    PROVE  Inv'
<1> USE DEF Inv
<1>1. pc[c] \in {"wake", "notify"} /\ UNCHANGED <<core, stage>>
    BY DEF Wake, NotifyOne, locks
<1>2. core # c /\ pc[Main] = "over"
    BY <1>1, Actors DEF Holder, Early
<1>3. CASE Wake(c)
    <2>1. pc' = [pc EXCEPT ![c] = "notify"] /\ kick' = TRUE
        BY <1>3 DEF Wake, Go
    <2>2. \A a \in ACTORS : pc'[a] = IF a = c THEN "notify" ELSE pc[a]
        BY <2>1, Actors DEF Holder
    <2>3. Holder' /\ Early'
        BY <1>1, <1>2, <2>1, <2>2, Actors DEF Holder, Early, PLACES
    <2>4. Flagged' /\ Notified'
        BY <2>1, <2>2, Actors DEF Flagged, Notified
    <2> QED BY <2>3, <2>4
<1>4. CASE NotifyOne(c)
    <2> DEFINE s == IF pc[Service] = "asleep" /\ kick THEN "pass" ELSE pc[Service]
    <2>1. /\ pc' = [pc EXCEPT ![c] = "guest", ![Service] = s]
          /\ kick' = (kick /\ pc[Service] # "asleep") /\ UNCHANGED asked
        BY <1>4, Actors DEF NotifyOne, Holder
    <2>2. s \in PLACES /\ (core = Service => s = "serving")
        BY Actors DEF Holder, PLACES
    <2>3. \A a \in ACTORS : pc'[a] = IF a = c THEN "guest" ELSE IF a = Service THEN s ELSE pc[a]
        BY <2>1, Actors DEF Holder
    <2>4. Holder' /\ Early'
        BY <1>1, <1>2, <2>1, <2>2, <2>3, Actors DEF Holder, Early, PLACES
    <2>5. Flagged' /\ Notified'
        BY <2>1, <2>3, Actors DEF Flagged, Notified
    <2> QED BY <2>4, <2>5
<1> QED BY <1>3, <1>4

\* Every step keeps the invariant.
LEMMA NextInv == Inv /\ [Next]_vars => Inv'
<1> SUFFICES ASSUME Inv, [Next]_vars PROVE Inv'
    OBVIOUS
<1>1. CASE Pass \/ \E a \in CPUS \cup {Main} : Enter(a)
    BY <1>1, EnterInv
<1>2. CASE Core
    <2>1. CASE Raise
        BY <2>1, RaiseInv
    <2>2. CASE ServeOne \/ Completed \/ Arm \/ Recheck \/ FlushOne \/ FlushEnds \/ FlushArm
        <3>1. UNCHANGED <<pc, core, kick, asked>> /\ stage # "none" /\ stage' # "none"
            BY <2>2 DEF ServeOne, Completed, Arm, Recheck, FlushOne, FlushEnds, FlushArm, Stage,
                        locks, wake
        <3> QED BY <3>1, StillInv
    <2> QED BY <1>2, <2>1, <2>2 DEF Core
<1>3. CASE Start
    BY <1>3, StartInv
<1>4. CASE Wait \/ WaitEnds
    BY <1>4, WaitInv
<1>5. ASSUME NEW c \in CPUS, Wake(c) \/ NotifyOne(c) PROVE Inv'
    BY <1>5, WakeInv
<1>6. ASSUME NEW c \in CPUS, Decide(c) \/ StatusRead(c) \/ StatusDone(c) PROVE Inv'
    <2>1. /\ pc[c] \in {"guest", "posted", "status"} /\ UNCHANGED <<core, stage, kick, asked>>
          /\ \E p \in {"exit", "guest", "status"} : pc' = [pc EXCEPT ![c] = p]
        BY <1>6 DEF Decide, StatusRead, StatusDone, Go, locks, wake
    <2> QED BY <2>1, VcpuInv DEF PLACES
<1>7. ASSUME NEW c \in CPUS, NEW q \in QUEUES, Post(c, q) PROVE Inv'
    <2>1. pc[c] = "guest" /\ UNCHANGED <<core, stage, kick, asked>> /\ pc' = [pc EXCEPT ![c] = "posted"]
        BY <1>7 DEF Post, Go, locks, wake
    <2> QED BY <2>1, VcpuInv DEF PLACES
<1>8. CASE TakeIrq \/ Ack \/ (\E q \in QUEUES : Poll(q)) \/ UNCHANGED vars
    <2>1. UNCHANGED <<pc, core, kick, asked, stage>>
        BY <1>8 DEF TakeIrq, Ack, Poll, TakeUsed, PollEnds, vars, locks, wake
    <2> QED BY <2>1, StillInv
<1> QED BY <1>1, <1>2, <1>3, <1>4, <1>5, <1>6, <1>7, <1>8 DEF Next

\* The inductive invariant holds always.
THEOREM InvHolds == Spec => []Inv
BY InitInv, NextInv, PTL DEF Spec

\* NetKick::wait and NetKick::wake: a wake that was raised while the service
\* thread worked is not slept through, for any number of vCPUs.
THEOREM WakeIsNotLost == Spec => []NoWakeSlept
<1>1. Inv => NoWakeSlept
    BY DEF Inv, Flagged, Notified, NoWakeSlept
<1> QED BY <1>1, InvHolds, PTL

-----------------------------------------------------------------------------
\* Ring indices.

\* The remainders that occur are at most one turn away.
LEMMA OneTurn ==
    ASSUME NEW w \in Nat, w > 0, NEW a \in Int
    PROVE  /\ 0 <= a /\ a < w => a % w = a
           /\ w <= a /\ a < 2 * w => a % w = a - w
<1>1. ASSUME 0 <= a, a < w PROVE a % w = a
    BY <1>1
<1>2. ASSUME w <= a, a < 2 * w PROVE a % w = a - w
    BY <1>2
<1> QED BY <1>1, <1>2

\* The sizes of a queue and of its index.
LEMMA Sizes ==
    ASSUME NEW q \in ALLQUEUES
    PROVE  /\ Wrap[q] \in Nat /\ Size[q] \in Nat /\ 1 <= Size[q] /\ Size[q] < Wrap[q]
           /\ \A i : i \in INDEX(q) <=> i \in Nat /\ i < Wrap[q]
<1>1. Wrap[q] \in Nat /\ Size[q] \in Nat \ {0} /\ Wrap[q] > Size[q]
    BY VirtioAssumption
<1>2. Wrap[q] \in Nat /\ Size[q] \in Nat /\ 1 <= Size[q] /\ Size[q] < Wrap[q]
    BY <1>1
<1> QED BY <1>2 DEF INDEX

\* The next index and the distance, without the modulus.
LEMMA Indices ==
    ASSUME NEW q \in ALLQUEUES, NEW i \in INDEX(q), NEW j \in INDEX(q)
    PROVE  /\ Succ(q, i) \in INDEX(q)
           /\ Succ(q, i) = IF i = Wrap[q] - 1 THEN 0 ELSE i + 1
           /\ Ahead(q, i, j) = IF i <= j THEN j - i ELSE j - i + Wrap[q]
           /\ Ahead(q, i, j) \in Nat /\ Ahead(q, i, j) < Wrap[q]
<1> DEFINE w == Wrap[q]
<1>1. w \in Nat /\ w > 0 /\ i \in Nat /\ i < w /\ j \in Nat /\ j < w
    BY Sizes
<1>2. Succ(q, i) = (i + 1) % w /\ Ahead(q, i, j) = (j - i + w) % w
    BY DEF Succ, Ahead
<1> HIDE DEF w
<1>3. (i + 1) % w = IF i = w - 1 THEN 0 ELSE i + 1
    <2>1. CASE i = w - 1
        <3>1. i + 1 = w /\ i + 1 \in Int
            BY <1>1, <2>1
        <3>2. (i + 1) % w = (i + 1) - w
            BY <1>1, <3>1, OneTurn
        <3> QED BY <1>1, <2>1, <3>1, <3>2
    <2>2. CASE i # w - 1
        <3>1. i + 1 < w /\ 0 <= i + 1 /\ i + 1 \in Int
            BY <1>1, <2>2
        <3> QED BY <1>1, <2>2, <3>1, OneTurn
    <2> QED BY <2>1, <2>2
<1>4. (j - i + w) % w = IF i <= j THEN j - i ELSE j - i + w
    <2>1. j - i + w \in Int
        BY <1>1
    <2>2. CASE i <= j
        <3>1. w <= j - i + w /\ j - i + w < 2 * w
            BY <1>1, <2>2
        <3>2. (j - i + w) % w = (j - i + w) - w
            BY <1>1, <2>1, <3>1, OneTurn
        <3> QED BY <1>1, <2>2, <3>2
    <2>3. CASE ~(i <= j)
        <3>1. 0 <= j - i + w /\ j - i + w < w
            BY <1>1, <2>3
        <3> QED BY <1>1, <2>1, <2>3, <3>1, OneTurn
    <2> QED BY <2>2, <2>3
<1>5. Succ(q, i) \in Nat /\ Succ(q, i) < w
    BY <1>1, <1>2, <1>3
<1>6. Ahead(q, i, j) \in Nat /\ Ahead(q, i, j) < w
    BY <1>1, <1>2, <1>4
<1>7. Succ(q, i) \in INDEX(q)
    BY <1>5, Sizes DEF w
<1> QED BY <1>2, <1>3, <1>4, <1>6, <1>7 DEF w

\* One step of an index that is behind another, and of one that is followed.
LEMMA OneStep ==
    ASSUME NEW q \in ALLQUEUES, NEW i \in INDEX(q), NEW j \in INDEX(q)
    PROVE  /\ Ahead(q, i, j) = 0 <=> i = j
           /\ i # j => Ahead(q, Succ(q, i), j) = Ahead(q, i, j) - 1
           /\ Ahead(q, i, j) < Wrap[q] - 1 => Ahead(q, i, Succ(q, j)) = Ahead(q, i, j) + 1
<1> DEFINE w == Wrap[q]
           s == Succ(q, i)
           t == Succ(q, j)
<1>1. w \in Nat /\ w > 0 /\ i \in Nat /\ i < w /\ j \in Nat /\ j < w
    BY Sizes
<1>2. /\ s \in INDEX(q) /\ s = IF i = w - 1 THEN 0 ELSE i + 1
      /\ t \in INDEX(q) /\ t = IF j = w - 1 THEN 0 ELSE j + 1
      /\ Ahead(q, i, j) = IF i <= j THEN j - i ELSE j - i + w
    BY Indices
<1>3. /\ Ahead(q, s, j) = IF s <= j THEN j - s ELSE j - s + w
      /\ Ahead(q, i, t) = IF i <= t THEN t - i ELSE t - i + w
    BY <1>2, Indices
<1> HIDE DEF w, s, t
<1>4. Ahead(q, i, j) = 0 <=> i = j
    BY <1>1, <1>2
<1>5. i # j => Ahead(q, s, j) = Ahead(q, i, j) - 1
    BY <1>1, <1>2, <1>3
<1>6. Ahead(q, i, j) < w - 1 => Ahead(q, i, t) = Ahead(q, i, j) + 1
    BY <1>1, <1>2, <1>3
<1> QED BY <1>4, <1>5, <1>6 DEF w, s, t

-----------------------------------------------------------------------------
\* Types and the order of the indices.

Device == kind \in KINDS /\ transport \in TRANSPORTS /\ event_idx \in BOOLEAN

Turns(f) == f \in [ALLQUEUES -> Nat] /\ \A q \in ALLQUEUES : f[q] \in INDEX(q)

Cursors ==
    /\ Turns(avail) /\ Turns(avail_event) /\ Turns(used) /\ Turns(used_event) /\ Turns(last_used)
    /\ next_avail = used
    /\ no_interrupt \in [ALLQUEUES -> BOOLEAN]

\* last_used, used and avail follow each other, at most a queue apart.
Order ==
    \A q \in QUEUES : /\ Ahead(q, last_used[q], used[q]) <= Ahead(q, last_used[q], avail[q])
                      /\ Ahead(q, last_used[q], avail[q]) <= Size[q]

\* Who notifies has a queue to notify, and the passes are the kind's.
Tasks ==
    /\ target \in [ACTORS -> ALLQUEUES \cup {None}]
    /\ \A a \in ACTORS : pc[a] \in {"exit", "posted"} => target[a] \in QUEUES
    /\ stage \in {"none", "pop", "arm", "recheck", "flush", "flushed", "raise"}
    /\ stage \in {"pop", "arm", "recheck"} => core # Service
    /\ stage \in {"flush", "flushed"} => kind = "net"
    /\ pc[Service] \in {"off", "pass", "serving", "wait", "asleep"}
    /\ pc[Service] # "off" => kind = "net"
    /\ old_used \in UNION {INDEX(q) : q \in QUEUES}

\* The flags and locks.
Bits ==
    /\ regs \in CPUS \cup {None} /\ reads \in 0..MaxReads
    /\ backlog \in BOOLEAN /\ kick \in BOOLEAN /\ asked \in BOOLEAN
    /\ handler \in {"idle", "ack"}

\* An interrupt is pending once, and is one the transport has.
Vectors == IF transport = "mmio" THEN {Line} ELSE QUEUES
Edges ==
    /\ isr \in BOOLEAN /\ intstatus \in BOOLEAN
    /\ isr => transport = "mmio"
    /\ irq \in Seq(Vectors)
    /\ \A i, j \in 1..Len(irq) : irq[i] = irq[j] => i = j
    /\ todo \subseteq QUEUES

Typed == Device /\ Cursors /\ Order /\ Tasks /\ Bits /\ Edges

\* The queues of a device.
LEMMA Queues ==
    ASSUME Device
    PROVE  /\ kind \in {"block", "net"} /\ QUEUES \subseteq ALLQUEUES /\ First \in QUEUES
           /\ kind = "net" => QUEUES = {"rx", "tx"}
           /\ kind = "block" => QUEUES = {"req"}
           /\ Line \notin ALLQUEUES /\ None \notin ALLQUEUES
BY VirtioAssumption DEF Device, QUEUES, ALLQUEUES, First, Line, None

\* One index moves.
LEMMA TurnsStep ==
    ASSUME NEW f, Turns(f), NEW q \in ALLQUEUES, NEW x \in INDEX(q)
    PROVE  /\ Turns([f EXCEPT ![q] = x]) /\ [f EXCEPT ![q] = x][q] = x
           /\ \A r \in ALLQUEUES : r # q => [f EXCEPT ![q] = x][r] = f[r]
<1>1. x \in Nat
    BY Sizes
<1> QED BY <1>1 DEF Turns

\* A device stays what it is.
LEMMA DeviceStep ==
    ASSUME [Next]_vars
    PROVE  UNCHANGED <<kind, transport, event_idx>>
<1>1. CASE Core
    BY <1>1 DEF Core, ServeOne, Completed, Arm, Recheck, FlushOne, FlushEnds, FlushArm, Raise, device
<1>2. CASE Start \/ Pass \/ Wait \/ WaitEnds \/ TakeIrq \/ Ack
    BY <1>2 DEF Start, Pass, Wait, WaitEnds, TakeIrq, Ack, device
<1>3. ASSUME NEW a \in CPUS \cup {Main}, Enter(a) PROVE UNCHANGED <<kind, transport, event_idx>>
    BY <1>3 DEF Enter, device
<1>4. ASSUME NEW c \in CPUS, Wake(c) \/ NotifyOne(c) \/ Decide(c) \/ StatusRead(c) \/ StatusDone(c)
      PROVE  UNCHANGED <<kind, transport, event_idx>>
    BY <1>4 DEF Wake, NotifyOne, Decide, StatusRead, StatusDone, device
<1>5. ASSUME NEW c \in CPUS, NEW q \in QUEUES, Post(c, q) \/ Poll(q) PROVE UNCHANGED <<kind, transport, event_idx>>
    BY <1>5 DEF Post, Poll, TakeUsed, PollEnds, device
<1>6. ASSUME NEW q \in QUEUES, Poll(q) PROVE UNCHANGED <<kind, transport, event_idx>>
    BY <1>6 DEF Poll, TakeUsed, PollEnds, device
<1>7. CASE UNCHANGED vars
    BY <1>7 DEF vars
<1> QED BY <1>1, <1>2, <1>3, <1>4, <1>5, <1>6, <1>7 DEF Next

\* Who moves an index.
LEMMA CursorStep ==
    ASSUME [Next]_vars
    PROVE  \/ UNCHANGED <<rings, last_used>>
           \/ ServeOne \/ FlushOne \/ Arm \/ FlushArm \/ TakeIrq \/ Ack
           \/ \E c \in CPUS, q \in QUEUES : Post(c, q)
           \/ \E q \in QUEUES : TakeUsed(q) \/ PollEnds(q)
<1>1. CASE Core
    BY <1>1 DEF Core, Completed, Recheck, FlushEnds, Raise, driver
<1>2. CASE Start \/ Pass \/ Wait \/ WaitEnds
    BY <1>2 DEF Start, Pass, Wait, WaitEnds, driver
<1>3. ASSUME NEW a \in CPUS \cup {Main}, Enter(a) PROVE UNCHANGED <<rings, last_used>>
    BY <1>3 DEF Enter, driver
<1>4. ASSUME NEW c \in CPUS, Wake(c) \/ NotifyOne(c) \/ Decide(c) \/ StatusRead(c) \/ StatusDone(c)
      PROVE  UNCHANGED <<rings, last_used>>
    BY <1>4 DEF Wake, NotifyOne, Decide, StatusRead, StatusDone, driver
<1>5. CASE UNCHANGED vars
    BY <1>5 DEF vars, rings
<1> QED BY <1>1, <1>2, <1>3, <1>4, <1>5 DEF Next, Poll

\* Indices stay indices, in their order.
LEMMA CursorsKept ==
    ASSUME Inv, Typed, [Next]_vars
    PROVE  Cursors' /\ Order'
<1>1. Device /\ Cursors /\ Order /\ Tasks /\ Edges /\ UNCHANGED <<kind, transport, event_idx>>
    BY DeviceStep DEF Typed
<1>2. /\ QUEUES' = QUEUES /\ QUEUES \subseteq ALLQUEUES /\ kind \in {"block", "net"}
      /\ kind = "net" => "rx" \in QUEUES
    BY <1>1, Queues DEF QUEUES
<1>3. CASE UNCHANGED <<rings, last_used>>
    BY <1>1, <1>2, <1>3 DEF rings, Cursors, Order, Turns
<1>4. ASSUME NEW q \in QUEUES, HasPending(q), PopAndUse(q),
             UNCHANGED <<avail, avail_event, used_event, no_interrupt, last_used>>
      PROVE  Cursors' /\ Order'
    <2> DEFINE x == Succ(q, used[q])
    <2>1. /\ q \in ALLQUEUES /\ used[q] \in INDEX(q) /\ avail[q] \in INDEX(q) /\ last_used[q] \in INDEX(q)
          /\ next_avail[q] = used[q] /\ used[q] # avail[q]
        BY <1>1, <1>2, <1>4 DEF Cursors, Turns, HasPending
    <2>2. x \in INDEX(q)
        BY <2>1, Indices
    <2>3. used' = [used EXCEPT ![q] = x] /\ next_avail' = used'
        BY <1>1, <1>4 DEF PopAndUse, Cursors
    <2> HIDE DEF x
    <2>4. Turns(used') /\ used'[q] = x /\ \A r \in ALLQUEUES : r # q => used'[r] = used[r]
        <3> DEFINE f == [used EXCEPT ![q] = x]
        <3>1. Turns(used)
            BY <1>1 DEF Cursors
        <3>2. Turns(f) /\ f[q] = x /\ \A r \in ALLQUEUES : r # q => f[r] = used[r]
            BY <2>1, <2>2, <3>1, TurnsStep
        <3> HIDE DEF f
        <3>3. used' = f
            BY <2>3 DEF f
        <3> QED BY <3>2, <3>3
    <2>5. Cursors'
        BY <1>1, <1>4, <2>3, <2>4 DEF Cursors, Turns
    <2>6. /\ Ahead(q, last_used[q], x) <= Ahead(q, last_used[q], avail[q])
        <3> DEFINE i == last_used[q]
                   u == used[q]
                   v == avail[q]
                   w == Wrap[q]
        <3>1. /\ w \in Nat /\ w > 0 /\ i \in Nat /\ i < w /\ u \in Nat /\ u < w /\ v \in Nat /\ v < w
              /\ x \in Nat /\ x < w
            BY <2>1, <2>2, Sizes
        <3>2. x = IF u = w - 1 THEN 0 ELSE u + 1
            BY <2>1, Indices DEF x
        <3>3. /\ Ahead(q, i, u) = IF i <= u THEN u - i ELSE u - i + w
              /\ Ahead(q, i, v) = IF i <= v THEN v - i ELSE v - i + w
              /\ Ahead(q, i, x) = IF i <= x THEN x - i ELSE x - i + w
            BY <2>1, <2>2, Indices
        <3>4. Ahead(q, i, u) <= Ahead(q, i, v) /\ u # v
            BY <1>1, <2>1 DEF Order
        <3> HIDE DEF i, u, v, w
        <3>5. Ahead(q, i, x) <= Ahead(q, i, v)
            BY <3>1, <3>2, <3>3, <3>4
        <3> QED BY <3>5 DEF i, v
    <2>7. Order'
        BY <1>1, <1>2, <1>4, <2>4, <2>6 DEF Order
    <2> QED BY <2>5, <2>7
<1>5. ASSUME NEW q \in QUEUES, ArmNotification(q),
             UNCHANGED <<avail, next_avail, used, used_event, no_interrupt, last_used>>
      PROVE  Cursors' /\ Order'
    <2>1. q \in ALLQUEUES /\ next_avail[q] \in INDEX(q) /\ Turns(avail_event)
        BY <1>1, <1>2 DEF Cursors, Turns
    <2>2. Turns(avail_event')
        BY <1>5, <2>1, TurnsStep DEF ArmNotification
    <2>3. Cursors'
        BY <1>1, <1>5, <2>2 DEF Cursors, Turns
    <2> QED BY <1>1, <1>2, <1>5, <2>3 DEF Order
<1>6. CASE ServeOne
    <2>1. target[core] \in QUEUES
        BY <1>1, <1>6 DEF ServeOne, Tasks, Inv, Holder
    <2> QED BY <1>4, <1>6, <2>1 DEF ServeOne, driver
<1>7. CASE FlushOne
    <2>1. "rx" \in QUEUES
        BY <1>1, <1>2, <1>7 DEF FlushOne, Tasks
    <2> QED BY <1>4, <1>7, <2>1 DEF FlushOne, driver
<1>8. CASE Arm
    <2>1. target[core] \in QUEUES
        BY <1>1, <1>8 DEF Arm, Tasks, Inv, Holder
    <2> QED BY <1>5, <1>8, <2>1 DEF Arm, driver
<1>9. CASE FlushArm
    <2>1. "rx" \in QUEUES
        BY <1>1, <1>2, <1>9 DEF FlushArm, Tasks
    <2> QED BY <1>5, <1>9, <2>1 DEF FlushArm, driver
<1>10. ASSUME NEW q \in QUEUES, NEW c \in CPUS, Post(c, q) PROVE Cursors' /\ Order'
    <2> DEFINE x == Succ(q, avail[q])
               i == last_used[q]
    <2>1. /\ q \in ALLQUEUES /\ used[q] \in INDEX(q) /\ avail[q] \in INDEX(q) /\ i \in INDEX(q)
        BY <1>1, <1>2 DEF Cursors, Turns
    <2>2. x \in INDEX(q)
        BY <2>1, Indices
    <2>3. /\ avail' = [avail EXCEPT ![q] = x] /\ Ahead(q, i, avail[q]) < Size[q]
          /\ UNCHANGED <<avail_event, next_avail, used, used_event, no_interrupt, last_used>>
        BY <1>10 DEF Post, driver
    <2> HIDE DEF x
    <2>4. Turns(avail') /\ avail'[q] = x /\ \A r \in ALLQUEUES : r # q => avail'[r] = avail[r]
        <3> DEFINE f == [avail EXCEPT ![q] = x]
        <3>1. Turns(avail)
            BY <1>1 DEF Cursors
        <3>2. Turns(f) /\ f[q] = x /\ \A r \in ALLQUEUES : r # q => f[r] = avail[r]
            BY <2>1, <2>2, <3>1, TurnsStep
        <3> HIDE DEF f
        <3>3. avail' = f
            BY <2>3 DEF f
        <3> QED BY <3>2, <3>3
    <2>5. Cursors'
        BY <1>1, <2>3, <2>4 DEF Cursors, Turns
    <2>6. Ahead(q, i, used[q]) <= Ahead(q, i, x) /\ Ahead(q, i, x) <= Size[q]
        <3>1. /\ Wrap[q] \in Nat /\ Size[q] \in Nat /\ Size[q] < Wrap[q]
              /\ Ahead(q, i, avail[q]) \in Nat /\ Ahead(q, i, used[q]) \in Nat
            BY <2>1, Sizes, Indices
        <3>2. Ahead(q, i, used[q]) <= Ahead(q, i, avail[q])
            BY <1>1 DEF Order
        <3>3. Ahead(q, i, avail[q]) < Wrap[q] - 1
            BY <2>3, <3>1
        <3>4. Ahead(q, i, x) = Ahead(q, i, avail[q]) + 1
            BY <2>1, <3>3, OneStep DEF x
        <3> QED BY <2>3, <3>1, <3>2, <3>4
    <2>7. Order'
        BY <1>1, <1>2, <2>3, <2>4, <2>6 DEF Order
    <2> QED BY <2>5, <2>7
<1>11. ASSUME NEW q \in QUEUES, TakeUsed(q) PROVE Cursors' /\ Order'
    <2> DEFINE i == last_used[q]
               x == Succ(q, i)
    <2>1. /\ q \in ALLQUEUES /\ used[q] \in INDEX(q) /\ avail[q] \in INDEX(q) /\ i \in INDEX(q)
        BY <1>1, <1>2 DEF Cursors, Turns
    <2>2. x \in INDEX(q)
        BY <2>1, Indices
    <2>3. /\ last_used' = [last_used EXCEPT ![q] = x] /\ i # used[q]
          /\ UNCHANGED <<avail, avail_event, next_avail, used, used_event, no_interrupt>>
        BY <1>11 DEF TakeUsed, rings
    <2> HIDE DEF x
    <2>4. Turns(last_used') /\ last_used'[q] = x /\ \A r \in ALLQUEUES : r # q => last_used'[r] = last_used[r]
        <3> DEFINE f == [last_used EXCEPT ![q] = x]
        <3>1. Turns(last_used)
            BY <1>1 DEF Cursors
        <3>2. Turns(f) /\ f[q] = x /\ \A r \in ALLQUEUES : r # q => f[r] = last_used[r]
            BY <2>1, <2>2, <3>1, TurnsStep
        <3> HIDE DEF f
        <3>3. last_used' = f
            BY <2>3 DEF f
        <3> QED BY <3>2, <3>3
    <2>5. Cursors'
        BY <1>1, <2>3, <2>4 DEF Cursors, Turns
    <2>6. Ahead(q, x, used[q]) <= Ahead(q, x, avail[q]) /\ Ahead(q, x, avail[q]) <= Size[q]
        <3>1. /\ Size[q] \in Nat
              /\ Ahead(q, i, avail[q]) \in Nat /\ Ahead(q, i, used[q]) \in Nat
            BY <2>1, Sizes, Indices
        <3>2. Ahead(q, i, used[q]) <= Ahead(q, i, avail[q]) /\ Ahead(q, i, avail[q]) <= Size[q]
            BY <1>1 DEF Order
        <3>3. Ahead(q, i, used[q]) # 0
            BY <2>1, <2>3, OneStep
        <3>4. i # avail[q]
            <4>1. Ahead(q, i, avail[q]) # 0
                BY <3>1, <3>2, <3>3
            <4> QED BY <2>1, <4>1, OneStep
        <3>5. /\ Ahead(q, x, used[q]) = Ahead(q, i, used[q]) - 1
              /\ Ahead(q, x, avail[q]) = Ahead(q, i, avail[q]) - 1
            BY <2>1, <2>3, <3>4, OneStep DEF x
        <3> QED BY <3>1, <3>2, <3>5
    <2>7. Order'
        BY <1>1, <1>2, <2>3, <2>4, <2>6 DEF Order
    <2> QED BY <2>5, <2>7
<1>12. ASSUME NEW q \in QUEUES, PollEnds(q) PROVE Cursors' /\ Order'
    <2>1. q \in ALLQUEUES /\ last_used[q] \in INDEX(q) /\ Turns(used_event)
        BY <1>1, <1>2 DEF Cursors, Turns
    <2>2. /\ UNCHANGED <<avail, avail_event, next_avail, used, last_used>>
          /\ used_event' = IF event_idx THEN [used_event EXCEPT ![q] = last_used[q]] ELSE used_event
          /\ no_interrupt' = [no_interrupt EXCEPT ![q] = FALSE]
        BY <1>12 DEF PollEnds
    <2>3. Turns(used_event')
        BY <2>1, <2>2, TurnsStep
    <2>4. no_interrupt' \in [ALLQUEUES -> BOOLEAN]
        BY <1>1, <2>2 DEF Cursors
    <2>5. Cursors'
        BY <1>1, <2>2, <2>3, <2>4 DEF Cursors, Turns
    <2> QED BY <1>1, <1>2, <2>2, <2>5 DEF Order
<1>13. CASE TakeIrq \/ Ack
    <2>1. UNCHANGED <<avail, avail_event, next_avail, used, used_event, last_used>>
        BY <1>13 DEF TakeIrq, Ack
    <2>2. no_interrupt' \in [ALLQUEUES -> BOOLEAN]
        BY <1>1, <1>13 DEF TakeIrq, Ack, Cursors, Device
    <2>3. Cursors'
        BY <1>1, <2>1, <2>2 DEF Cursors, Turns
    <2> QED BY <1>1, <1>2, <2>1, <2>3 DEF Order
<1> QED BY <1>3, <1>6, <1>7, <1>8, <1>9, <1>10, <1>11, <1>12, <1>13, CursorStep

\* The passes of the device.
LEMMA TasksKept ==
    ASSUME Inv, Typed, [Next]_vars
    PROVE  Tasks'
<1>1. Device /\ Cursors /\ Tasks /\ UNCHANGED <<kind, transport, event_idx>>
    BY DeviceStep DEF Typed
<1>2. /\ QUEUES' = QUEUES /\ QUEUES \subseteq ALLQUEUES /\ kind \in {"block", "net"} /\ First \in QUEUES
      /\ kind = "net" => QUEUES = {"rx", "tx"}
    BY <1>1, Queues DEF QUEUES
<1>3. UNION {INDEX(q) : q \in QUEUES}' = UNION {INDEX(q) : q \in QUEUES}
    BY <1>2
<1> DEFINE U == UNION {INDEX(q) : q \in QUEUES}
<1>4. \A q \in QUEUES : used[q] \in U
    BY <1>1, <1>2 DEF Cursors, Turns
<1>5. 0 \in U
    <2>1. 0 \in INDEX(First)
        BY <1>2, Sizes
    <2> QED BY <1>2, <2>1
<1>6. U' = U
    BY <1>3
<1> HIDE DEF U
<1>7. /\ pc \in [ACTORS -> PLACES] /\ target \in [ACTORS -> ALLQUEUES \cup {None}] /\ old_used \in U
    BY <1>1 DEF Inv, Holder, Tasks, U
<1> DEFINE G == /\ target' \in [ACTORS -> ALLQUEUES \cup {None}]
                /\ \A a \in ACTORS : pc'[a] \in {"exit", "posted"} => target'[a] \in QUEUES
                /\ stage' \in {"none", "pop", "arm", "recheck", "flush", "flushed", "raise"}
                /\ stage' \in {"pop", "arm", "recheck"} => core' # Service
                /\ stage' \in {"flush", "flushed"} => kind = "net"
                /\ pc'[Service] \in {"off", "pass", "serving", "wait", "asleep"}
                /\ pc'[Service] # "off" => kind = "net"
                /\ old_used' \in U
<1>8. SUFFICES G
    BY <1>1, <1>2, <1>6 DEF Tasks, U
<1>9. CASE UNCHANGED <<pc, target, stage, core, old_used>>
    BY <1>1, <1>7, <1>9 DEF Tasks
<1>10. ASSUME NEW a \in CPUS \cup {Main}, Enter(a) PROVE G
    <2>1. /\ a \in ACTORS /\ a # Service /\ pc[a] = "exit" /\ core' = a /\ stage' \in {"arm", "pop"}
          /\ old_used' = used[target[a]] /\ UNCHANGED pc /\ UNCHANGED target
        BY <1>10, Actors DEF Enter, Stage
    <2>2. old_used' \in U
        BY <1>1, <1>4, <2>1 DEF Tasks
    <2> QED BY <1>1, <1>7, <2>1, <2>2 DEF Tasks
<1>11. CASE Raise
    <2>1. /\ core' = None /\ stage' = "none" /\ stage = "raise" /\ old_used' = 0
          /\ pc' = [pc EXCEPT ![core] = After(core)]
          /\ target' = [target EXCEPT ![core] = NextTarget(core)]
        BY <1>11 DEF Raise, Stage, Go
    <2>2. core \in ACTORS /\ (core = Service => pc[Service] = "serving") /\ (core # Service => pc[core] = "exit")
        BY <2>1 DEF Inv, Holder
    <2>3. NextTarget(core) \in ALLQUEUES \cup {None}
        BY <1>7, <2>2 DEF NextTarget, ALLQUEUES
    <2>4. target' \in [ACTORS -> ALLQUEUES \cup {None}]
        BY <1>7, <2>1, <2>3
    <2>5. /\ pc'[core] = After(core) /\ target'[core] = NextTarget(core)
          /\ \A a \in ACTORS : a # core => pc'[a] = pc[a] /\ target'[a] = target[a]
        BY <1>7, <2>1, <2>2
    <2>6. After(core) \in {"exit", "posted"} => NextTarget(core) \in QUEUES
        BY <1>2, Actors DEF After, NextTarget
    <2>7. core = Service => After(core) \in {"pass", "wait"} /\ kind = "net"
        <3>1. SUFFICES ASSUME core = Service PROVE After(core) \in {"pass", "wait"} /\ kind = "net"
            OBVIOUS
        <3>2. kind = "net"
            BY <1>1, <2>2, <3>1 DEF Tasks
        <3>3. After(core) = IF used["rx"] # old_used THEN "pass" ELSE "wait"
            BY <3>1, Actors DEF After
        <3> QED BY <3>2, <3>3
    <2>8. pc'[Service] \in {"off", "pass", "serving", "wait", "asleep"} /\ (pc'[Service] # "off" => kind = "net")
        BY <1>1, <2>5, <2>7, Actors DEF Tasks
    <2>9. \A a \in ACTORS : pc'[a] \in {"exit", "posted"} => target'[a] \in QUEUES
        BY <1>1, <2>5, <2>6 DEF Tasks
    <2> QED BY <1>5, <2>1, <2>4, <2>8, <2>9, Actors
<1>12. CASE ServeOne \/ Completed \/ Arm \/ Recheck \/ FlushOne \/ FlushEnds \/ FlushArm
    <2>1. /\ UNCHANGED pc /\ UNCHANGED target /\ UNCHANGED core
          /\ stage \in {"pop", "arm", "recheck", "flush", "flushed"}
        BY <1>12 DEF ServeOne, Completed, Arm, Recheck, FlushOne, FlushEnds, FlushArm, locks
    <2>2. /\ stage' \in {"pop", "arm", "recheck", "flush", "flushed", "raise"}
          /\ stage' \in {"pop", "arm", "recheck"} => stage \in {"pop", "arm", "recheck"}
          /\ stage' \in {"flush", "flushed"} => kind = "net"
        BY <1>1, <1>12 DEF ServeOne, Completed, Arm, Recheck, FlushOne, FlushEnds, FlushArm, Stage, Tasks
    <2>3. \/ UNCHANGED old_used
          \/ old_used' = used["rx"] /\ kind = "net"
          \/ old_used' = used[target[core]] /\ stage = "recheck"
        BY <1>12 DEF ServeOne, Completed, Arm, Recheck, FlushOne, FlushEnds, FlushArm
    <2>4. stage = "recheck" => target[core] \in QUEUES
        BY <1>1 DEF Tasks, Inv, Holder
    <2>5. old_used' \in U
        BY <1>2, <1>4, <1>7, <2>3, <2>4
    <2> QED BY <1>1, <1>7, <2>1, <2>2, <2>5 DEF Tasks
<1>13. CASE Start
    <2>1. /\ UNCHANGED target /\ UNCHANGED stage /\ UNCHANGED core /\ UNCHANGED old_used
          /\ pc' = [a \in ACTORS |-> CASE a = Main -> "over"
                                       [] a = Service -> IF kind = "net" THEN "pass" ELSE "off"
                                       [] OTHER -> IF a \in Users[kind] THEN "guest" ELSE "off"]
        BY <1>13 DEF Start, locks
    <2>2. \A a \in ACTORS : /\ pc'[a] \notin {"exit", "posted"}
                            /\ a = Service => pc'[a] = IF kind = "net" THEN "pass" ELSE "off"
        BY <2>1, Actors
    <2> QED BY <1>1, <1>7, <2>1, <2>2, Actors DEF Tasks
<1>14. CASE Pass \/ Wait \/ WaitEnds
    <2>1. PICK p \in {"pass", "serving", "asleep"} : pc' = [pc EXCEPT ![Service] = p]
        BY <1>14 DEF Pass, Wait, WaitEnds, Go
    <2>2. /\ UNCHANGED target /\ pc[Service] # "off"
          /\ \/ UNCHANGED stage /\ UNCHANGED core /\ UNCHANGED old_used
             \/ stage' = "flush" /\ old_used' = used["rx"]
        BY <1>14 DEF Pass, Wait, WaitEnds, Stage, locks
    <2>3. kind = "net" /\ used["rx"] \in U
        BY <1>1, <1>2, <1>4, <2>2 DEF Tasks
    <2>4. pc'[Service] = p /\ \A a \in ACTORS : a # Service => pc'[a] = pc[a]
        BY <1>7, <2>1, Actors
    <2> QED BY <1>1, <1>7, <2>2, <2>3, <2>4, Actors DEF Tasks
<1>15. ASSUME NEW c \in CPUS, Wake(c) \/ StatusRead(c) \/ StatusDone(c) PROVE G
    <2>1. /\ UNCHANGED target /\ UNCHANGED stage /\ UNCHANGED core /\ UNCHANGED old_used
          /\ \E p \in {"notify", "status", "guest"} : pc' = [pc EXCEPT ![c] = p]
        BY <1>15 DEF Wake, StatusRead, StatusDone, Go, locks
    <2>2. pc'[c] \in {"notify", "status", "guest"} /\ \A a \in ACTORS : a # c => pc'[a] = pc[a]
        BY <1>7, <2>1, Actors
    <2> QED BY <1>1, <1>7, <2>1, <2>2, Actors DEF Tasks
<1>16. ASSUME NEW c \in CPUS, NotifyOne(c) \/ Decide(c) PROVE G
    <2>1. /\ UNCHANGED stage /\ UNCHANGED core /\ UNCHANGED old_used
          /\ UNCHANGED target \/ target' = [target EXCEPT ![c] = None]
        BY <1>16 DEF NotifyOne, Decide, locks
    <2>2. /\ pc'[c] = "guest" \/ (pc[c] = "posted" /\ pc'[c] = "exit" /\ UNCHANGED target)
          /\ \A a \in ACTORS : a # c => pc'[a] = pc[a] \/ (a = Service /\ pc[Service] = "asleep" /\ pc'[a] = "pass")
        BY <1>7, <1>16, Actors DEF NotifyOne, Decide, Go
    <2>3. target' \in [ACTORS -> ALLQUEUES \cup {None}] /\ \A a \in ACTORS : a # c => target'[a] = target[a]
        BY <1>7, <2>1
    <2>4. pc'[Service] = pc[Service] \/ (pc[Service] = "asleep" /\ pc'[Service] = "pass")
        BY <2>2, Actors
    <2>5. \A a \in ACTORS : pc'[a] \in {"exit", "posted"} => target'[a] \in QUEUES
        BY <1>1, <2>2, <2>3, Actors DEF Tasks
    <2> QED BY <1>1, <1>7, <2>1, <2>3, <2>4, <2>5 DEF Tasks
<1>17. ASSUME NEW c \in CPUS, NEW q \in QUEUES, Post(c, q) PROVE G
    <2>1. /\ UNCHANGED stage /\ UNCHANGED core /\ UNCHANGED old_used
          /\ target' = [target EXCEPT ![c] = q] /\ pc' = [pc EXCEPT ![c] = "posted"]
        BY <1>17 DEF Post, Go, locks
    <2>2. /\ target' \in [ACTORS -> ALLQUEUES \cup {None}] /\ target'[c] = q
          /\ \A a \in ACTORS : a # c => target'[a] = target[a] /\ pc'[a] = pc[a]
        BY <1>2, <1>7, <2>1, Actors
    <2> QED BY <1>1, <1>7, <2>1, <2>2, Actors DEF Tasks
<1>18. CASE TakeIrq \/ Ack \/ (\E q \in QUEUES : Poll(q)) \/ UNCHANGED vars
    <2>1. UNCHANGED <<pc, target, stage, core, old_used>>
        BY <1>18 DEF TakeIrq, Ack, Poll, TakeUsed, PollEnds, vars, locks
    <2> QED BY <1>9, <2>1
<1> HIDE DEF G
<1> QED BY <1>10, <1>11, <1>12, <1>13, <1>14, <1>15, <1>16, <1>17, <1>18 DEF Next, Core

\* The flags and locks.
LEMMA BitsKept ==
    ASSUME Typed, [Next]_vars
    PROVE  Bits'
<1>1. Bits /\ MaxReads \in Nat
    BY VirtioAssumption DEF Typed
<1>2. CASE Core
    BY <1>1, <1>2 DEF Core, ServeOne, Completed, Arm, Recheck, FlushOne, FlushEnds, FlushArm, Raise, Bits,
       locks, driver, wake
<1>3. CASE Start \/ Wait \/ WaitEnds
    BY <1>1, <1>3 DEF Start, Wait, WaitEnds, Bits, locks, driver, wake
<1>4. CASE Pass
    BY <1>1, <1>4 DEF Pass, Bits, driver
<1>5. CASE TakeIrq \/ Ack
    BY <1>1, <1>5 DEF TakeIrq, Ack, Bits, locks, wake
<1>6. ASSUME NEW a \in CPUS \cup {Main}, Enter(a) PROVE Bits'
    BY <1>1, <1>6 DEF Enter, Bits, driver, wake
<1>7. ASSUME NEW c \in CPUS, Wake(c) \/ NotifyOne(c) \/ Decide(c) PROVE Bits'
    BY <1>1, <1>7 DEF Wake, NotifyOne, Decide, Bits, locks, driver, wake
<1>8. ASSUME NEW c \in CPUS, StatusRead(c) \/ StatusDone(c) PROVE Bits'
    BY <1>1, <1>8 DEF StatusRead, StatusDone, Bits, driver, wake
<1>9. ASSUME NEW c \in CPUS, NEW q \in QUEUES, Post(c, q) PROVE Bits'
    BY <1>1, <1>9 DEF Post, Bits, locks, driver, wake
<1>10. ASSUME NEW q \in QUEUES, Poll(q) PROVE Bits'
    BY <1>1, <1>10 DEF Poll, TakeUsed, PollEnds, Bits, locks, driver, wake
<1>11. CASE UNCHANGED vars
    BY <1>1, <1>11 DEF vars, Bits
<1> QED BY <1>2, <1>3, <1>4, <1>5, <1>6, <1>7, <1>8, <1>9, <1>10, <1>11 DEF Next

\* An edge is pending once.
Once(s) == \A i, j \in 1..Len(s) : s[i] = s[j] => i = j

\* signal keeps that.
LEMMA EdgeOnce ==
    ASSUME NEW V, irq \in Seq(V), Once(irq), NEW v \in V
    PROVE  Edge(v) \in Seq(V) /\ Once(Edge(v))
<1>1. CASE \E k \in 1..Len(irq) : irq[k] = v
    BY <1>1 DEF Edge
<1>2. CASE ~\E k \in 1..Len(irq) : irq[k] = v
    <2> DEFINE s == Append(irq, v)
               n == Len(irq)
    <2>1. Edge(v) = s
        BY <1>2 DEF Edge
    <2>2. /\ s \in Seq(V) /\ n \in Nat /\ Len(s) = n + 1 /\ s[n + 1] = v
          /\ \A i \in 1..n : s[i] = irq[i]
        BY AppendProperties, LenProperties
    <2>3. Once(s)
        <3>1. SUFFICES ASSUME NEW i \in 1..(n + 1), NEW j \in 1..(n + 1), s[i] = s[j] PROVE i = j
            BY <2>2 DEF Once
        <3> HIDE DEF s
        <3>2. (i \in 1..n \/ i = n + 1) /\ (j \in 1..n \/ j = n + 1)
            BY <2>2
        <3>3. CASE i \in 1..n /\ j \in 1..n
            BY <2>2, <3>1, <3>3 DEF Once
        <3>4. CASE i \in 1..n /\ j = n + 1
            BY <1>2, <2>2, <3>1, <3>4
        <3>5. CASE i = n + 1 /\ j \in 1..n
            BY <1>2, <2>2, <3>1, <3>5
        <3> QED BY <3>2, <3>3, <3>4, <3>5
    <2> QED BY <2>1, <2>2, <2>3
<1> QED BY <1>1, <1>2

\* So does the taking of the oldest.
LEMMA TailOnce ==
    ASSUME NEW V, irq \in Seq(V), Once(irq), irq # <<>>
    PROVE  Tail(irq) \in Seq(V) /\ Once(Tail(irq)) /\ Head(irq) \in V
<1> DEFINE s == Tail(irq)
           n == Len(irq)
<1>1. /\ s \in Seq(V) /\ Head(irq) \in V /\ Len(s) = n - 1 /\ n \in Nat /\ n >= 1
      /\ \A i \in 1..(n - 1) : s[i] = irq[i + 1]
    BY HeadTailProperties, EmptySeq, LenProperties
<1>2. Once(s)
    <2>1. SUFFICES ASSUME NEW i \in 1..(n - 1), NEW j \in 1..(n - 1), s[i] = s[j] PROVE i = j
        BY <1>1 DEF Once
    <2>2. i + 1 \in 1..n /\ j + 1 \in 1..n
        BY <1>1
    <2>3. irq[i + 1] = irq[j + 1]
        BY <1>1, <2>1
    <2>4. i + 1 = j + 1
        BY <2>2, <2>3 DEF Once
    <2> QED BY <2>4
<1> QED BY <1>1, <1>2

\* The interrupts of a transport.
LEMMA EdgesKept ==
    ASSUME Inv, Typed, [Next]_vars
    PROVE  Edges'
<1>1. Device /\ Tasks /\ Edges /\ UNCHANGED <<kind, transport, event_idx>>
    BY DeviceStep DEF Typed
<1>2. /\ QUEUES' = QUEUES /\ Vectors' = Vectors /\ QUEUES \subseteq ALLQUEUES /\ transport \in {"pci", "mmio"}
      /\ kind = "net" => "rx" \in QUEUES
    BY <1>1, Queues, VirtioAssumption DEF QUEUES, Vectors, Device
<1>3. irq \in Seq(Vectors) /\ Once(irq) /\ todo \subseteq QUEUES
    BY <1>1 DEF Edges, Once
<1>4. SUFFICES /\ isr' \in BOOLEAN /\ intstatus' \in BOOLEAN
               /\ isr' => transport = "mmio"
               /\ irq' \in Seq(Vectors) /\ Once(irq)'
               /\ todo' \subseteq QUEUES
    BY <1>1, <1>2 DEF Edges, Once
<1>5. CASE UNCHANGED <<isr, intstatus, irq, todo>>
    BY <1>1, <1>3, <1>5 DEF Edges, Once
<1>6. ASSUME NEW q \in QUEUES, Signal(q), UNCHANGED intstatus, UNCHANGED todo
      PROVE  /\ isr' \in BOOLEAN /\ intstatus' \in BOOLEAN
             /\ isr' => transport = "mmio"
             /\ irq' \in Seq(Vectors) /\ Once(irq')
             /\ todo' \subseteq QUEUES
    <2>1. isr' = (transport = "mmio") /\ (irq' = irq \/ (transport = "pci" /\ irq' = Edge(q)))
        BY <1>6 DEF Signal
    <2>2. transport = "pci" => Edge(q) \in Seq(Vectors) /\ Once(Edge(q))
        <3>1. transport = "pci" => q \in Vectors
            BY DEF Vectors
        <3> QED BY <1>3, <3>1, EdgeOnce
    <2> QED BY <1>1, <1>3, <1>6, <2>1, <2>2 DEF Edges
<1>7. CASE Completed
    <2>1. target[core] \in QUEUES
        BY <1>1, <1>7 DEF Completed, Tasks, Inv, Holder
    <2>2. CASE Signal(target[core])
        BY <1>6, <1>7, <2>1, <2>2 DEF Completed, driver, Once
    <2>3. CASE UNCHANGED <<isr, irq>>
        BY <1>5, <1>7, <2>3 DEF Completed, driver
    <2> QED BY <1>7, <2>2, <2>3 DEF Completed
<1>8. CASE FlushEnds
    <2>1. "rx" \in QUEUES
        BY <1>1, <1>2, <1>8 DEF FlushEnds, Tasks
    <2>2. CASE Signal("rx")
        BY <1>6, <1>8, <2>1, <2>2 DEF FlushEnds, driver, Once
    <2>3. CASE UNCHANGED <<isr, irq>>
        BY <1>5, <1>8, <2>3 DEF FlushEnds, driver
    <2> QED BY <1>8, <2>2, <2>3 DEF FlushEnds
<1>9. CASE Raise
    <2>1. /\ isr' = FALSE /\ UNCHANGED todo
          /\ \/ isr /\ intstatus' = TRUE /\ irq' = Edge(Line)
             \/ UNCHANGED intstatus /\ UNCHANGED irq
        BY <1>9 DEF Raise, driver
    <2>2. isr => Edge(Line) \in Seq(Vectors) /\ Once(Edge(Line))
        <3>1. isr => Line \in Vectors
            BY <1>1 DEF Edges, Vectors
        <3> QED BY <1>3, <3>1, EdgeOnce
    <2> QED BY <1>1, <1>3, <2>1, <2>2 DEF Edges, Once
<1>10. CASE TakeIrq
    <2>1. /\ irq # <<>> /\ irq' = Tail(irq) /\ UNCHANGED isr /\ UNCHANGED intstatus
          /\ UNCHANGED todo \/ (transport = "pci" /\ todo' = todo \cup {Head(irq)})
        BY <1>10 DEF TakeIrq
    <2>2. Tail(irq) \in Seq(Vectors) /\ Once(Tail(irq)) /\ Head(irq) \in Vectors
        BY <1>3, <2>1, TailOnce
    <2>3. transport = "pci" => Vectors = QUEUES
        BY DEF Vectors
    <2> QED BY <1>1, <1>3, <2>1, <2>2, <2>3 DEF Edges, Once
<1>11. CASE Ack
    <2>1. intstatus' = FALSE /\ todo' = QUEUES /\ UNCHANGED isr /\ UNCHANGED irq
        BY <1>11 DEF Ack
    <2> QED BY <1>1, <1>3, <2>1 DEF Edges, Once
<1>12. ASSUME NEW q \in QUEUES, Poll(q)
       PROVE  UNCHANGED isr /\ UNCHANGED intstatus /\ UNCHANGED irq /\ todo' \subseteq QUEUES
    BY <1>3, <1>12 DEF Poll, TakeUsed, PollEnds
<1>13. CASE \E q \in QUEUES : Poll(q)
    BY <1>1, <1>3, <1>12, <1>13 DEF Edges, Once
<1>14. CASE ServeOne \/ Arm \/ Recheck \/ FlushOne \/ FlushArm
    BY <1>5, <1>14 DEF ServeOne, Arm, Recheck, FlushOne, FlushArm, driver
<1>15. CASE Start \/ Pass \/ Wait \/ WaitEnds \/ UNCHANGED vars
    BY <1>5, <1>15 DEF Start, Pass, Wait, WaitEnds, vars, driver
<1>16. ASSUME NEW a \in CPUS \cup {Main}, Enter(a) PROVE UNCHANGED <<isr, intstatus, irq, todo>>
    BY <1>16 DEF Enter, driver
<1>17. ASSUME NEW c \in CPUS, Wake(c) \/ NotifyOne(c) \/ Decide(c) \/ StatusRead(c) \/ StatusDone(c)
       PROVE  UNCHANGED <<isr, intstatus, irq, todo>>
    BY <1>17 DEF Wake, NotifyOne, Decide, StatusRead, StatusDone, driver
<1>18. ASSUME NEW c \in CPUS, NEW q \in QUEUES, Post(c, q) PROVE UNCHANGED <<isr, intstatus, irq, todo>>
    BY <1>18 DEF Post, driver
<1> QED BY <1>5, <1>7, <1>8, <1>9, <1>10, <1>11, <1>13, <1>14, <1>15, <1>16, <1>17, <1>18 DEF Next, Core

\* A resumed session.
LEMMA InitTyped == Init => Typed
<1> SUFFICES ASSUME Init PROVE Typed
    OBVIOUS
<1>1. Device
    BY DEF Init, Device
<1>2. /\ kind \in {"block", "net"} /\ QUEUES \subseteq ALLQUEUES /\ First \in QUEUES
      /\ None \notin ALLQUEUES
    BY <1>1, Queues
<1>3. \A q \in ALLQUEUES : 0 \in INDEX(q) /\ Wrap[q] - 1 \in INDEX(q) /\ Wrap[q] - 1 \in Nat
    <2>1. SUFFICES ASSUME NEW q \in ALLQUEUES PROVE 0 \in INDEX(q) /\ Wrap[q] - 1 \in INDEX(q) /\ Wrap[q] - 1 \in Nat
        OBVIOUS
    <2>2. Wrap[q] \in Nat /\ Size[q] \in Nat /\ 1 <= Size[q] /\ Size[q] < Wrap[q]
        BY Sizes
    <2>3. Wrap[q] - 1 \in Nat /\ Wrap[q] - 1 < Wrap[q] /\ 0 < Wrap[q]
        BY <2>2
    <2> QED BY <2>3, Sizes
<1>4. PICK unseen \in {{}, {First}} :
        /\ last_used = [q \in ALLQUEUES |-> IF q \in unseen THEN Wrap[q] - 1 ELSE 0]
        /\ intstatus = (transport = "mmio" /\ unseen # {})
        /\ irq = CASE unseen = {} \/ ~IrqKept -> <<>>
                   [] transport = "mmio" -> <<Line>>
                   [] OTHER -> <<First>>
    BY DEF Init
<1>5. Turns(last_used)
    BY <1>3, <1>4 DEF Turns
<1>6. Turns(avail)
    <2>1. \A q \in ALLQUEUES : avail[q] \in INDEX(q)
        BY <1>3 DEF Init
    <2>2. \A q \in ALLQUEUES : avail[q] \in Nat
        BY <2>1, Sizes
    <2>3. avail \in [ALLQUEUES -> UNION {INDEX(q) : q \in QUEUES}]
        BY DEF Init
    <2> QED BY <2>1, <2>2, <2>3 DEF Turns
<1>7. Turns(avail_event)
    <2>1. PICK late \in SUBSET ALLQUEUES :
             avail_event = [q \in ALLQUEUES |-> IF q \in late THEN Wrap[q] - 1 ELSE 0]
        BY DEF Init
    <2> QED BY <1>3, <2>1 DEF Turns
<1>8. used = [q \in ALLQUEUES |-> 0] /\ next_avail = used /\ Turns(used) /\ Turns(used_event)
    BY <1>3, <1>5 DEF Init, Turns
<1>9. Cursors
    BY <1>5, <1>6, <1>7, <1>8 DEF Init, Cursors
<1>10. Order
    <2>1. SUFFICES ASSUME NEW q \in QUEUES
                   PROVE  /\ Ahead(q, last_used[q], used[q]) <= Ahead(q, last_used[q], avail[q])
                          /\ Ahead(q, last_used[q], avail[q]) <= Size[q]
        BY DEF Order
    <2>2. q \in ALLQUEUES /\ last_used[q] \in INDEX(q) /\ avail[q] \in INDEX(q) /\ used[q] = 0 /\ 0 \in INDEX(q)
        BY <1>2, <1>3, <1>5, <1>6, <1>8 DEF Turns
    <2>3. Ahead(q, last_used[q], avail[q]) \in Ahead(q, last_used[q], 0)..Size[q]
        BY DEF Init
    <2>4. Ahead(q, last_used[q], 0) \in Nat /\ Size[q] \in Nat
        BY <2>2, Indices, Sizes
    <2> QED BY <2>2, <2>3, <2>4
<1>11. Tasks
    <2>1. /\ pc = [a \in ACTORS |-> IF a = Main THEN "exit" ELSE "off"]
          /\ target = [a \in ACTORS |-> IF a = Main THEN First ELSE None]
          /\ stage = "none" /\ old_used = 0
        BY DEF Init
    <2>2. 0 \in UNION {INDEX(q) : q \in QUEUES}
        BY <1>2, <1>3
    <2> QED BY <1>2, <2>1, <2>2, Actors DEF Tasks
<1>12. Bits
    <2>1. /\ regs = None /\ reads = 0 /\ backlog = FALSE /\ kick = FALSE /\ asked = FALSE
          /\ handler = "idle"
        BY DEF Init
    <2>2. 0 \in 0..MaxReads
        BY VirtioAssumption
    <2> QED BY <2>1, <2>2 DEF Bits
<1>13. Edges
    <2>1. isr = FALSE /\ todo = {} /\ intstatus \in BOOLEAN
        BY <1>4 DEF Init
    <2>2. irq = <<>> \/ \E v \in Vectors : irq = <<v>>
        <3>1. First \in QUEUES
            BY <1>2
        <3> QED BY <1>4, <3>1 DEF Vectors
    <2>3. irq \in Seq(Vectors) /\ Len(irq) <= 1 /\ Len(irq) \in Nat
        <3>1. CASE irq = <<>>
            <4>1. irq \in Seq(Vectors) /\ Len(irq) = 0
                BY <3>1
            <4> QED BY <4>1
        <3>2. ASSUME NEW v \in Vectors, irq = <<v>> PROVE irq \in Seq(Vectors) /\ Len(irq) = 1
            BY <3>2
        <3>3. CASE \E v \in Vectors : irq = <<v>>
            <4>1. irq \in Seq(Vectors) /\ Len(irq) = 1
                BY <3>2, <3>3
            <4> QED BY <4>1
        <3> QED BY <2>2, <3>1, <3>3
    <2>4. \A i, j \in 1..Len(irq) : i = j
        BY <2>3
    <2> QED BY <2>1, <2>3, <2>4 DEF Edges
<1> QED BY <1>1, <1>9, <1>10, <1>11, <1>12, <1>13 DEF Typed

\* Every step keeps the types and the order.
LEMMA NextTyped == Inv /\ Typed /\ [Next]_vars => Typed'
<1> SUFFICES ASSUME Inv, Typed, [Next]_vars PROVE Typed'
    OBVIOUS
<1>1. Device'
    BY DeviceStep DEF Typed, Device
<1> QED BY <1>1, CursorsKept, TasksKept, BitsKept, EdgesKept DEF Typed

\* Types and order hold always.
THEOREM TypedHolds == Spec => [](Inv /\ Typed)
<1>1. Init => Inv /\ Typed
    BY InitInv, InitTyped
<1>2. (Inv /\ Typed) /\ [Next]_vars => (Inv /\ Typed)'
    BY NextInv, NextTyped
<1> QED BY <1>1, <1>2, PTL DEF Spec

\* At most two interrupts are pending, one per queue or the line.
LEMMA TwoEdges ==
    ASSUME Device, Edges
    PROVE  irq \in Seq(QUEUES \cup {Line}) /\ Len(irq) <= 2
<1>1. irq \in Seq(Vectors) /\ Len(irq) \in Nat /\ \A i \in 1..Len(irq) : irq[i] \in Vectors
    <2>1. irq \in Seq(Vectors)
        BY DEF Edges
    <2> QED BY <2>1, ElementOfSeq, LenProperties
<1>2. irq \in Seq(QUEUES \cup {Line})
    BY <1>1 DEF Vectors
<1>3. \E x, y : Vectors \subseteq {x, y}
    BY DEF Vectors, QUEUES
<1>4. Len(irq) <= 2
    <2>1. SUFFICES ASSUME ~(Len(irq) <= 2) PROVE FALSE
        OBVIOUS
    <2>2. 1 \in 1..Len(irq) /\ 2 \in 1..Len(irq) /\ 3 \in 1..Len(irq)
        BY <1>1, <2>1
    <2>3. irq[1] # irq[2] /\ irq[1] # irq[3] /\ irq[2] # irq[3]
        BY <2>2 DEF Edges
    <2>4. irq[1] \in Vectors /\ irq[2] \in Vectors /\ irq[3] \in Vectors
        BY <1>1, <2>2
    <2> QED BY <1>3, <2>3, <2>4
<1> QED BY <1>2, <1>4

\* Every variable has its type, and the driver looks at nothing the device has not
\* used, the device uses nothing the driver has not posted, and nothing is posted
\* twice, for rings of any size and indices that wrap.
THEOREM TypeCorrect == Spec => []TypeOK
<1>1. Inv /\ Typed => TypeOK
    <2> SUFFICES ASSUME Inv, Typed PROVE TypeOK
        OBVIOUS
    <2>1. Device /\ Cursors /\ Order /\ Tasks /\ Bits /\ Edges /\ Holder
        BY DEF Typed, Inv
    <2>2. \A f \in {avail, avail_event, used, used_event, last_used} :
             DOMAIN f = ALLQUEUES /\ \A q \in ALLQUEUES : f[q] \in INDEX(q)
        BY <2>1 DEF Cursors, Turns
    <2>3. irq \in Seq(QUEUES \cup {Line}) /\ Len(irq) =< 2
        BY <2>1, TwoEdges
    <2>4. \A q \in QUEUES : /\ Between(q, last_used[q], used[q], avail[q])
                            /\ Ahead(q, last_used[q], avail[q]) =< Size[q]
        BY <2>1 DEF Order, Between
    <2>5. (stage = "none") = (core = None)
        BY <2>1 DEF Holder
    <2> QED BY <2>1, <2>2, <2>3, <2>4, <2>5
            DEF TypeOK, Device, Cursors, Tasks, Bits, Edges, Holder, PLACES
<1> QED BY <1>1, TypedHolds, PTL

-----------------------------------------------------------------------------
\* Nobody forgets a request.

\* The queue the driver sends on, and the device reads to the end.
Sent == IF kind = "net" THEN "tx" ELSE "req"

\* A pass over that queue is on, which will look at it again.
Served == core # None /\ target[core] = Sent /\ stage \in {"pop", "arm", "recheck"}

\* The driver that has posted last will kick.
Kicks == event_idx => Succ(Sent, avail_event[Sent]) = avail[Sent]

\* A notification is on its way.
Coming ==
    \E c \in CPUS : /\ target[c] = Sent /\ c # core
                    /\ pc[c] = "exit" \/ (pc[c] = "posted" /\ Kicks)

\* The next request to be posted will be kicked for.
Armed == event_idx => avail_event[Sent] = next_avail[Sent]

\* What is not served is announced, or there is nothing and the next will be.
Due == IF HasPending(Sent) THEN Coming ELSE Armed

Serving ==
    /\ pc[Main] \in {"done", "over"} /\ ~Served => Due
    /\ core = Main /\ target[Main] = Sent /\ stage \in {"flush", "flushed", "raise"}
        => ~HasPending(Sent) /\ Armed
    /\ kind = "net" /\ stage = "arm" /\ target[core] = Sent => ~HasPending(Sent)
    /\ stage = "recheck" /\ target[core] = Sent => Armed

\* Steps that leave the queue, the pass and the notifications on their way.
LEMMA StillServing ==
    ASSUME Inv, Serving, UNCHANGED <<kind, event_idx, core>>, Sent \in ALLQUEUES,
           next_avail'[Sent] = next_avail[Sent], avail'[Sent] = avail[Sent],
           avail_event'[Sent] = avail_event[Sent],
           stage' = stage \/ (stage \in {"flush", "flushed", "raise"} /\ stage' \in {"flush", "flushed", "raise"}),
           core # None => target'[core] = target[core],
           pc'[Main] = pc[Main],
           \A c \in CPUS : pc[c] \in {"exit", "posted"} => pc'[c] = pc[c] /\ target'[c] = target[c]
    PROVE  Serving'
<1>1. Sent' = Sent /\ HasPending(Sent)' = HasPending(Sent) /\ Armed' = Armed /\ Kicks' = Kicks
    BY DEF Sent, HasPending, Armed, Kicks, Succ
<1>2. Served' = Served
    BY <1>1 DEF Served
<1>3. Coming => Coming'
    <2>1. SUFFICES ASSUME NEW c \in CPUS, target[c] = Sent, c # core,
                          pc[c] = "exit" \/ (pc[c] = "posted" /\ Kicks)
                   PROVE  Coming'
        BY DEF Coming
    <2>2. target'[c] = Sent /\ pc'[c] = pc[c]
        BY <2>1
    <2> QED BY <1>1, <2>1, <2>2 DEF Coming
<1>4. Due => Due'
    BY <1>1, <1>3 DEF Due
<1>5. stage # "none" => core # None
    BY DEF Inv, Holder
<1> QED BY <1>1, <1>2, <1>4, <1>5, Actors DEF Serving

\* The queue is one of the device's, and not the receive queue.
LEMMA SentQueue ==
    ASSUME Device
    PROVE  /\ Sent \in QUEUES /\ Sent \in ALLQUEUES /\ Sent # "rx" /\ Sent # None
           /\ QUEUES \ {"rx"} = {Sent}
BY VirtioAssumption DEF Device, Sent, QUEUES, ALLQUEUES, None

\* A pass begins: it is over this queue, or leaves who is on the way to it.
LEMMA EnterServing ==
    ASSUME Inv, Typed, Serving, Pass \/ \E a \in CPUS \cup {Main} : Enter(a)
    PROVE  Serving'
<1>1. PICK a \in ACTORS :
        /\ core = None /\ core' = a
        /\ UNCHANGED <<kind, event_idx, next_avail, avail, avail_event, target>>
        /\ \A b \in ACTORS \ {Service} : pc'[b] = pc[b]
        /\ \/ a = Service /\ stage' = "flush"
           \/ a \in CPUS \cup {Main} /\ pc[a] = "exit" /\ stage' = IF target[a] = "rx" THEN "arm" ELSE "pop"
    <2>1. CASE Pass
        BY <2>1, Actors DEF Pass, Stage, Go, device, rings, Inv, Holder
    <2>2. ASSUME NEW b \in CPUS \cup {Main}, Enter(b)
          PROVE  /\ core = None /\ core' = b
                 /\ UNCHANGED <<kind, event_idx, next_avail, avail, avail_event, target, pc>>
                 /\ pc[b] = "exit" /\ stage' = IF target[b] = "rx" THEN "arm" ELSE "pop"
        BY <2>2 DEF Enter, Stage, device, rings
    <2> QED BY <2>1, <2>2, Actors
<1>2. Device /\ Tasks
    BY DEF Typed
<1>3. Sent \in ALLQUEUES /\ Sent # "rx" /\ Sent' = Sent
    BY <1>1, <1>2, SentQueue DEF Sent
<1>4. HasPending(Sent)' = HasPending(Sent) /\ Armed' = Armed /\ Kicks' = Kicks
    BY <1>1, <1>3 DEF HasPending, Armed, Kicks, Succ
<1>5. ~Served
    BY <1>1 DEF Served
<1>6. pc'[Main] = pc[Main] /\ \A c \in CPUS : pc'[c] = pc[c]
    BY <1>1, Actors
<1>7. ~Served' => (Coming => Coming')
    <2>1. SUFFICES ASSUME ~Served', NEW c \in CPUS, target[c] = Sent,
                          pc[c] = "exit" \/ (pc[c] = "posted" /\ Kicks)
                   PROVE  Coming'
        BY DEF Coming
    <2>2. c # a
        BY <1>1, <1>3, <2>1, Actors DEF Served
    <2> QED BY <1>1, <1>3, <1>4, <1>6, <2>1, <2>2 DEF Coming
<1>8. pc[Main] \in {"done", "over"} /\ ~Served' => Due'
    BY <1>3, <1>4, <1>5, <1>7 DEF Serving, Due
<1> QED BY <1>1, <1>3, <1>4, <1>6, <1>8, Actors DEF Serving

\* A request is served, or none is left.
LEMMA PopServing ==
    ASSUME Inv, Typed, Serving, ServeOne \/ Completed
    PROVE  Serving'
<1>1. /\ stage = "pop" /\ stage' \in {"pop", "arm"}
      /\ UNCHANGED <<kind, event_idx, core, avail, avail_event, target, pc>>
      /\ stage' = "arm" => ~HasPending(target[core]) /\ UNCHANGED next_avail
      /\ target[core] # Sent => next_avail'[Sent] = next_avail[Sent]
    <2>1. CASE ServeOne
        BY <2>1 DEF ServeOne, PopAndUse, device, locks, Typed, Cursors, Turns
    <2>2. CASE Completed
        BY <2>2 DEF Completed, Stage, device, locks, rings
    <2> QED BY <2>1, <2>2
<1>2. core # None /\ Sent' = Sent
    BY <1>1 DEF Inv, Holder, Sent
<1>3. CASE target[core] = Sent
    <2>1. Served'
        BY <1>1, <1>2, <1>3 DEF Served
    <2>2. stage' = "arm" => ~HasPending(Sent)'
        BY <1>1, <1>2, <1>3 DEF HasPending
    <2> QED BY <1>1, <1>2, <2>1, <2>2 DEF Serving
<1>4. CASE target[core] # Sent
    <2>1. ~Served /\ ~Served'
        BY <1>1, <1>2, <1>4 DEF Served
    <2>2. HasPending(Sent)' = HasPending(Sent) /\ Armed' = Armed /\ Kicks' = Kicks /\ Coming' = Coming
        BY <1>1, <1>2, <1>4 DEF HasPending, Armed, Kicks, Coming, Succ
    <2>3. Due' = Due
        BY <2>2 DEF Due
    <2> QED BY <1>1, <1>2, <1>4, <2>1, <2>2, <2>3 DEF Serving
<1> QED BY <1>3, <1>4

\* The re-arm: a net queue is empty then, a request queue is looked at again.
LEMMA ArmServing ==
    ASSUME Inv, Typed, Serving, Arm
    PROVE  Serving'
<1>1. /\ stage = "arm" /\ stage' = IF kind = "net" THEN "flush" ELSE "recheck"
      /\ UNCHANGED <<kind, event_idx, core, avail, next_avail, target, pc>>
      /\ avail_event' = IF event_idx THEN [avail_event EXCEPT ![target[core]] = next_avail[target[core]]] ELSE avail_event
    BY DEF Arm, Stage, ArmNotification, device, locks
<1>2. core # None /\ Sent' = Sent /\ Sent \in ALLQUEUES
    BY <1>1, SentQueue DEF Inv, Holder, Sent, Typed
<1>3. HasPending(Sent)' = HasPending(Sent)
    BY <1>1, <1>2 DEF HasPending
<1>4. avail_event \in [ALLQUEUES -> Nat]
    BY DEF Typed, Cursors, Turns
<1>5. CASE target[core] = Sent
    <2>1. Armed'
        BY <1>1, <1>2, <1>4, <1>5 DEF Armed
    <2>2. kind = "net" => ~HasPending(Sent)'
        BY <1>1, <1>3, <1>5 DEF Serving
    <2>3. kind # "net" => Served'
        BY <1>1, <1>2, <1>5 DEF Served
    <2>4. kind = "net" => Due'
        BY <1>2, <2>1, <2>2 DEF Due
    <2> QED BY <1>1, <1>2, <2>1, <2>2, <2>3, <2>4 DEF Serving
<1>6. CASE target[core] # Sent
    <2>1. avail_event'[Sent] = avail_event[Sent]
        BY <1>1, <1>2, <1>4, <1>6
    <2>2. ~Served /\ ~Served'
        BY <1>1, <1>2, <1>6 DEF Served
    <2>3. Armed' = Armed /\ Kicks' = Kicks /\ Coming' = Coming
        BY <1>1, <1>2, <2>1 DEF Armed, Kicks, Coming, Succ
    <2>4. Due' = Due
        BY <1>2, <1>3, <2>3 DEF Due
    <2> QED BY <1>1, <1>2, <1>3, <1>6, <2>2, <2>3, <2>4 DEF Serving
<1> QED BY <1>5, <1>6

\* The second look.
LEMMA RecheckServing ==
    ASSUME Inv, Typed, Serving, Recheck
    PROVE  Serving'
<1>1. /\ stage = "recheck" /\ stage' = IF HasPending(target[core]) THEN "pop" ELSE "raise"
      /\ UNCHANGED <<kind, event_idx, core, avail, next_avail, avail_event, target, pc>>
    BY DEF Recheck, Stage, device, locks, rings
<1>2. core # None /\ Sent' = Sent
    BY <1>1 DEF Inv, Holder, Sent
<1>3. HasPending(Sent)' = HasPending(Sent) /\ Armed' = Armed /\ Kicks' = Kicks /\ Coming' = Coming
    BY <1>1, <1>2 DEF HasPending, Armed, Kicks, Coming, Succ
<1>4. Due' = Due
    BY <1>2, <1>3 DEF Due
<1>5. CASE target[core] = Sent
    <2>1. Armed
        BY <1>1, <1>5 DEF Serving
    <2>2. ~HasPending(Sent) => Due
        BY <2>1 DEF Due
    <2>3. HasPending(Sent) => Served'
        BY <1>1, <1>2, <1>5 DEF Served
    <2> QED BY <1>1, <1>2, <1>3, <1>4, <1>5, <2>1, <2>2, <2>3 DEF Serving
<1>6. CASE target[core] # Sent
    <2>1. ~Served
        BY <1>6 DEF Served
    <2> QED BY <1>1, <1>2, <1>3, <1>4, <1>6, <2>1 DEF Serving
<1> QED BY <1>5, <1>6

\* The device lock is let go; the resume has drained the queue by then.
LEMMA RaiseServing ==
    ASSUME Inv, Typed, Serving, Raise
    PROVE  Serving'
<1> DEFINE p == After(core)
<1>1. /\ stage = "raise" /\ core' = None /\ stage' = "none"
      /\ UNCHANGED <<kind, event_idx, avail, next_avail, avail_event>>
      /\ pc' = [pc EXCEPT ![core] = p] /\ target' = [target EXCEPT ![core] = NextTarget(core)]
    BY DEF Raise, Stage, Go, device, rings
<1>2. core \in ACTORS /\ pc \in [ACTORS -> PLACES] /\ pc[core] = IF core = Service THEN "serving" ELSE "exit"
    BY <1>1 DEF Inv, Holder
<1>3. target \in [ACTORS -> ALLQUEUES \cup {None}] /\ (core = Main => target[core] \in QUEUES)
    BY <1>2, Actors DEF Typed, Tasks
<1>4. Sent' = Sent /\ QUEUES \ {"rx"} = {Sent} /\ Sent # "rx"
    BY <1>1, SentQueue DEF Sent, Typed
<1>5. HasPending(Sent)' = HasPending(Sent) /\ Armed' = Armed /\ Kicks' = Kicks
    BY <1>1, <1>4 DEF HasPending, Armed, Kicks, Succ
<1>6. core = Main => p = IF kind = "net" /\ target[Main] = "rx" THEN "exit" ELSE "done"
    BY Actors DEF After
<1> HIDE DEF p
<1>7. \A a \in ACTORS : a # core => pc'[a] = pc[a] /\ target'[a] = target[a]
    BY <1>1, <1>2, <1>3
<1>8. Coming => Coming'
    <2>1. SUFFICES ASSUME NEW c \in CPUS, target[c] = Sent, c # core,
                          pc[c] = "exit" \/ (pc[c] = "posted" /\ Kicks)
                   PROVE  Coming'
        BY DEF Coming
    <2>2. pc'[c] = pc[c] /\ target'[c] = target[c] /\ c # core'
        BY <1>1, <1>7, <2>1, Actors
    <2> QED BY <1>4, <1>5, <2>1, <2>2 DEF Coming
<1>9. Due => Due'
    BY <1>4, <1>5, <1>8 DEF Due
<1>10. ~Served
    BY <1>1 DEF Served
<1>11. pc'[Main] \in {"done", "over"} => Due'
    <2>1. CASE core # Main
        BY <1>7, <1>9, <1>10, <2>1, Actors DEF Serving
    <2>2. CASE core = Main
        <3>1. SUFFICES ASSUME pc'[Main] \in {"done", "over"} PROVE Due'
            OBVIOUS
        <3>2. pc'[Main] = p
            BY <1>1, <1>2, <2>2
        <3>3. ~(kind = "net" /\ target[Main] = "rx")
            BY <1>6, <2>2, <3>1, <3>2
        <3>4. target[Main] # "rx"
            <4>1. kind # "net" => QUEUES = {"req"}
                BY DEF QUEUES
            <4> QED BY <1>3, <2>2, <3>3, <4>1
        <3>5. target[Main] = Sent
            BY <1>3, <1>4, <2>2, <3>4
        <3>6. ~HasPending(Sent) /\ Armed
            BY <1>1, <2>2, <3>5 DEF Serving
        <3> QED BY <1>4, <1>5, <3>6 DEF Due
    <2> QED BY <2>1, <2>2
<1> QED BY <1>1, <1>11, Actors DEF Serving

\* The session starts: nobody was on the way to the queue, so it was empty.
LEMMA StartServing ==
    ASSUME Inv, Typed, Serving, Start
    PROVE  Serving'
<1>1. /\ pc[Main] = "done" /\ UNCHANGED <<core, stage, kind, event_idx, avail, next_avail, avail_event, target>>
    BY DEF Start, locks, device, rings
<1>2. \A a \in CPUS \cup {Service} : pc[a] = "off"
    BY <1>1 DEF Inv, Early
<1>3. core = None /\ stage = "none"
    BY <1>1, <1>2, Actors DEF Inv, Holder, ACTORS
<1>4. ~Served /\ ~Coming
    BY <1>2, <1>3 DEF Served, Coming
<1>5. ~HasPending(Sent) /\ Armed
    BY <1>1, <1>4 DEF Serving, Due
<1>6. Sent' = Sent
    BY <1>1 DEF Sent
<1>7. ~HasPending(Sent)' /\ Armed'
    BY <1>1, <1>5, <1>6 DEF HasPending, Armed
<1>8. Due'
    BY <1>6, <1>7 DEF Due
<1> QED BY <1>1, <1>3, <1>8, Actors DEF Serving

\* A driver posts: it will kick, or the one who posted before is on its way.
LEMMA PostServing ==
    ASSUME TxLocked \/ kind = "block", Inv, Typed, Serving, NEW c \in CPUS, Post(c, Sent)
    PROVE  Serving'
<1>1. /\ pc[c] = "guest" /\ pc' = [pc EXCEPT ![c] = "posted"]
      /\ target' = [target EXCEPT ![c] = Sent]
      /\ avail' = [avail EXCEPT ![Sent] = Succ(Sent, @)]
      /\ Ahead(Sent, last_used[Sent], avail[Sent]) < Size[Sent]
      /\ \A d \in CPUS : ~Holds(d, Sent)
      /\ UNCHANGED <<kind, event_idx, core, stage, next_avail, avail_event>>
    BY DEF Post, Go, device, locks
<1>2. Sent \in QUEUES /\ Sent \in ALLQUEUES /\ Sent' = Sent
    BY <1>1, SentQueue DEF Sent, Typed
<1> DEFINE u == next_avail[Sent]
           v == avail[Sent]
           l == last_used[Sent]
<1>3. /\ u \in INDEX(Sent) /\ v \in INDEX(Sent) /\ l \in INDEX(Sent) /\ avail \in [ALLQUEUES -> Nat]
      /\ Ahead(Sent, l, u) <= Ahead(Sent, l, v)
    BY <1>2 DEF Typed, Cursors, Turns, Order
<1>4. avail'[Sent] = Succ(Sent, v)
    BY <1>1, <1>2, <1>3
<1>5. HasPending(Sent)'
    <2>1. Ahead(Sent, l, v) < Wrap[Sent] - 1 /\ Ahead(Sent, l, u) \in Nat /\ Ahead(Sent, l, v) \in Nat
        <3>1. Ahead(Sent, l, u) \in Nat /\ Ahead(Sent, l, v) \in Nat
            BY <1>2, <1>3, Indices
        <3>2. Wrap[Sent] \in Nat /\ Size[Sent] \in Nat /\ Size[Sent] < Wrap[Sent]
            BY <1>2, Sizes
        <3> HIDE DEF u, v
        <3>3. Ahead(Sent, l, v) < Size[Sent]
            BY <1>1 DEF l, v
        <3> HIDE DEF l
        <3> QED BY <3>1, <3>2, <3>3
    <2>2. Ahead(Sent, l, Succ(Sent, v)) = Ahead(Sent, l, v) + 1
        BY <1>2, <1>3, <2>1, OneStep
    <2>3. Succ(Sent, v) # u
        BY <1>3, <2>1, <2>2
    <2> QED BY <1>1, <1>2, <1>4, <2>3 DEF HasPending
<1>6. pc \in [ACTORS -> PLACES] /\ target \in [ACTORS -> ALLQUEUES \cup {None}] /\ c \in ACTORS
    BY Actors DEF Inv, Holder, Typed, Tasks
<1>7. core # c
    BY <1>1, Actors DEF Inv, Holder
<1>8. /\ pc'[c] = "posted" /\ target'[c] = Sent
      /\ \A a \in ACTORS : a # c => pc'[a] = pc[a] /\ target'[a] = target[a]
    BY <1>1, <1>6
<1>9. pc'[Main] = pc[Main] /\ (core # None => target'[core] = target[core])
    BY <1>7, <1>8, Actors DEF Inv, Holder
<1>10. Served' = Served
    BY <1>1, <1>2, <1>9 DEF Served
<1>11. Due => Due'
    <2>1. CASE HasPending(Sent) /\ Coming
        <3>1. PICK d \in CPUS : /\ target[d] = Sent /\ d # core
                                /\ pc[d] = "exit" \/ (pc[d] = "posted" /\ Kicks)
            BY <2>1 DEF Coming
        <3>2. pc[d] # "posted"
            BY <1>1, <3>1 DEF Holds
        <3>3. pc'[d] = "exit" /\ target'[d] = Sent
            BY <1>1, <1>8, <3>1, <3>2, Actors
        <3>4. Coming'
            BY <1>1, <1>2, <3>1, <3>3 DEF Coming
        <3> QED BY <1>2, <1>5, <3>4 DEF Due
    <2>2. CASE ~HasPending(Sent) /\ Armed
        <3>1. event_idx => avail_event[Sent] = v
            BY <2>2 DEF HasPending, Armed
        <3>2. Kicks'
            BY <1>1, <1>2, <1>4, <3>1 DEF Kicks, Succ
        <3>3. Coming'
            BY <1>1, <1>2, <1>7, <1>8, <3>2 DEF Coming
        <3> QED BY <1>2, <1>5, <3>3 DEF Due
    <2> QED BY <2>1, <2>2 DEF Due
<1>12. core # Main
    BY <1>1, Actors DEF Inv, Holder, Early
<1>13. ~(kind = "net" /\ stage = "arm" /\ target[core] = Sent)
    <2>1. SUFFICES ASSUME kind = "net", stage = "arm", target[core] = Sent PROVE FALSE
        OBVIOUS
    <2>2. core \in CPUS /\ pc[core] = "exit"
        BY <1>12, <2>1, Actors DEF Inv, Holder, Typed, Tasks, ACTORS
    <2>3. TxLocked
        BY <2>1
    <2> QED BY <1>1, <2>1, <2>2, <2>3 DEF Holds
<1>14. stage # "none" => core # None
    BY DEF Inv, Holder
<1>15. Armed' = Armed
    BY <1>1, <1>2 DEF Armed
<1> QED BY <1>1, <1>2, <1>9, <1>10, <1>11, <1>12, <1>13, <1>14, <1>15 DEF Serving

\* vring_need_event, for one request: the driver kicks at the index it was asked to.
LEMMA NeedOne ==
    ASSUME NEW q \in ALLQUEUES, NEW e \in INDEX(q), NEW v \in INDEX(q)
    PROVE  NeedEvent(q, e, v, Ahead(q, 1, v)) <=> Succ(q, e) = v
<1> DEFINE w == Wrap[q]
           s == Succ(q, e)
           o == Ahead(q, 1, v)
<1>1. w \in Nat /\ 1 < w /\ e \in Nat /\ e < w /\ v \in Nat /\ v < w
    BY Sizes
<1>2. 1 \in INDEX(q)
    BY <1>1, Sizes
<1>3. o = (IF 1 <= v THEN v - 1 ELSE v - 1 + w) /\ o \in Nat /\ o < w
    BY <1>2, Indices
<1>4. o \in INDEX(q) /\ s \in INDEX(q)
    BY <1>3, Sizes, Indices
<1>5. Ahead(q, s, v) \in Nat /\ (Ahead(q, s, v) = 0 <=> s = v)
    BY <1>4, Indices, OneStep
<1>6. Ahead(q, o, v) = IF o <= v THEN v - o ELSE v - o + w
    BY <1>4, Indices
<1> HIDE DEF w, s, o
<1>7. Ahead(q, o, v) = 1
    BY <1>1, <1>3, <1>6
<1>8. Ahead(q, s, v) < 1 <=> s = v
    BY <1>5
<1> QED BY <1>7, <1>8 DEF NeedEvent, s, o

\* The driver decides: who does not kick was not relied on.
LEMMA DecideServing ==
    ASSUME Inv, Typed, Serving, NEW c \in CPUS, Decide(c)
    PROVE  Serving'
<1> DEFINE q == target[c]
           k == ~event_idx \/ NeedEvent(q, avail_event[q], avail[q], Ahead(q, 1, avail[q]))
<1>1. /\ pc[c] = "posted"
      /\ k => pc' = [pc EXCEPT ![c] = "exit"] /\ target' = target
      /\ ~k => pc' = [pc EXCEPT ![c] = "guest"] /\ target' = [target EXCEPT ![c] = None]
      /\ UNCHANGED <<kind, event_idx, core, stage, avail, next_avail, avail_event>>
    BY DEF Decide, Go, device, locks, rings
<1>2. Sent \in ALLQUEUES /\ Sent' = Sent
    BY <1>1, SentQueue DEF Sent, Typed
<1>3. HasPending(Sent)' = HasPending(Sent) /\ Armed' = Armed /\ Kicks' = Kicks
    BY <1>1, <1>2 DEF HasPending, Armed, Kicks, Succ
<1>4. /\ pc \in [ACTORS -> PLACES] /\ target \in [ACTORS -> ALLQUEUES \cup {None}] /\ c \in ACTORS
      /\ core # c /\ event_idx \in BOOLEAN
    BY <1>1, Actors DEF Inv, Holder, Typed, Tasks, Device
<1>5. q = Sent /\ Kicks => k
    <2>1. SUFFICES ASSUME q = Sent, Kicks, event_idx PROVE NeedEvent(q, avail_event[q], avail[q], Ahead(q, 1, avail[q]))
        BY <1>4
    <2>2. avail_event[q] \in INDEX(q) /\ avail[q] \in INDEX(q)
        BY <1>2, <2>1 DEF Typed, Cursors, Turns
    <2>3. Succ(q, avail_event[q]) = avail[q]
        BY <2>1 DEF Kicks
    <2> QED BY <1>2, <2>1, <2>2, <2>3, NeedOne
<1> HIDE DEF k
<1>6. \A a \in ACTORS : a # c => pc'[a] = pc[a] /\ target'[a] = target[a]
    BY <1>1, <1>4
<1>7. k => pc'[c] = "exit" /\ target'[c] = target[c]
    BY <1>1, <1>4
<1>8. Coming => Coming'
    <2>1. SUFFICES ASSUME NEW d \in CPUS, target[d] = Sent, d # core,
                          pc[d] = "exit" \/ (pc[d] = "posted" /\ Kicks)
                   PROVE  Coming'
        BY DEF Coming
    <2>2. CASE d = c
        <3>1. k
            BY <1>1, <1>5, <2>1, <2>2
        <3> QED BY <1>1, <1>2, <1>7, <2>1, <2>2, <3>1 DEF Coming
    <2>3. CASE d # c
        <3>1. pc'[d] = pc[d] /\ target'[d] = target[d]
            BY <1>6, <2>3, Actors
        <3> QED BY <1>1, <1>2, <1>3, <2>1, <3>1 DEF Coming
    <2> QED BY <2>2, <2>3
<1>9. Due => Due'
    BY <1>2, <1>3, <1>8 DEF Due
<1>10. pc'[Main] = pc[Main] /\ (core # None => target'[core] = target[core])
    BY <1>4, <1>6, Actors DEF Inv, Holder
<1>11. Served' = Served
    BY <1>1, <1>2, <1>10 DEF Served
<1>12. stage # "none" => core # None
    BY DEF Inv, Holder
<1> QED BY <1>1, <1>2, <1>3, <1>9, <1>10, <1>11, <1>12 DEF Serving

\* Every step keeps the invariant.
LEMMA NextServing ==
    ASSUME TxLocked \/ "net" \notin KINDS, Inv, Typed, Serving, [Next]_vars
    PROVE  Serving'
<1>1. Device /\ Cursors /\ Tasks /\ UNCHANGED <<kind, event_idx>>
    BY DeviceStep DEF Typed
<1>2. /\ Sent \in QUEUES /\ Sent \in ALLQUEUES /\ Sent # "rx"
      /\ next_avail \in [ALLQUEUES -> Nat] /\ avail \in [ALLQUEUES -> Nat] /\ avail_event \in [ALLQUEUES -> Nat]
      /\ pc \in [ACTORS -> PLACES] /\ target \in [ACTORS -> ALLQUEUES \cup {None}]
    BY <1>1, SentQueue DEF Cursors, Turns, Tasks, Inv, Holder
<1>3. TxLocked \/ kind = "block"
    BY <1>1, VirtioAssumption DEF Device
<1>4. CASE UNCHANGED <<core, stage, next_avail, avail, avail_event, target, pc>>
    BY <1>1, <1>2, <1>4, StillServing
<1>5. CASE UNCHANGED <<core, stage, next_avail, avail, avail_event, target>> /\ \E p : pc' = [pc EXCEPT ![Service] = p]
    BY <1>1, <1>2, <1>5, StillServing, Actors
<1>6. ASSUME NEW c \in CPUS, NEW p, pc[c] \notin {"exit", "posted"}, pc' = [pc EXCEPT ![c] = p],
             UNCHANGED <<core, stage, next_avail, avail, avail_event, target>>
      PROVE  Serving'
    BY <1>1, <1>2, <1>6, StillServing, Actors
<1>7. CASE Core
    <2>1. CASE FlushOne \/ FlushEnds \/ FlushArm
        <3>1. /\ stage \in {"flush", "flushed"} /\ stage' \in {"flush", "flushed", "raise"}
              /\ UNCHANGED <<core, target, pc, avail>>
              /\ next_avail'[Sent] = next_avail[Sent] /\ avail_event'[Sent] = avail_event[Sent]
            BY <1>2, <2>1 DEF FlushOne, FlushEnds, FlushArm, Stage, PopAndUse, ArmNotification, locks, rings
        <3> QED BY <1>1, <1>2, <3>1, StillServing
    <2> QED BY <1>7, <2>1, PopServing, ArmServing, RecheckServing, RaiseServing DEF Core
<1>8. CASE Start
    BY <1>8, StartServing
<1>9. CASE Pass \/ \E a \in CPUS \cup {Main} : Enter(a)
    BY <1>9, EnterServing
<1>10. CASE Wait \/ WaitEnds
    BY <1>5, <1>10 DEF Wait, WaitEnds, Go, locks, rings
<1>11. ASSUME NEW c \in CPUS, Wake(c) \/ StatusRead(c) \/ StatusDone(c) PROVE Serving'
    <2>1. /\ pc[c] \notin {"exit", "posted"} /\ \E p : pc' = [pc EXCEPT ![c] = p]
          /\ UNCHANGED <<core, stage, next_avail, avail, avail_event, target>>
        BY <1>11 DEF Wake, StatusRead, StatusDone, Go, locks, rings
    <2> QED BY <1>6, <2>1
<1>12. ASSUME NEW c \in CPUS, NotifyOne(c) PROVE Serving'
    <2>1. /\ pc[c] = "notify" /\ UNCHANGED <<core, stage, next_avail, avail, avail_event>>
          /\ \A a \in ACTORS \ {c, Service} : pc'[a] = pc[a]
          /\ \A a \in ACTORS \ {c} : target'[a] = target[a]
        BY <1>2, <1>12, Actors DEF NotifyOne, locks, rings
    <2>2. core # c
        BY <2>1, Actors DEF Inv, Holder
    <2>3. /\ pc'[Main] = pc[Main] /\ (core # None => target'[core] = target[core])
          /\ \A d \in CPUS : pc[d] \in {"exit", "posted"} => pc'[d] = pc[d] /\ target'[d] = target[d]
        BY <2>1, <2>2, Actors DEF Inv, Holder
    <2> QED BY <1>1, <1>2, <2>1, <2>3, StillServing
<1>13. ASSUME NEW c \in CPUS, Decide(c) PROVE Serving'
    BY <1>13, DecideServing
<1>14. ASSUME NEW c \in CPUS, NEW q \in QUEUES, Post(c, q) PROVE Serving'
    <2>1. CASE q = Sent
        BY <1>3, <1>14, <2>1, PostServing
    <2>2. CASE q # Sent
        <3>1. /\ pc[c] = "guest" /\ UNCHANGED <<core, stage, next_avail, avail_event>>
              /\ avail'[Sent] = avail[Sent]
              /\ \A a \in ACTORS \ {c} : pc'[a] = pc[a] /\ target'[a] = target[a]
            BY <1>2, <1>14, <2>2 DEF Post, Go, locks
        <3>2. core # c
            BY <3>1, Actors DEF Inv, Holder
        <3>3. /\ pc'[Main] = pc[Main] /\ (core # None => target'[core] = target[core])
              /\ \A d \in CPUS : pc[d] \in {"exit", "posted"} => pc'[d] = pc[d] /\ target'[d] = target[d]
            BY <3>1, <3>2, Actors DEF Inv, Holder
        <3> QED BY <1>1, <1>2, <3>1, <3>3, StillServing
    <2> QED BY <2>1, <2>2
<1>15. CASE TakeIrq \/ Ack \/ UNCHANGED vars
    BY <1>4, <1>15 DEF TakeIrq, Ack, vars, locks
<1>16. ASSUME NEW q \in QUEUES, Poll(q) PROVE Serving'
    BY <1>4, <1>16 DEF Poll, TakeUsed, PollEnds, locks, rings
<1> QED BY <1>7, <1>8, <1>9, <1>10, <1>11, <1>12, <1>13, <1>14, <1>15, <1>16 DEF Next

\* DeviceCore::notify and drain_on_resume: what was posted and nobody is serving
\* has a notification on its way, whatever the order of posts, kicks, drains and
\* re-arms.  A net device, which does not look at the queue again after the
\* re-arm, rests on a driver that keeps the queue's lock until its kick is over.
THEOREM SomeoneAlwaysServes ==
    ASSUME TxLocked \/ "net" \notin KINDS
    PROVE  Spec => []SomeoneServes
<1>1. Init => Inv /\ Typed /\ Serving
    <2>1. Init => pc[Main] = "exit" /\ core = None /\ stage = "none"
        BY Actors DEF Init
    <2>2. Init => Serving
        BY <2>1, Actors DEF Serving
    <2> QED BY <2>2, InitInv, InitTyped
<1>2. Inv /\ Typed /\ Serving /\ [Next]_vars => (Inv /\ Typed /\ Serving)'
    BY NextInv, NextTyped, NextServing
<1>3. Inv /\ Typed /\ Serving => SomeoneServes
    <2>1. SUFFICES ASSUME Typed, Serving, pc[Main] = "over", core = None, HasPending(Sent)
                   PROVE  \E c \in CPUS : target[c] = Sent /\ pc[c] \in {"posted", "exit"}
        BY SentQueue DEF SomeoneServes, Typed
    <2>2. Coming
        BY <2>1 DEF Serving, Served, Due
    <2> QED BY <2>2 DEF Coming
<1> QED BY <1>1, <1>2, <1>3, PTL DEF Spec

=============================================================================
