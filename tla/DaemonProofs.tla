---------------------------- MODULE DaemonProofs ----------------------------
(***************************************************************************)
(* For any number of connections and of guests: the process has at most    *)
(* one virtual machine, and an exit that does not give up waiting leaves   *)
(* none.  Both rest on what `current` and the status of a guest say about  *)
(* its worker.  For any ring and any output: a console client has every    *)
(* byte that was not evicted before it, and an exec reports the frame of   *)
(* its own command.  Both rest on the books of the ring and on what the    *)
(* guest's shell prints around a command.                                  *)
(***************************************************************************)
EXTENDS Daemon, FiniteSetTheorems, SequenceTheorems, WellFoundedInduction, TLAPS

\* The types of the variables the argument is about.
Shape ==
    /\ role \in {"library", "cold"}
    /\ proc \in {"up", "exited"}
    /\ current \in 0..MaxVm
    /\ status \in [VMS -> {"none", "running", "stopped"}]
    /\ wpc \in [VMS -> WPCS]
    /\ pc \in [THREADS -> PCS]
    /\ vm \in [THREADS -> 0..MaxVm]
    /\ verb \in [THREADS -> VERBS \cup {"none", "shutdown"}]
    /\ hasty \subseteq {"start", "drain", "boot"}

\* Guests before the current one are stopped, those after it do not exist.
Generations ==
    \A v \in VMS : /\ v > current => status[v] = "none"
                   /\ v < current => status[v] = "stopped"
                   /\ v = current => status[v] # "none"

\* The places of a worker whose guest has not been recorded as stopped.
Active == {"loading", "built", "supervising", "teardown", "joining", "joined"}

\* A guest is recorded as running exactly while its worker is at one of these,
\* until the process is gone.
Workers ==
    \A v \in VMS :
        /\ wpc[v] \in Active => status[v] = "running"
        /\ status[v] = "running" /\ proc = "up" => wpc[v] \in Active
        /\ status[v] = "none" => wpc[v] = "none"
        /\ wpc[v] \in {"finishing", "finished"} => role = "cold"

\* A cold endpoint has its one guest and neither starts nor shuts down.
ColdAlone ==
    role = "cold" =>
        /\ current = 1
        /\ pc[Main] = "idle"
        /\ \A c \in CONNS :
              /\ pc[c] \notin {"draining", "leaving"}
              /\ pc[c] = "serving" => verb[c] \notin {"start", "shutdown"}

\* A shutdown that waits, waits for the current guest; one that has waited has
\* seen it stopped.
Leaving ==
    hasty = {} =>
        \A t \in THREADS :
            /\ pc[t] = "draining" => vm[t] = current /\ current # 0
            /\ pc[t] = "leaving" => \A v \in VMS : status[v] # "running"

\* A cold endpoint whose guest is over answers no more stops.
ColdEnded ==
    role = "cold" /\ hasty = {} /\ wpc[1] \in {"finished", "ended"} => \A c \in CONNS : pc[c] # "stopping"

Inv ==
    /\ Shape
    /\ Generations
    /\ Workers
    /\ ColdAlone
    /\ Leaving
    /\ ColdEnded
    /\ CleanExit

-----------------------------------------------------------------------------
\* The daemon starts with no guest, or with the one of a cold boot.
LEMMA InitInv == Init => Inv
<1> SUFFICES ASSUME Init PROVE Inv
    OBVIOUS
<1>1. /\ role \in {"library", "cold"} /\ MaxVm \in Nat \ {0} /\ 1 \in VMS
      /\ current = IF role = "cold" THEN 1 ELSE 0
    BY DaemonAssumption DEF Init, VMS
<1>2. Shape
    BY <1>1 DEF Init, Shape, WPCS, PCS
<1>3. Generations /\ Workers
    BY <1>1 DEF Init, Generations, Workers, Active, VMS
<1>4. ColdAlone /\ Leaving /\ ColdEnded /\ CleanExit
    BY <1>1, <1>2, DaemonAssumption DEF Init, ColdAlone, Leaving, ColdEnded, CleanExit, THREADS
<1> QED BY <1>2, <1>3, <1>4 DEF Inv

\* A step of a thread that touches no guest and does not begin to wait for one.
LEMMA ThreadInv ==
    ASSUME Inv, proc = "up", NEW t \in THREADS, NEW p \in PCS \ {"draining", "leaving", "stopping"},
           pc' = [pc EXCEPT ![t] = p],
           UNCHANGED <<role, proc, current, status, wpc, hasty>>,
           vm' \in [THREADS -> 0..MaxVm],
           verb' \in [THREADS -> VERBS \cup {"none", "shutdown"}],
           \A u \in THREADS \ {t} : vm'[u] = vm[u] /\ verb'[u] = verb[u],
           role = "cold" => t # Main,
           role = "cold" /\ p = "serving" => verb'[t] \notin {"start", "shutdown"}
    PROVE  Inv'
<1> USE DEF Inv
<1>1. pc \in [THREADS -> PCS] /\ pc' \in [THREADS -> PCS]
    BY DEF Shape
<1>2. \A u \in THREADS : pc'[u] = IF u = t THEN p ELSE pc[u]
    BY <1>1
<1>3. Shape'
    BY <1>1 DEF Shape
<1>4. Generations' /\ Workers'
    BY DEF Generations, Workers, Active
<1>5. ColdAlone'
    BY <1>2 DEF ColdAlone, THREADS
<1>6. Leaving'
    BY <1>2 DEF Leaving
<1>7. ColdEnded'
    BY <1>2 DEF ColdEnded, THREADS
<1>8. CleanExit'
    BY DEF CleanExit
<1> QED BY <1>3, <1>4, <1>5, <1>6, <1>7, <1>8

\* A step of a worker that keeps its guest's status.
LEMMA WorkerInv ==
    ASSUME Inv, proc = "up", NEW v \in VMS, NEW p \in WPCS,
           wpc' = [wpc EXCEPT ![v] = p],
           UNCHANGED <<role, proc, current, status, pc, vm, verb, hasty>>,
           wpc[v] \in Active, p \in Active
    PROVE  Inv'
<1> USE DEF Inv
<1>1. wpc \in [VMS -> WPCS] /\ wpc' \in [VMS -> WPCS]
    BY DEF Shape
<1>2. \A w \in VMS : wpc'[w] = IF w = v THEN p ELSE wpc[w]
    BY <1>1
<1>3. Shape'
    BY <1>1 DEF Shape
<1>4. Generations' /\ Workers'
    BY <1>2 DEF Generations, Workers, Active
<1>5. ColdAlone' /\ Leaving'
    BY DEF ColdAlone, Leaving
<1>6. ColdEnded'
    BY <1>2, DaemonAssumption DEF ColdEnded, VMS, Active
<1>7. CleanExit'
    BY DEF CleanExit
<1> QED BY <1>3, <1>4, <1>5, <1>6, <1>7

\* A guest's end is recorded.
LEMMA StoppedInv ==
    ASSUME Inv, proc = "up", NEW v \in VMS, NEW p \in {"ended", "finishing"},
           wpc[v] \in {"loading", "joined"},
           status' = [status EXCEPT ![v] = "stopped"],
           wpc' = [wpc EXCEPT ![v] = p],
           UNCHANGED <<role, proc, current, pc, vm, verb, hasty>>,
           role = "cold" <=> p = "finishing"
    PROVE  Inv'
<1> USE DEF Inv
<1>1. /\ wpc \in [VMS -> WPCS] /\ wpc' \in [VMS -> WPCS]
      /\ status' \in [VMS -> {"none", "running", "stopped"}]
    BY DEF Shape, WPCS
<1>2. \A w \in VMS : /\ wpc'[w] = IF w = v THEN p ELSE wpc[w]
                     /\ status'[w] = IF w = v THEN "stopped" ELSE status[w]
    BY <1>1 DEF Shape
<1>3. Shape'
    BY <1>1 DEF Shape
<1>4. Workers'
    BY <1>2 DEF Workers, Active
<1>5. Generations'
    BY <1>2 DEF Generations, Workers, Active
<1>6. ColdAlone' /\ Leaving'
    BY <1>2 DEF ColdAlone, Leaving
<1>7. ColdEnded'
    BY <1>2, DaemonAssumption DEF ColdEnded, VMS
<1>8. CleanExit'
    BY DEF CleanExit
<1> QED BY <1>3, <1>4, <1>5, <1>6, <1>7, <1>8

-----------------------------------------------------------------------------
\* start_vm: the guest before the new one is recorded as stopped, so its worker
\* has destroyed its machine.
LEMMA StartVmInv ==
    ASSUME Inv, NEW c \in CONNS, StartVm(c)
    PROVE  Inv'
<1> USE DEF Inv
<1>1. /\ proc = "up" /\ pc[c] = "serving" /\ verb[c] = "start" /\ c \in THREADS
      /\ pc' = [pc EXCEPT ![c] = "done"] /\ "done" \in PCS
      /\ UNCHANGED <<role, proc, vm, verb>>
    BY DEF StartVm, Serving, At, Reply, THREADS, PCS, thread
<1>2. role = "library"
    BY <1>1 DEF ColdAlone, Shape
<1>3. CASE UNCHANGED <<current, status, wpc, hasty>>
    <2>1. vm' \in [THREADS -> 0..MaxVm] /\ verb' \in [THREADS -> VERBS \cup {"none", "shutdown"}]
        BY <1>1 DEF Shape
    <2> QED BY <1>1, <1>2, <1>3, <2>1, ThreadInv
<1>4. CASE ~UNCHANGED <<current, status, wpc, hasty>>
    <2>1. /\ ~Running /\ current < MaxVm /\ current' = current + 1
          /\ status' = [status EXCEPT ![current + 1] = "running"]
          /\ wpc' = [wpc EXCEPT ![current + 1] = "loading"]
          /\ hasty' = IF ShutdownUnderWay THEN hasty \cup {"start"} ELSE hasty
        BY <1>4 DEF StartVm
    <2>2. current \in 0..MaxVm /\ MaxVm \in Nat /\ current + 1 \in VMS /\ current' \in 0..MaxVm
        BY <2>1, DaemonAssumption DEF Shape, VMS
    <2>3. Shape'
        BY <1>1, <2>1, <2>2 DEF Shape, WPCS
    <2>4. \A w \in VMS : /\ wpc'[w] = IF w = current + 1 THEN "loading" ELSE wpc[w]
                         /\ status'[w] = IF w = current + 1 THEN "running" ELSE status[w]
        BY <2>1, <2>2 DEF Shape
    <2>5. Workers'
        BY <1>1, <2>4 DEF Workers, Active
    <2>6. Generations'
        <3>1. current # 0 => status[current] = "stopped"
            <4>1. CASE current # 0
                <5>1. current \in VMS /\ status[current] # "running"
                    BY <4>1, <2>1, <2>2 DEF Running, VMS
                <5>2. status[current] # "none"
                    BY <4>1, <5>1 DEF Generations
                <5> QED BY <5>1, <5>2 DEF Shape
            <4> QED BY <4>1
        <3>2. SUFFICES ASSUME NEW w \in VMS
                       PROVE  /\ w > current + 1 => status'[w] = "none"
                              /\ w < current + 1 => status'[w] = "stopped"
                              /\ w = current + 1 => status'[w] # "none"
            BY <2>1 DEF Generations
        <3>3. CASE w > current + 1
            BY <3>3, <2>2, <2>4 DEF Generations, VMS
        <3>4. CASE w < current + 1
            <4>1. w < current \/ w = current
                BY <3>4, <2>2 DEF VMS
            <4> QED BY <4>1, <3>1, <3>4, <2>2, <2>4 DEF Generations, VMS
        <3>5. CASE w = current + 1
            BY <3>5, <2>4
        <3> QED BY <3>3, <3>4, <3>5, <2>2 DEF VMS
    <2>7. ColdAlone' /\ ColdEnded'
        BY <1>1, <1>2 DEF ColdAlone, ColdEnded
    <2>8. Leaving'
        <3>1. SUFFICES ASSUME hasty' = {}, NEW t \in THREADS PROVE pc'[t] \notin {"draining", "leaving"}
            BY DEF Leaving
        <3>2. ~ShutdownUnderWay
            BY <3>1, <2>1
        <3> QED BY <3>2, <1>1 DEF ShutdownUnderWay, Shape
    <2>9. CleanExit'
        BY <1>1 DEF CleanExit
    <2> QED BY <2>3, <2>5, <2>6, <2>7, <2>8, <2>9
<1> QED BY <1>3, <1>4

\* stop_vm: a thread waits for the guest it has asked to stop, and is answered.
LEMMA StopInv ==
    ASSUME Inv, NEW c \in CONNS, StopVm(c) \/ StopWait(c)
    PROVE  Inv'
<1> USE DEF Inv
<1>1. /\ proc = "up" /\ c \in THREADS /\ c # Main
      /\ UNCHANGED <<role, proc, current, status, wpc, hasty, verb>>
    BY DaemonAssumption DEF StopVm, StopWait, Serving, At, THREADS, worker
<1>2. /\ vm' \in [THREADS -> 0..MaxVm]
      /\ verb' \in [THREADS -> VERBS \cup {"none", "shutdown"}]
      /\ \A u \in THREADS \ {c} : vm'[u] = vm[u] /\ verb'[u] = verb[u]
    BY <1>1 DEF StopVm, StopWait, Shape
<1>3. CASE Reply(c)
    BY <1>1, <1>2, <1>3, ThreadInv DEF Reply, PCS
<1>4. CASE ~Reply(c)
    <2>1. /\ pc' = [pc EXCEPT ![c] = "stopping"] /\ Running
        BY <1>4 DEF StopVm, StopWait, Go
    <2>2. \A u \in THREADS : pc'[u] = IF u = c THEN "stopping" ELSE pc[u]
        BY <2>1 DEF Shape
    <2>3. Shape'
        BY <1>1, <1>2, <2>1 DEF Shape, PCS
    <2>4. Generations' /\ Workers' /\ CleanExit'
        BY <1>1 DEF Generations, Workers, Active, CleanExit
    <2>5. ColdAlone' /\ Leaving'
        BY <1>1, <1>2, <2>2 DEF ColdAlone, Leaving, THREADS
    <2>6. ColdEnded'
        <3>1. SUFFICES ASSUME role = "cold", wpc[1] \in {"finished", "ended"} PROVE FALSE
            BY <1>1 DEF ColdEnded
        <3>2. current = 1 /\ status[1] = "running" /\ 1 \in VMS
            BY <2>1, <3>1, DaemonAssumption DEF ColdAlone, Running, VMS
        <3> QED BY <1>1, <3>1, <3>2 DEF Workers, Active
    <2> QED BY <2>3, <2>4, <2>5, <2>6
<1> QED BY <1>3, <1>4

\* The shutdown of a library: it looks for the current guest, waits for it, and
\* leaves.
LEMMA LifecycleInv ==
    ASSUME Inv, NEW t \in THREADS, Lifecycle(t)
    PROVE  Inv'
<1> USE DEF Inv
<1>1. /\ proc = "up" /\ UNCHANGED <<role, current, status, wpc, verb>>
    BY DEF Lifecycle, Shutdown, ShutdownWait, Exit, Serving, At, worker, thread
<1>2. role = "library"
    <2>1. \/ pc[t] = "serving" /\ verb[t] = "shutdown"
          \/ pc[t] \in {"draining", "leaving"}
        BY DEF Lifecycle, Shutdown, ShutdownWait, Exit, Serving, At
    <2> QED BY <2>1 DEF ColdAlone, Shape, THREADS
<1>3. Generations' /\ Workers' /\ ColdAlone' /\ ColdEnded'
    BY <1>1, <1>2 DEF Generations, Workers, Active, ColdAlone, ColdEnded
<1>4. CASE Shutdown(t)
    <2>1. /\ UNCHANGED <<proc, hasty>>
          /\ \/ /\ ~Running
                /\ pc' = [pc EXCEPT ![t] = "leaving"]
                /\ UNCHANGED vm
             \/ /\ Running
                /\ vm' = [vm EXCEPT ![t] = current]
                /\ pc' = [pc EXCEPT ![t] = "draining"]
        BY <1>4 DEF Shutdown, Go
    <2>2. Shape'
        BY <1>1, <2>1 DEF Shape, PCS
    <2>3. Leaving'
        <3>1. CASE Running
            <4>1. current # 0 /\ vm' = [vm EXCEPT ![t] = current] /\ pc' = [pc EXCEPT ![t] = "draining"]
                BY <3>1, <2>1 DEF Running
            <4> QED BY <4>1, <1>1, <2>1 DEF Leaving, Shape
        <3>2. CASE ~Running
            <4>1. \A v \in VMS : status[v] # "running"
                <5>1. SUFFICES ASSUME NEW v \in VMS, status[v] = "running" PROVE FALSE
                    OBVIOUS
                <5>2. ~(v > current) /\ ~(v < current)
                    BY <5>1 DEF Generations
                <5>3. v = current /\ current # 0
                    BY <5>2, DaemonAssumption DEF VMS, Shape
                <5> QED BY <5>1, <5>3, <3>2 DEF Running
            <4>2. pc' = [pc EXCEPT ![t] = "leaving"] /\ UNCHANGED vm
                BY <3>2, <2>1
            <4> QED BY <4>1, <4>2, <1>1, <2>1 DEF Leaving, Shape
        <3> QED BY <3>1, <3>2
    <2>4. CleanExit'
        BY <1>1, <2>1 DEF CleanExit
    <2> QED BY <1>3, <2>2, <2>3, <2>4
<1>5. CASE ShutdownWait(t)
    <2>1. /\ pc[t] = "draining" /\ UNCHANGED <<proc, vm>>
          /\ pc' = [pc EXCEPT ![t] = "leaving"]
          /\ \/ status[vm[t]] = "stopped" /\ UNCHANGED hasty
             \/ hasty' = hasty \cup {"drain"}
        BY <1>5 DEF ShutdownWait, At, Go, thread
    <2>2. Shape'
        BY <1>1, <2>1 DEF Shape, PCS
    <2>3. Leaving'
        <3>1. SUFFICES ASSUME hasty' = {}
                       PROVE  \A u \in THREADS :
                                 /\ pc'[u] = "draining" => vm[u] = current /\ current # 0
                                 /\ pc'[u] = "leaving" => \A v \in VMS : status[v] # "running"
            BY <1>1, <2>1 DEF Leaving
        <3>2. status[vm[t]] = "stopped" /\ hasty = {}
            BY <3>1, <2>1
        <3>3. vm[t] = current /\ current # 0
            BY <3>2, <2>1 DEF Leaving
        <3>4. \A v \in VMS : status[v] # "running"
            <4>1. SUFFICES ASSUME NEW v \in VMS, status[v] = "running" PROVE FALSE
                OBVIOUS
            <4>2. ~(v > current) /\ ~(v < current)
                BY <4>1 DEF Generations
            <4>3. v = current
                BY <4>2, DaemonAssumption DEF VMS, Shape
            <4> QED BY <4>1, <4>3, <3>2, <3>3
        <3> QED BY <3>2, <3>4, <2>1 DEF Leaving, Shape
    <2>4. CleanExit'
        BY <1>1, <2>1 DEF CleanExit
    <2> QED BY <1>3, <2>2, <2>3, <2>4
<1>6. CASE Exit(t)
    <2>1. /\ pc[t] = "leaving" /\ UNCHANGED <<vm, hasty>>
          /\ pc' = [pc EXCEPT ![t] = "done"] /\ proc' = "exited"
        BY <1>6 DEF Exit, At, Reply, thread
    <2>2. Shape'
        BY <1>1, <2>1 DEF Shape, PCS
    <2>3. Leaving'
        BY <1>1, <2>1 DEF Leaving, Shape
    <2>4. CleanExit'
        <3>1. SUFFICES ASSUME hasty = {}, NEW v \in VMS PROVE ~HasMachine(v)
            BY <1>1, <1>2, <2>1 DEF CleanExit, HasMachine
        <3>2. status[v] # "running"
            BY <3>1, <2>1 DEF Leaving
        <3> QED BY <1>2, <3>2 DEF Workers, Active, HasMachine
    <2> QED BY <1>3, <2>2, <2>3, <2>4
<1> QED BY <1>4, <1>5, <1>6 DEF Lifecycle

\* ColdControl::finish: the replies in flight are waited for.
LEMMA FinishInv ==
    ASSUME Inv, NEW v \in VMS, Finish(v)
    PROVE  Inv'
<1> USE DEF Inv
<1>1. /\ proc = "up" /\ wpc[v] = "finishing" /\ wpc' = [wpc EXCEPT ![v] = "finished"]
      /\ hasty' = IF Inflight = {} THEN hasty ELSE hasty \cup {"drain"}
      /\ UNCHANGED <<role, proc, current, status, pc, vm, verb>>
    BY DEF Finish, Working, thread
<1>2. \A w \in VMS : wpc'[w] = IF w = v THEN "finished" ELSE wpc[w]
    BY <1>1 DEF Shape
<1>3. Shape'
    BY <1>1 DEF Shape, WPCS
<1>4. Generations' /\ Workers' /\ ColdAlone'
    BY <1>1, <1>2 DEF Generations, Workers, Active, ColdAlone
<1>5. hasty' = {} => hasty = {} /\ Inflight = {}
    BY <1>1
<1>6. Leaving' /\ CleanExit'
    BY <1>1, <1>5 DEF Leaving, CleanExit
<1>7. ColdEnded'
    <2>1. SUFFICES ASSUME hasty' = {}, NEW c \in CONNS PROVE pc[c] # "stopping"
        BY <1>1 DEF ColdEnded
    <2> QED BY <2>1, <1>5 DEF Inflight
<1> QED BY <1>3, <1>4, <1>6, <1>7

\* A cold boot's process ends: after its guest, or because the boot failed.
LEMMA ColdExitInv ==
    ASSUME Inv, NEW v \in VMS, ColdExit(v) \/ BootFails(v)
    PROVE  Inv'
<1> USE DEF Inv
<1>1. /\ wpc' = [wpc EXCEPT ![v] = "ended"] /\ proc' = "exited"
      /\ UNCHANGED <<role, current, status, pc, vm, verb>>
      /\ \/ wpc[v] = "finished" /\ hasty' = hasty
         \/ wpc[v] = "loading" /\ role = "cold" /\ hasty' = hasty \cup {"boot"}
    BY DEF ColdExit, BootFails, Working, thread
<1>2. role = "cold" /\ v = 1 /\ current = 1
    <2>1. role = "cold" /\ wpc[v] # "none"
        BY <1>1 DEF Workers, Active
    <2>2. ~(v > current) /\ current = 1
        BY <2>1 DEF Generations, Workers, Active, ColdAlone
    <2> QED BY <2>1, <2>2, DaemonAssumption DEF VMS
<1>3. \A w \in VMS : wpc'[w] = IF w = v THEN "ended" ELSE wpc[w]
    BY <1>1 DEF Shape
<1>4. Shape' /\ Generations' /\ ColdAlone'
    BY <1>1 DEF Shape, Generations, ColdAlone, WPCS
<1>5. status[v] # "none"
    BY <1>1 DEF Workers, Active
<1>6. Workers' /\ Leaving'
    BY <1>1, <1>3, <1>5 DEF Workers, Active, Leaving
<1>7. hasty' = {} => \A c \in CONNS : pc'[c] # "stopping"
    BY <1>1, <1>2 DEF ColdEnded
<1>8. \A w \in VMS : wpc'[w] \in {"none", "ended"}
    <2>1. SUFFICES ASSUME NEW w \in VMS, w # 1 PROVE wpc[w] = "none"
        BY <1>2, <1>3
    <2>2. w > current
        BY <1>2, <2>1, DaemonAssumption DEF VMS
    <2> QED BY <2>2 DEF Generations, Workers, Active
<1>9. ColdEnded' /\ CleanExit'
    BY <1>7, <1>8 DEF ColdEnded, CleanExit, HasMachine
<1> QED BY <1>4, <1>6, <1>9

\* The steps of a worker.
LEMMA WorkerStepInv ==
    ASSUME Inv, NEW v \in VMS, Worker(v)
    PROVE  Inv'
<1>1. CASE LoadFails(v)
    BY <1>1, StoppedInv DEF LoadFails, Working, thread
<1>2. CASE Record(v)
    <2>1. /\ proc = "up" /\ wpc[v] = "joined"
          /\ status' = [status EXCEPT ![v] = "stopped"]
          /\ wpc' = [wpc EXCEPT ![v] = IF role = "cold" THEN "finishing" ELSE "ended"]
          /\ UNCHANGED <<role, proc, current, pc, vm, verb, hasty>>
        BY <1>2 DEF Record, Working, thread
    <2>2. CASE role = "cold"
        BY <2>1, <2>2, StoppedInv
    <2>3. CASE role # "cold"
        BY <2>1, <2>3, StoppedInv
    <2> QED BY <2>2, <2>3
<1>3. CASE Build(v)
    BY <1>3, WorkerInv DEF Build, Working, thread, WPCS, Active
<1>4. CASE Publish(v)
    BY <1>4, WorkerInv DEF Publish, Working, thread, WPCS, Active
<1>5. CASE ObeyStop(v)
    BY <1>5, WorkerInv DEF ObeyStop, Working, thread, WPCS, Active
<1>6. CASE LastLook(v) \/ Teardown(v)
    BY <1>6, WorkerInv DEF LastLook, Teardown, Working, thread, WPCS, Active
<1> QED BY <1>1, <1>2, <1>3, <1>4, <1>5, <1>6, FinishInv, ColdExitInv DEF Worker

\* A connection is accepted, and the verbs a cold endpoint refuses are refused.
LEMMA AcceptInv ==
    ASSUME Inv, NEW c \in CONNS, Accept(c) \/ Serve(c)
    PROVE  Inv'
<1> USE DEF Inv
<1>1. /\ proc = "up" /\ c \in THREADS /\ c # Main
      /\ UNCHANGED <<role, proc, current, status, wpc, hasty, vm>>
    BY DaemonAssumption DEF Accept, Serve, At, THREADS, worker, thread
<1>2. vm' \in [THREADS -> 0..MaxVm] /\ verb \in [THREADS -> VERBS \cup {"none", "shutdown"}]
    BY <1>1 DEF Shape
<1>3. CASE Accept(c)
    <2>1. PICK r \in VERBS : verb' = [verb EXCEPT ![c] = r]
        BY <1>3 DEF Accept
    <2>2. pc' = [pc EXCEPT ![c] = "accepted"]
        BY <1>3 DEF Accept, Go
    <2>3. /\ verb' \in [THREADS -> VERBS \cup {"none", "shutdown"}]
          /\ \A u \in THREADS \ {c} : verb'[u] = verb[u]
        BY <2>1, <1>1, <1>2
    <2> QED BY <1>1, <1>2, <2>2, <2>3, ThreadInv DEF PCS
<1>4. CASE Serve(c)
    <2>1. /\ UNCHANGED verb
          /\ \/ pc' = [pc EXCEPT ![c] = "done"]
             \/ /\ pc' = [pc EXCEPT ![c] = "serving"]
                /\ ~(role = "cold" /\ verb[c] \in {"start", "shutdown"})
        BY <1>4 DEF Serve, Reply, Go, thread
    <2>2. CASE pc' = [pc EXCEPT ![c] = "done"]
        BY <1>1, <1>2, <2>1, <2>2, ThreadInv DEF PCS
    <2>3. CASE /\ pc' = [pc EXCEPT ![c] = "serving"]
               /\ ~(role = "cold" /\ verb[c] \in {"start", "shutdown"})
        BY <1>1, <1>2, <2>1, <2>3, ThreadInv DEF PCS
    <2> QED BY <2>1, <2>2, <2>3
<1> QED BY <1>3, <1>4

\* A termination signal makes the main thread of a library a shutdown.
LEMMA SignalInv ==
    ASSUME Inv, Signal
    PROVE  Inv'
<1>1. /\ proc = "up" /\ role = "library" /\ Main \in THREADS
      /\ pc' = [pc EXCEPT ![Main] = "serving"]
      /\ UNCHANGED <<role, proc, current, status, wpc, hasty, vm, verb>>
    BY DEF Signal, At, Go, THREADS, worker, thread
<1>2. vm' \in [THREADS -> 0..MaxVm] /\ verb' \in [THREADS -> VERBS \cup {"none", "shutdown"}]
    BY <1>1 DEF Inv, Shape
<1> QED BY <1>1, <1>2, ThreadInv DEF PCS

\* The console and exec: they read and type, and change no guest.
LEMMA ClientInv ==
    ASSUME Inv, NEW c \in CONNS,
           \/ ConsoleAttach(c) \/ ConsoleRead(c) \/ SendInput(c) \/ ExecClaim(c) \/ ExecAttach(c)
           \/ ExecMark(c) \/ ExecReset(c) \/ ExecFrame(c) \/ ExecPoll(c)
    PROVE  Inv'
<1> USE DEF Inv
<1> DEFINE A == {"reading", "attach", "mark", "reset", "frame", "polling", "done"}
<1>1. /\ proc = "up" /\ c \in THREADS /\ c # Main
      /\ UNCHANGED <<role, proc, current, status, wpc, hasty, verb>>
    BY DaemonAssumption
       DEF ConsoleAttach, ConsoleRead, SendInput, ExecClaim, ExecAttach, ExecMark, ExecReset,
           ExecFrame, ExecPoll, Serving, At, THREADS, worker, thread
<1>2. (\E p \in A : pc' = [pc EXCEPT ![c] = p]) \/ UNCHANGED <<pc, vm>>
    <2>1. CASE ConsoleRead(c)
        BY <2>1 DEF ConsoleRead, Reply
    <2>2. CASE ExecPoll(c)
        BY <2>2 DEF ExecPoll, Report, Reply
    <2>3. CASE ConsoleAttach(c) \/ SendInput(c) \/ ExecClaim(c)
        BY <2>3 DEF ConsoleAttach, SendInput, ExecClaim, Reply, Go
    <2>4. CASE ExecAttach(c)
        BY <2>4 DEF ExecAttach, Report, Reply, Go
    <2>5. CASE ExecMark(c) \/ ExecReset(c) \/ ExecFrame(c)
        BY <2>5 DEF ExecMark, ExecReset, ExecFrame, Go
    <2> QED BY <2>1, <2>2, <2>3, <2>4, <2>5
<1>3. /\ vm' \in [THREADS -> 0..MaxVm]
      /\ \A u \in THREADS \ {c} : vm'[u] = vm[u]
    <2>1. UNCHANGED vm \/ vm' = [vm EXCEPT ![c] = current]
        BY DEF ConsoleAttach, ConsoleRead, SendInput, ExecClaim, ExecAttach, ExecMark, ExecReset,
               ExecFrame, ExecPoll, thread
    <2> QED BY <2>1 DEF Shape
<1>4. verb' \in [THREADS -> VERBS \cup {"none", "shutdown"}]
    BY <1>1 DEF Shape
<1>5. CASE UNCHANGED <<pc, vm>>
    BY <1>1, <1>5 DEF Shape, Generations, Workers, Active, ColdAlone, Leaving, ColdEnded, CleanExit, HasMachine
<1>6. ASSUME NEW p \in A, pc' = [pc EXCEPT ![c] = p] PROVE Inv'
    <2>1. p \in PCS \ {"draining", "leaving", "stopping"} /\ p # "serving"
        BY <1>6 DEF PCS
    <2> QED BY <1>1, <1>3, <1>4, <1>6, <2>1, ThreadInv
<1> QED BY <1>2, <1>5, <1>6

\* The guest prints, the worker takes what it printed, the guest ends.
LEMMA GuestInv ==
    ASSUME Inv, NEW v \in VMS, Drain(v) \/ GuestEnds(v) \/ GuestNoise(v) \/ ShellWrite(v)
    PROVE  Inv'
<1>1. CASE GuestEnds(v)
    BY <1>1, WorkerInv DEF GuestEnds, Working, thread, WPCS, Active
<1>2. CASE Drain(v) \/ GuestNoise(v) \/ ShellWrite(v)
    <2>1. UNCHANGED <<role, proc, current, status, wpc, pc, vm, verb, hasty>>
        BY <1>2 DEF Drain, GuestNoise, ShellWrite, worker, thread
    <2> QED BY <2>1 DEF Inv, Shape, Generations, Workers, Active, ColdAlone, Leaving, ColdEnded, CleanExit,
                        HasMachine
<1> QED BY <1>1, <1>2

\* Every step keeps the invariant.
LEMMA NextInv == Inv /\ [Next]_vars => Inv'
<1> SUFFICES ASSUME Inv, [Next]_vars PROVE Inv'
    OBVIOUS
<1>1. ASSUME NEW c \in CONNS, Accept(c) \/ Connection(c) PROVE Inv'
    <2>1. c \in THREADS
        BY DEF THREADS
    <2>2. CASE Accept(c) \/ Serve(c)
        BY <2>2, AcceptInv
    <2>3. CASE StartVm(c)
        BY <2>3, StartVmInv
    <2>4. CASE StopVm(c) \/ StopWait(c)
        BY <2>4, StopInv
    <2>5. CASE Lifecycle(c)
        BY <2>1, <2>5, LifecycleInv
    <2>6. CASE \/ ConsoleAttach(c) \/ ConsoleRead(c) \/ SendInput(c) \/ ExecClaim(c) \/ ExecAttach(c)
               \/ ExecMark(c) \/ ExecReset(c) \/ ExecFrame(c) \/ ExecPoll(c)
        BY <2>6, ClientInv
    <2> QED BY <1>1, <2>2, <2>3, <2>4, <2>5, <2>6 DEF Connection
<1>2. CASE Signal
    BY <1>2, SignalInv
<1>3. CASE Lifecycle(Main)
    <2>1. Main \in THREADS
        BY DEF THREADS
    <2> QED BY <1>3, <2>1, LifecycleInv
<1>4. ASSUME NEW v \in VMS, Worker(v) PROVE Inv'
    BY <1>4, WorkerStepInv
<1>5. ASSUME NEW v \in VMS, Drain(v) \/ GuestEnds(v) \/ GuestNoise(v) \/ ShellWrite(v) PROVE Inv'
    BY <1>5, GuestInv
<1>6. CASE UNCHANGED vars
    BY <1>6 DEF vars, Inv, Shape, Generations, Workers, Active, ColdAlone, Leaving, ColdEnded, CleanExit,
                HasMachine
<1> QED BY <1>1, <1>2, <1>3, <1>4, <1>5, <1>6 DEF Next

\* The inductive invariant holds always.
THEOREM InvHolds == Spec => []Inv
BY InitInv, NextInv, PTL DEF Spec

\* start_vm's check of the status is enough for HVF's limit of one virtual
\* machine per process, for any number of clients that start and stop guests.
THEOREM OneMachine == Spec => []OneVmAtATime
<1>1. Inv => OneVmAtATime
    <2>1. SUFFICES ASSUME Inv, NEW v \in VMS, HasMachine(v) PROVE v = current
        BY DEF OneVmAtATime
    <2>2. status[v] = "running" \/ (role = "cold" /\ status[v] # "none")
        BY <2>1 DEF Inv, Workers, Active, HasMachine
    <2>3. ~(v > current) /\ ~(v < current)
        <3>1. CASE status[v] = "running"
            BY <2>1, <3>1 DEF Inv, Generations
        <3>2. CASE role = "cold" /\ status[v] # "none"
            BY <2>1, <3>2, DaemonAssumption DEF Inv, Generations, ColdAlone, VMS
        <3> QED BY <2>2, <3>1, <3>2
    <2> QED BY <2>1, <2>3, DaemonAssumption DEF Inv, Shape, VMS
<1> QED BY <1>1, InvHolds, PTL

\* An exit through stop_vm_blocking or ColdControl::finish that did not give up
\* waiting leaves no virtual machine, and at a cold endpoint no client whose stop
\* took effect without its reply. (A cold boot that failed has not come this way.)
THEOREM ExitIsClean == Spec => []CleanExit
<1>1. Inv => CleanExit
    BY DEF Inv
<1> QED BY <1>1, InvHolds, PTL

-----------------------------------------------------------------------------
\* Places on the console.

\* A set of places that is not empty has a first one.
LEMMA FirstIsLeast ==
    ASSUME NEW S \in SUBSET Nat, S # {}
    PROVE  First(S) \in S /\ \A q \in S : First(S) <= q
<1>1. PICK p \in S : \A q \in S : ~(<<q, p>> \in OpToRel(<, Nat))
    BY NatLessThanWellFounded, WFMin
<1>2. \A q \in S : ~(<<q, p>> \in {ss \in Nat \X Nat : ss[1] < ss[2]})
    BY <1>1, Zenon DEF OpToRel
<1>3. p \in S
    BY <1>1, Zenon
<1>4. \A q \in S : p <= q
    <2>1. SUFFICES ASSUME NEW q \in S, ~(p <= q) PROVE FALSE
        OBVIOUS
    <2>2. p \in Nat /\ q \in Nat /\ q < p
        BY <1>3, <2>1
    <2>3. <<q, p>> \in {ss \in Nat \X Nat : ss[1] < ss[2]}
        BY <2>2
    <2> QED BY <1>2, <2>3
<1> QED BY <1>3, <1>4 DEF First

SYMBOLS == {"begin", "end", "digit", "out"} \X (CONNS \cup {Nobody})

\* What the guest has printed, and the shell that prints it: a frame that is
\* running is an exec's.
Printed ==
    /\ said \in [VMS -> Seq(SYMBOLS)]
    /\ noise \in [VMS -> 0..MaxNoise]
    /\ shell \in [VMS -> [cmd : CONNS \cup {Nobody}, at : {"idle", "begin", "run"},
                          dirty : BOOLEAN]]
    /\ \A v \in VMS : shell[v].at # "idle" => shell[v].cmd \in CONNS
    /\ finished \subseteq CONNS

\* The digits of a status, in one write.
Status(c) == [i \in 1..Digits |-> Digit(c)]

\* One write more on the console of a guest.
LEMMA Typed ==
    ASSUME NEW s \in Seq(SYMBOLS), NEW x \in SYMBOLS
    PROVE  /\ Append(s, x) \in Seq(SYMBOLS)
           /\ Len(Append(s, x)) = Len(s) + 1 /\ Len(s) \in Nat
           /\ Append(s, x)[Len(s) + 1] = x
           /\ \A p \in 1..Len(s) : Append(s, x)[p] = s[p]
BY AppendProperties, LenProperties

\* They are console bytes.
LEMMA StatusTyped ==
    ASSUME NEW c \in CONNS
    PROVE  /\ Status(c) \in Seq(SYMBOLS) /\ Len(Status(c)) = Digits /\ Digits \in Nat \ {0}
           /\ \A k \in 1..Digits : Status(c)[k] = Digit(c)
<1>1. Digits \in Nat \ {0}
    BY DaemonAssumption
<1>2. Digit(c) \in SYMBOLS
    BY DEF Digit, SYMBOLS
<1>3. Status(c) \in Seq(SYMBOLS)
    BY <1>1, <1>2 DEF Status
<1> QED BY <1>1, <1>3 DEF Status

\* A console on which a command has just ended.
Finished(s, c) == (s \o <<End(c)>>) \o Status(c)

\* The end marker and its digits.
LEMMA Ended ==
    ASSUME NEW s \in Seq(SYMBOLS), NEW c \in CONNS
    PROVE  /\ Finished(s, c) \in Seq(SYMBOLS)
           /\ Len(s) \in Nat /\ Len(Finished(s, c)) = Len(s) + 1 + Digits
           /\ \A p \in 1..Len(s) : Finished(s, c)[p] = s[p]
           /\ Finished(s, c)[Len(s) + 1] = End(c)
           /\ \A k \in 1..Digits : Finished(s, c)[Len(s) + 1 + k] = Digit(c)
<1> DEFINE t == Finished(s, c)
           u == s \o <<End(c)>>
<1>1. <<End(c)>> \in Seq(SYMBOLS) /\ Len(<<End(c)>>) = 1 /\ <<End(c)>>[1] = End(c)
    BY DEF End, SYMBOLS
<1>2. /\ u \in Seq(SYMBOLS) /\ Len(s) \in Nat /\ Len(u) = Len(s) + 1
      /\ \A p \in 1..Len(s) : u[p] = s[p]
      /\ u[Len(s) + 1] = End(c)
    <2>1. u \in Seq(SYMBOLS) /\ Len(s) \in Nat /\ Len(u) = Len(s) + 1
        BY <1>1, ConcatProperties, LenProperties
    <2>2. \A i \in 1..(Len(s) + 1) : u[i] = IF i <= Len(s) THEN s[i] ELSE <<End(c)>>[i - Len(s)]
        BY <1>1, <2>1, ConcatProperties
    <2> QED BY <1>1, <2>1, <2>2
<1> HIDE DEF u
<1>3. /\ Status(c) \in Seq(SYMBOLS) /\ Len(Status(c)) = Digits /\ Digits \in Nat \ {0}
      /\ \A k \in 1..Digits : Status(c)[k] = Digit(c)
    BY StatusTyped
<1>4. t = u \o Status(c)
    BY DEF u, Finished
<1> HIDE DEF t
<1>5. t \in Seq(SYMBOLS) /\ Len(t) = Len(u) + Digits
    BY <1>2, <1>3, <1>4, ConcatProperties
<1>6. \A i \in 1..(Len(u) + Digits) : t[i] = IF i <= Len(u) THEN u[i] ELSE Status(c)[i - Len(u)]
    BY <1>2, <1>3, <1>4, ConcatProperties
<1>7. \A k \in 1..Digits : t[Len(s) + 1 + k] = Digit(c)
    BY <1>2, <1>3, <1>6
<1>8. (\A p \in 1..Len(s) : t[p] = s[p]) /\ t[Len(s) + 1] = End(c)
    BY <1>2, <1>3, <1>6
<1> QED BY <1>2, <1>3, <1>5, <1>7, <1>8 DEF t

\* The commands' traces: an end marker is followed by all its digits, of a command
\* that the guest ran to its end, and digits follow nothing else.
Script ==
    \A v \in VMS : \A p \in 1..Len(said[v]) :
        /\ \A c \in CONNS : said[v][p] = End(c) =>
              /\ p + Digits <= Len(said[v])
              /\ \A k \in 1..Digits : said[v][p + k] = Digit(c)
              /\ c \in finished
        /\ said[v][p][1] = "digit" =>
              \E k \in 1..Digits : p - k >= 1 /\ said[v][p - k][1] = "end"

\* Who prints.
LEMMA SaidStep ==
    ASSUME [Next]_vars
    PROVE  \/ UNCHANGED <<said, noise, finished>>
           \/ \E v \in VMS : GuestNoise(v) \/ ShellWrite(v)
<1>1. ASSUME NEW c \in CONNS, Accept(c) \/ Connection(c)
      PROVE  UNCHANGED <<said, noise, finished>>
    <2>1. CASE Accept(c) \/ Serve(c) \/ StartVm(c) \/ StopVm(c) \/ StopWait(c) \/ Lifecycle(c)
        BY <2>1 DEF Accept, Serve, StartVm, StopVm, StopWait, Lifecycle, Shutdown, ShutdownWait, Exit, guest
    <2>2. CASE ConsoleAttach(c) \/ ConsoleRead(c) \/ SendInput(c)
        BY <2>2 DEF ConsoleAttach, ConsoleRead, SendInput, guest
    <2>3. CASE \/ ExecClaim(c) \/ ExecAttach(c) \/ ExecMark(c) \/ ExecReset(c) \/ ExecFrame(c) \/ ExecPoll(c)
        BY <2>3 DEF ExecClaim, ExecAttach, ExecMark, ExecReset, ExecFrame, ExecPoll, guest
    <2> QED BY <1>1, <2>1, <2>2, <2>3 DEF Connection
<1>2. CASE Signal \/ Lifecycle(Main)
    BY <1>2 DEF Signal, Lifecycle, Shutdown, ShutdownWait, Exit, guest
<1>3. ASSUME NEW v \in VMS, Worker(v) \/ Drain(v) \/ GuestEnds(v)
      PROVE  UNCHANGED <<said, noise, finished>>
    BY <1>3 DEF Worker, LoadFails, BootFails, Build, Publish, Drain, ObeyStop, GuestEnds, LastLook, Teardown, Record, Finish,
       ColdExit, guest
<1>4. CASE UNCHANGED vars
    BY <1>4 DEF vars
<1> QED BY <1>1, <1>2, <1>3, <1>4 DEF Next

\* Who types, or runs what was typed.
LEMMA ShellStep ==
    ASSUME [Next]_vars
    PROVE  \/ UNCHANGED shell
           \/ \E v \in VMS : ShellWrite(v)
           \/ \E c \in CONNS : SendInput(c) \/ ExecReset(c) \/ ExecFrame(c)
BY DEF Next, vars, Accept, Connection, Serve, Signal, StartVm, StopVm, StopWait, Lifecycle, Shutdown,
       ShutdownWait, Exit, Worker, LoadFails, BootFails, Build, Publish, Drain, ObeyStop, GuestEnds, GuestNoise,
       LastLook, Teardown, Record, Finish, ColdExit, ConsoleAttach, ConsoleRead, ExecClaim, ExecAttach, ExecMark,
       ExecPoll, guest

\* What is printed stays where it is.
Grows ==
    \A v \in VMS : /\ Len(said[v]) \in Nat /\ Len(said'[v]) \in Nat
                   /\ Len(said[v]) <= Len(said'[v])
                   /\ \A p \in 1..Len(said[v]) : said'[v][p] = said[v][p]

\* Printing keeps types and traces.
LEMMA Writes ==
    ASSUME Printed, Script, [Next]_vars
    PROVE  /\ said' \in [VMS -> Seq(SYMBOLS)]
           /\ noise' \in [VMS -> 0..MaxNoise]
           /\ finished \subseteq finished' /\ finished' \subseteq CONNS
           /\ Grows
           /\ Script'
<1>0. said \in [VMS -> Seq(SYMBOLS)] /\ \A v \in VMS : Len(said[v]) \in Nat
    <2>1. said \in [VMS -> Seq(SYMBOLS)]
        BY DEF Printed
    <2> QED BY <2>1, LenProperties
<1>1. CASE UNCHANGED <<said, noise, finished>>
    BY <1>0, <1>1 DEF Printed, Script, Grows
<1>2. ASSUME NEW v \in VMS, NEW x \in SYMBOLS, x[1] \in {"out", "begin"},
             said' = [said EXCEPT ![v] = Append(said[v], x)],
             UNCHANGED finished
      PROVE  said' \in [VMS -> Seq(SYMBOLS)] /\ Grows /\ Script'
    <2>1. /\ said'[v] = Append(said[v], x)
          /\ \A w \in VMS : w # v => said'[w] = said[w]
        BY <1>0, <1>2
    <2>2. /\ said'[v] \in Seq(SYMBOLS)
          /\ Len(said'[v]) = Len(said[v]) + 1 /\ Len(said[v]) \in Nat
          /\ said'[v][Len(said[v]) + 1] = x
          /\ \A p \in 1..Len(said[v]) : said'[v][p] = said[v][p]
        BY <1>0, <2>1, Typed
    <2>3. said' \in [VMS -> Seq(SYMBOLS)] /\ Grows
        BY <1>0, <1>2, <2>1, <2>2 DEF Grows
    <2>4. Script'
        <3>1. SUFFICES ASSUME NEW w \in VMS, NEW p \in 1..Len(said'[w])
                       PROVE  /\ \A c \in CONNS : said'[w][p] = End(c) =>
                                    /\ p + Digits <= Len(said'[w])
                                    /\ \A k \in 1..Digits : said'[w][p + k] = Digit(c)
                                    /\ c \in finished'
                              /\ said'[w][p][1] = "digit" =>
                                    \E k \in 1..Digits : p - k >= 1 /\ said'[w][p - k][1] = "end"
            BY DEF Script
        <3>2. CASE w # v
            BY <1>2, <2>1, <3>1, <3>2 DEF Script
        <3>3. CASE w = v /\ p = Len(said[v]) + 1
            BY <1>2, <2>2, <3>3 DEF End
        <3>4. CASE w = v /\ p \in 1..Len(said[v])
            <4>1. Digits \in Nat
                BY DaemonAssumption
            <4>2. ASSUME NEW c \in CONNS, said'[v][p] = End(c)
                  PROVE  /\ p + Digits <= Len(said'[v])
                         /\ \A k \in 1..Digits : said'[v][p + k] = Digit(c)
                         /\ c \in finished'
                <5>1. /\ p + Digits <= Len(said[v])
                      /\ \A k \in 1..Digits : said[v][p + k] = Digit(c)
                      /\ c \in finished
                    BY <2>2, <3>4, <4>2 DEF Script
                <5>2. \A k \in 1..Digits : p + k \in 1..Len(said[v])
                    BY <2>2, <3>4, <4>1, <5>1
                <5> QED BY <1>2, <2>2, <3>4, <4>1, <5>1, <5>2
            <4>3. ASSUME said'[v][p][1] = "digit"
                  PROVE  \E k \in 1..Digits : p - k >= 1 /\ said'[v][p - k][1] = "end"
                <5>1. PICK k \in 1..Digits : p - k >= 1 /\ said[v][p - k][1] = "end"
                    BY <2>2, <3>4, <4>3 DEF Script
                <5>2. p - k \in 1..Len(said[v])
                    BY <2>2, <3>4, <4>1, <5>1
                <5> QED BY <2>2, <5>1, <5>2
            <4> QED BY <3>4, <4>2, <4>3
        <3> QED BY <2>2, <3>2, <3>3, <3>4
    <2> QED BY <2>3, <2>4
<1>3. ASSUME NEW v \in VMS, NEW c \in CONNS,
             said' = [said EXCEPT ![v] = Finished(said[v], c)],
             finished' = finished \cup {c}
      PROVE  said' \in [VMS -> Seq(SYMBOLS)] /\ Grows /\ Script'
    <2>1. /\ said'[v] = Finished(said[v], c)
          /\ \A w \in VMS : w # v => said'[w] = said[w]
        BY <1>0, <1>3
    <2>2. /\ said'[v] \in Seq(SYMBOLS)
          /\ Len(said[v]) \in Nat /\ Len(said'[v]) = Len(said[v]) + 1 + Digits
          /\ \A p \in 1..Len(said[v]) : said'[v][p] = said[v][p]
          /\ said'[v][Len(said[v]) + 1] = End(c)
          /\ \A k \in 1..Digits : said'[v][Len(said[v]) + 1 + k] = Digit(c)
        BY <1>0, <2>1, Ended
    <2>3. Digits \in Nat \ {0}
        BY DaemonAssumption
    <2> DEFINE n == Len(said[v])
    <2>6. n \in Nat /\ Len(said'[v]) = n + 1 + Digits
        BY <2>2
    <2>7. finished \subseteq finished' /\ c \in finished'
        BY <1>3
    <2>4. said' \in [VMS -> Seq(SYMBOLS)] /\ Grows
        BY <1>0, <1>3, <2>1, <2>2, <2>3 DEF Grows
    <2>5. Script'
        <3>1. SUFFICES ASSUME NEW w \in VMS, NEW p \in 1..Len(said'[w])
                       PROVE  /\ \A d \in CONNS : said'[w][p] = End(d) =>
                                    /\ p + Digits <= Len(said'[w])
                                    /\ \A k \in 1..Digits : said'[w][p + k] = Digit(d)
                                    /\ d \in finished'
                              /\ said'[w][p][1] = "digit" =>
                                    \E k \in 1..Digits : p - k >= 1 /\ said'[w][p - k][1] = "end"
            BY DEF Script
        <3>2. CASE w # v
            BY <1>3, <2>1, <3>1, <3>2 DEF Script
        <3>3. CASE w = v /\ p = Len(said[v]) + 1
            <4>1. \A d \in CONNS : said'[v][p] = End(d) => d = c
                BY <2>2, <3>3 DEF End
            <4>2. said'[v][p][1] # "digit"
                BY <2>2, <3>3 DEF End
            <4>3. p + Digits <= Len(said'[v])
                BY <2>3, <2>6, <3>3
            <4>4. \A k \in 1..Digits : said'[v][p + k] = Digit(c)
                BY <2>2, <3>3
            <4> QED BY <2>7, <3>3, <4>1, <4>2, <4>3, <4>4
        <3>4. CASE w = v /\ p \in (Len(said[v]) + 2)..Len(said'[v])
            <4>0. p \in Int /\ n + 2 <= p /\ p <= n + 1 + Digits
                BY <2>6, <3>4
            <4>1. PICK k \in 1..Digits : p = n + 1 + k
                <5> HIDE DEF n
                <5>1. p - (n + 1) \in 1..Digits
                    BY <2>3, <2>6, <4>0
                <5>2. p = n + 1 + (p - (n + 1))
                    BY <2>6, <4>0
                <5> QED BY <5>1, <5>2
            <4>2. said'[v][p] = Digit(c)
                BY <2>2, <4>1
            <4>3. \A d \in CONNS : said'[v][p] # End(d)
                BY <4>2 DEF Digit, End
            <4>4. p - k >= 1 /\ said'[v][p - k][1] = "end"
                <5>1. p - k = n + 1 /\ n + 1 >= 1
                    BY <2>3, <2>6, <4>1
                <5>2. said'[v][n + 1][1] = "end"
                    BY <2>2 DEF End
                <5> QED BY <5>1, <5>2
            <4> QED BY <3>4, <4>1, <4>3, <4>4
        <3>5. CASE w = v /\ p \in 1..Len(said[v])
            <4>2. ASSUME NEW d \in CONNS, said'[v][p] = End(d)
                  PROVE  /\ p + Digits <= Len(said'[v])
                         /\ \A k \in 1..Digits : said'[v][p + k] = Digit(d)
                         /\ d \in finished'
                <5>1. /\ p + Digits <= Len(said[v])
                      /\ \A k \in 1..Digits : said[v][p + k] = Digit(d)
                      /\ d \in finished
                    BY <2>2, <3>5, <4>2 DEF Script
                <5>2. \A k \in 1..Digits : p + k \in 1..Len(said[v])
                    BY <2>2, <2>3, <3>5, <5>1
                <5>3. p + Digits <= Len(said'[v])
                    BY <2>3, <2>6, <3>5, <5>1
                <5>4. \A k \in 1..Digits : said'[v][p + k] = Digit(d)
                    BY <2>2, <5>1, <5>2
                <5> QED BY <2>7, <5>1, <5>3, <5>4
            <4>3. ASSUME said'[v][p][1] = "digit"
                  PROVE  \E k \in 1..Digits : p - k >= 1 /\ said'[v][p - k][1] = "end"
                <5>1. PICK k \in 1..Digits : p - k >= 1 /\ said[v][p - k][1] = "end"
                    BY <2>2, <3>5, <4>3 DEF Script
                <5>2. p - k \in 1..Len(said[v])
                    BY <2>2, <2>3, <3>5, <5>1
                <5> QED BY <2>2, <5>1, <5>2
            <4> QED BY <3>5, <4>2, <4>3
        <3> QED BY <2>2, <2>3, <3>2, <3>3, <3>4, <3>5
    <2> QED BY <2>4, <2>5
<1>4. ASSUME NEW v \in VMS, GuestNoise(v)
      PROVE  /\ said' \in [VMS -> Seq(SYMBOLS)] /\ noise' \in [VMS -> 0..MaxNoise]
             /\ UNCHANGED finished /\ Grows /\ Script'
    <2>1. /\ said' = [said EXCEPT ![v] = Append(said[v], Out)] /\ UNCHANGED finished
          /\ noise[v] < MaxNoise /\ noise' = [noise EXCEPT ![v] = noise[v] + 1]
        BY <1>4 DEF GuestNoise
    <2>2. Out \in SYMBOLS /\ Out[1] = "out"
        BY DEF Out, SYMBOLS
    <2>3. noise' \in [VMS -> 0..MaxNoise]
        BY <2>1, DaemonAssumption DEF Printed
    <2> QED BY <1>2, <2>1, <2>2, <2>3
<1>5. ASSUME NEW v \in VMS, ShellWrite(v)
      PROVE  /\ said' \in [VMS -> Seq(SYMBOLS)] /\ UNCHANGED noise
             /\ finished \subseteq finished' /\ finished' \subseteq CONNS /\ Grows /\ Script'
    <2> DEFINE c == shell[v].cmd
    <2>1. /\ UNCHANGED noise
          /\ \/ /\ shell[v].at = "begin" /\ said' = [said EXCEPT ![v] = Append(said[v], Begin(c))]
                /\ UNCHANGED finished
             \/ /\ shell[v].at = "run"
                /\ said' = [said EXCEPT ![v] = Finished(said[v], c)]
                /\ finished' = finished \cup {c}
        BY <1>5 DEF ShellWrite, Status, Finished
    <2>2. c \in CONNS /\ finished \subseteq CONNS
        BY <2>1 DEF Printed
    <2>3. Begin(c) \in SYMBOLS /\ Begin(c)[1] = "begin"
        BY <2>2 DEF Begin, SYMBOLS
    <2> HIDE DEF c
    <2> QED BY <1>2, <1>3, <2>1, <2>2, <2>3
<1> QED BY <1>1, <1>4, <1>5, SaidStep DEF Printed

\* Types and traces of the consoles are kept.
LEMMA PrintedKept ==
    ASSUME Inv, Printed, Script, [Next]_vars
    PROVE  Printed' /\ Script' /\ Grows /\ finished \subseteq finished'
<1> DEFINE SHELL == [cmd : CONNS \cup {Nobody}, at : {"idle", "begin", "run"}, dirty : BOOLEAN]
           Proper(x) == x \in SHELL /\ (x.at # "idle" => x.cmd \in CONNS)
<1>1. shell \in [VMS -> SHELL] /\ \A v \in VMS : Proper(shell[v])
    BY DEF Printed
<1>2. SUFFICES shell' \in [VMS -> SHELL] /\ \A v \in VMS : Proper(shell'[v])
    BY Writes DEF Printed
<1>3. ASSUME NEW w, NEW x, Proper(x), shell' = [shell EXCEPT ![w] = x]
      PROVE  shell' \in [VMS -> SHELL] /\ \A v \in VMS : Proper(shell'[v])
    BY <1>1, <1>3
<1>4. CASE UNCHANGED shell
    BY <1>1, <1>4
<1>5. ASSUME NEW v \in VMS, ShellWrite(v)
      PROVE  shell' \in [VMS -> SHELL] /\ \A u \in VMS : Proper(shell'[u])
    <2>1. \/ /\ shell[v].at = "begin"
             /\ shell' = [shell EXCEPT ![v] = [shell[v] EXCEPT !.at = "run"]]
          \/ shell' = [shell EXCEPT ![v] = [[shell[v] EXCEPT !.cmd = Nobody] EXCEPT !.at = "idle"]]
        BY <1>1, <1>5 DEF ShellWrite
    <2>2. shell[v].at = "begin" => Proper([shell[v] EXCEPT !.at = "run"])
        BY <1>1
    <2>3. Proper([[shell[v] EXCEPT !.cmd = Nobody] EXCEPT !.at = "idle"])
        BY <1>1
    <2> HIDE DEF Proper
    <2> QED BY <1>3, <2>1, <2>2, <2>3
<1>6. ASSUME NEW c \in CONNS, SendInput(c) \/ ExecReset(c) \/ ExecFrame(c)
      PROVE  shell' \in [VMS -> SHELL] /\ \A u \in VMS : Proper(shell'[u])
    <2>1. CASE SendInput(c)
        <3>1. UNCHANGED shell \/ (Running /\ shell' = [shell EXCEPT ![current] = [shell[current] EXCEPT !.dirty = TRUE]])
            BY <2>1 DEF SendInput
        <3>2. Running => current \in VMS
            BY DaemonAssumption DEF Running, Inv, Shape, VMS
        <3>3. Running => Proper([shell[current] EXCEPT !.dirty = TRUE])
            BY <1>1, <3>2
        <3> HIDE DEF Proper
        <3> QED BY <1>1, <1>3, <3>1, <3>3
    <2>2. CASE ExecReset(c)
        <3>1. shell' = [shell EXCEPT ![vm[c]] = [cmd |-> Nobody, at |-> "idle", dirty |-> FALSE]]
            BY <2>2 DEF ExecReset
        <3>2. Proper([cmd |-> Nobody, at |-> "idle", dirty |-> FALSE])
            OBVIOUS
        <3> HIDE DEF Proper
        <3> QED BY <1>3, <3>1, <3>2
    <2>3. CASE ExecFrame(c)
        <3>1. \/ shell' = [shell EXCEPT ![vm[c]] = [cmd |-> c, at |-> "run", dirty |-> FALSE]]
              \/ shell' = [shell EXCEPT ![vm[c]] = [cmd |-> c, at |-> "begin", dirty |-> FALSE]]
            BY <2>3 DEF ExecFrame
        <3>2. Proper([cmd |-> c, at |-> "run", dirty |-> FALSE]) /\ Proper([cmd |-> c, at |-> "begin", dirty |-> FALSE])
            OBVIOUS
        <3> HIDE DEF Proper
        <3> QED BY <1>3, <3>1, <3>2
    <2> QED BY <1>6, <2>1, <2>2, <2>3
<1> QED BY <1>4, <1>5, <1>6, ShellStep

-----------------------------------------------------------------------------
\* The ring.

\* Its books, which a reader's position depends on.
Rings ==
    /\ dropped \in [VMS -> Nat]
    /\ held \in [VMS -> 0..Cap]
    /\ taken \in [VMS -> Nat]
    /\ \A v \in VMS : /\ dropped[v] + held[v] = taken[v]
                      /\ held[v] = 0 => taken[v] = 0
                      /\ taken[v] <= Len(said[v])

\* Only a worker whose guest is not recorded as stopped takes bytes.
LEMMA RingStep ==
    ASSUME Inv, Printed, Rings, [Next]_vars
    PROVE  \/ UNCHANGED ring
           \/ /\ UNCHANGED said
              /\ \E v \in VMS : /\ status[v] = "running"
                                /\ \E n \in 1..(Len(said[v]) - taken[v]) : AppendConsole(v, n)
<1>1. ASSUME NEW c \in CONNS, Accept(c) \/ Connection(c)
      PROVE  UNCHANGED ring
    <2>1. CASE Accept(c) \/ Serve(c) \/ StartVm(c) \/ StopVm(c) \/ StopWait(c) \/ Lifecycle(c)
        BY <2>1 DEF Accept, Serve, StartVm, StopVm, StopWait, Lifecycle, Shutdown, ShutdownWait, Exit
    <2>2. CASE ConsoleAttach(c) \/ ConsoleRead(c) \/ SendInput(c)
        BY <2>2 DEF ConsoleAttach, ConsoleRead, SendInput
    <2>3. CASE \/ ExecClaim(c) \/ ExecAttach(c) \/ ExecMark(c) \/ ExecReset(c) \/ ExecFrame(c) \/ ExecPoll(c)
        BY <2>3 DEF ExecClaim, ExecAttach, ExecMark, ExecReset, ExecFrame, ExecPoll
    <2> QED BY <1>1, <2>1, <2>2, <2>3 DEF Connection
<1>2. CASE Signal \/ Lifecycle(Main)
    BY <1>2 DEF Signal, Lifecycle, Shutdown, ShutdownWait, Exit
<1>3. ASSUME NEW v \in VMS,
             \/ LoadFails(v) \/ BootFails(v) \/ Build(v) \/ Publish(v) \/ ObeyStop(v) \/ Teardown(v) \/ Record(v)
             \/ Finish(v) \/ ColdExit(v)
             \/ GuestEnds(v) \/ GuestNoise(v) \/ ShellWrite(v)
      PROVE  UNCHANGED ring
    BY <1>3 DEF LoadFails, BootFails, Build, Publish, ObeyStop, GuestEnds, GuestNoise, ShellWrite, Teardown,
       Record, Finish, ColdExit
<1>4. ASSUME NEW v \in VMS, Drain(v) \/ LastLook(v)
      PROVE  \/ UNCHANGED ring
             \/ /\ UNCHANGED said
                /\ status[v] = "running"
                /\ \E n \in 1..(Len(said[v]) - taken[v]) : AppendConsole(v, n)
    <2>1. status[v] = "running" /\ UNCHANGED said
        BY <1>4 DEF Drain, LastLook, Working, Inv, Workers, Active, guest
    <2>2. Len(said[v]) \in Nat /\ taken[v] \in Nat
        BY LenProperties DEF Printed, Rings
    <2>3. Len(said[v]) > taken[v] => Len(said[v]) - taken[v] \in 1..(Len(said[v]) - taken[v])
        BY <2>2
    <2>4. CASE Drain(v)
        BY <2>1, <2>4 DEF Drain
    <2>5. CASE LastLook(v)
        BY <2>1, <2>3, <2>5 DEF LastLook
    <2> QED BY <1>4, <2>4, <2>5
<1>5. CASE UNCHANGED vars
    BY <1>5 DEF vars, ring
<1> QED BY <1>1, <1>2, <1>3, <1>4, <1>5 DEF Next, Worker

\* append_console keeps the books.
LEMMA RingsKept ==
    ASSUME Inv, Printed, Script, Rings, [Next]_vars
    PROVE  /\ Rings'
           /\ \A v \in VMS : /\ taken[v] <= taken'[v] /\ dropped[v] <= dropped'[v]
                             /\ status[v] = "stopped" => taken'[v] = taken[v]
<1>1. Grows
    BY PrintedKept
<1>2. CASE UNCHANGED ring
    <2>1. UNCHANGED dropped /\ UNCHANGED held /\ UNCHANGED taken
        BY <1>2 DEF ring
    <2>2. ASSUME NEW v \in VMS
          PROVE  /\ taken[v] \in Nat /\ dropped[v] \in Nat
                 /\ taken[v] <= Len(said'[v])
        BY <1>1 DEF Rings, Grows
    <2>3. Rings'
        BY <2>1, <2>2 DEF Rings
    <2> QED BY <2>1, <2>2, <2>3
<1>3. ASSUME NEW v \in VMS, status[v] = "running", NEW n \in 1..(Len(said[v]) - taken[v]), AppendConsole(v, n),
             UNCHANGED said
      PROVE  /\ Rings'
             /\ \A w \in VMS : /\ taken[w] <= taken'[w] /\ dropped[w] <= dropped'[w]
                               /\ status[w] = "stopped" => taken'[w] = taken[w]
    <2>1. /\ dropped \in [VMS -> Nat] /\ held \in [VMS -> 0..Cap] /\ taken \in [VMS -> Nat]
          /\ Cap \in Nat \ {0}
          /\ \A w \in VMS : /\ dropped[w] + held[w] = taken[w]
                            /\ held[w] = 0 => taken[w] = 0
                            /\ taken[w] <= Len(said[w])
        BY DaemonAssumption DEF Rings
    <2>2. n \in Nat /\ n >= 1 /\ Len(said[v]) \in Nat /\ taken[v] + n <= Len(said[v])
        <3>1. Len(said[v]) \in Nat
            BY LenProperties DEF Printed
        <3> QED BY <2>1, <3>1
    <2> DEFINE over == IF held[v] + n > Cap THEN held[v] + n - Cap ELSE 0
    <2>3. /\ taken' = [taken EXCEPT ![v] = taken[v] + n]
          /\ held' = [held EXCEPT ![v] = IF held[v] + n > Cap THEN Cap ELSE held[v] + n]
          /\ dropped' = [dropped EXCEPT ![v] = dropped[v] + over]
        BY <1>3 DEF AppendConsole
    <2>4. over \in Nat /\ (IF held[v] + n > Cap THEN Cap ELSE held[v] + n) \in 1..Cap
        BY <2>1, <2>2
    <2>5. taken' \in [VMS -> Nat] /\ held' \in [VMS -> 0..Cap] /\ dropped' \in [VMS -> Nat]
        <3> HIDE DEF over
        <3>0. taken[v] \in Nat /\ dropped[v] \in Nat /\ n \in Nat /\ over \in Nat
            BY <2>1, <2>2, <2>4
        <3>1. taken[v] + n \in Nat /\ dropped[v] + over \in Nat
            BY <3>0
        <3> QED BY <2>1, <2>3, <2>4, <3>1
    <2>6. /\ taken'[v] = taken[v] + n /\ dropped'[v] = dropped[v] + over
          /\ held'[v] = IF held[v] + n > Cap THEN Cap ELSE held[v] + n
          /\ \A w \in VMS : w # v => taken'[w] = taken[w] /\ dropped'[w] = dropped[w] /\ held'[w] = held[w]
        BY <2>1, <2>3
    <2>7. /\ dropped'[v] + held'[v] = taken'[v]
          /\ held'[v] # 0
          /\ taken'[v] <= Len(said[v])
          /\ taken[v] <= taken'[v] /\ dropped[v] <= dropped'[v]
        BY <2>1, <2>2, <2>6
    <2>8. Rings'
        BY <1>3, <2>1, <2>5, <2>6, <2>7 DEF Rings
    <2>9. \A w \in VMS : /\ taken[w] <= taken'[w] /\ dropped[w] <= dropped'[w]
                         /\ status[w] = "stopped" => taken'[w] = taken[w]
        <3>1. SUFFICES ASSUME NEW w \in VMS
                       PROVE  /\ taken[w] <= taken'[w] /\ dropped[w] <= dropped'[w]
                              /\ status[w] = "stopped" => taken'[w] = taken[w]
            OBVIOUS
        <3>2. CASE w = v
            BY <1>3, <2>7, <3>2
        <3>3. CASE w # v
            <4>1. taken[w] \in Nat /\ dropped[w] \in Nat
                BY <2>1
            <4>2. taken'[w] = taken[w] /\ dropped'[w] = dropped[w]
                BY <2>6, <3>3
            <4> QED BY <4>1, <4>2
        <3> QED BY <3>2, <3>3
    <2> QED BY <2>8, <2>9
<1> QED BY <1>2, <1>3, RingStep

-----------------------------------------------------------------------------
\* Readers.

\* A reader at position k of a ring that has evicted d of the n bytes taken, with
\* the bytes g received and m missed, goes on at r.
Reading(d, n, k, g, m, r) ==
    /\ d \in Nat /\ n \in Nat /\ d <= n
    /\ k \in Nat /\ k <= n
    /\ g \cup {p \in m : p <= k} = 1..k
    /\ m \subseteq 1..d
    /\ r = IF k < d THEN d ELSE k

\* What a read from there does: it goes to the end of the ring, without a byte that
\* has been received, and every byte before it is received or missed.
ReadOn(d, n, k, g, r) ==
    /\ r \in Nat /\ r <= n
    /\ IsFiniteSet(g) /\ g \subseteq 1..k
    /\ Cardinality((r + 1)..n) = n - r
    /\ Cardinality(g \cup ((r + 1)..n)) = Cardinality(g) + (n - r)
    /\ (g \cup ((r + 1)..n)) \cup {p \in (1..d) \ g : p <= n} = 1..n
    /\ g \cup {p \in (1..d) \ g : p <= k} = 1..k

\* The arithmetic of one read.
LEMMA ReadMore ==
    ASSUME NEW d, NEW n, NEW k, NEW g, NEW m, NEW r, Reading(d, n, k, g, m, r)
    PROVE  ReadOn(d, n, k, g, r)
<1> USE DEF Reading
<1>1. r \in Nat /\ r <= n /\ k <= r /\ d <= r
    OBVIOUS
<1>2. g \subseteq 1..k
    OBVIOUS
<1>3. IsFiniteSet(g)
    <2>1. IsFiniteSet(1..k)
        BY FS_Interval
    <2> QED BY <1>2, <2>1, FS_Subset
<1>4. IsFiniteSet((r + 1)..n) /\ Cardinality((r + 1)..n) = n - r
    <2>1. r + 1 \in Int /\ n \in Int
        BY <1>1
    <2>2. /\ IsFiniteSet((r + 1)..n)
          /\ Cardinality((r + 1)..n) = IF r + 1 > n THEN 0 ELSE n - (r + 1) + 1
        BY <2>1, FS_Interval
    <2> QED BY <1>1, <2>2
<1>5. g \cap ((r + 1)..n) = {}
    <2>1. \A p \in g : p \in Int /\ p <= k
        BY <1>2
    <2> QED BY <1>1, <2>1
<1>6. Cardinality(g \cup ((r + 1)..n)) = Cardinality(g) + (n - r)
    <2>1. Cardinality(g) \in Nat
        BY <1>3, FS_CardinalityType
    <2>2. /\ Cardinality(g \cup ((r + 1)..n)) =
                 Cardinality(g) + Cardinality((r + 1)..n) - Cardinality(g \cap ((r + 1)..n))
        BY <1>3, <1>4, FS_Union
    <2>3. Cardinality(g \cap ((r + 1)..n)) = 0
        BY <1>5, FS_EmptySet
    <2> QED BY <1>1, <1>4, <2>1, <2>2, <2>3
<1>7. ASSUME NEW p \in 1..r PROVE p \in g \/ p \in (1..d) \ g
    <2>1. CASE p <= d
        BY <2>1, <1>1
    <2>2. CASE p > d
        <3>1. p \in 1..k
            BY <2>2, <1>1
        <3>2. p \notin m
            BY <2>2, <1>1
        <3> QED BY <3>1, <3>2
    <2> QED BY <2>1, <2>2, <1>1
<1>8. (g \cup ((r + 1)..n)) \cup {p \in (1..d) \ g : p <= n} = 1..n
    <2>1. ASSUME NEW p \in 1..n
          PROVE  p \in (g \cup ((r + 1)..n)) \cup {q \in (1..d) \ g : q <= n}
        <3>1. CASE p <= r
            BY <1>1, <1>7, <3>1
        <3>2. CASE p > r
            BY <1>1, <3>2
        <3> QED BY <1>1, <3>1, <3>2
    <2>2. g \subseteq 1..n
        BY <1>2
    <2>3. (r + 1)..n \subseteq 1..n
        BY <1>1
    <2> QED BY <2>1, <2>2, <2>3
<1>9. g \cup {p \in (1..d) \ g : p <= k} = 1..k
    <2>1. ASSUME NEW p \in 1..k PROVE p \in g \cup {q \in (1..d) \ g : q <= k}
        BY <1>1, <1>7
    <2> QED BY <1>2, <2>1
<1> QED BY <1>1, <1>2, <1>3, <1>4, <1>6, <1>8, <1>9 DEF ReadOn

-----------------------------------------------------------------------------
\* Steps and threads.

\* Who changes the status of a guest.
LEMMA StatusStep ==
    ASSUME [Next]_vars
    PROVE  \/ UNCHANGED status
           \/ \E c \in CONNS : StartVm(c) /\ ~UNCHANGED status
           \/ \E v \in VMS : status' = [status EXCEPT ![v] = "stopped"]
<1>1. ASSUME NEW c \in CONNS, Accept(c) \/ Connection(c), ~StartVm(c)
      PROVE  UNCHANGED status
    <2>1. CASE Accept(c) \/ Serve(c) \/ StopVm(c) \/ StopWait(c) \/ Lifecycle(c)
        BY <2>1 DEF Accept, Serve, StopVm, StopWait, Lifecycle, Shutdown, ShutdownWait, Exit, worker
    <2>2. CASE ConsoleAttach(c) \/ ConsoleRead(c) \/ SendInput(c)
        BY <2>2 DEF ConsoleAttach, ConsoleRead, SendInput, worker
    <2>3. CASE \/ ExecClaim(c) \/ ExecAttach(c) \/ ExecMark(c) \/ ExecReset(c) \/ ExecFrame(c) \/ ExecPoll(c)
        BY <2>3 DEF ExecClaim, ExecAttach, ExecMark, ExecReset, ExecFrame, ExecPoll, worker
    <2> QED BY <1>1, <2>1, <2>2, <2>3 DEF Connection
<1>2. CASE Signal \/ Lifecycle(Main)
    BY <1>2 DEF Signal, Lifecycle, Shutdown, ShutdownWait, Exit, worker
<1>3. ASSUME NEW v \in VMS, Worker(v) \/ Drain(v) \/ GuestEnds(v) \/ GuestNoise(v) \/ ShellWrite(v)
      PROVE  UNCHANGED status \/ status' = [status EXCEPT ![v] = "stopped"]
    <2>1. CASE Worker(v)
        BY <2>1 DEF Worker, LoadFails, BootFails, Build, Publish, ObeyStop, LastLook, Teardown, Record, Finish, ColdExit, worker
    <2>2. CASE Drain(v) \/ GuestEnds(v) \/ GuestNoise(v) \/ ShellWrite(v)
        BY <2>2 DEF Drain, GuestEnds, GuestNoise, ShellWrite, worker
    <2> QED BY <1>3, <2>1, <2>2
<1>4. CASE UNCHANGED vars
    BY <1>4 DEF vars
<1> QED BY <1>1, <1>2, <1>3, <1>4 DEF Next

\* A guest that is recorded as stopped is never recorded as anything else: a
\* start makes a new one.
LEMMA StoppedStays ==
    ASSUME Inv, [Next]_vars, NEW v \in VMS, status[v] = "stopped"
    PROVE  status'[v] = "stopped"
<1>1. status \in [VMS -> {"none", "running", "stopped"}]
    BY DEF Inv, Shape
<1>2. ASSUME NEW c \in CONNS, StartVm(c), ~UNCHANGED status PROVE status'[v] = "stopped"
    <2>1. status' = [status EXCEPT ![current + 1] = "running"]
        BY <1>2 DEF StartVm
    <2>2. v # current + 1
        <3>1. SUFFICES ASSUME v = current + 1 PROVE FALSE
            OBVIOUS
        <3>2. v > current
            BY <3>1 DEF Inv, Shape
        <3> QED BY <3>2 DEF Inv, Generations
    <2> QED BY <1>1, <2>1, <2>2
<1> QED BY <1>1, <1>2, StatusStep

\* What a step leaves of the world a thread looks at.
Onwards ==
    /\ Grows
    /\ finished \subseteq finished'
    /\ \A v \in VMS :
          /\ taken[v] \in Nat /\ taken'[v] \in Nat /\ taken[v] <= taken'[v]
          /\ dropped[v] \in Nat /\ dropped'[v] \in Nat /\ dropped[v] <= dropped'[v]
          /\ status[v] = "stopped" => status'[v] = "stopped" /\ taken'[v] = taken[v]

\* Consoles grow, rings advance, stopped guests stay as they are.
LEMMA WorldOnwards ==
    ASSUME Inv, Printed, Script, Rings, [Next]_vars
    PROVE  Onwards
<1>1. Grows /\ finished \subseteq finished'
    BY PrintedKept
<1>2. /\ Rings'
      /\ \A v \in VMS : /\ taken[v] <= taken'[v] /\ dropped[v] <= dropped'[v]
                        /\ status[v] = "stopped" => taken'[v] = taken[v]
    BY RingsKept
<1>3. \A v \in VMS : taken[v] \in Nat /\ taken'[v] \in Nat /\ dropped[v] \in Nat /\ dropped'[v] \in Nat
    BY <1>2 DEF Rings
<1> QED BY <1>1, <1>2, <1>3, StoppedStays DEF Onwards

\* The types of what threads keep.
Threads ==
    /\ cursor \in [THREADS -> Nat]
    /\ outcome \in [THREADS -> OUTCOMES]
    /\ got \in [CONNS -> SUBSET Nat]
    /\ sent \in [CONNS -> Nat]
    /\ missed \in [CONNS -> SUBSET Nat]

\* A step leaves a thread where it is, with what it has.
Still(t) ==
    /\ pc'[t] = pc[t] /\ verb'[t] = verb[t] /\ vm'[t] = vm[t]
    /\ cursor'[t] = cursor[t] /\ outcome'[t] = outcome[t]
    /\ t \in CONNS => got'[t] = got[t] /\ sent'[t] = sent[t] /\ missed'[t] = missed[t]

\* A step of one thread is not a step of another.
LEMMA OthersStill ==
    ASSUME Inv, Threads, NEW c \in CONNS, Accept(c) \/ Connection(c), NEW t \in THREADS, t # c
    PROVE  Still(t)
<1>1. /\ pc \in [THREADS -> PCS] /\ vm \in [THREADS -> 0..MaxVm]
      /\ verb \in [THREADS -> VERBS \cup {"none", "shutdown"}]
      /\ cursor \in [THREADS -> Nat] /\ outcome \in [THREADS -> OUTCOMES]
      /\ got \in [CONNS -> SUBSET Nat] /\ sent \in [CONNS -> Nat] /\ missed \in [CONNS -> SUBSET Nat]
      /\ c \in THREADS
    BY DEF Inv, Shape, Threads, THREADS
<1>2. CASE Accept(c) \/ Serve(c) \/ StartVm(c)
    BY <1>1, <1>2 DEF Accept, Serve, StartVm, Reply, Go, Still, thread, readers
<1>3. CASE StopVm(c) \/ StopWait(c) \/ Lifecycle(c)
    BY <1>1, <1>3 DEF StopVm, StopWait, Lifecycle, Shutdown, ShutdownWait, Exit, Reply, Go, Still, thread, readers
<1>4. CASE ConsoleAttach(c) \/ SendInput(c)
    BY <1>1, <1>4 DEF ConsoleAttach, SendInput, Reply, Go, Still, thread, readers
<1>5. CASE ConsoleRead(c)
    BY <1>1, <1>5 DEF ConsoleRead, Reply, Still
<1>6. CASE ExecClaim(c) \/ ExecAttach(c)
    BY <1>1, <1>6 DEF ExecClaim, ExecAttach, Report, Reply, Go, Still, readers
<1>7. CASE ExecMark(c) \/ ExecReset(c) \/ ExecFrame(c)
    BY <1>1, <1>7 DEF ExecMark, ExecReset, ExecFrame, Go, Still, thread, readers
<1>8. CASE ExecPoll(c)
    BY <1>1, <1>8 DEF ExecPoll, Report, Reply, Still, readers
<1> QED BY <1>2, <1>3, <1>4, <1>5, <1>6, <1>7, <1>8 DEF Connection

\* Nor is a step of the main thread, of a worker or of a guest.
LEMMA ElsewhereStill ==
    ASSUME Inv, Threads, NEW c \in CONNS,
           \/ Signal \/ Lifecycle(Main) \/ UNCHANGED vars
           \/ \E v \in VMS : Worker(v) \/ Drain(v) \/ GuestEnds(v) \/ GuestNoise(v) \/ ShellWrite(v)
    PROVE  Still(c)
<1>1. /\ pc \in [THREADS -> PCS] /\ vm \in [THREADS -> 0..MaxVm]
      /\ c \in THREADS /\ Main \in THREADS /\ c # Main
    BY DaemonAssumption DEF Inv, Shape, THREADS
<1>2. CASE Signal \/ Lifecycle(Main)
    BY <1>1, <1>2 DEF Signal, Lifecycle, Shutdown, ShutdownWait, Exit, Reply, Go, Still, thread, readers
<1>3. ASSUME NEW v \in VMS, Worker(v) \/ Drain(v) \/ GuestEnds(v) \/ GuestNoise(v) \/ ShellWrite(v)
      PROVE  Still(c)
    <2>1. CASE Worker(v)
        BY <2>1 DEF Worker, LoadFails, BootFails, Build, Publish, ObeyStop, LastLook, Teardown, Record, Finish, ColdExit, Still,
           thread, readers
    <2>2. CASE Drain(v) \/ GuestEnds(v) \/ GuestNoise(v) \/ ShellWrite(v)
        BY <2>2 DEF Drain, GuestEnds, GuestNoise, ShellWrite, Still, thread, readers
    <2> QED BY <1>3, <2>1, <2>2
<1>4. CASE UNCHANGED vars
    BY <1>4 DEF vars, Still
<1> QED BY <1>2, <1>3, <1>4

-----------------------------------------------------------------------------
\* exec's parser.

\* The digits that have arrived after an end marker are the first of its own.
LEMMA DigitsArrived ==
    ASSUME Printed, Script, Rings, NEW v \in VMS, NEW c \in CONNS,
           NEW e \in 1..taken[v], said[v][e] = End(c), DigitsAfter(v, e) # {}
    PROVE  /\ Cardinality(DigitsAfter(v, e)) \in 1..Digits
           /\ e + Cardinality(DigitsAfter(v, e)) \in 1..Len(said[v])
           /\ \A p \in (e + 1)..(e + Cardinality(DigitsAfter(v, e))) : said[v][p] = Digit(c)
           /\ c \in finished
<1> DEFINE n == taken[v]
           len == Len(said[v])
           m == IF n < e + Digits THEN n ELSE e + Digits
<1>1. n \in Nat /\ len \in Nat /\ n <= len /\ Digits \in Nat \ {0} /\ e \in Nat /\ 1 <= e /\ e <= n
    <2>1. len \in Nat
        BY LenProperties DEF Printed
    <2>2. n \in Nat /\ n <= len
        BY DEF Rings
    <2>3. Digits \in Nat \ {0}
        BY DaemonAssumption
    <2> HIDE DEF n, len
    <2>4. e \in Nat /\ 1 <= e /\ e <= n
        BY <2>2 DEF n
    <2> QED BY <2>1, <2>2, <2>3, <2>4
<1>2. /\ e + Digits <= len
      /\ \A k \in 1..Digits : said[v][e + k] = Digit(c)
      /\ c \in finished
    <2>1. e \in 1..len
        BY <1>1
    <2> QED BY <2>1 DEF Script
<1>3. \A p \in (e + 1)..(e + Digits) : said[v][p] = Digit(c) /\ said[v][p][1] = "digit"
    <2>1. SUFFICES ASSUME NEW p \in (e + 1)..(e + Digits)
                   PROVE  said[v][p] = Digit(c) /\ said[v][p][1] = "digit"
        OBVIOUS
    <2>2. p - e \in 1..Digits /\ p = e + (p - e)
        BY <1>1
    <2>3. said[v][p] = Digit(c)
        BY <1>2, <2>2
    <2> QED BY <2>3 DEF Digit
<1>4. DigitsAfter(v, e) = {p \in (e + 1)..n : \A q \in (e + 1)..p : said[v][q][1] = "digit"}
    BY DEF DigitsAfter
<1>5. ASSUME NEW p \in DigitsAfter(v, e) PROVE p \in (e + 1)..m
    <2>1. p \in (e + 1)..n /\ \A q \in (e + 1)..p : said[v][q][1] = "digit"
        BY <1>4
    <2>2. SUFFICES ASSUME p > e + Digits PROVE FALSE
        BY <1>1, <2>1
    <2> DEFINE q == e + Digits + 1
    <2>3. q \in (e + 1)..p /\ q \in 1..len
        BY <1>1, <2>1, <2>2
    <2>4. PICK k \in 1..Digits : q - k >= 1 /\ said[v][q - k][1] = "end"
        <3>1. said[v][q][1] = "digit"
            BY <2>1, <2>3
        <3> HIDE DEF q
        <3> QED BY <2>3, <3>1 DEF Script
    <2>5. q - k \in (e + 1)..(e + Digits)
        BY <1>1
    <2>6. said[v][q - k][1] = "digit"
        BY <1>3, <2>5
    <2> QED BY <2>4, <2>6
<1>6. ASSUME NEW p \in (e + 1)..m PROVE p \in DigitsAfter(v, e)
    <2>1. p \in (e + 1)..n /\ (e + 1)..p \subseteq (e + 1)..(e + Digits)
        BY <1>1
    <2> QED BY <1>3, <1>4, <2>1
<1>7. DigitsAfter(v, e) = (e + 1)..m
    <2> HIDE DEF m
    <2> QED BY <1>5, <1>6
<1>8. m \in Nat /\ m >= e + 1 /\ m <= e + Digits /\ m <= n
    <2>1. m \in Nat /\ m <= e + Digits /\ m <= n
        BY <1>1
    <2>2. (e + 1)..m # {}
        BY <1>7
    <2> HIDE DEF m
    <2>3. PICK p : p \in (e + 1)..m
        BY <2>2
    <2>4. e + 1 <= m
        BY <1>1, <2>1, <2>3
    <2> QED BY <2>1, <2>4
<1> HIDE DEF m, n, len
<1>9. Cardinality(DigitsAfter(v, e)) = m - e
    <2>1. e + 1 \in Int /\ m \in Int
        BY <1>1, <1>8
    <2>2. Cardinality((e + 1)..m) = IF e + 1 > m THEN 0 ELSE m - (e + 1) + 1
        BY <2>1, FS_Interval
    <2>3. Cardinality((e + 1)..m) = m - e
        BY <1>1, <1>8, <2>2
    <2> QED BY <1>7, <2>3
<1>10. m - e \in 1..Digits /\ e + (m - e) = m /\ m \in 1..len
    BY <1>1, <1>8
<1>11. \A p \in (e + 1)..m : said[v][p] = Digit(c)
    <2>1. (e + 1)..m \subseteq (e + 1)..(e + Digits)
        BY <1>1, <1>8
    <2> QED BY <1>3, <2>1
<1> QED BY <1>2, <1>9, <1>10, <1>11 DEF len

\* What exec reports as completed.
Own(c, v, o) ==
    /\ o.from \in 1..Len(said[v])
    /\ o.to \in 1..Len(said[v])
    /\ o.to + o.code \in 1..Len(said[v])
    /\ c \in finished
    /\ said[v][o.from] = Begin(c)
    /\ said[v][o.to] = End(c)
    /\ o.code \in 1..Digits
    /\ \A p \in (o.to + 1)..(o.to + o.code) : said[v][p] = Digit(c)

\* A failure's type.
LEMMA FailureTyped ==
    ASSUME NEW k \in KINDS
    PROVE  Failure(k) \in OUTCOMES /\ Failure(k).kind = k
BY DEF Failure, NoOutcome, OUTCOMES

\* A poll that ends an exec reports a failure, or the exec's own command.
LEMMA VerdictTrue ==
    ASSUME Printed, Script, Rings, NEW c \in CONNS, NEW v \in VMS, vm[c] = v, cursor[c] \in Nat,
           Verdict(c).kind # "pending"
    PROVE  /\ Verdict(c) \in OUTCOMES
           /\ Verdict(c).kind \in {"truncated", "overflowed", "completed"}
           /\ Verdict(c).kind = "completed" => Own(c, v, Verdict(c))
<1>1. CASE dropped[v] > cursor[c]
    <2>1. Verdict(c) = Failure("truncated")
        BY <1>1 DEF Verdict
    <2>2. "truncated" \in KINDS
        BY DEF KINDS
    <2> QED BY <2>1, <2>2, FailureTyped
<1>2. CASE ~(dropped[v] > cursor[c])
    <2> DEFINE window == Window(v, cursor[c])
               begins == {p \in window : said[v][p] = Begin(c)}
               b == First(begins)
               ends == {p \in window : p > b /\ said[v][p] = End(c)}
               e == First(ends)
               done == [kind |-> "completed", from |-> b, to |-> e, code |-> Cardinality(DigitsAfter(v, e))]
    <2>0. \/ Verdict(c) = Failure("overflowed")
          \/ Verdict(c) = Failure("pending")
          \/ begins # {} /\ ends # {} /\ DigitsAfter(v, e) # {} /\ Verdict(c) = done
        BY <1>2 DEF Verdict, Parse
    <2>1. Failure("pending").kind = "pending"
        BY DEF Failure, NoOutcome
    <2>2. CASE Verdict(c) = Failure("overflowed")
        <3>1. "overflowed" \in KINDS
            BY DEF KINDS
        <3> QED BY <2>2, <3>1, FailureTyped
    <2>3. CASE begins # {} /\ ends # {} /\ DigitsAfter(v, e) # {} /\ Verdict(c) = done
        <3>1. /\ taken[v] \in Nat /\ Len(said[v]) \in Nat /\ taken[v] <= Len(said[v])
              /\ dropped[v] \in Nat /\ held[v] \in Nat /\ dropped[v] + held[v] = taken[v]
            BY LenProperties, DaemonAssumption DEF Printed, Rings
        <3>2. window \subseteq 1..taken[v]
            BY <1>2, <3>1 DEF Window
        <3>3. begins \in SUBSET Nat /\ begins \subseteq window
            BY <3>1, <3>2
        <3>4. b \in begins
            <4> HIDE DEF begins
            <4> QED BY <2>3, <3>3, FirstIsLeast DEF b
        <3>5. b \in window /\ said[v][b] = Begin(c)
            BY <3>4
        <3> HIDE DEF b
        <3>6. ends \in SUBSET Nat /\ ends \subseteq window
            BY <3>1, <3>2
        <3>7. e \in ends
            <4> HIDE DEF ends
            <4> QED BY <2>3, <3>6, FirstIsLeast DEF e
        <3>8. e \in window /\ said[v][e] = End(c)
            BY <3>7
        <3> HIDE DEF e, window
        <3>9. b \in 1..taken[v] /\ e \in 1..taken[v]
            BY <3>2, <3>5, <3>8
        <3>10. b \in Nat /\ e \in Nat /\ b \in 1..Len(said[v]) /\ e \in 1..Len(said[v])
            BY <3>1, <3>9
        <3> DEFINE k == Cardinality(DigitsAfter(v, e))
        <3>11. /\ k \in 1..Digits
               /\ e + k \in 1..Len(said[v])
               /\ \A p \in (e + 1)..(e + k) : said[v][p] = Digit(c)
               /\ c \in finished
            BY <2>3, <3>8, <3>9, DigitsArrived
        <3> HIDE DEF k
        <3>12. done = [kind |-> "completed", from |-> b, to |-> e, code |-> k]
            BY DEF k
        <3> HIDE DEF done
        <3>13. k \in Nat /\ "completed" \in KINDS
            BY <3>11, DaemonAssumption DEF KINDS
        <3>14. done \in OUTCOMES /\ done.kind = "completed"
            BY <3>10, <3>12, <3>13 DEF OUTCOMES
        <3>15. Own(c, v, done)
            BY <3>5, <3>8, <3>10, <3>11, <3>12 DEF Own
        <3> QED BY <2>3, <3>14, <3>15
    <2> QED BY <2>0, <2>1, <2>2, <2>3
<1> QED BY <1>1, <1>2

-----------------------------------------------------------------------------
\* Locks and flags.

Flags ==
    /\ serving \in BOOLEAN
    /\ lock \in THREADS \cup {Nobody}
    /\ busy \in THREADS \cup {Nobody}
    /\ stop \in [VMS -> BOOLEAN]
    /\ input \in [VMS -> BOOLEAN]

\* Their types are kept.
LEMMA FlagsKept ==
    ASSUME Inv, Flags, [Next]_vars
    PROVE  Flags'
<1>1. ASSUME NEW c \in CONNS, Accept(c) \/ Connection(c)
      PROVE  Flags'
    <2>0. c \in THREADS
        BY DEF THREADS
    <2>1. CASE Accept(c) \/ Serve(c) \/ StartVm(c) \/ StopWait(c)
        BY <2>1 DEF Accept, Serve, StartVm, StopWait, Flags, worker
    <2>2. CASE StopVm(c)
        BY <2>0, <2>2 DEF StopVm, Flags, worker
    <2>3. CASE Lifecycle(c)
        BY <2>3 DEF Lifecycle, Shutdown, ShutdownWait, Exit, Flags, worker
    <2>4. CASE ConsoleAttach(c) \/ ConsoleRead(c) \/ SendInput(c)
        BY <2>4 DEF ConsoleAttach, ConsoleRead, SendInput, Flags, worker
    <2>5. CASE ExecClaim(c) \/ ExecAttach(c) \/ ExecPoll(c)
        BY <2>0, <2>5 DEF ExecClaim, ExecAttach, ExecPoll, Report, Flags, worker
    <2>6. CASE ExecMark(c) \/ ExecReset(c) \/ ExecFrame(c)
        BY <2>6 DEF ExecMark, ExecReset, ExecFrame, Flags, worker
    <2> QED BY <1>1, <2>1, <2>2, <2>3, <2>4, <2>5, <2>6 DEF Connection
<1>2. CASE Signal \/ Lifecycle(Main)
    BY <1>2 DEF Signal, Lifecycle, Shutdown, ShutdownWait, Exit, Flags, worker
<1>3. ASSUME NEW v \in VMS, Worker(v) \/ Drain(v) \/ GuestEnds(v) \/ GuestNoise(v) \/ ShellWrite(v)
      PROVE  Flags'
    <2>1. CASE Worker(v)
        BY <2>1 DEF Worker, LoadFails, BootFails, Build, Publish, ObeyStop, LastLook, Teardown, Record, Finish, ColdExit, Flags, worker
    <2>2. CASE Drain(v) \/ GuestEnds(v) \/ GuestNoise(v) \/ ShellWrite(v)
        BY <2>2 DEF Drain, GuestEnds, GuestNoise, ShellWrite, Flags, worker
    <2> QED BY <1>3, <2>1, <2>2
<1>4. CASE UNCHANGED vars
    BY <1>4 DEF vars, Flags
<1> QED BY <1>1, <1>2, <1>3, <1>4 DEF Next

-----------------------------------------------------------------------------
\* Connections.

\* Where a connection is, and what it serves.
Place(c) ==
    /\ pc[c] \in {"reading", "mark", "reset", "frame", "polling"} => vm[c] \in VMS
    /\ pc[c] = "reading" => verb[c] = "console"
    /\ pc[c] \in {"attach", "mark", "reset", "frame", "polling"} => verb[c] = "exec"
    /\ pc[c] = "stopping" => verb[c] = "stop"
    /\ pc[c] \in {"idle", "accepted", "serving"} =>
          vm[c] = 0 /\ cursor[c] = 0 /\ got[c] = {} /\ sent[c] = 0 /\ missed[c] = {}
    /\ outcome[c].kind # "none" => pc[c] = "done"

\* A console client: the bytes before its position are those it has received and
\* those that were evicted before it got to them.
Reader(c) ==
    verb[c] = "console" =>
        /\ vm[c] = 0 => cursor[c] = 0 /\ got[c] = {} /\ missed[c] = {}
        /\ vm[c] # 0 => cursor[c] <= taken[vm[c]] /\ missed[c] \subseteq 1..dropped[vm[c]]
        /\ sent[c] = Cardinality(got[c])
        /\ got[c] \cup {p \in missed[c] : p <= cursor[c]} = 1..cursor[c]
        /\ outcome[c].kind = "eof" =>
              vm[c] # 0 /\ status[vm[c]] = "stopped" /\ cursor[c] = taken[vm[c]]

\* An exec client.
Told(c) == outcome[c].kind = "completed" => vm[c] \in VMS /\ Own(c, vm[c], outcome[c])

Clients == \A c \in CONNS : Place(c) /\ Reader(c) /\ Told(c)

\* What a client has been told stays true while others go on.
LEMMA StillKept ==
    ASSUME Inv, Threads, NEW c \in CONNS, Place(c), Reader(c), Told(c), Still(c), Onwards
    PROVE  Place(c)' /\ Reader(c)' /\ Told(c)'
<1>1. vm[c] \in 0..MaxVm /\ MaxVm \in Nat /\ (vm[c] # 0 => vm[c] \in VMS) /\ cursor[c] \in Nat
    BY DaemonAssumption DEF Inv, Shape, Threads, THREADS, VMS
<1>2. Place(c)'
    BY DEF Place, Still
<1>3. Reader(c)'
    <2>1. SUFFICES ASSUME verb[c] = "console" PROVE Reader(c)'
        BY DEF Reader, Still
    <2>2. CASE vm[c] = 0
        BY <2>1, <2>2 DEF Reader, Still
    <2>3. CASE vm[c] # 0
        <3>1. cursor[c] <= taken'[vm[c]]
            BY <1>1, <2>1, <2>3 DEF Reader, Onwards
        <3>2. missed[c] \subseteq 1..dropped'[vm[c]]
            <4>1. missed[c] \subseteq 1..dropped[vm[c]]
                BY <2>1, <2>3 DEF Reader
            <4>2. 1..dropped[vm[c]] \subseteq 1..dropped'[vm[c]]
                BY <1>1, <2>3 DEF Onwards
            <4> QED BY <4>1, <4>2
        <3>3. outcome[c].kind = "eof" => status'[vm[c]] = "stopped" /\ cursor[c] = taken'[vm[c]]
            BY <1>1, <2>1, <2>3 DEF Reader, Onwards
        <3>4. /\ sent[c] = Cardinality(got[c])
              /\ got[c] \cup {p \in missed[c] : p <= cursor[c]} = 1..cursor[c]
            BY <2>1 DEF Reader
        <3> QED BY <2>1, <2>3, <3>1, <3>2, <3>3, <3>4 DEF Reader, Still
    <2> QED BY <2>2, <2>3
<1>4. Told(c)'
    <2>1. SUFFICES ASSUME outcome[c].kind = "completed" PROVE vm[c] \in VMS /\ Own(c, vm[c], outcome[c])'
        BY DEF Told, Still
    <2> DEFINE v == vm[c]
               o == outcome[c]
    <2>2. v \in VMS /\ Own(c, v, o)
        BY <2>1 DEF Told
    <2>3. o \in OUTCOMES /\ o' = o /\ v' = v
        BY DEF Still, Threads, THREADS
    <2>4. o.to \in Nat /\ o.code \in Nat /\ o.from \in Nat
        BY <2>3 DEF OUTCOMES
    <2> HIDE DEF v, o
    <2>5. /\ Len(said[v]) \in Nat /\ Len(said'[v]) \in Nat /\ Len(said[v]) <= Len(said'[v])
          /\ \A p \in 1..Len(said[v]) : said'[v][p] = said[v][p]
        BY <2>2 DEF Onwards, Grows
    <2>6. 1..Len(said[v]) \subseteq 1..Len(said'[v])
        BY <2>5
    <2>7. (o.to + 1)..(o.to + o.code) \subseteq 1..Len(said[v])
        BY <2>2, <2>4, <2>5 DEF Own
    <2>8. finished \subseteq finished'
        BY DEF Onwards
    <2>9. Own(c, v, o)'
        BY <2>2, <2>3, <2>5, <2>6, <2>7, <2>8 DEF Own
    <2> QED BY <2>2, <2>9 DEF v, o
<1> QED BY <1>2, <1>3, <1>4

\* A connection that has not ended has been told nothing.
LEMMA NothingTold ==
    ASSUME NEW c \in CONNS, Place(c), Accept(c) \/ Connection(c)
    PROVE  pc[c] # "done" /\ outcome[c].kind = "none"
<1>1. pc[c] # "done"
    BY DEF Accept, Connection, Serve, StartVm, StopVm, StopWait, Lifecycle, Shutdown, ShutdownWait, Exit,
           ConsoleAttach, ConsoleRead, SendInput, ExecClaim, ExecAttach, ExecMark, ExecReset, ExecFrame,
           ExecPoll, Serving, At
<1> QED BY <1>1 DEF Place

\* A step of a connection that tells it nothing and leaves a reader alone.
LEMMA QuietKept ==
    ASSUME Inv, Threads, NEW c \in CONNS, Reader(c), Onwards, outcome[c].kind = "none",
           outcome'[c].kind \notin {"eof", "completed"}, verb'[c] = verb[c],
           \/ verb[c] # "console"
           \/ /\ vm'[c] = vm[c] /\ cursor'[c] = cursor[c]
              /\ got'[c] = got[c] /\ sent'[c] = sent[c] /\ missed'[c] = missed[c]
    PROVE  Reader(c)' /\ Told(c)'
<1>1. vm[c] \in 0..MaxVm /\ MaxVm \in Nat /\ (vm[c] # 0 => vm[c] \in VMS) /\ cursor[c] \in Nat
    BY DaemonAssumption DEF Inv, Shape, Threads, THREADS, VMS
<1>2. Told(c)'
    BY DEF Told
<1>3. Reader(c)'
    <2>1. CASE verb[c] # "console"
        BY <2>1 DEF Reader
    <2>2. CASE verb[c] = "console" /\ vm[c] = 0
        BY <2>2 DEF Reader
    <2>3. CASE verb[c] = "console" /\ vm[c] # 0
        <3>1. cursor[c] <= taken'[vm[c]]
            BY <1>1, <2>3 DEF Reader, Onwards
        <3>2. missed[c] \subseteq 1..dropped'[vm[c]]
            <4>1. missed[c] \subseteq 1..dropped[vm[c]]
                BY <2>3 DEF Reader
            <4>2. 1..dropped[vm[c]] \subseteq 1..dropped'[vm[c]]
                BY <1>1, <2>3 DEF Onwards
            <4> QED BY <4>1, <4>2
        <3>3. /\ sent[c] = Cardinality(got[c])
              /\ got[c] \cup {p \in missed[c] : p <= cursor[c]} = 1..cursor[c]
            BY <2>3 DEF Reader
        <3> QED BY <2>3, <3>1, <3>2, <3>3 DEF Reader
    <2> QED BY <2>1, <2>2, <2>3
<1> QED BY <1>2, <1>3

\* The steps of a connection that are not about a console.
LEMMA RequestKept ==
    ASSUME Inv, Threads, NEW c \in CONNS, Place(c), Reader(c), Told(c), Onwards,
           Serve(c) \/ StartVm(c) \/ StopVm(c) \/ StopWait(c) \/ Lifecycle(c) \/ SendInput(c)
    PROVE  Place(c)' /\ Reader(c)' /\ Told(c)'
<1>1. /\ pc \in [THREADS -> PCS] /\ vm \in [THREADS -> 0..MaxVm]
      /\ outcome \in [THREADS -> OUTCOMES] /\ c \in THREADS
    BY DEF Inv, Shape, Threads, THREADS
<1>2. outcome[c].kind = "none" /\ outcome[c] \in OUTCOMES
    BY <1>1, NothingTold DEF Connection
<1>3. /\ UNCHANGED verb /\ UNCHANGED cursor
      /\ UNCHANGED got /\ UNCHANGED sent /\ UNCHANGED missed
    BY DEF Serve, StartVm, StopVm, StopWait, Lifecycle, Shutdown, ShutdownWait, Exit, SendInput, thread, readers
<1>4. CASE Serve(c) \/ StartVm(c) \/ SendInput(c)
    <2>1. /\ UNCHANGED outcome /\ UNCHANGED vm /\ pc'[c] \in {"serving", "done"}
          /\ pc[c] \in {"accepted", "serving"}
        BY <1>1, <1>4 DEF Serve, StartVm, SendInput, Serving, At, Reply, Go, thread
    <2>2. Place(c)'
        BY <1>2, <1>3, <2>1 DEF Place
    <2> QED BY <1>2, <1>3, <2>1, <2>2, QuietKept
<1>5. CASE StopVm(c)
    <2>1. UNCHANGED outcome /\ pc'[c] \in {"stopping", "done"} /\ verb[c] = "stop"
        BY <1>1, <1>5 DEF StopVm, Serving, At, Reply, Go
    <2>2. Place(c)'
        BY <1>2, <1>3, <2>1 DEF Place
    <2> QED BY <1>2, <1>3, <2>1, <2>2, QuietKept
<1>6. CASE StopWait(c)
    <2>1. UNCHANGED vm /\ pc'[c] = "done" /\ pc[c] = "stopping"
        BY <1>1, <1>6 DEF StopWait, At, Reply
    <2>2. \/ outcome' = [outcome EXCEPT ![c] = [outcome[c] EXCEPT !.kind = "stopped"]]
          \/ outcome' = [outcome EXCEPT ![c] = [outcome[c] EXCEPT !.kind = "requested"]]
        BY <1>6 DEF StopWait
    <2>3. outcome'[c].kind \in {"stopped", "requested"}
        BY <1>1, <1>2, <2>2 DEF OUTCOMES
    <2>4. Place(c)'
        BY <1>3, <2>1 DEF Place
    <2> QED BY <1>2, <1>3, <2>1, <2>3, <2>4, QuietKept
<1>7. CASE Shutdown(c)
    <2>1. UNCHANGED outcome /\ pc'[c] \in {"leaving", "draining"} /\ verb[c] = "shutdown"
        BY <1>1, <1>7 DEF Shutdown, Serving, At, Go
    <2>2. Place(c)'
        BY <1>2, <1>3, <2>1 DEF Place
    <2> QED BY <1>2, <1>3, <2>1, <2>2, QuietKept
<1>8. CASE ShutdownWait(c) \/ Exit(c)
    <2>1. UNCHANGED outcome /\ UNCHANGED vm /\ pc'[c] \in {"leaving", "done"}
        BY <1>1, <1>8 DEF ShutdownWait, Exit, At, Go, Reply, thread
    <2>2. Place(c)'
        BY <1>2, <1>3, <2>1 DEF Place
    <2> QED BY <1>2, <1>3, <2>1, <2>2, QuietKept
<1> QED BY <1>4, <1>5, <1>6, <1>7, <1>8 DEF Lifecycle

\* A connection is accepted, with nothing received yet.
LEMMA AcceptKept ==
    ASSUME Inv, Threads, NEW c \in CONNS, Place(c), Reader(c), Told(c), Accept(c)
    PROVE  Place(c)' /\ Reader(c)' /\ Told(c)'
<1>1. /\ pc \in [THREADS -> PCS] /\ c \in THREADS
    BY DEF Inv, Shape, THREADS
<1>2. outcome[c].kind = "none"
    BY NothingTold
<1>3. /\ pc[c] = "idle" /\ pc'[c] = "accepted"
      /\ UNCHANGED vm /\ UNCHANGED cursor /\ UNCHANGED outcome
      /\ UNCHANGED got /\ UNCHANGED sent /\ UNCHANGED missed
    BY <1>1 DEF Accept, At, Go, readers
<1>4. vm[c] = 0 /\ cursor[c] = 0 /\ got[c] = {} /\ sent[c] = 0 /\ missed[c] = {}
    BY <1>3 DEF Place
<1>5. Place(c)' /\ Told(c)'
    BY <1>2, <1>3, <1>4 DEF Place, Told
<1>6. Reader(c)'
    <2>1. Cardinality({}) = 0
        BY FS_EmptySet
    <2>2. 1..0 = {}
        OBVIOUS
    <2> QED BY <1>2, <1>3, <1>4, <2>1, <2>2 DEF Reader
<1> QED BY <1>5, <1>6

\* The steps of an exec.
LEMMA ExecKept ==
    ASSUME Inv, Threads, Printed, Script, Rings,
           NEW c \in CONNS, Place(c), Reader(c), Told(c), Onwards,
           ExecClaim(c) \/ ExecAttach(c) \/ ExecMark(c) \/ ExecReset(c) \/ ExecFrame(c) \/ ExecPoll(c)
    PROVE  /\ Place(c)' /\ Reader(c)' /\ Told(c)'
           /\ outcome' \in [THREADS -> OUTCOMES] /\ cursor' \in [THREADS -> Nat]
<1>1. /\ pc \in [THREADS -> PCS] /\ vm \in [THREADS -> 0..MaxVm] /\ cursor \in [THREADS -> Nat]
      /\ outcome \in [THREADS -> OUTCOMES] /\ c \in THREADS
    BY DEF Inv, Shape, Threads, THREADS
<1>2. outcome[c].kind = "none" /\ outcome[c] \in OUTCOMES
    BY <1>1, NothingTold DEF Connection
<1>3. /\ UNCHANGED verb /\ verb[c] = "exec"
      /\ UNCHANGED got /\ UNCHANGED sent /\ UNCHANGED missed
    BY DEF ExecClaim, ExecAttach, ExecMark, ExecReset, ExecFrame, ExecPoll, Serving, At, Place, thread, readers
<1>4. Reader(c)'
    BY <1>3 DEF Reader
<1>5. {"busy", "error", "timeout"} \subseteq KINDS
    BY DEF KINDS
<1>6. CASE ExecClaim(c)
    <2>1. /\ UNCHANGED vm /\ UNCHANGED cursor
          /\ \/ pc'[c] = "done" /\ outcome' = [outcome EXCEPT ![c] = Failure("busy")]
             \/ pc'[c] = "attach" /\ UNCHANGED outcome
        BY <1>1, <1>6 DEF ExecClaim, Reply, Go
    <2>2. outcome' \in [THREADS -> OUTCOMES] /\ outcome'[c].kind \in {"busy", "none"}
        BY <1>1, <1>2, <1>5, <2>1, FailureTyped
    <2> QED BY <1>1, <1>2, <1>3, <1>4, <2>1, <2>2 DEF Place, Told
<1>7. CASE ExecAttach(c)
    <2>1. /\ UNCHANGED cursor
          /\ \/ pc'[c] = "done" /\ outcome' = [outcome EXCEPT ![c] = Failure("error")]
             \/ pc'[c] = "mark" /\ UNCHANGED outcome /\ vm'[c] = current /\ Running
        BY <1>1, <1>7 DEF ExecAttach, Report, Reply, Go
    <2>2. outcome' \in [THREADS -> OUTCOMES] /\ outcome'[c].kind \in {"error", "none"}
        BY <1>1, <1>2, <1>5, <2>1, FailureTyped
    <2>3. Running => current \in VMS
        BY DaemonAssumption DEF Running, Inv, Shape, VMS
    <2>4. outcome'[c].kind # "none" => pc'[c] = "done"
        BY <1>2, <2>1
    <2> QED BY <1>1, <1>3, <1>4, <2>1, <2>2, <2>3, <2>4 DEF Place, Told
<1>8. CASE ExecMark(c) \/ ExecReset(c) \/ ExecFrame(c)
    <2>1. /\ UNCHANGED vm /\ UNCHANGED outcome
          /\ pc[c] \in {"mark", "reset", "frame"} /\ pc'[c] \in {"reset", "frame", "polling"}
          /\ UNCHANGED cursor \/ cursor' = [cursor EXCEPT ![c] = dropped[vm[c]] + held[vm[c]]]
        BY <1>1, <1>8 DEF ExecMark, ExecReset, ExecFrame, At, Go, thread
    <2>2. vm[c] \in VMS
        BY <2>1 DEF Place
    <2>3. dropped[vm[c]] + held[vm[c]] \in Nat
        BY <2>2, DaemonAssumption DEF Rings
    <2>4. cursor' \in [THREADS -> Nat]
        BY <1>1, <2>1, <2>3
    <2> QED BY <1>1, <1>2, <1>3, <1>4, <2>1, <2>2, <2>4 DEF Place, Told
<1>9. CASE ExecPoll(c)
    <2>1. /\ pc[c] = "polling" /\ pc'[c] = "done" /\ UNCHANGED vm /\ UNCHANGED cursor
          /\ \/ Verdict(c).kind # "pending" /\ outcome' = [outcome EXCEPT ![c] = Verdict(c)]
             \/ outcome' = [outcome EXCEPT ![c] = Failure("error")]
             \/ outcome' = [outcome EXCEPT ![c] = Failure("timeout")]
        BY <1>1, <1>9 DEF ExecPoll, Report, Reply, At
    <2>2. vm[c] \in VMS /\ cursor[c] \in Nat
        BY <1>1, <2>1 DEF Place
    <2>3. Place(c)'
        BY <1>3, <2>1 DEF Place
    <2>4. /\ Failure("error") \in OUTCOMES /\ Failure("error").kind = "error"
          /\ Failure("timeout") \in OUTCOMES /\ Failure("timeout").kind = "timeout"
        BY <1>5, FailureTyped
    <2>5. CASE outcome' = [outcome EXCEPT ![c] = Failure("error")] \/ outcome' = [outcome EXCEPT ![c] = Failure("timeout")]
        <3>1. outcome'[c].kind # "completed" /\ outcome' \in [THREADS -> OUTCOMES]
            BY <1>1, <2>4, <2>5
        <3> QED BY <1>1, <1>4, <2>1, <2>3, <3>1 DEF Told
    <2>6. CASE Verdict(c).kind # "pending" /\ outcome' = [outcome EXCEPT ![c] = Verdict(c)]
        <3>1. /\ Verdict(c) \in OUTCOMES
              /\ Verdict(c).kind = "completed" => Own(c, vm[c], Verdict(c))
            BY <2>2, <2>6, VerdictTrue
        <3>2. outcome'[c] = Verdict(c) /\ outcome' \in [THREADS -> OUTCOMES]
            BY <1>1, <2>6, <3>1
        <3> DEFINE o == Verdict(c)
        <3>3. UNCHANGED said /\ UNCHANGED finished
            BY <1>9 DEF ExecPoll, guest
        <3>4. Told(c)'
            <4>1. SUFFICES ASSUME outcome'[c].kind = "completed" PROVE Own(c, vm[c], outcome[c])'
                BY <2>1, <2>2 DEF Told
            <4>2. Own(c, vm[c], Verdict(c))
                BY <3>1, <3>2, <4>1
            <4> QED BY <2>1, <3>2, <3>3, <4>2 DEF Own
        <3> QED BY <1>1, <1>4, <2>1, <2>3, <3>2, <3>4
    <2> QED BY <2>1, <2>5, <2>6
<1> QED BY <1>6, <1>7, <1>8, <1>9

\* A console client takes the guest's handle.
LEMMA AttachKept ==
    ASSUME Inv, Threads, Rings, NEW c \in CONNS, Place(c), Reader(c), Told(c), ConsoleAttach(c)
    PROVE  Place(c)' /\ Reader(c)' /\ Told(c)'
<1>1. /\ pc \in [THREADS -> PCS] /\ vm \in [THREADS -> 0..MaxVm] /\ c \in THREADS
    BY DEF Inv, Shape, THREADS
<1>2. outcome[c].kind = "none"
    BY NothingTold DEF Connection
<1>3. /\ pc[c] = "serving" /\ verb[c] = "console"
      /\ \/ pc'[c] = "done" /\ vm'[c] = vm[c]
         \/ pc'[c] = "reading" /\ vm'[c] = current /\ current # 0
      /\ UNCHANGED verb /\ UNCHANGED cursor /\ UNCHANGED outcome
      /\ UNCHANGED got /\ UNCHANGED sent /\ UNCHANGED missed
      /\ UNCHANGED taken /\ UNCHANGED dropped
    BY <1>1 DEF ConsoleAttach, Serving, At, Reply, Go, readers, ring
<1>4. vm[c] = 0 /\ cursor[c] = 0 /\ got[c] = {} /\ sent[c] = 0 /\ missed[c] = {}
    BY <1>3 DEF Place
<1>5. current # 0 => current \in VMS
    BY DaemonAssumption DEF Inv, Shape, VMS
<1>6. Place(c)' /\ Told(c)'
    BY <1>2, <1>3, <1>4, <1>5 DEF Place, Told
<1>7. Reader(c)'
    <2>1. Cardinality({}) = 0
        BY FS_EmptySet
    <2>2. 1..0 = {}
        OBVIOUS
    <2>3. vm'[c] # 0 => cursor'[c] <= taken'[vm'[c]] /\ missed'[c] \subseteq 1..dropped'[vm'[c]]
        BY <1>3, <1>4, <1>5 DEF Rings
    <2> QED BY <1>2, <1>3, <1>4, <2>1, <2>2, <2>3 DEF Reader
<1> QED BY <1>6, <1>7

\* stream_console: one read of the ring.
LEMMA ReadKept ==
    ASSUME Inv, Threads, Rings, NEW c \in CONNS, Place(c), Reader(c), Told(c), ConsoleRead(c)
    PROVE  Place(c)' /\ Reader(c)' /\ Told(c)' /\ Threads'
<1> DEFINE v == vm[c]
           n == taken[v]
           d == dropped[v]
           k == cursor[c]
           g == got[c]
           m == missed[c]
           r == ResumeAt(c)
           chunk == Window(v, r)
<1>1. /\ pc \in [THREADS -> PCS] /\ vm \in [THREADS -> 0..MaxVm] /\ c \in THREADS
      /\ cursor \in [THREADS -> Nat] /\ outcome \in [THREADS -> OUTCOMES]
      /\ got \in [CONNS -> SUBSET Nat] /\ sent \in [CONNS -> Nat] /\ missed \in [CONNS -> SUBSET Nat]
    BY DEF Inv, Shape, Threads, THREADS
<1>2. outcome[c].kind = "none" /\ outcome[c] \in OUTCOMES
    BY <1>1, NothingTold DEF Connection
<1>3. pc[c] = "reading" /\ verb[c] = "console" /\ v \in VMS /\ v # 0
    BY DaemonAssumption DEF ConsoleRead, At, Place, VMS
<1>4. /\ n \in Nat /\ d \in Nat /\ k \in Nat /\ held[v] \in Nat /\ d + held[v] = n
      /\ held[v] = 0 => n = 0
    BY <1>1, <1>3, DaemonAssumption DEF Rings
<1>5. /\ UNCHANGED verb /\ UNCHANGED vm /\ UNCHANGED taken /\ UNCHANGED dropped /\ UNCHANGED status
    BY DEF ConsoleRead, ring, worker
<1>6. r = IF k < d THEN d ELSE k
    BY DEF ResumeAt
<1>7. /\ k <= n /\ m \subseteq 1..d /\ sent[c] = Cardinality(g)
      /\ g \cup {p \in m : p <= k} = 1..k
    BY <1>3 DEF Reader
<1>8. d <= n
    BY <1>4
<1>9. missed' = [missed EXCEPT ![c] = (1..(taken[v] - held[v])) \ got[c]]
    BY DEF ConsoleRead
<1>10. \/ /\ chunk # {}
          /\ got' = [got EXCEPT ![c] = g \cup chunk]
          /\ sent' = [sent EXCEPT ![c] = sent[c] + Cardinality(chunk)]
          /\ cursor' = [cursor EXCEPT ![c] = r + Cardinality(chunk)]
          /\ UNCHANGED <<pc, outcome>>
       \/ /\ chunk # {}
          /\ pc'[c] = "done"
          /\ outcome' = [outcome EXCEPT ![c] = [outcome[c] EXCEPT !.kind = "gone"]]
          /\ UNCHANGED <<got, sent, cursor>>
       \/ /\ chunk = {}
          /\ status[v] = "stopped"
          /\ pc'[c] = "done"
          /\ outcome' = [outcome EXCEPT ![c] = [outcome[c] EXCEPT !.kind = "eof"]]
          /\ UNCHANGED <<got, sent, cursor>>
    BY <1>1 DEF ConsoleRead, Reply
<1>11. chunk = (n - held[v] + r - d + 1)..n
    BY DEF Window
<1> HIDE DEF n, d, k, g, m, r, chunk
<1>12. /\ r \in Nat /\ r <= n
       /\ IsFiniteSet(g) /\ g \subseteq 1..k
       /\ Cardinality((r + 1)..n) = n - r
       /\ Cardinality(g \cup ((r + 1)..n)) = Cardinality(g) + (n - r)
       /\ (g \cup ((r + 1)..n)) \cup {p \in (1..d) \ g : p <= n} = 1..n
       /\ g \cup {p \in (1..d) \ g : p <= k} = 1..k
    <2>1. Reading(d, n, k, g, m, r)
        BY <1>4, <1>6, <1>7, <1>8 DEF Reading
    <2>2. ReadOn(d, n, k, g, r)
        BY <2>1, ReadMore
    <2> QED BY <2>2 DEF ReadOn
<1>13. chunk = (r + 1)..n /\ n - held[v] = d
    <2>1. n - held[v] = d
        BY <1>4
    <2>2. n - held[v] + r - d + 1 = r + 1
        BY <1>4, <1>12
    <2> QED BY <1>11, <2>1, <2>2
<1>14. /\ missed'[c] = (1..d) \ g /\ missed'[c] \subseteq 1..d
       /\ missed' \in [CONNS -> SUBSET Nat]
    <2>1. missed' = [missed EXCEPT ![c] = (1..d) \ g]
        BY <1>9, <1>13 DEF n, g
    <2>2. (1..d) \ g \in SUBSET Nat
        BY <1>4
    <2> QED BY <1>1, <2>1, <2>2
<1>15. CASE /\ got' = [got EXCEPT ![c] = g \cup chunk]
            /\ sent' = [sent EXCEPT ![c] = sent[c] + Cardinality(chunk)]
            /\ cursor' = [cursor EXCEPT ![c] = r + Cardinality(chunk)]
            /\ UNCHANGED <<pc, outcome>>
    <2>1. r + Cardinality(chunk) = n /\ Cardinality(chunk) = n - r
        BY <1>4, <1>12, <1>13
    <2>2. sent[c] \in Nat /\ sent[c] + Cardinality(chunk) \in Nat
        BY <1>1, <1>4, <1>12, <2>1
    <2>3. g \cup chunk \in SUBSET Nat
        BY <1>4, <1>12, <1>13
    <2>4. /\ got'[c] = g \cup ((r + 1)..n) /\ sent'[c] = Cardinality(g) + (n - r) /\ cursor'[c] = n
          /\ pc'[c] = pc[c] /\ outcome'[c] = outcome[c]
        BY <1>1, <1>7, <1>13, <1>15, <2>1
    <2>5. Threads'
        BY <1>1, <1>4, <1>14, <1>15, <2>1, <2>2, <2>3 DEF Threads
    <2>6. Place(c)' /\ Told(c)'
        BY <1>2, <1>3, <1>5, <2>4 DEF Place, Told
    <2>7. /\ cursor'[c] <= taken'[vm'[c]] /\ missed'[c] \subseteq 1..dropped'[vm'[c]] /\ vm'[c] # 0
        BY <1>3, <1>4, <1>5, <1>14, <2>4 DEF n, d
    <2>8. sent'[c] = Cardinality(got'[c])
        BY <1>12, <2>4
    <2>9. got'[c] \cup {p \in missed'[c] : p <= cursor'[c]} = 1..cursor'[c]
        BY <1>12, <1>14, <2>4
    <2> QED BY <1>2, <2>4, <2>5, <2>6, <2>7, <2>8, <2>9 DEF Reader
<1>16. CASE UNCHANGED <<got, sent, cursor>>
    <2>1. \/ /\ chunk # {} /\ pc'[c] = "done"
             /\ outcome' = [outcome EXCEPT ![c] = [outcome[c] EXCEPT !.kind = "gone"]]
          \/ /\ chunk = {} /\ status[v] = "stopped" /\ pc'[c] = "done"
             /\ outcome' = [outcome EXCEPT ![c] = [outcome[c] EXCEPT !.kind = "eof"]]
          \/ /\ chunk # {} /\ got' = [got EXCEPT ![c] = g \cup chunk]
        BY <1>10
    <2>2. \/ /\ pc'[c] = "done"
             /\ outcome' = [outcome EXCEPT ![c] = [outcome[c] EXCEPT !.kind = "gone"]]
          \/ /\ chunk = {} /\ status[v] = "stopped" /\ pc'[c] = "done"
             /\ outcome' = [outcome EXCEPT ![c] = [outcome[c] EXCEPT !.kind = "eof"]]
        <3>1. SUFFICES ASSUME chunk # {}, got' = [got EXCEPT ![c] = g \cup chunk] PROVE FALSE
            BY <2>1
        <3>2. got'[c] = g \cup chunk /\ got'[c] = g
            BY <1>1, <1>16, <3>1 DEF g
        <3>3. PICK p : p \in chunk
            BY <3>1
        <3>4. p \in g /\ p \in (r + 1)..n
            BY <1>13, <3>2, <3>3
        <3>5. p \in 1..k /\ k <= r
            BY <1>4, <1>6, <1>12, <3>4
        <3> QED BY <1>4, <1>12, <3>4, <3>5
    <2>3. outcome' \in [THREADS -> OUTCOMES] /\ outcome'[c].kind \in {"gone", "eof"}
        <3>1. {"gone", "eof"} \subseteq KINDS
            BY DEF KINDS
        <3> QED BY <1>1, <1>2, <2>2, <3>1 DEF OUTCOMES
    <2>4. Threads'
        BY <1>1, <1>14, <1>16, <2>3 DEF Threads
    <2>5. pc'[c] = "done"
        BY <2>2
    <2>6. Place(c)' /\ Told(c)'
        BY <2>3, <2>5 DEF Place, Told
    <2>7. outcome'[c].kind = "eof" => status[v] = "stopped" /\ k = n
        <3>1. SUFFICES ASSUME outcome'[c].kind = "eof" PROVE status[v] = "stopped" /\ k = n
            OBVIOUS
        <3>2. chunk = {} /\ status[v] = "stopped"
            BY <1>1, <1>2, <2>2, <3>1 DEF OUTCOMES
        <3>3. r = n
            <4>1. SUFFICES ASSUME r # n PROVE FALSE
                OBVIOUS
            <4>2. n \in (r + 1)..n
                BY <1>4, <1>12, <4>1
            <4> QED BY <1>13, <3>2, <4>2
        <3>4. k = n
            BY <1>4, <1>6, <1>7, <3>3
        <3> QED BY <3>2, <3>4
    <2>8. got'[c] = g /\ sent'[c] = sent[c] /\ cursor'[c] = k
        BY <1>16 DEF g, k
    <2>9. got'[c] \cup {p \in missed'[c] : p <= cursor'[c]} = 1..cursor'[c]
        BY <1>12, <1>14, <2>8
    <2>10. /\ vm'[c] = v /\ v # 0 /\ taken'[v] = n /\ dropped'[v] = d /\ status'[v] = status[v]
        BY <1>3, <1>5 DEF n, d
    <2>11. Reader(c)'
        BY <1>7, <1>14, <2>7, <2>8, <2>9, <2>10 DEF Reader
    <2> QED BY <2>4, <2>6, <2>11
<1> QED BY <1>10, <1>15, <1>16

-----------------------------------------------------------------------------
\* The whole.

\* The types of what threads keep are kept.
LEMMA ThreadsKept ==
    ASSUME Inv, Threads, Printed, Script, Rings, Clients, [Next]_vars
    PROVE  Threads'
<1>1. Onwards
    BY WorldOnwards
<1>2. ASSUME NEW c \in CONNS, Accept(c) \/ Connection(c)
      PROVE  Threads'
    <2>0. Place(c) /\ Reader(c) /\ Told(c)
        BY DEF Clients
    <2>1. CASE Accept(c) \/ Serve(c) \/ StartVm(c) \/ StopVm(c) \/ Lifecycle(c)
        BY <2>1 DEF Accept, Serve, StartVm, StopVm, Lifecycle, Shutdown, ShutdownWait, Exit, Threads, thread, readers
    <2>2. CASE StopWait(c)
        <3>1. /\ outcome \in [THREADS -> OUTCOMES] /\ outcome[c] \in OUTCOMES
              /\ UNCHANGED cursor /\ UNCHANGED readers
              /\ \/ outcome' = [outcome EXCEPT ![c] = [outcome[c] EXCEPT !.kind = "stopped"]]
                 \/ outcome' = [outcome EXCEPT ![c] = [outcome[c] EXCEPT !.kind = "requested"]]
            BY <2>2 DEF StopWait, Threads, THREADS
        <3>2. {"stopped", "requested"} \subseteq KINDS
            BY DEF KINDS
        <3>3. outcome' \in [THREADS -> OUTCOMES]
            BY <3>1, <3>2 DEF OUTCOMES
        <3> QED BY <3>1, <3>3 DEF Threads, readers
    <2>3. CASE ConsoleAttach(c) \/ SendInput(c)
        BY <2>3 DEF ConsoleAttach, SendInput, Threads, thread, readers
    <2>4. CASE ConsoleRead(c)
        BY <2>0, <2>4, ReadKept
    <2>5. CASE ExecClaim(c) \/ ExecAttach(c) \/ ExecMark(c) \/ ExecReset(c) \/ ExecFrame(c) \/ ExecPoll(c)
        <3>1. outcome' \in [THREADS -> OUTCOMES] /\ cursor' \in [THREADS -> Nat]
            BY <1>1, <2>0, <2>5, ExecKept
        <3>2. UNCHANGED readers
            BY <2>5 DEF ExecClaim, ExecAttach, ExecMark, ExecReset, ExecFrame, ExecPoll
        <3> QED BY <3>1, <3>2 DEF Threads, readers
    <2> QED BY <1>2, <2>1, <2>2, <2>3, <2>4, <2>5 DEF Connection
<1>3. CASE Signal \/ Lifecycle(Main)
    BY <1>3 DEF Signal, Lifecycle, Shutdown, ShutdownWait, Exit, Threads, thread, readers
<1>4. ASSUME NEW v \in VMS, Worker(v) \/ Drain(v) \/ GuestEnds(v) \/ GuestNoise(v) \/ ShellWrite(v)
      PROVE  Threads'
    <2>1. CASE Worker(v)
        BY <2>1 DEF Worker, LoadFails, BootFails, Build, Publish, ObeyStop, LastLook, Teardown, Record, Finish, ColdExit, Threads,
           thread, readers
    <2>2. CASE Drain(v) \/ GuestEnds(v) \/ GuestNoise(v) \/ ShellWrite(v)
        BY <2>2 DEF Drain, GuestEnds, GuestNoise, ShellWrite, Threads, thread, readers
    <2> QED BY <1>4, <2>1, <2>2
<1>5. CASE UNCHANGED vars
    BY <1>5 DEF vars, Threads
<1> QED BY <1>2, <1>3, <1>4, <1>5 DEF Next

\* Every client keeps what it has been told, and what it has been told is true.
LEMMA ClientsKept ==
    ASSUME Inv, Threads, Printed, Script, Rings, Clients, [Next]_vars
    PROVE  Clients'
<1>1. Onwards
    BY WorldOnwards
<1>2. SUFFICES ASSUME NEW c \in CONNS PROVE Place(c)' /\ Reader(c)' /\ Told(c)'
    BY DEF Clients
<1>3. Place(c) /\ Reader(c) /\ Told(c) /\ c \in THREADS
    BY DEF Clients, THREADS
<1>4. CASE Still(c)
    BY <1>1, <1>3, <1>4, StillKept
<1>5. CASE Accept(c) \/ Connection(c)
    <2>1. CASE Accept(c)
        BY <1>3, <2>1, AcceptKept
    <2>2. CASE Serve(c) \/ StartVm(c) \/ StopVm(c) \/ StopWait(c) \/ Lifecycle(c) \/ SendInput(c)
        BY <1>1, <1>3, <2>2, RequestKept
    <2>3. CASE ConsoleAttach(c)
        BY <1>3, <2>3, AttachKept
    <2>4. CASE ConsoleRead(c)
        BY <1>3, <2>4, ReadKept
    <2>5. CASE ExecClaim(c) \/ ExecAttach(c) \/ ExecMark(c) \/ ExecReset(c) \/ ExecFrame(c) \/ ExecPoll(c)
        BY <1>1, <1>3, <2>5, ExecKept
    <2> QED BY <1>5, <2>1, <2>2, <2>3, <2>4, <2>5 DEF Connection
<1>6. ASSUME NEW u \in CONNS, u # c, Accept(u) \/ Connection(u) PROVE Still(c)
    BY <1>3, <1>6, OthersStill
<1>7. CASE \/ Signal \/ Lifecycle(Main) \/ UNCHANGED vars
           \/ \E v \in VMS : Worker(v) \/ Drain(v) \/ GuestEnds(v) \/ GuestNoise(v) \/ ShellWrite(v)
    BY <1>4, <1>7, ElsewhereStill
<1> QED BY <1>4, <1>5, <1>6, <1>7 DEF Next

\* The invariant of the console and of exec.
Consoles ==
    /\ Inv
    /\ Flags
    /\ Printed
    /\ Script
    /\ Rings
    /\ Threads
    /\ Clients

\* Nothing is printed, taken or told at first.
LEMMA InitConsoles == Init => Consoles
<1> SUFFICES ASSUME Init PROVE Consoles
    OBVIOUS
<1>1. Inv
    BY InitInv
<1>2. Flags
    BY DEF Init, Flags
<1>3. /\ said = [v \in VMS |-> <<>>] /\ noise = [v \in VMS |-> 0] /\ finished = {}
      /\ shell = [v \in VMS |-> [cmd |-> Nobody, at |-> "idle", dirty |-> FALSE]]
      /\ dropped = [v \in VMS |-> 0] /\ held = [v \in VMS |-> 0] /\ taken = [v \in VMS |-> 0]
    BY DEF Init
<1>4. <<>> \in Seq(SYMBOLS) /\ Len(<<>>) = 0 /\ 1..0 = {}
    OBVIOUS
<1>5. Printed
    BY <1>3, <1>4, DaemonAssumption DEF Printed
<1>6. \A v \in VMS : Len(said[v]) = 0
    BY <1>3, <1>4
<1>7. Script
    BY <1>4, <1>6 DEF Script
<1>8. Rings
    BY <1>3, <1>6, DaemonAssumption DEF Rings
<1>9. /\ pc = [t \in THREADS |-> "idle"] /\ vm = [t \in THREADS |-> 0]
      /\ cursor = [t \in THREADS |-> 0] /\ outcome = [t \in THREADS |-> NoOutcome]
      /\ got = [c \in CONNS |-> {}] /\ sent = [c \in CONNS |-> 0] /\ missed = [c \in CONNS |-> {}]
    BY DEF Init
<1>10. NoOutcome \in OUTCOMES /\ NoOutcome.kind = "none"
    BY DEF NoOutcome, OUTCOMES, KINDS
<1>11. Threads
    BY <1>9, <1>10 DEF Threads
<1>12. ASSUME NEW c \in CONNS PROVE Place(c) /\ Reader(c) /\ Told(c)
    <2>1. /\ pc[c] = "idle" /\ vm[c] = 0 /\ cursor[c] = 0 /\ outcome[c].kind = "none"
          /\ got[c] = {} /\ sent[c] = 0 /\ missed[c] = {}
        BY <1>9, <1>10 DEF THREADS
    <2>2. Cardinality({}) = 0
        BY FS_EmptySet
    <2> QED BY <1>4, <2>1, <2>2 DEF Place, Reader, Told
<1> QED BY <1>1, <1>2, <1>5, <1>7, <1>8, <1>11, <1>12 DEF Consoles, Clients

\* Every step keeps it.
LEMMA NextConsoles == Consoles /\ [Next]_vars => Consoles'
<1> SUFFICES ASSUME Consoles, [Next]_vars PROVE Consoles'
    OBVIOUS
<1>1. Inv /\ Flags /\ Printed /\ Script /\ Rings /\ Threads /\ Clients
    BY DEF Consoles
<1>2. Inv'
    BY <1>1, NextInv
<1>3. Flags'
    BY <1>1, FlagsKept
<1>4. Printed' /\ Script'
    BY <1>1, PrintedKept
<1>5. Rings'
    BY <1>1, RingsKept
<1>6. Threads'
    BY <1>1, ThreadsKept
<1>7. Clients'
    BY <1>1, ClientsKept
<1> QED BY <1>2, <1>3, <1>4, <1>5, <1>6, <1>7 DEF Consoles

\* The invariant of the console and of exec holds always.
THEOREM ConsolesHold == Spec => []Consoles
BY InitConsoles, NextConsoles, PTL DEF Spec

\* Every variable has its type, and the bytes a ring has evicted and the bytes it
\* holds are all the bytes taken from the UART, whatever appends and reads.
THEOREM TypeCorrect == Spec => []TypeOK
<1>1. Consoles => TypeOK
    BY DEF Consoles, Inv, Shape, Flags, Printed, Rings, Threads, TypeOK, SYMBOLS
<1> QED BY <1>1, ConsolesHold, PTL

\* stream_console sends every byte once: what a client has not received was evicted
\* before it got there, and a stream that has ended has come to the last byte the
\* worker took.
THEOREM ReadersComplete == Spec => []ReaderComplete
<1>1. Consoles => ReaderComplete
    BY DEF Consoles, Clients, Reader, ReaderComplete
<1> QED BY <1>1, ConsolesHold, PTL

\* A completed exec reports its own command, which the guest ran to its end, and
\* takes no byte for a digit of its status that is not one.
THEOREM ExecsReportTheirOwn == Spec => []ExecReportsItsOwn
<1>1. Consoles => ExecReportsItsOwn
    BY DEF Consoles, Clients, Told, Own, ExecReportsItsOwn
<1> QED BY <1>1, ConsolesHold, PTL

=============================================================================
