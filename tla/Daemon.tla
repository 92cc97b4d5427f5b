------------------------------- MODULE Daemon -------------------------------
(***************************************************************************)
(* The control daemon (chm/src/serve.rs): the threads that serve one       *)
(* request each, the worker that runs a guest, the console ring between    *)
(* them, and the commands that `chm exec` types into the guest's shell     *)
(* (chm/src/exec.rs).  The same code serves `chm serve` (a library: guests *)
(* are started and stopped on request) and `chm create --socket` (cold:    *)
(* one guest that is there from the start).                                *)
(*                                                                         *)
(* A console byte is the number of its place in everything the guest has   *)
(* printed, `said`.  The ring is the code's two numbers: how many bytes it *)
(* holds and how many it has evicted.  The bytes it really holds are the   *)
(* last `held` of those taken from the UART, whatever `dropped` says.      *)
(***************************************************************************)
EXTENDS Integers, Sequences, FiniteSets

CONSTANTS CONNS,      \* connection threads, one request each
          VERBS,      \* the verbs they may carry
          ROLES,      \* the endpoints the daemon may be
          MaxVm,      \* bound: guests started
          Cap,        \* CONSOLE_CAP
          MaxOutput,  \* exec's MAX_OUTPUT
          Digits,     \* digits of the exit status of every command
          MaxNoise    \* bound: bytes a guest prints outside exec's markers

Main == "main"        \* the thread of the accept loop
Nobody == "nobody"

ASSUME DaemonAssumption ==
    /\ Main \notin CONNS
    /\ Nobody \notin CONNS
    /\ VERBS \subseteq {"start", "stop", "console", "input", "exec", "shutdown"}
    /\ ROLES \subseteq {"library", "cold"}
    /\ MaxVm \in Nat \ {0}
    /\ Cap \in Nat \ {0}
    /\ MaxOutput \in Nat
    /\ Digits \in Nat \ {0}
    /\ MaxNoise \in Nat

VARIABLES role,      \* Daemon::role
          proc,      \* the process is "up" or has "exited"
          serving,   \* new connections are accepted
          current,   \* Daemon::current, 0 for None
          lock,      \* the thread that keeps that mutex
          busy,      \* EXEC_BUSY, as the thread that set it
          status,    \* VmInner::status, "none" before the guest exists
          stop,      \* VmInner::stop_requested
          input,     \* VmInner::kick and ::input are published
          dropped,   \* VmInner::dropped
          held,      \* VmInner::console, its length
          taken,     \* bytes taken from the UART
          wpc,       \* where the worker of a guest is
          said,      \* what the guest has printed
          noise,     \* how much of it outside exec's markers
          shell,     \* the command its shell runs, and the line being typed
          pc,        \* where a thread is
          verb,      \* the request it serves
          vm,        \* the guest it has taken a handle of
          cursor,    \* stream_console's cursor, exec_run's start
          outcome,   \* what it reports
          got,       \* history: the bytes a reader has received
          sent,      \* history: how many it was sent
          missed,    \* history: the bytes evicted before it got to them
          finished,  \* history: the commands the guest ran to their end
          hasty      \* history: why an exit need not have waited for the guest

ring == <<dropped, held, taken>>
worker == <<status, input, wpc>>
guest == <<said, noise, shell, finished>>
thread == <<verb, vm, cursor, outcome>>
readers == <<got, sent, missed>>
vars == <<role, proc, serving, current, lock, busy, status, stop, input, dropped,
          held, taken, wpc, said, noise, shell, pc, verb, vm, cursor, outcome,
          got, sent, missed, finished, hasty>>

VMS == 1..MaxVm
THREADS == CONNS \cup {Main}

\* Symbols on the console: exec's markers, the digits of a status, and the rest.
Begin(c) == <<"begin", c>>
End(c) == <<"end", c>>
Digit(c) == <<"digit", c>>
Out == <<"out", Nobody>>

NoOutcome == [kind |-> "none", from |-> 0, to |-> 0, code |-> 0]
Failure(k) == [NoOutcome EXCEPT !.kind = k]

\* The thread has written its reply and ended; so has its slot, if it held it.
Reply(c) == pc' = [pc EXCEPT ![c] = "done"]
At(c, place) == pc[c] = place /\ proc = "up"
Go(c, place) == pc' = [pc EXCEPT ![c] = place]

Unlocked == lock = Nobody

Init ==
    /\ role \in ROLES
    /\ proc = "up"
    /\ serving = TRUE
    /\ current = IF role = "cold" THEN 1 ELSE 0
    /\ lock = Nobody
    /\ busy = Nobody
    /\ status = [v \in VMS |-> IF v = current THEN "running" ELSE "none"]
    /\ wpc = [v \in VMS |-> IF v = current THEN "loading" ELSE "none"]
    /\ stop = [v \in VMS |-> FALSE]
    /\ input = [v \in VMS |-> FALSE]
    /\ dropped = [v \in VMS |-> 0]
    /\ held = [v \in VMS |-> 0]
    /\ taken = [v \in VMS |-> 0]
    /\ said = [v \in VMS |-> <<>>]
    /\ noise = [v \in VMS |-> 0]
    /\ shell = [v \in VMS |-> [cmd |-> Nobody, at |-> "idle", dirty |-> FALSE]]
    /\ pc = [t \in THREADS |-> "idle"]
    /\ verb = [t \in THREADS |-> IF t = Main THEN "shutdown" ELSE "none"]
    /\ vm = [t \in THREADS |-> 0]
    /\ cursor = [t \in THREADS |-> 0]
    /\ outcome = [t \in THREADS |-> NoOutcome]
    /\ got = [c \in CONNS |-> {}]
    /\ sent = [c \in CONNS |-> 0]
    /\ missed = [c \in CONNS |-> {}]
    /\ finished = {}
    /\ hasty = {}

-----------------------------------------------------------------------------
\* The accept loop.

\* A connection is accepted and its request read.
Accept(c) ==
    /\ At(c, "idle")
    /\ serving
    /\ \E r \in VERBS : verb' = [verb EXCEPT ![c] = r]
    /\ Go(c, "accepted")
    /\ UNCHANGED <<role, proc, serving, current, lock, busy, worker, stop, ring,
                   guest, vm, cursor, outcome, readers, hasty>>

\* Its thread starts; a cold endpoint counts it (Served::begin) and refuses the
\* verbs that are about a library (cold_boot_refusal).
Serve(c) ==
    /\ At(c, "accepted")
    /\ IF role = "cold" /\ verb[c] \in {"start", "shutdown"}
       THEN Reply(c)
       ELSE Go(c, "serving")
    /\ UNCHANGED <<role, proc, serving, current, lock, busy, worker, stop, ring,
                   guest, thread, readers, hasty>>

\* A termination signal ends the accept loop of a library; what follows is the
\* body of the shutdown verb on the main thread.
Signal ==
    /\ role = "library"
    /\ At(Main, "idle")
    /\ serving' = FALSE
    /\ Go(Main, "serving")
    /\ UNCHANGED <<role, proc, current, lock, busy, worker, stop, ring, guest,
                   thread, readers, hasty>>

\* The request a thread is about to serve.
Serving(c, r) == At(c, "serving") /\ verb[c] = r

-----------------------------------------------------------------------------
\* The lifecycle of guests.

\* A shutdown has already looked for the guest it has to stop.
ShutdownUnderWay == \E t \in THREADS : pc[t] \in {"draining", "leaving"}

\* There is a guest, and it is not recorded as stopped.
Running == current # 0 /\ status[current] = "running"

\* start_vm, under the daemon's lock: a worker for a new guest.
StartVm(c) ==
    /\ Serving(c, "start")
    /\ Unlocked
    /\ \/ /\ Running
          /\ UNCHANGED <<current, status, wpc, hasty>>
       \/ /\ ~Running
          /\ current < MaxVm
          /\ current' = current + 1
          /\ status' = [status EXCEPT ![current + 1] = "running"]
          /\ wpc' = [wpc EXCEPT ![current + 1] = "loading"]
          /\ hasty' = IF ShutdownUnderWay THEN hasty \cup {"start"} ELSE hasty
    /\ Reply(c)
    /\ UNCHANGED <<role, proc, serving, lock, busy, stop, input, ring, guest,
                   thread, readers>>

\* stop_vm: ask, kick, and keep the daemon's lock while waiting.
StopVm(c) ==
    /\ Serving(c, "stop")
    /\ Unlocked
    /\ \/ /\ ~Running
          /\ Reply(c)
          /\ UNCHANGED <<lock, stop, vm>>
       \/ /\ Running
          /\ stop' = [stop EXCEPT ![current] = TRUE]
          /\ vm' = [vm EXCEPT ![c] = current]
          /\ lock' = c
          /\ Go(c, "stopping")
    /\ UNCHANGED <<role, proc, serving, current, busy, worker, ring, guest, verb,
                   cursor, outcome, readers, hasty>>

\* The poll for Stopped succeeds, or its three seconds are over.
StopWait(c) ==
    /\ At(c, "stopping")
    /\ \/ status[vm[c]] = "stopped" /\ outcome' = [outcome EXCEPT ![c].kind = "stopped"]
       \/ outcome' = [outcome EXCEPT ![c].kind = "requested"]
    /\ lock' = Nobody
    /\ Reply(c)
    /\ UNCHANGED <<role, proc, serving, current, busy, worker, stop, ring, guest,
                   verb, vm, cursor, readers, hasty>>

\* Mutant: the guest is asked to stop and not waited for.
ShutdownAsks(t) ==
    /\ Serving(t, "shutdown")
    /\ Unlocked
    /\ stop' = IF current = 0 THEN stop ELSE [stop EXCEPT ![current] = TRUE]
    /\ Go(t, "leaving")
    /\ UNCHANGED <<role, proc, serving, current, lock, busy, worker, ring, guest,
                   thread, readers, hasty>>

\* stop_vm_blocking, up to its wait: the lock is let go first.
Shutdown(t) ==
    /\ Serving(t, "shutdown")
    /\ Unlocked
    /\ \/ /\ ~Running
          /\ Go(t, "leaving")
          /\ UNCHANGED <<stop, vm>>
       \/ /\ Running
          /\ stop' = [stop EXCEPT ![current] = TRUE]
          /\ vm' = [vm EXCEPT ![t] = current]
          /\ Go(t, "draining")
    /\ UNCHANGED <<role, proc, serving, current, lock, busy, worker, ring, guest,
                   verb, cursor, outcome, readers, hasty>>

\* Its wait: the worker is done, or SHUTDOWN_DRAIN is over.
ShutdownWait(t) ==
    /\ At(t, "draining")
    /\ \/ status[vm[t]] = "stopped" /\ UNCHANGED hasty
       \/ status[vm[t]] = "running" /\ hasty' = hasty \cup {"drain"}
    /\ Go(t, "leaving")
    /\ UNCHANGED <<role, proc, serving, current, lock, busy, worker, stop, ring,
                   guest, thread, readers>>

\* exit(0), or the return of serve(): every thread ends with the process.
Exit(t) ==
    /\ At(t, "leaving")
    /\ Reply(t)
    /\ proc' = "exited"
    /\ UNCHANGED <<role, serving, current, lock, busy, worker, stop, ring, guest,
                   thread, readers, hasty>>

-----------------------------------------------------------------------------
\* The worker of a guest: start_vm's thread, or the cold-boot path.

Working(v, place) == wpc[v] = place /\ proc = "up"

\* run_guest gives up before there is a virtual machine: the worker's last step.
LoadFails(v) ==
    /\ role = "library"
    /\ Working(v, "loading")
    /\ wpc' = [wpc EXCEPT ![v] = "ended"]
    /\ status' = [status EXCEPT ![v] = "stopped"]
    /\ UNCHANGED <<role, proc, serving, current, lock, busy, stop, input, ring,
                   guest, pc, thread, readers, hasty>>

\* A cold boot gives up after its socket is bound (a thread cannot be spawned, a
\* vCPU does not report in): the process leaves with an error and without
\* ColdControl::finish, so nobody waits for the connections it serves.
BootFails(v) ==
    /\ role = "cold"
    /\ Working(v, "loading")
    /\ wpc' = [wpc EXCEPT ![v] = "ended"]
    /\ proc' = "exited"
    /\ hasty' = hasty \cup {"boot"}
    /\ UNCHANGED <<role, serving, current, lock, busy, status, stop, input, ring,
                   guest, pc, thread, readers>>

\* The virtual machine is there and its vCPUs start.
Build(v) ==
    /\ Working(v, "loading")
    /\ wpc' = [wpc EXCEPT ![v] = "built"]
    /\ UNCHANGED <<role, proc, serving, current, lock, busy, status, stop, input,
                   ring, guest, pc, thread, readers, hasty>>

\* Mutant: the handles are published in a fresh VmInner.
PublishFresh(v) ==
    /\ Working(v, "built")
    /\ wpc' = [wpc EXCEPT ![v] = "supervising"]
    /\ input' = [input EXCEPT ![v] = TRUE]
    /\ stop' = [stop EXCEPT ![v] = FALSE]
    /\ UNCHANGED <<role, proc, serving, current, lock, busy, status, ring, guest,
                   pc, thread, readers, hasty>>

\* supervise_daemon, ColdControl::publish: the kick and the input channel.
Publish(v) ==
    /\ Working(v, "built")
    /\ wpc' = [wpc EXCEPT ![v] = "supervising"]
    /\ input' = [input EXCEPT ![v] = TRUE]
    /\ UNCHANGED <<role, proc, serving, current, lock, busy, status, stop, ring,
                   guest, pc, thread, readers, hasty>>

\* Mutant: eviction without the dropped counter.
AppendUncounted(v, n) ==
    /\ taken' = [taken EXCEPT ![v] = @ + n]
    /\ held' = [held EXCEPT ![v] = IF @ + n > Cap THEN Cap ELSE @ + n]
    /\ UNCHANGED dropped

\* append_console: n bytes more; what exceeds the cap is evicted from the front.
AppendConsole(v, n) ==
    /\ taken' = [taken EXCEPT ![v] = @ + n]
    /\ held' = [held EXCEPT ![v] = IF @ + n > Cap THEN Cap ELSE @ + n]
    /\ dropped' = [dropped EXCEPT ![v] = @ + IF held[v] + n > Cap
                                             THEN held[v] + n - Cap ELSE 0]

\* One turn of the supervision loop that finds output: the UART has let go of
\* some of what the guest wrote.
Drain(v) ==
    /\ Working(v, "supervising")
    /\ \E n \in 1..(Len(said[v]) - taken[v]) : AppendConsole(v, n)
    /\ UNCHANGED <<role, proc, serving, current, lock, busy, worker, stop, guest,
                   pc, thread, readers, hasty>>

\* The loop sees the stop flag.
ObeyStop(v) ==
    /\ Working(v, "supervising")
    /\ stop[v]
    /\ wpc' = [wpc EXCEPT ![v] = "teardown"]
    /\ UNCHANGED <<role, proc, serving, current, lock, busy, status, stop, input,
                   ring, guest, pc, thread, readers, hasty>>

\* The guest powered off or failed, or a limit ended its run.
GuestEnds(v) ==
    /\ Working(v, "supervising")
    /\ wpc' = [wpc EXCEPT ![v] = "teardown"]
    /\ UNCHANGED <<role, proc, serving, current, lock, busy, status, stop, input,
                   ring, guest, pc, thread, readers, hasty>>

\* A cold boot's console thread sees `running` cleared and takes what there is,
\* once more.  The vCPUs have not been joined and may still print.
LastLook(v) ==
    /\ role = "cold"
    /\ Working(v, "teardown")
    /\ wpc' = [wpc EXCEPT ![v] = "joining"]
    /\ IF Len(said[v]) > taken[v]
       THEN AppendConsole(v, Len(said[v]) - taken[v])
       ELSE UNCHANGED ring
    /\ UNCHANGED <<role, proc, serving, current, lock, busy, status, stop, input,
                   guest, pc, thread, readers, hasty>>

\* The vCPU threads are joined; a library, whose supervisor has returned, also
\* destroys the machine.
Teardown(v) ==
    /\ Working(v, IF role = "cold" THEN "joining" ELSE "teardown")
    /\ wpc' = [wpc EXCEPT ![v] = "joined"]
    /\ UNCHANGED <<role, proc, serving, current, lock, busy, status, stop, input,
                   ring, guest, pc, thread, readers, hasty>>

\* Mutant: the status is recorded as soon as supervision is over.
RecordEarly(v) ==
    /\ proc = "up"
    /\ wpc[v] \in {"teardown", "joined"}
    /\ status[v] = "running"
    /\ status' = [status EXCEPT ![v] = "stopped"]
    /\ wpc' = IF wpc[v] = "teardown" THEN wpc
              ELSE [wpc EXCEPT ![v] = IF role = "cold" THEN "finishing" ELSE "ended"]
    /\ UNCHANGED <<role, proc, serving, current, lock, busy, stop, input, ring,
                   guest, pc, thread, readers, hasty>>

\* status = Stopped(reason): the worker's last step, or the first of
\* ColdControl::finish.
Record(v) ==
    /\ Working(v, "joined")
    /\ status' = [status EXCEPT ![v] = "stopped"]
    /\ wpc' = [wpc EXCEPT ![v] = IF role = "cold" THEN "finishing" ELSE "ended"]
    /\ UNCHANGED <<role, proc, serving, current, lock, busy, stop, input, ring,
                   guest, pc, thread, readers, hasty>>

\* The connections ColdControl counts.
Inflight == {c \in CONNS : pc[c] \notin {"idle", "accepted", "done"}}

\* The rest of finish: wait for the replies in flight or for FINISH_DRAIN, then
\* take the socket away.
Finish(v) ==
    /\ Working(v, "finishing")
    /\ hasty' = IF Inflight = {} THEN hasty ELSE hasty \cup {"drain"}
    /\ serving' = FALSE
    /\ wpc' = [wpc EXCEPT ![v] = "finished"]
    /\ UNCHANGED <<role, proc, current, lock, busy, status, stop, input, ring,
                   guest, pc, thread, readers>>

\* The cold-boot process drops its machine and returns from main.
ColdExit(v) ==
    /\ Working(v, "finished")
    /\ wpc' = [wpc EXCEPT ![v] = "ended"]
    /\ proc' = "exited"
    /\ UNCHANGED <<role, serving, current, lock, busy, status, stop, input, ring,
                   guest, pc, thread, readers, hasty>>

-----------------------------------------------------------------------------
\* The guest: programs on its console, and the shell exec types into (external).

Executing(v) == proc = "up" /\ wpc[v] \in {"built", "supervising", "teardown", "joining"}

\* Something else prints a byte.
GuestNoise(v) ==
    /\ Executing(v)
    /\ noise[v] < MaxNoise
    /\ noise' = [noise EXCEPT ![v] = @ + 1]
    /\ said' = [said EXCEPT ![v] = Append(@, Out)]
    /\ UNCHANGED <<role, proc, serving, current, lock, busy, worker, stop, ring,
                   shell, finished, pc, thread, readers, hasty>>

\* The shell runs a frame: the begin marker, the command, and in one write the
\* end marker with the digits of the status.
ShellWrite(v) ==
    /\ Executing(v)
    /\ LET c == shell[v].cmd IN
       \/ /\ shell[v].at = "begin"
          /\ said' = [said EXCEPT ![v] = Append(@, Begin(c))]
          /\ shell' = [shell EXCEPT ![v].at = "run"]
          /\ UNCHANGED finished
       \/ /\ shell[v].at = "run"
          /\ said' = [said EXCEPT ![v] = (@ \o <<End(c)>>) \o [i \in 1..Digits |-> Digit(c)]]
          /\ shell' = [shell EXCEPT ![v].cmd = Nobody, ![v].at = "idle"]
          /\ finished' = finished \cup {c}
    /\ UNCHANGED <<role, proc, serving, current, lock, busy, worker, stop, ring,
                   noise, pc, thread, readers, hasty>>

-----------------------------------------------------------------------------
\* The console: stream_console and send_input.

\* The handle of the running guest, taken and the lock dropped.
ConsoleAttach(c) ==
    /\ Serving(c, "console")
    /\ Unlocked
    /\ \/ current = 0 /\ Reply(c) /\ UNCHANGED vm
       \/ current # 0 /\ Go(c, "reading") /\ vm' = [vm EXCEPT ![c] = current]
    /\ UNCHANGED <<role, proc, serving, current, lock, busy, worker, stop, ring,
                   guest, verb, cursor, outcome, readers, hasty>>

\* The bytes the ring really holds from an absolute position on.
Window(v, from) == (taken[v] - held[v] + from - dropped[v] + 1)..taken[v]

\* Where a reader goes on: what was evicted meanwhile is skipped.
ResumeAt(c) == IF cursor[c] < dropped[vm[c]] THEN dropped[vm[c]] ELSE cursor[c]

\* One read under the guest's lock: a chunk to the client, who may have gone; or
\* nothing, and the end if the guest is recorded as stopped.
ConsoleRead(c) ==
    /\ At(c, "reading")
    /\ LET v == vm[c]
           chunk == Window(v, ResumeAt(c)) IN
       /\ missed' = [missed EXCEPT ![c] = (1..(taken[v] - held[v])) \ got[c]]
       /\ \/ /\ chunk # {}
             /\ got' = [got EXCEPT ![c] = @ \cup chunk]
             /\ sent' = [sent EXCEPT ![c] = @ + Cardinality(chunk)]
             /\ cursor' = [cursor EXCEPT ![c] = ResumeAt(c) + Cardinality(chunk)]
             /\ UNCHANGED <<pc, outcome>>
          \/ /\ chunk # {}
             /\ Reply(c)
             /\ outcome' = [outcome EXCEPT ![c].kind = "gone"]
             /\ UNCHANGED <<got, sent, cursor>>
          \/ /\ chunk = {}
             /\ status[v] = "stopped"
             /\ Reply(c)
             /\ outcome' = [outcome EXCEPT ![c].kind = "eof"]
             /\ UNCHANGED <<got, sent, cursor>>
    /\ UNCHANGED <<role, proc, serving, current, lock, busy, worker, stop, ring,
                   guest, verb, vm, hasty>>

\* send_input of text without a newline: it stays on the shell's line.
SendInput(c) ==
    /\ Serving(c, "input")
    /\ Unlocked
    /\ \/ /\ Running
          /\ input[current]
          /\ shell' = [shell EXCEPT ![current].dirty = TRUE]
       \/ /\ ~(Running /\ input[current])
          /\ UNCHANGED shell
    /\ Reply(c)
    /\ UNCHANGED <<role, proc, serving, current, lock, busy, worker, stop, ring,
                   said, noise, finished, thread, readers, hasty>>
-----------------------------------------------------------------------------
\* exec_run.

\* Every way out of exec_run drops ExecSlot.
Report(c, result) ==
    /\ outcome' = [outcome EXCEPT ![c] = result]
    /\ busy' = Nobody
    /\ Reply(c)

\* One exec at a time: compare_exchange on EXEC_BUSY; a second one is refused.
ExecClaim(c) ==
    /\ Serving(c, "exec")
    /\ \/ /\ busy # Nobody
          /\ outcome' = [outcome EXCEPT ![c] = Failure("busy")]
          /\ Reply(c)
          /\ UNCHANGED busy
       \/ /\ busy = Nobody
          /\ busy' = c
          /\ Go(c, "attach")
          /\ UNCHANGED outcome
    /\ UNCHANGED <<role, proc, serving, current, lock, worker, stop, ring, guest,
                   verb, vm, cursor, readers, hasty>>

\* Copies of the guest's handles, the daemon's lock dropped again.
ExecAttach(c) ==
    /\ At(c, "attach")
    /\ Unlocked
    /\ \/ /\ ~(Running /\ input[current])
          /\ Report(c, Failure("error"))
          /\ UNCHANGED vm
       \/ /\ Running
          /\ input[current]
          /\ vm' = [vm EXCEPT ![c] = current]
          /\ Go(c, "mark")
          /\ UNCHANGED <<busy, outcome>>
    /\ UNCHANGED <<role, proc, serving, current, lock, worker, stop, ring, guest,
                   verb, cursor, readers, hasty>>

\* The position of the first byte that can be of this exec.
ExecMark(c) ==
    /\ At(c, "mark")
    /\ cursor' = [cursor EXCEPT ![c] = dropped[vm[c]] + held[vm[c]]]
    /\ Go(c, "reset")
    /\ UNCHANGED <<role, proc, serving, current, lock, busy, worker, stop, ring,
                   guest, verb, vm, outcome, readers, hasty>>

\* console_writes, the reset: ETX ends what the shell runs and clears its line.
ExecReset(c) ==
    /\ At(c, "reset")
    /\ shell' = [shell EXCEPT ![vm[c]] = [cmd |-> Nobody, at |-> "idle", dirty |-> FALSE]]
    /\ Go(c, "frame")
    /\ UNCHANGED <<role, proc, serving, current, lock, busy, worker, stop, ring,
                   said, noise, finished, thread, readers, hasty>>

\* console_writes, the frame.  Text typed since the reset spoils the first word
\* of the line, the printf of the begin marker; the rest of the line runs.
ExecFrame(c) ==
    /\ At(c, "frame")
    /\ shell' = [shell EXCEPT ![vm[c]] =
                   [cmd |-> c, at |-> IF @.dirty THEN "run" ELSE "begin", dirty |-> FALSE]]
    /\ Go(c, "polling")
    /\ UNCHANGED <<role, proc, serving, current, lock, busy, worker, stop, ring,
                   said, noise, finished, thread, readers, hasty>>

\* The first place of a set.
First(places) == CHOOSE p \in places : \A q \in places : p <= q

\* The consecutive digits that have arrived after a place.
DigitsAfter(v, e) ==
    {p \in (e + 1)..taken[v] : \A q \in (e + 1)..p : said[v][q][1] = "digit"}

\* Mutant: markers without a nonce.
ParseAnyMarker(c, v, window) ==
    LET begins == {p \in window : said[v][p][1] = "begin"}
        b == First(begins)
        ends == {p \in window : p > b /\ said[v][p][1] = "end"}
        e == First(ends)
    IN IF begins = {} \/ ends = {} \/ DigitsAfter(v, e) = {} THEN Failure("pending")
       ELSE [kind |-> "completed", from |-> b, to |-> e,
             code |-> Cardinality(DigitsAfter(v, e))]

\* exec::parse of the bytes since the mark: this exec's begin marker, its end
\* marker after it, and the digits that follow, however many have arrived.
Parse(c, v, window) ==
    LET begins == {p \in window : said[v][p] = Begin(c)}
        b == First(begins)
        ends == {p \in window : p > b /\ said[v][p] = End(c)}
        e == First(ends)
        body == IF begins = {} THEN window ELSE {p \in window : p > b}
    IN IF begins = {} \/ ends = {}
       THEN Failure(IF Cardinality(body) > MaxOutput THEN "overflowed" ELSE "pending")
       ELSE IF DigitsAfter(v, e) = {} THEN Failure("pending")
       ELSE [kind |-> "completed", from |-> b, to |-> e,
             code |-> Cardinality(DigitsAfter(v, e))]

\* What one poll of the ring finds: eviction past the mark, or what parses.
Verdict(c) ==
    LET v == vm[c] IN
    IF dropped[v] > cursor[c] THEN Failure("truncated")
                              ELSE Parse(c, v, Window(v, cursor[c]))

\* A poll that ends the exec: a verdict, the end of the guest, or the deadline.
ExecPoll(c) ==
    /\ At(c, "polling")
    /\ Report(c, IF Verdict(c).kind # "pending" THEN Verdict(c)
                 ELSE IF status[vm[c]] = "stopped" THEN Failure("error")
                 ELSE Failure("timeout"))
    /\ UNCHANGED <<role, proc, serving, current, lock, worker, stop, ring, guest,
                   verb, vm, cursor, readers, hasty>>

-----------------------------------------------------------------------------
Lifecycle(t) == Shutdown(t) \/ ShutdownWait(t) \/ Exit(t)

Connection(c) ==
    \/ Serve(c) \/ StartVm(c) \/ StopVm(c) \/ StopWait(c) \/ Lifecycle(c)
    \/ ConsoleAttach(c) \/ ConsoleRead(c) \/ SendInput(c)
    \/ ExecClaim(c) \/ ExecAttach(c) \/ ExecMark(c) \/ ExecReset(c)
    \/ ExecFrame(c) \/ ExecPoll(c)

Worker(v) ==
    \/ LoadFails(v) \/ BootFails(v) \/ Build(v) \/ Publish(v) \/ ObeyStop(v)
    \/ LastLook(v) \/ Teardown(v) \/ Record(v) \/ Finish(v) \/ ColdExit(v)

Next ==
    \/ \E c \in CONNS : Accept(c) \/ Connection(c)
    \/ Signal
    \/ Lifecycle(Main)
    \/ \E v \in VMS : Worker(v) \/ Drain(v) \/ GuestEnds(v) \/ GuestNoise(v) \/ ShellWrite(v)

Spec == Init /\ [][Next]_vars

\* The threads of the process run; clients and guests owe it nothing.  The
\* worker's teardown is the one LiveSnapshot shows to end.
Fairness ==
    /\ \A c \in CONNS : WF_vars(Connection(c))
    /\ WF_vars(Lifecycle(Main))
    /\ \A v \in VMS : WF_vars(Worker(v))

FairSpec == Spec /\ Fairness

-----------------------------------------------------------------------------
PCS == {"idle", "accepted", "serving", "stopping", "draining", "leaving", "reading",
        "attach", "mark", "reset", "frame", "polling", "done"}

WPCS == {"none", "loading", "built", "supervising", "teardown", "joining", "joined",
         "finishing", "finished", "ended"}

KINDS == {"none", "stopped", "requested", "gone", "eof", "busy", "error", "timeout",
          "truncated", "overflowed", "completed"}

OUTCOMES == [kind : KINDS, from : Nat, to : Nat, code : Nat]

\* The type of every variable, and the ring's books: the bytes evicted and the
\* bytes held are all the bytes taken (append_console), so that an absolute
\* position means the same to every reader.
TypeOK ==
    /\ role \in {"library", "cold"}
    /\ proc \in {"up", "exited"}
    /\ serving \in BOOLEAN
    /\ current \in 0..MaxVm
    /\ lock \in THREADS \cup {Nobody}
    /\ busy \in THREADS \cup {Nobody}
    /\ status \in [VMS -> {"none", "running", "stopped"}]
    /\ stop \in [VMS -> BOOLEAN]
    /\ input \in [VMS -> BOOLEAN]
    /\ dropped \in [VMS -> Nat]
    /\ held \in [VMS -> 0..Cap]
    /\ taken \in [VMS -> Nat]
    /\ \A v \in VMS : dropped[v] + held[v] = taken[v]
    /\ wpc \in [VMS -> WPCS]
    /\ said \in [VMS -> Seq({"begin", "end", "digit", "out"} \X (CONNS \cup {Nobody}))]
    /\ noise \in [VMS -> 0..MaxNoise]
    /\ shell \in [VMS -> [cmd : CONNS \cup {Nobody}, at : {"idle", "begin", "run"},
                          dirty : BOOLEAN]]
    /\ pc \in [THREADS -> PCS]
    /\ verb \in [THREADS -> VERBS \cup {"none", "shutdown"}]
    /\ vm \in [THREADS -> 0..MaxVm]
    /\ cursor \in [THREADS -> Nat]
    /\ outcome \in [THREADS -> OUTCOMES]
    /\ got \in [CONNS -> SUBSET Nat]
    /\ sent \in [CONNS -> Nat]
    /\ missed \in [CONNS -> SUBSET Nat]
    /\ finished \subseteq CONNS
    /\ hasty \subseteq {"start", "drain", "boot"}

\* A guest that holds the one virtual machine the process may have. A cold boot
\* has it before its socket is bound and until it leaves.
HasMachine(v) ==
    \/ wpc[v] \in {"built", "supervising", "teardown", "joining"}
    \/ role = "cold" /\ wpc[v] \in {"loading", "joined", "finishing", "finished"}

\* HVF is one virtual machine per process: however starts, stops and natural
\* ends interleave, no worker builds its machine while another has one.
OneVmAtATime == \A v, w \in VMS : HasMachine(v) /\ HasMachine(w) => v = w

\* A process that exits has destroyed its machine, and the exit of a cold
\* endpoint cuts off no client whose stop took effect, unless the exit gave up
\* waiting (SHUTDOWN_DRAIN, FINISH_DRAIN), a start was served after the shutdown
\* had looked for a guest to stop, or the boot failed.
CleanExit ==
    proc = "exited" /\ hasty = {} =>
        /\ \A v \in VMS : ~HasMachine(v)
        /\ role = "cold" => \A c \in CONNS : pc[c] # "stopping"

\* The shutdown path stops any running guest before the process exits, if it is
\* given the time.
ExitStopsGuests ==
    proc = "exited" /\ "drain" \notin hasty => \A v \in VMS : ~HasMachine(v)

\* A cold endpoint answers every stop that took effect before it exits, if it is
\* given the time.
ColdStopAnswered ==
    role = "cold" /\ proc = "exited" /\ "drain" \notin hasty =>
        \A c \in CONNS : pc[c] # "stopping"

\* A console client is sent every byte once, in spite of the ring: what it has
\* not received was evicted before it got there, and when the stream ends it has
\* got to the last byte the worker took from the guest.
ReaderComplete ==
    \A c \in CONNS : verb[c] = "console" =>
        /\ outcome[c].kind # "gone" =>
              got[c] \cup {p \in missed[c] : p <= cursor[c]} = 1..cursor[c]
        /\ sent[c] = Cardinality(got[c])
        /\ outcome[c].kind = "eof" => cursor[c] = taken[vm[c]]

\* The console client of a guest that has ended has got to its last byte.
LastWordsShown ==
    \A c \in CONNS : verb[c] = "console" /\ outcome[c].kind = "eof"
        => cursor[c] = Len(said[vm[c]])

\* What exec reports as completed is its own command, which the guest ran to its
\* end, with all the output between its markers and nothing but its digits,
\* whatever earlier commands left on the console and whatever was evicted.
ExecReportsItsOwn ==
    \A c \in CONNS : outcome[c].kind = "completed" =>
        LET s == said[vm[c]]
            o == outcome[c] IN
        /\ c \in finished
        /\ s[o.from] = Begin(c)
        /\ s[o.to] = End(c)
        /\ o.code \in 1..Digits
        /\ \A p \in (o.to + 1)..(o.to + o.code) : s[p] = Digit(c)

\* exec's `code` is the guest's exit status: all of its digits.
ExecCodeIsTrue ==
    \A c \in CONNS : outcome[c].kind = "completed" => outcome[c].code = Digits

\* The reset reaches only what the guest started on its own console: no command
\* of an earlier exec is killed by a later one.
ResetKillsNoExec ==
    [][\A v \in VMS : \A c \in CONNS :
          shell[v].cmd = c /\ shell'[v].cmd # c => c \in finished']_vars

\* Every stop is answered, and every guest asked to stop is stopped, also when
\* it was asked before it had published its handles.
StopCompletes ==
    /\ \A c \in CONNS : pc[c] = "serving" /\ verb[c] = "stop"
                           ~> pc[c] = "done" \/ proc = "exited"
    /\ \A v \in VMS : stop[v] ~> status[v] = "stopped" \/ proc = "exited"

=============================================================================
