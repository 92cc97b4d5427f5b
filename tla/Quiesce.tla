------------------------------- MODULE Quiesce -------------------------------
(***************************************************************************)
(* The pause latch of chm/src/livesnap.rs for host threads that write      *)
(* guest memory (the net service, chm/src/imp.rs), the thread that pauses  *)
(* them around a RAM dump (the live snapshotter), and the teardown.        *)
(*                                                                         *)
(* `paused` and `closed` are atomics, stored outside the mutex that guards *)
(* the count of parked writers; the mutex is a variable here, because      *)
(* whether a wakeup can be lost depends on who takes it between a store    *)
(* and a notify. One action is one access to shared state.                 *)
(***************************************************************************)
EXTENDS Integers, FiniteSets

CONSTANTS
    WRITERS,    \* the threads that called register(), before any pause
    JoinFirst   \* TRUE: teardown joins the snapshotter before it closes the
                \* latch, as the engine does; FALSE: it closes the latch at once

ASSUME LatchAssumption == IsFiniteSet(WRITERS) /\ JoinFirst \in BOOLEAN

VARIABLES
    paused,   \* Quiesce::paused
    closed,   \* Quiesce::closed
    parked,   \* the count in Quiesce::parked
    lock,     \* who holds that mutex: "free", "writer" or "host"
    running,  \* the engine's run flag
    wpc,      \* where each writer thread is
    ppc,      \* where the snapshotter is
    hpc       \* where the orchestrator is

latchVars == <<paused, closed, parked, lock>>
vars == <<latchVars, running, wpc, ppc, hpc>>

\* loop: about to test `running`; check: at the top of park_if_paused; locking:
\* saw `paused`, wants the mutex; counting: has it; testing: at the while
\* condition, mutex held; committed: found it true, mutex still held; waiting
\* and woken: in Condvar::wait; pass: in a service pass, writing guest memory;
\* asleep: in NetKick::wait; done.
WriterPc == {"loop", "check", "locking", "counting", "testing", "committed",
             "waiting", "woken", "pass", "asleep", "done"}

\* poll: the top of the snapshotter's loop; pausing: about to call pause();
\* waking: has stored `paused`; locking, testing, committed, waiting: pause()'s
\* own loop, with the mutex in the middle two; held: pause() returned Ok; resuming, draining, notifying: inside resume();
\* ended: the loop is over; closing1 to closing3: inside close(); finished.
PauserPc == {"poll", "pausing", "waking", "locking", "testing", "committed",
             "waiting", "held", "resuming", "draining", "notifying", "ended", "closing1",
             "closing2", "closing3", "finished"}

\* up: supervising; joined: the snapshotter has joined; closing1 to closing3:
\* the orchestrator's own close(); closed; down: the writers have joined.
HostPc == {"up", "joined", "closing1", "closing2", "closing3", "closed", "down"}

Init ==
    /\ paused = FALSE
    /\ closed = FALSE
    /\ parked = 0
    /\ lock = "free"
    /\ running = TRUE
    /\ wpc = [w \in WRITERS |-> "loop"]
    /\ ppc = "poll"
    /\ hpc = "up"

\* Condvar::notify_all, for the writers and for a snapshotter waiting in pause().
NotifyWriters(pc) == [w \in WRITERS |-> IF pc[w] = "waiting" THEN "woken" ELSE pc[w]]
NotifyPauser == IF ppc = "waiting" THEN "locking" ELSE ppc

-----------------------------------------------------------------------------
(* A writer: spawn_net_service's loop around park_if_paused *)

Go(w, from, to) == wpc[w] = from /\ wpc' = [wpc EXCEPT ![w] = to]

\* `while running`
TestRunning(w) ==
    /\ Go(w, "loop", IF running THEN "check" ELSE "done")
    /\ UNCHANGED <<latchVars, running, ppc, hpc>>

\* The fast path of park_if_paused: no pause pending, or closed.
CheckPaused(w) ==
    /\ Go(w, "check", IF paused /\ ~closed THEN "locking" ELSE "pass")
    /\ UNCHANGED <<latchVars, running, ppc, hpc>>

TakeLock(w) ==
    /\ Go(w, "locking", "counting")
    /\ lock = "free"
    /\ lock' = "writer"
    /\ UNCHANGED <<paused, closed, parked, running, ppc, hpc>>

\* Mutant: the writer parks without counting itself.
CountMissing(w) ==
    /\ wpc[w] = "counting"
    /\ wpc' = [NotifyWriters(wpc) EXCEPT ![w] = "testing"]
    /\ ppc' = NotifyPauser
    /\ UNCHANGED <<latchVars, running, hpc>>

\* `*n += 1; notify_all`
CountParked(w) ==
    /\ wpc[w] = "counting"
    /\ parked' = parked + 1
    /\ wpc' = [NotifyWriters(wpc) EXCEPT ![w] = "testing"]
    /\ ppc' = NotifyPauser
    /\ UNCHANGED <<paused, closed, lock, running, hpc>>

\* The while condition holds ...
Commit(w) ==
    /\ Go(w, "testing", "committed")
    /\ paused /\ ~closed
    /\ UNCHANGED <<latchVars, running, ppc, hpc>>

\* ... and Condvar::wait lets the mutex go and waits, in one step.
Wait(w) ==
    /\ Go(w, "committed", "waiting")
    /\ lock' = "free"
    /\ UNCHANGED <<paused, closed, parked, running, ppc, hpc>>

\* Notified: take the mutex again and re-test.
Rewake(w) ==
    /\ Go(w, "woken", "testing")
    /\ lock = "free"
    /\ lock' = "writer"
    /\ UNCHANGED <<paused, closed, parked, running, ppc, hpc>>

\* Mutant: the writer uncounts itself without the re-test.
LeaveEarly(w) ==
    /\ Go(w, "testing", "pass")
    /\ parked' = parked - 1
    /\ lock' = "free"
    /\ UNCHANGED <<paused, closed, running, ppc, hpc>>

\* The while condition fails: `*n -= 1`, and on to the service pass.
Leave(w) ==
    /\ Go(w, "testing", "pass")
    /\ ~(paused /\ ~closed)
    /\ parked' = parked - 1
    /\ lock' = "free"
    /\ UNCHANGED <<paused, closed, running, ppc, hpc>>

\* net_service_pass is over: frames were delivered and the loop goes straight
\* round, or nothing was and the thread waits for a kick or its interval.
EndPass(w) ==
    /\ Go(w, "pass", "loop") \/ Go(w, "pass", "asleep")
    /\ UNCHANGED <<latchVars, running, ppc, hpc>>

WakeUp(w) ==
    /\ Go(w, "asleep", "loop")
    /\ UNCHANGED <<latchVars, running, ppc, hpc>>

-----------------------------------------------------------------------------
(* The snapshotter: pause, dump, resume *)

Move(from, to) == ppc = from /\ ppc' = to

\* `while running`: another attempt, or the end of the loop.
Poll ==
    /\ Move("poll", IF running THEN "pausing" ELSE "ended")
    /\ UNCHANGED <<latchVars, running, wpc, hpc>>

\* pause() on a closed latch: Unavailable.
PauseRefused ==
    /\ Move("pausing", "poll")
    /\ closed
    /\ UNCHANGED <<latchVars, running, wpc, hpc>>

\* With nobody registered pause() is Ok at once; else `paused.store(true)`.
PauseStore ==
    /\ Move("pausing", IF WRITERS = {} THEN "held" ELSE "waking")
    /\ ~closed
    /\ paused' = (WRITERS # {} \/ paused)
    /\ UNCHANGED <<closed, parked, lock, running, wpc, hpc>>

\* `wake()`: NetKick::wake, so a writer does not sleep its interval out.
PauseWake ==
    /\ Move("waking", "locking")
    /\ wpc' = [w \in WRITERS |-> IF wpc[w] = "asleep" THEN "loop" ELSE wpc[w]]
    /\ UNCHANGED <<latchVars, running, hpc>>

PauseLock ==
    /\ Move("locking", "testing")
    /\ lock = "free"
    /\ lock' = "host"
    /\ UNCHANGED <<paused, closed, parked, running, wpc, hpc>>

\* Mutant: one writer too few is enough.
PauseHeldShort ==
    /\ Move("testing", "held")
    /\ parked + 1 >= Cardinality(WRITERS)
    /\ lock' = "free"
    /\ UNCHANGED <<paused, closed, parked, running, wpc, hpc>>

\* Every registered writer is parked: pause() returns Ok.
PauseHeld ==
    /\ Move("testing", "held")
    /\ parked >= Cardinality(WRITERS)
    /\ lock' = "free"
    /\ UNCHANGED <<paused, closed, parked, running, wpc, hpc>>

\* Not yet, and closed meanwhile: Unavailable, with `paused` left as it is.
PauseClosed ==
    /\ Move("testing", "poll")
    /\ parked < Cardinality(WRITERS)
    /\ closed
    /\ lock' = "free"
    /\ UNCHANGED <<paused, closed, parked, running, wpc, hpc>>

\* Mutant: every wakeup arms the deadline afresh.
PauseRearm ==
    /\ Move("testing", "committed")
    /\ parked < Cardinality(WRITERS)
    /\ ~closed
    /\ UNCHANGED <<latchVars, running, wpc, hpc>>

\* Not yet, and the deadline is past: Timeout, by way of resume().
PauseExpire ==
    /\ Move("testing", "resuming")
    /\ parked < Cardinality(WRITERS)
    /\ ~closed
    /\ lock' = "free"
    /\ UNCHANGED <<paused, closed, parked, running, wpc, hpc>>

\* Not yet, and neither closed nor late when it looked ...
PauseCommit ==
    /\ Move("testing", "committed")
    /\ parked < Cardinality(WRITERS)
    /\ ~closed
    /\ UNCHANGED <<latchVars, running, wpc, hpc>>

\* ... so wait_timeout lets the mutex go and waits, in one step.
PauseWait ==
    /\ Move("committed", "waiting")
    /\ lock' = "free"
    /\ UNCHANGED <<paused, closed, parked, running, wpc, hpc>>

\* wait_timeout returns: the deadline, or a spurious wakeup.
PauseTimeout ==
    /\ Move("waiting", "locking")
    /\ UNCHANGED <<latchVars, running, wpc, hpc>>

\* The dump is over (or the gate refused): the snapshotter calls resume().
DumpOver ==
    /\ Move("held", "resuming")
    /\ UNCHANGED <<latchVars, running, wpc, hpc>>

\* resume(): `paused.store(false)` ...
ResumeStore ==
    /\ Move("resuming", "draining")
    /\ paused' = FALSE
    /\ UNCHANGED <<closed, parked, lock, running, wpc, hpc>>

\* Mutant: resume() notifies without passing through the mutex.
ResumeUnlocked ==
    /\ Move("draining", "notifying")
    /\ UNCHANGED <<latchVars, running, wpc, hpc>>

\* ... take the mutex and let it go, so no writer is between test and wait ...
ResumeDrain ==
    /\ Move("draining", "notifying")
    /\ lock = "free"
    /\ UNCHANGED <<latchVars, running, wpc, hpc>>

\* ... and notify_all.
ResumeNotify ==
    /\ Move("notifying", "poll")
    /\ wpc' = NotifyWriters(wpc)
    /\ UNCHANGED <<latchVars, running, hpc>>

-----------------------------------------------------------------------------
(* close(), by the snapshotter after its loop and by the orchestrator *)

CloseFlag ==
    /\ \/ Move("ended", "closing1") /\ UNCHANGED hpc
       \/ hpc = "joined" /\ hpc' = "closing1" /\ UNCHANGED ppc
    /\ closed' = TRUE
    /\ UNCHANGED <<paused, parked, lock, running, wpc>>

CloseUnpause ==
    /\ \/ Move("closing1", "closing2") /\ UNCHANGED hpc
       \/ hpc = "closing1" /\ hpc' = "closing2" /\ UNCHANGED ppc
    /\ paused' = FALSE
    /\ UNCHANGED <<closed, parked, lock, running, wpc>>

\* Mutant: close() notifies without passing through the mutex.
CloseUndrained ==
    /\ \/ Move("closing2", "closing3") /\ UNCHANGED hpc
       \/ hpc = "closing2" /\ hpc' = "closing3" /\ UNCHANGED ppc
    /\ UNCHANGED <<latchVars, running, wpc>>

CloseDrain ==
    /\ \/ Move("closing2", "closing3") /\ UNCHANGED hpc
       \/ hpc = "closing2" /\ hpc' = "closing3" /\ UNCHANGED ppc
    /\ lock = "free"
    /\ UNCHANGED <<latchVars, running, wpc>>

\* notify_all: the writers, and the snapshotter if it is the one that waits.
CloseNotify ==
    /\ \/ Move("closing3", "finished") /\ UNCHANGED hpc
       \/ hpc = "closing3" /\ hpc' = "closed" /\ ppc' = NotifyPauser
    /\ wpc' = NotifyWriters(wpc)
    /\ UNCHANGED <<latchVars, running>>

\* `running` is cleared: by the orchestrator, or by a vCPU whose guest ended.
StopRunning ==
    /\ running
    /\ running' = FALSE
    /\ UNCHANGED <<latchVars, wpc, ppc, hpc>>

\* live_snapshotter.join(), where it comes first.
JoinSnapshotter ==
    /\ hpc = "up"
    /\ ~running
    /\ JoinFirst => ppc = "finished"
    /\ hpc' = "joined"
    /\ UNCHANGED <<latchVars, running, wpc, ppc>>

\* net_service.join(); by now the snapshotter is joined as well.
JoinWriters ==
    /\ hpc = "closed"
    /\ ppc = "finished"
    /\ \A w \in WRITERS : wpc[w] = "done"
    /\ hpc' = "down"
    /\ UNCHANGED <<latchVars, running, wpc, ppc>>

Down == hpc = "down" /\ UNCHANGED vars

-----------------------------------------------------------------------------
Writer(w) ==
    \/ TestRunning(w) \/ CheckPaused(w) \/ TakeLock(w) \/ CountParked(w)
    \/ Commit(w) \/ Wait(w) \/ Rewake(w) \/ Leave(w) \/ EndPass(w) \/ WakeUp(w)

Pause ==
    \/ PauseRefused \/ PauseStore \/ PauseWake \/ PauseLock
    \/ PauseHeld \/ PauseClosed \/ PauseExpire \/ PauseCommit \/ PauseWait
    \/ PauseTimeout

Resume == ResumeStore \/ ResumeDrain \/ ResumeNotify

Pauser == Poll \/ Pause \/ DumpOver \/ Resume

Closer == CloseFlag \/ CloseUnpause \/ CloseDrain \/ CloseNotify

Next ==
    \/ \E w \in WRITERS : Writer(w)
    \/ Pauser
    \/ Closer
    \/ StopRunning \/ JoinSnapshotter \/ JoinWriters
    \/ Down

Spec == Init /\ [][Next]_vars

\* Every host thread is scheduled, and the mutex is fair: a thread that wants
\* it infinitely often free gets it. The deadline of a waiting pause() is never
\* reached, so what ends the wait is a notify. Nothing makes the guest or its
\* operator stop the VM, so StopRunning gets no fairness.
PatientFairness ==
    /\ \A w \in WRITERS : WF_vars(Writer(w)) /\ SF_vars(TakeLock(w)) /\ SF_vars(Rewake(w))
    /\ WF_vars(Pauser /\ ~PauseTimeout) /\ SF_vars(PauseLock) /\ SF_vars(ResumeDrain)
    /\ WF_vars(Closer) /\ SF_vars(CloseDrain)
    /\ WF_vars(JoinSnapshotter \/ JoinWriters)

PatientSpec == Spec /\ PatientFairness

-----------------------------------------------------------------------------
(* Properties *)

\* Type invariant.
TypeOK ==
    /\ paused \in BOOLEAN
    /\ closed \in BOOLEAN
    /\ parked \in Nat
    /\ lock \in {"free", "writer", "host"}
    /\ running \in BOOLEAN
    /\ wpc \in [WRITERS -> WriterPc]
    /\ ppc \in PauserPc
    /\ hpc \in HostPc

\* The writers counted in `parked`.
Counted == {w \in WRITERS : wpc[w] \in {"testing", "committed", "waiting", "woken"}}

\* While pause() holds and the latch is open, every writer is inside
\* park_if_paused and the flag that keeps it there is set: none is in a service
\* pass, also when it was still counted from the previous pause.
HeldMeansParked ==
    ppc = "held" /\ ~closed /\ WRITERS # {} =>
        paused /\ \A w \in WRITERS : w \in Counted

\* No wakeup is lost: a writer asleep on the condvar while the latch no longer
\* holds it still has a notify_all coming.
NoLostWakeup ==
    (\E w \in WRITERS : wpc[w] = "waiting") =>
        \/ paused /\ ~closed
        \/ ppc \in {"draining", "notifying", "closing1", "closing2", "closing3"}
        \/ hpc \in {"closing1", "closing2", "closing3"}

\* pause() always returns, held or not, whatever the writers and teardown do.
PauseReturns == ppc = "pausing" ~> ppc \in {"held", "poll"}

\* A snapshotter asleep in pause() has something to wait for: a writer is still
\* missing and the latch is open, or the close() that ends its wait has its
\* notify_all to come. So neither the last writer's arrival nor a close between
\* its look at `closed` and its wait leaves it to sleep its deadline out.
PauserNotForgotten ==
    ppc = "waiting" =>
        \/ parked < Cardinality(WRITERS) /\ ~closed
        \/ hpc \in {"closing1", "closing2", "closing3"}

\* What pause() documents: teardown aborts a pause in progress, so the process
\* does not wait the whole timeout out before it can exit. True where teardown
\* closes the latch at once, false in the engine's order (JoinFirst).
TeardownAbortsPause ==
    ~running /\ ppc = "waiting" ~> ppc \in {"held", "poll"}

-----------------------------------------------------------------------------
(* The strengthening that makes the three invariants inductive.              *)

Critical == {"counting", "testing", "committed"}

\* The mutex is exclusive.
LockInv ==
    /\ \A w \in WRITERS : wpc[w] \in Critical => lock = "writer"
    /\ \A w, u \in WRITERS : wpc[w] \in Critical /\ wpc[u] \in Critical => w = u
    /\ ppc \in {"testing", "committed"} => lock = "host"

\* The count is the number of writers inside park_if_paused.
CountInv == parked = Cardinality(Counted)

\* From the store in pause() to the store in resume() the flag stays set,
\* unless close() clears it; nobody is past a close() that has not begun.
FlagInv ==
    /\ ppc \in {"waking", "locking", "testing", "committed", "waiting"} /\ ~closed => paused
    /\ ppc \in {"closing1", "closing2", "closing3", "finished"} => closed
    /\ hpc \in {"closing1", "closing2", "closing3", "closed", "down"} => closed

\* A writer that found the condition true and still holds the mutex: whoever
\* changes the condition has not passed through the mutex yet.
CommitInv ==
    (\E w \in WRITERS : wpc[w] = "committed") =>
        \/ paused /\ ~closed
        \/ ppc \in {"draining", "closing1", "closing2"}
        \/ hpc \in {"closing1", "closing2"}

\* The same for the snapshotter, which no arrival can overtake either.
PauserCommitInv ==
    ppc = "committed" =>
        /\ parked < Cardinality(WRITERS)
        /\ ~closed \/ hpc \in {"closing1", "closing2"}

IInv ==
    /\ TypeOK
    /\ LockInv
    /\ CountInv
    /\ FlagInv
    /\ CommitInv
    /\ HeldMeansParked
    /\ NoLostWakeup
    /\ PauserCommitInv
    /\ PauserNotForgotten

=============================================================================
