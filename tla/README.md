# A TLA+ development of gimbal-local

gimbal-local (`chm`) resumes and runs Linux guests on macOS with Apple's
Hypervisor.framework. A session restores a machine from a snapshot directory,
runs one thread per vCPU, takes checkpoints of the running guest on a cadence,
and suspends it into the same directory when it ends. This directory holds
TLA+ models of the parts of that program whose correctness depends on order:
threads that must stop together, clocks that must agree, files that must belong
together after any crash, a daemon whose clients come and go, and interrupts and
queues that two threads touch at once.

Paths below are relative to the repository. `livesnap.rs`, `imp.rs`,
`checkpoint.rs`, `serve.rs`, `exec.rs`, `create.rs`, `runs.rs` and `bundle.rs` are
under `chm/src/`; `mod.rs` and `softgic.rs` are under `hypervisor/src/hvf/`;
`devcore.rs`, `queue.rs`, `pci.rs`, `mmio.rs` and `net.rs` under
`hypervisor/src/hvf/virtio/`.

## 1. Inventory

| part | state it keeps | operations | what makes it correct |
|---|---|---|---|
| **Stop-the-world gate** (`livesnap.rs`, `CheckpointGate`) | epoch, captures, arrived, `released_through`, `in_flight`, `closed` | `arrive_and_park`, `stop_the_world`, `release`, `close` | a world reported stopped has no running vCPU and a capture of each; nobody stays parked |
| **Writer latch** (`livesnap.rs`, `Quiesce`) | `paused`, `closed`, count of parked writers, a mutex, a condvar | `register`, `park_if_paused`, `pause`, `resume`, `close` | a pause that succeeds has every writer parked; no wake-up is lost; teardown is never held up |
| **Session** (`imp.rs`, `run_usgic_engine`) | the run flag, one thread per vCPU, snapshotter, net service, stepper, watchdog | run, exit, snapshot cadence, teardown, suspend | writers held before vCPUs and let go after them; every thread joins |
| **Scaled virtual timer** (`mod.rs`, `VtimerClock`) | offset, epoch, `in_guest`, `stepping`; per vCPU the programmed offset and epoch | `enter`, `leave`, `step`, `release`, `sync_vtimer_offset` | vCPUs in the guest agree on the counter; it never goes back; it follows the curve |
| **Revision store** (`checkpoint.rs`) | HEAD, staging, archive, live overlays | commit, retire, prune, pin, label, delete, gc, rollback, fork | what resumes is a RAM image with its own disk; history is lost only to pruning and deleting |
| **Daemon and exec** (`serve.rs`, `exec.rs`, the socket of `create.rs`) | current VM, its status and stop flag, console ring and `dropped`, `EXEC_BUSY`, requests in flight | start, stop, shutdown, console, input, exec; list, status and other reports | one VM at a time; a stop is answered and obeyed; an exit leaves no machine; a slow reader loses only what the ring dropped; exec reports its own command |
| **Run registry** (`runs.rs`) | one locked file per run | register, list, reap | a live run is never reaped |
| **Bundles** (`bundle.rs`) | an import's staging directory | export, import | an import is all or nothing |
| **Interrupt controller** (`mod.rs`, `softgic.rs`, `coldgic.rs`) | per vCPU an injection queue, a pending list, a stack of active INTIDs, the raw line; the distributor's enables and routes | inject, drain, poll, acknowledge, end, deactivate, park, capture, restore | an interrupt is delivered once and never lost; the tick always returns |
| **virtio** (`hypervisor/src/hvf/virtio/`) | queue cursors, suppression indices, `isr_status`, `InterruptStatus`, two locks, `NetKick` | notify, flush, raise, drain on resume, service, wake | every request is completed and seen; no wake is slept through; no deadlock |
| **NAT, policy, firewall, credential proxy** | flow tables, rules | connect, relay, decide | default deny; the first match decides |
| **Cold boot, OCI, genesis, control plane, state CDN, audit, console, exec** | files, sockets | sequential | formats and I/O |
| **macOS application** (`app/GimbalLocal`) | view state | calls the daemon | a client |
| **Upstream Cloud Hypervisor** (`vmm/`, `devices/`, `block/`, ...) | | | retained third-party code the runtime does not run |

How they interact. The snapshotter thread (`spawn_live_snapshotter`) pauses the
net service through the latch, stops the vCPUs through the gate, writes a
checkpoint into the store, releases the gate and resumes the latch. The stepper
thread (`spawn_vtimer_stepper`) forces the same vCPUs out of the guest on its
own schedule, so a forced exit is not always the gate's. The teardown of
`run_usgic_engine` clears the run flag, kicks the vCPUs, joins stepper and
snapshotter, closes gate and latch, joins net service and vCPUs, and then
commits, retires or deletes HEAD. Operators run `chm revisions` and
`chm rollback` in other processes on the same directory, without a lock.

The daemon runs one such session at a time on a worker thread and answers each
client on a thread of its own; a cold boot has the same socket in front of its
one guest. Device models run on the vCPU that wrote the notification and, for
the network, on the net service thread; what they raise goes through the
injection queue of a vCPU, which that vCPU's thread drains before it enters the
guest.

The hard behaviours are therefore: atomics read outside the mutex that guards
the rest; a timeout that races a late arrival, and the next request after it;
one condition variable for two kinds of waiter; wrap-around of 64-bit offsets;
teardown in the middle of any of these; a process that dies between two
file-system operations; two processes in one directory; a lock let go between a
look and a wait; output and interrupts that arrive in pieces and out of order;
and two locks taken in two orders. `PROJECT.json`
lists each at its line under `hazards`.

## 2. Plan

Done: the gate, the latch, their composition, the clock, the store's core with
both of its processes dying, the daemon with exec, the interrupt path, the split
virtqueue with the net service; and the proofs of section 6, which state every
invariant and every action property that a passing run checks.

Left, in this order:

1. the store: an abstract store (a set of resumable points and a HEAD) that the
   commit path implements, and the proof of that refinement; `fork_into`, bundle
   import as a third process, and the label;
2. the run registry: create, truncate and lock of a run's file against a reader
   that reaps;
3. the policy and the firewall as pure functions with a reference definition;
4. for virtio, the completion side of `SomeoneServes`: what is used and not looked
   at has an interrupt on its way.

Composition: `LiveSnapshot` composes `CheckpointGate` and `Quiesce`. The store
is not composed with it. `CheckpointStore` assumes of `Commit` that nothing moves
guest memory or the disk while `write_checkpoint` runs. `LiveSnapshot` shows that
of the net service (`DumpHasNoWriter`) and the gate of every vCPU that answered
in time (`OnTimeCapturesAreHeld`); the vCPU of the `gate_world_stopped` finding,
counted for a request it did not answer, is not covered. That a teardown ends,
which `Daemon` assumes of its worker, is `SessionEnds`.
`UserGic` and `Virtio` meet in one step: what `Virtio` calls an edge is a
`DeliverSpi` or `DeliverLpi` of `UserGic`, whose `NoneLost` says how far it can be
relied on.

## 3. Modules

| module | models | run by |
|---|---|---|
| `CheckpointGate` | the gate with vCPU threads, requesters and teardown | `MCCheckpointGate` |
| `Quiesce` | the latch with writers, snapshotter and teardown | `MCQuiesce` |
| `LiveSnapshot` | the session: both of the above, driven by one snapshotter | `MCLiveSnapshot` |
| `VtimerClock` | the clock with vCPU threads, steppers and teardown | `MCVtimerClock` |
| `CheckpointStore` | HEAD, staging, archive and overlays with a session and an operator | `MCCheckpointStore` |
| `Daemon` | the daemon's threads, the guest's worker, the console ring, exec | `MCDaemon` |
| `UserGic` | the user-space interrupt controller with its vCPU threads and a guest | `MCUserGic` |
| `Virtio` | one virtio device behind either transport, the net service, a driver | `MCVirtio` |
| `*Proofs` | the theorems of the module of that name | `tlapm` |

Each MC module only adds the symmetry set or the values of its constants. Definitions whose
comment begins "Mutant" are wrong versions of a definition below them;
no specification uses them.

**CheckpointGate.** One action is one critical section of the gate's mutex or
one access to an atomic outside it, so `stop_the_world` is `Claim` (reset, under
the lock), `Advance` (the epoch, outside it), `Kick`, and then `Stopped` or
`Abandon` by the deadline. A capture is the epoch it answers: that is all the
properties tell apart, because a register file carries no other identity.
`kicked` is the pending `hv_vcpus_exit`: it stays set until the next entry
consumes it. `out` keeps the captures that a successful request returned.
`OtherKick` stands for the forced exits and wake-ups that are not the gate's.
The gate closes only after its requesters have ended, so the unlocked
`is_closed` test at the head of `stop_the_world` and the claim are one step.

**Quiesce.** The mutex is a variable, because whether a wake-up is lost depends
on who takes it between a store and a notify. `pause`, `resume` and `close` are
one step per store, lock and notify; a writer's and the pauser's last test of
their condition (`Commit`, `PauseCommit`) and their waits are two steps, with the
mutex held between, and a `notify_all` wakes whoever waits on the one condition
variable. `JoinFirst` chooses between the order the teardown has (join the
snapshotter, then close; what `LiveSnapshot` uses) and the order the comment in
`pause` asks for, in which `close()` comes at any moment. The `quiesce` run has
the second: the latch is built for it, and it is where a wake-up could be lost.

**LiveSnapshot.** The gate and the latch are instances that share the run flag;
each action is an action of one, or of both, with the other unchanged. The
snapshotter's two positions (`cpc`, `ppc`) are kept in step by the guards of
`SnapPause`, `SnapGate` and `SnapResume`, which is its loop body.

**VtimerClock.** `Wrap` is 2^64 as a parameter. `last_read` is a history of the
guest's last counter value over all vCPUs. `enter()`'s single wait has two ways
out, notified and timed out, and both enter without looking at `stepping`
again, as in the code. `ProgramFails` is the hypervisor refusing an offset.

**CheckpointStore.** A disk state is a number and a RAM image is the disk state
its guest remembers, so "a consistent pair" is equality. A revision directory is
a record of its files. Ids stand for creation times too. Every file-system
operation that another process or a crash can fall between is a step:
`remove_dir_all` unlinks the files of a directory in any order and the directory
last (`Shrink`), wherever the code calls it: in `archive_head`
(`RemoveArchived`), `clear_checkpoint` (`ClearHead`), `delete` and `gc`
(`Sweep`). `gc`'s removal works on the directory it opened, so one that a commit
renames meanwhile is removed at HEAD. `copy_tree` copies its files in any order,
rewriting a manifest truncates it before it writes it, and a prune looks once
(`Excess`, kept in `doomed`) and then reduces one revision after another
(`PruneOne`) without looking at the pins again.

Four history variables name what has gone wrong, because the code's guarantees
end there and each property says which it depends on: `torn` (a rollback died
before its last write), `hurt` (a removal of something resumable was cut short,
or `gc` raced a commit), `raced` (`gc` removed something of the commit in
progress) and `late` (pinned after a prune had looked). What happens beyond them
is shown by the configurations of section 5.

**Daemon.** A console byte is its place in everything the guest has printed
(`said`); the ring is the code's numbers `held` and `dropped`, and what it really
holds is the last `held` bytes of those `taken` from the UART, whatever `dropped`
says, so that a wrong conversion of a position shows. One action is one critical
section of the daemon's mutex, which is a variable because `stop_vm` keeps it
while it waits, or one section of the guest's own lock. `role` is the endpoint:
a library (`chm serve`) or a cold boot (`chm create --socket`), which counts its
requests and refuses `start` and `shutdown`. An exec is a begin marker, an end
marker with a nonce (the thread that sent it) and digits, which the UART hands
over in pieces. The guest and its shell are external. `hasty` is a history
variable with the three reasons for which an exit need not be clean: a wait that
timed out, a start served after the shutdown had looked for a guest, and a cold
boot that failed after its socket was bound and left without `finish()`
(`BootFails`). At the end of a cold boot the console thread's last look at the
UART (`LastLook`) is not ordered after the vCPUs' last output, the vCPUs are then
joined (`Teardown`), and the machine goes with the process (`ColdExit`).

**UserGic.** One interrupt of each class stands for the class, because the paths
differ by class: the timer is asserted by the vCPU itself, an SGI is routed by the
sender and gated on the enable of the receiving vCPU's redistributor, an SPI by
its route register and gated on its enable bit, an LPI always goes to vCPU 0. `usgic_drain_injected` is `TakeQueue` and one `ApplyOne` per
interrupt, because it empties the queue under one lock and applies it under
another. `line` is a latch that HVF samples; `vmask` is HVF's mask of the virtual
timer. The guest is external: `phase` is how far its handler of an interrupt is,
with the order of EOI, handling and deactivation that EOImode 0 and 1 have.
`owed` and `lost` are history: what a handler has still to look at, and why it
may never arrive. A capture keeps each vCPU's own clone of the distributor
(`saved`), and a resume leaves the clone that was restored last. `OtherExit`
covers device accesses and the run watchdog; `ReadIcc` the reads of ICC registers
other than IAR, which drop the line like it.

**Virtio.** A request is its place in the available ring and an index is taken
modulo `Wrap`. `core` and `regs` are the two mutexes; `stage` is how far the
holder of the device lock is in `notify`, `notify_net` or `flush_rx`, one step
per access to memory the driver also writes. The initial states are those after
`Queue::restore`: requests in flight, a suppression index left by the device of
the capture, possibly a completion nobody has seen, whose interrupt the
checkpoint kept (`IrqKept`; that it may not is the `usergic_checkpoint` finding,
and `MCVirtioLostIrq.cfg` its consequence here); `Main` then is
`drain_on_resume`. The driver is external and is the Linux one: it posts, kicks
by `vring_need_event`, takes completions in its handler or, for the network,
after it, and keeps the transmit queue's lock until its kick is over (`TxLocked`).

## 4. Runs

| run | expects | shows |
|---|---|---|
| `gate` | pass | one request at a time (`OneCoordinator`); vCPUs that answered in time are held (`OnTimeCapturesAreHeld`); a stopped world is complete (`NoShortCheckpoint`) |
| `gate_live` | pass | requests are noticed, nobody is stranded, teardown completes |
| `gate_world_stopped` | violation | `WorldStopped`: see findings |
| `quiesce` | pass | `HeldMeansParked`, `NoLostWakeup`, `PauserNotForgotten`, with `close()` at any moment |
| `live_snapshot` | pass | the session implements gate and latch (`GateSpec`, `LatchSpec`), `DumpHasNoWriter`, `PauseReturns`, `SessionEnds` |
| `vtimer` | pass | `CoherentOffset`, `SlowButCorrect`, `NeverRewinds`, before and after the guest's counter overtakes the host's |
| `store` | pass | `ResumePairsRamWithDisk`, `CommittedHeadIsPaired`, `PinnedArchiveKept`, `CommitKeepsHistory`, `RetiredStaysResumable`, every removal file by file, with a session or a command dying anywhere |
| `daemon` | pass | `OneVmAtATime`, `CleanExit`, `ReaderComplete`, `ExecReportsItsOwn`, `StopCompletes`, at both endpoints |
| `usergic` | pass | `DeliveredOnce`, `NoneLost`, `TickReturns`, with checkpoints and resumes |
| `usergic_checkpoint` | violation | `CheckpointKeepsQueued`: see findings |
| `virtio` | pass | `NoWakeSlept`, `SomeoneServes`, `NothingStranded`, block and net, both transports, resumed |
| `virtio_deadlock` | violation | `NoCircularWait`: see findings |

Every passing run also checks its module's `TypeOK`; those of `Daemon` and `Virtio` hold
the ring's books (evicted and held bytes are all bytes taken) and the order of a
queue's indices. Two more configurations pass and are too close to a listed run to be
one: `MCLiveSnapshotNoNet.cfg` (`SessionEnds` for a guest without a net service)
and `MCStoreDeaths.cfg` (the store with three deaths and no `delete` or `gc`). The
others each show one further counterexample (section 5).

### Bounds

* Gate: two vCPUs, two requesters, three epochs. A late arrival needs a request
  that is abandoned, one after it, and one vCPU that is late while another is on
  time; the third epoch lets a request follow the confusion. `MaxEpoch` is
  `u64::MAX` in the theorems.
* Latch: two writers. A writer still counted from the previous pause and one
  parked for this one are two; the safety invariants are proved for any number.
* Session: one vCPU, one writer and two epochs, or two vCPUs and no writer. The
  gate's own runs have more vCPUs; here the interest is in the two mechanisms
  together.
* Clock: two vCPUs, two steppers, three host ticks, `Wrap` = 64, the host's
  counter starting at 6 and the guest's at 1 with three guest ticks to one. Two
  steppers because `step()` tests for another one; two publishes are enough to
  have a vCPU enter late between them; and the curve overtakes the host's counter
  in the third tick, so the drop of every step beyond the crossing is in the run.
* Store: three revisions, two disk states, one `delete` or `gc`, one death and
  `MaxKeep` = 2. Pruning needs an archived revision beyond the budget, and a pair
  can be wrong with two disk states. One removal that is raced, cut short or
  followed through a rename is one; `MCStoreDeaths.cfg` has three deaths, and the
  theorems have no bound. A budget of one is accepted by the code and fails
  (`MCStoreBudgetOne.cfg`). The run does not check for deadlock: a dead rollback
  may leave no overlays, and the bound on disk states then stops the session.
* Daemon: two clients with any verb, two guests one after the other, a ring of
  four bytes, two digits of status and two bytes of other output. An exec's whole
  frame is four bytes, so one byte more evicts its mark; two digits are what it
  takes for a status to arrive in part; the second guest is what a start during
  a stop can build. Deadlock is not checked: a daemon without clients waits.
* Interrupts: one vCPU and two interrupts raised; two of one class are a repeat
  while the first is queued, pending or active, two classes nest. Two vCPUs, with
  routes and IPIs between them, are too many states for this run: the invariants
  are proved for any number of vCPUs, and the counterexample configurations have
  two.
* virtio: two vCPUs, a request queue of two entries with indices modulo four, net
  queues of one entry modulo two, one frame sent, one register read. A wrap,
  a full queue, a post during a pass and a stale suppression index all happen.
  `NoLap` bounds the driver to less than one turn of the index per pass (2^16 in
  the code). Deadlock is not checked: the crossed locks of section 5 are one.

### Fairness

Host threads are scheduled (weak fairness of each thread's steps), a mutex that
is free again and again is eventually taken (strong fairness of the lock steps;
the macOS mutex does not starve a waiter for ever), a deadline passes, and
`hv_vcpus_exit` forces its vCPU out. Nothing makes a guest exit by itself, power
off, or an operator stop it, so none of these has fairness; once `running` is
clear, `supervise()` returns. The `quiesce` run has invariants only and no
fairness; `PatientSpec` of the latch, which `MCQuiesceAbort.cfg` uses, has no
fairness for the deadline, because it asks what happens without it.

* `Daemon`: the threads of the process run; clients and guests owe nothing: a
  guest need not print, end, or run its shell. A worker told to stop tears
  down, which is what `SessionEnds` shows of the session.
* `UserGic`: a vCPU's thread runs (strongly, because a checkpoint can always hold
  it again, but the cadence waits its interval), the run watchdog forces an exit
  (`OtherExit`), a guest that can take an interrupt again and again takes it and
  its handlers end, a checkpoint that has begun is taken and released. Devices
  and the passing of time owe nothing.
* `Virtio`: threads run, a vCPU that asks for the device lock again and again gets
  it, the service thread's wait ends with its interval, interrupts are taken, and
  a driver short of receive buffers posts some. Nobody has to send a request or
  read a register.

## 5. Findings

Three are violation runs; `PROJECT.json` quotes the line of the repository each
disagrees with.

* `gate_world_stopped`: between the reset and the advance of the epoch in
  `stop_the_world` a vCPU that is late for an abandoned request is counted for
  the new one and not held. `OnTimeCapturesAreHeld` says what is true instead.
* `usergic_checkpoint`: a capture keeps the pending and active lists and not the
  injection queue, so the interrupt of a request that was completed since the
  last drain, before that vCPU's capture or after it while another vCPU is still
  on its way to the gate, is in no checkpoint, while `used.idx` says the request is
  done.
* `virtio_deadlock`: a read of `Status` or `ConfigGeneration` takes the register
  lock and then the device's, a completion (`raise`) the device's and then the
  register lock.

Further counterexamples, one configuration each, for whoever works on that code:

| configuration (module) | property | what happens |
|---|---|---|
| `MCQuiesceAbort.cfg` (`MCQuiesce`) | `TeardownAbortsPause` | the teardown joins the snapshotter before it closes the latch (`imp.rs:3866`), so a pause in progress waits its timeout out, against the comment in `pause` (`livesnap.rs:308`). With `JoinFirst = FALSE` the property holds: the latch does abort a pause when it is closed first |
| `MCVtimerClockCross.cfg` (`MCVtimerClock`) | `StepReachesCurve` | the unsigned comparison of wrapped offsets (`mod.rs:3251`) drops every step once the guest's counter has overtaken the host's, so the guest then runs at the host's rate; `SlowButCorrect` is what is left |
| `MCVtimerClockSlow.cfg` (`MCVtimerClock`) | `NeverRewinds` | `VtimerClock::new` accepts a ratio below one, and the unsigned comparison (`mod.rs:3251`) then publishes a step backwards |
| `MCVtimerClockEntry.cfg` (`MCVtimerClock`) | `EntryWaitsForStep` | `enter()` waits once (`mod.rs:3192`); `leave()`'s notification lets it in while the step is in flight. `CoherentOffset` still holds, because the step then gives up |
| `MCStoreTornRollback.cfg` (`MCCheckpointStore`) | `ResumePairsAlways` | a rollback that dies in `copy_tree` (`checkpoint.rs:1199`) leaves a HEAD without a fingerprint, which resumes against another disk |
| `MCStoreTornClear.cfg` (`MCCheckpointStore`) | `ResumePairsAlways` | a session that dies in `clear_checkpoint` (`checkpoint.rs:189`) after the fingerprint was unlinked and before manifest and RAM leaves a HEAD that `has_checkpoint` and `overlay_drift` (`checkpoint.rs:1467`) accept, and the next start pairs its RAM with the disk as it is now |
| `MCStorePinRace.cfg` (`MCCheckpointStore`) | `PinnedArchiveAlways` | `prune_revisions_keeping` reads the pins once (`checkpoint.rs:859`); a revision pinned before its turn comes loses its RAM, and nothing has died |
| `MCStoreLostTarget.cfg` (`MCCheckpointStore`) | `PinnedArchiveTorn` | a rollback that died leaves the target's id at HEAD; repeating it, `archive_head` (`checkpoint.rs:568`) removes the target |
| `MCStorePinnedHead.cfg` (`MCCheckpointStore`) | `PinnedSurvives` | a run whose cadence wrote nothing deletes the HEAD it found, pinned or not (`imp.rs:4075`) |
| `MCStoreBudgetOne.cfg` (`MCCheckpointStore`) | `RetiredStaysResumable` | with `CHM_MAX_RESUMABLE_REVISIONS=1` pruning keeps none (`checkpoint.rs:861`), so the snapshot just filed loses its RAM |
| `MCStoreGcRace.cfg` (`MCCheckpointStore`) | `CommittedHasRam` | `gc` removes files of the staging directory of a commit in progress (`checkpoint.rs:1061`, 1121), before or after it is renamed to HEAD; the RAM may be gone and the commit reports success |
| `MCDaemonExecCode.cfg` (`MCDaemon`) | `ExecCodeIsTrue` | `parse` takes the digits that have arrived (`exec.rs:348`): a status of several digits that the UART hands over in two pieces is reported as its first; the comment there reads "Waiting is correct; guessing a status is not." |
| `MCDaemonBoot.cfg` (`MCDaemon`) | `ColdStopAnswered` | a cold boot that fails after its socket is bound (`create.rs:1398`, 1406) returns without `finish()`: a client whose stop was accepted is cut off |
| `MCDaemonExit.cfg` (`MCDaemon`) | `ExitStopsGuests` | `stop_vm_blocking` lets the daemon's lock go between its look and the exit; a `start` served in between has its machine when the process exits |
| `MCDaemonLastWords.cfg` (`MCDaemon`) | `LastWordsShown` | the library's supervisor returns without a last look at the UART, so what the guest printed since is never in the ring |
| `MCDaemonReset.cfg` (`MCDaemon`) | `ResetKillsNoExec` | an exec that timed out or was truncated has given its slot back while its command still runs; the next exec's ETX ends it |
| `MCUserGicLpi.cfg` (`MCUserGic`) | `LpiAlwaysQueued` | an LPI drained while the same LPI is active is dropped by `push_pending`; a handler that has already looked at its ring is not called again |
| `MCUserGicRevert.cfg` (`MCUserGic`) | `ResumeKeepsSettings` | each vCPU captures its own clone of the shared distributor (`mod.rs:4764`) and each restore overwrites it (`mod.rs:4786`): an enable or a route written between two captures can be taken back |
| `MCVirtioLostIrq.cfg` (`MCVirtio`) | `NothingStranded` | when the checkpoint did not keep the interrupt of an unseen completion (the `usergic_checkpoint` finding), nothing on resume raises it again and the driver waits for ever |
| `MCVirtioTx.cfg` (`MCVirtio`) | `SomeoneServes` | `notify_net` re-arms the transmit queue and does not look again (`devcore.rs:327`); with a driver that does not keep its lock over the kick a frame stays behind until the next one |

Two remarks that are not properties. An SPI drained while it is disabled is not
kept for its enabling (`softgic.rs:234`), which `NoneLost` names as a reason. And a
guest with EOImode 1 that unmasks interrupts before it re-arms its timer would be
interrupted by the poll for ever; `Handle` has the timer's handler end masked, as
Linux does.

## 6. Proofs

The theorems hold for every value of the constants that meets the named
assumption of the module (`GateAssumption`, `LatchAssumption`,
`ClockAssumption`, `StoreAssumption`, `DaemonAssumption`, `UserGicAssumption`,
`VirtioAssumption`): finite sets of threads, positive bounds, names that are
distinct. All are `Spec => []P` along the same argument: an inductive invariant
(`IInv` or `Inv`), a lemma for the initial states, one lemma per kind of thread or
per action, with a step per conjunct the action can disturb. An action property
`[][A]_vars` follows from the invariant and one more look at every action. Four
theorems have a hypothesis on the constants besides; in each case a configuration
of section 5 shows that it is needed, and the constants of a passing run meet it.

| theorem | hypothesis | without it |
|---|---|---|
| `CheckpointStoreProofs!RetiredStays` | `MaxKeep > 1` | `MCStoreBudgetOne.cfg` |
| `VtimerClockProofs!GuestNeverRewinds` | `SpeedsUp`: a rate of at least one, counters below `Wrap` | `MCVtimerClockSlow.cfg` |
| `VtimerClockProofs!CounterStaysInBand` | `SpeedsUp` | `MCVtimerClockSlow.cfg`: the curve itself falls behind the host's rate |
| `VirtioProofs!SomeoneAlwaysServes` | the driver keeps a net queue's lock over its kick (`TxLocked`), or there is no net device | `MCVirtioTx.cfg` |

* `CheckpointGateProofs`: `TypeOK`, `OneCoordinator`, `OnTimeCapturesAreHeld`,
  `NoShortCheckpoint`. `OnTimeCapturesAreHeld` speaks of the moment after the
  captures are taken; `CaptureInv` says it earlier, of every capture that answers
  the request in flight, and needs that no vCPU is ahead of the epoch and that
  the watermark is below it. `RequestInv` gives the exclusion that makes the
  watermark move only by the owner; `CloseInv` that nobody closes the gate under
  a request, which is what the teardown's join is for.
* `QuiesceProofs`: `TypeOK`, `HeldMeansParked`, `NoLostWakeup`,
  `PauserNotForgotten`. `LockInv` is the
  mutex; `CountInv` says that the count is the number of writers inside
  `park_if_paused`, so a full count means all of them; `FlagInv` that the flag
  outlives the pause. `CommitInv` is the heart of `NoLostWakeup`: a writer that
  found the condition true still holds the mutex, so whoever changed the
  condition has not passed through the mutex and will notify after it.
  `PauserCommitInv` is the same for the pauser, between its look at `closed` and
  its wait, of the last writer's arrival and of `close()`.
* `LiveSnapshotProofs`: `GateSpec` and `LatchSpec` are refinements: every step of
  the session is a step of each component or leaves it alone. With the
  components' invariants and `SyncInv` (a request in flight has the latch held;
  the latch is closed only by a snapshotter that has ended, or after it)
  `DumpHasNoWriter` follows. The component lemmas are reused through instances;
  the `...Same` lemmas state that the two instances are the same formulas.
* `VtimerClockProofs`: `TypeOK`, `CoherentOffset`. `CountInv` makes `in_guest`
  the number of vCPUs past `enter()`, so a publish happens with none;
  `EpochInv` ties an epoch to its offset and `EntryInv` says an entry in progress
  holds the epoch still. `NeverRewinds` and `SlowButCorrect` are about numbers:
  `CurveInv` says that the published counter is between the host's rate since the
  anchor and the curve, and that no guest has read a later value. The lemmas take
  the modulus out of the offsets (`ModSmall`) and show that an offset the unsigned
  comparison lets through never moves the counter back, on either side of the
  crossing and at it; where it lets nothing through, the counter runs at the host's
  rate and stays in the band.
* `CheckpointStoreProofs`: all six properties of the run, with no bound on
  revisions, disk states, removals or deaths. `Inv` holds whatever dies. `Agreeing`
  says that no directory has the RAM of one disk with the fingerprint of another;
  it survives every removal because a removal only takes files away (`Sub`, and
  the lemmas about `Shrink`). `Stages` follows the staging directory through the
  commit: what is there is of the live disk, and all of it is there unless `gc`
  raced the commit, which gives `CommittedHeadIsPaired`. `Named` says that HEAD is
  the revision about to be filed under its name, `Apart` that a rollback and a
  session do not overlap, `Target` that what a rollback has copied so far is its
  target's, `Pruning` that only a prune that has looked has something to reduce.
  `History` holds while no rollback has died. `Order` is the order of the ids: HEAD
  is newer than the archive and than any directory a removal has open, a commit's
  revision is newer than both, a snapshot just retired is the newest archived one,
  so nothing is filed over another revision and pruning, which takes the oldest,
  spares it. `Spared` says that what is being removed or reduced was not pinned when
  it was chosen, and `Printed` that, as long as nothing was `hurt`, a checkpoint
  with RAM has its fingerprint, the HEAD that a teardown is clearing excepted.
  `ResumePairsRamWithDisk` needs `Agreeing` (a fingerprint that matches the disk
  vouches for the RAM) and `Printed` (there is one).
* `DaemonProofs`: `OneVmAtATime`, `CleanExit`. `Generations` says that the guests
  before the current one are recorded as stopped and those after it do not exist
  yet; `Workers` ties that record to the machine (stopped means destroyed), so
  the status a `start` looks at is enough. `Leaving` carries what a shutdown saw over the time in which it
  holds no lock, with `hasty` as the way out; `ColdAlone` and `ColdEnded` do so for
  the cold endpoint's drain, which a failed boot does not come through. `TypeOK` (with the ring's books), `ReaderComplete` and
  `ExecReportsItsOwn` follow from `Consoles`. `Rings` says that evicted and held
  bytes are all bytes taken, and that a ring that holds nothing has taken nothing, so
  a reader that finds it empty has missed nothing. `Reader` says of a client's
  position that the bytes before it are those it got and those that were evicted
  first; it survives the steps of everybody else because eviction only grows and a
  stopped guest's ring does not change. `Script` says what the guest's shell
  writes around a command: an end marker is followed by all digits of the status of
  a command that ran to its end, and digits follow nothing else. So the marks that
  `parse` finds in any window of the ring, whatever has been evicted from it, are
  the client's own frame.
* `UserGicProofs`: `TypeOK`, `DeliveredOnce`, `NoneLost`. The three are inductive
  together with `BatchApplied` (the drain holds something only while it applies
  it), whichever clone of the distributor a resume leaves. Lemmas say what `Without`, `PushPending` and `Deactivate` do to the members
  and the repetitions of a list.
* `VirtioProofs`: `NoWakeSlept`. `Flagged` says that a wake leaves the flag up until
  the service thread is on its way to a pass, `Notified` that a thread asleep with
  the flag up has a notification to come; `Holder` and `Early` say who can be the
  holder of the device lock and that the service thread is not up before the start.
  `TypeOK` includes the order of a queue's indices and needs `Typed`, with the facts
  about indices modulo `Wrap` that `OneTurn`, `Indices` and `OneStep` state: less
  than one turn apart, distance behaves like subtraction. `SomeoneServes` is proved
  besides (`MCVirtioTx.cfg` has its counterexample without the driver's lock): of the
  queue the driver sends on, `Serving` says that what no pass will look at
  again has a kick on its way that the device has asked for, or there is nothing and
  the notification is armed for the next request. A request queue owes that to the
  second look after the re-arm; a net queue is empty at its re-arm because nobody can
  post between. `NeedOne` is `vring_need_event` for one request.

Only model-checked: the liveness properties, since fairness and `ENABLED` are outside
the prover's reach: `RequestNoticed`, `NobodyStranded` and `TeardownCompletes` of
the gate; `PauseReturns` and `SessionEnds` of the session; `StopCompletes` of the daemon;
`TickReturns` of the interrupt controller; `NothingStranded` of virtio.

## 7. What the models leave out

* `CheckpointStore`: the operator does not roll back a running snapshot and does
  not start a run during a rollback; ids are unique and in creation order (they are
  milliseconds, and a run writes seconds apart); a file copy is atomic (a clone),
  and so is the removal of the overlays inside a revision; one `gc` removes one item
  of its plan; a removal that followed a directory through HEAD into the archive may
  also remove the directory itself, which `remove_dir_all` by path would not; `CHM_ALLOW_OVERLAY_DRIFT`, labels, delta dumps,
  disk-usage accounting, revisions of a newer format, a changed number of vCPUs,
  `fork_into` and imports are not modelled; `archive_head` does not fail while
  its process lives.
* `CheckpointGate`: what a capture contains; the assembly of a checkpoint from
  the captures.
* `Quiesce`: spurious wake-ups of a condition variable re-test and wait again, so
  they are the same as a notification that finds nothing changed.
* `VtimerClock`: the pending-timer reprogramming beside the offset.
* `Daemon`: the verbs that only report, the amendment of the egress policy, a
  client that never sends its request, the console filter's escape sequences. A
  command's output is other bytes on the console; input has no newline.
* `UserGic`: priorities (the code has none), the distributor's and redistributor's
  register files beyond one SPI's enable and route and the SGIs' enable (the timer's
  stays on), the managed GIC, the tables of a cold boot, PSCI. A device may deliver
  while every vCPU is at the gate, which the held net service does not; the
  losses shown do not need it. The guest handles its interrupts and ends them.
* `Virtio`: descriptor chains and their bytes, the back ends, feature
  negotiation, reset, the MSI-X table and the ITS tables, the entropy device (a
  request queue like the block device's), more than one frame in the backlog. A
  chain that cannot be read (`devcore.rs:222-227`) ends the pass without advancing;
  only a driver that posts a bad descriptor meets it, and the Linux one does not.
  `Enter` takes the register test (`mmio.rs:700-706`) and the device lock
  (`mmio.rs:712`) in one step: what falls between leads to the same wait.
* The parts of section 1 without a module: `PROJECT.json` gives the reason for
  each. They are file formats, parsing, cryptography, remote services and user
  interface, or, for `vmm/`, `devices/`, `block/` and the other upstream crates,
  most of the tree: code the macOS runtime does not run.
