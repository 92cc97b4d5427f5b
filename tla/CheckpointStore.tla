--------------------------- MODULE CheckpointStore ---------------------------
(***************************************************************************)
(* The revision store of one snapshot directory (chm/src/checkpoint.rs),   *)
(* one file-system operation per step, so that a process can die between   *)
(* any two of them.  Removing a directory is several: its files go one by  *)
(* one, in the order the file system lists them, and the directory last.   *)
(*                                                                         *)
(* Four places hold state: HEAD (.chm-checkpoint, what the next start      *)
(* resumes), the staging directory (.chm-checkpoint.tmp), the archive      *)
(* (.chm-revisions/<id>) and the live disk overlays (.chm-overlays).  Two  *)
(* processes use them with no lock between them: the session that runs the *)
(* guest and commits checkpoints, and the operator's `chm revisions` and   *)
(* `chm rollback` commands.                                                *)
(*                                                                         *)
(* A disk state is a number; a RAM image is the number of the disk state   *)
(* the guest it holds remembers, so a RAM image and an overlay belong      *)
(* together exactly when the numbers agree.  Revision ids are minted in    *)
(* creation order, so an id also stands for its created_at_ms.             *)
(***************************************************************************)
EXTENDS Integers, FiniteSets

CONSTANTS MaxId,     \* bound: revisions minted in a behaviour
          MaxDisk,   \* bound: disk states the guest writes
          MaxSweeps, \* bound: the operator's `delete` and `gc` commands
          MaxDeaths, \* bound: the processes that die
          MaxKeep,   \* CHM_MAX_RESUMABLE_REVISIONS
          Faults     \* the processes that may die between two steps

ASSUME StoreAssumption ==
    /\ MaxId \in Nat
    /\ MaxDisk \in Nat
    /\ MaxSweeps \in Nat
    /\ MaxDeaths \in Nat
    /\ MaxKeep \in Nat \ {0}
    /\ Faults \subseteq {"session", "cli"}

VARIABLES head,    \* .chm-checkpoint
          tmp,     \* .chm-checkpoint.tmp
          store,   \* .chm-revisions
          live,    \* .chm-overlays
          disk,    \* the last disk state written
          minted,  \* the last revision id minted
          sweeps,  \* the removals the operator asked for so far
          deaths,  \* the deaths so far
          spc,     \* where the session is
          mode,    \* what it commits for: the cadence or the teardown
          taken,   \* live_taken is not zero
          rev,     \* the revision it is committing
          parent,  \* the HEAD it supersedes or retires
          doomed,  \* what a prune that has looked has still to reduce
          cpc,     \* where the operator's command is
          target,  \* the revision, or the place, that command is about
          todo     \* what copy_tree has still to copy

\* History variables, which no action reads: what went wrong so far.
VARIABLES torn,    \* a rollback ended before its last write
          hurt,    \* a removal of something resumable was cut short, or gc
                   \* removed files of a checkpoint that was being committed
          raced,   \* gc removed something of the commit in progress
          late     \* the doomed revisions pinned after the prune looked

disks == <<live, disk>>
counts == <<minted, sweeps, deaths>>
session == <<spc, mode, taken, rev, parent, raced>>
cli == <<cpc, target, todo, torn>>
prune == <<doomed, late>>
vars == <<head, tmp, store, live, disk, minted, sweeps, deaths, spc, mode, taken, rev,
          parent, doomed, cpc, target, todo, torn, hurt, raced, late>>

IDS == 1..MaxId

\* A manifest, a RAM dump or a fingerprint file that is not there.
Absent == -1

\* A manifest that is there and does not parse (it was being rewritten).
Torn == 0

\* What a removal works on, besides an archived revision: the staging
\* directory, and that directory after a commit renamed it to HEAD.
Staging == 0
AtHead == -2

\* The files of a revision directory, copied and unlinked one by one.
PARTS == {"man", "ram", "ovl", "fp", "pin"}

\* An overlay, live or captured, is 0 when the directory does not exist.
DIRS == [man : IDS \cup {Absent, Torn}, ram : 0..MaxDisk \cup {Absent},
         ovl : 0..MaxDisk, fp : 0..MaxDisk \cup {Absent}, pin : BOOLEAN]

\* fs::create_dir_all of a new directory.
EmptyDir == [man |-> Absent, ram |-> Absent, ovl |-> 0, fp |-> Absent,
             pin |-> FALSE]

\* A directory that does not exist.
NoDir == [EmptyDir EXCEPT !.ovl = Absent]

\* read_revision_manifest succeeds.
Readable(d) == d.man \in IDS

\* has_checkpoint: the two files exist, whatever they hold.
HasCheckpoint(d) == d.man # Absent /\ d.ram # Absent

\* Mutant: a guard that takes any recorded fingerprint for a match.
DriftUnchecked(d) == d.fp = Absent

\* overlay_drift: no drift is reported where no fingerprint was recorded.
Drift(d) == d.fp # Absent /\ d.fp # live

\* Mutant: pins are counted like any other revision.
PrunableWithPins(st) == {i \in IDS : Readable(st[i]) /\ st[i].ram # Absent}

\* The revisions prune_revisions may reduce to their manifest: archived,
\* readable, with RAM, not pinned.
Prunable(st) ==
    {i \in IDS : Readable(st[i]) /\ st[i].ram # Absent /\ ~st[i].pin}

\* Mutant: the oldest are kept instead of the newest.
ExcessNewest(st) ==
    {i \in Prunable(st) : Cardinality({j \in Prunable(st) : j < i}) >= MaxKeep - 1}

\* prune_revisions_keeping, its look: all but the newest MaxKeep - 1 of them.
Excess(st) ==
    {i \in Prunable(st) : Cardinality({j \in Prunable(st) : j > i}) >= MaxKeep - 1}

\* Its loop: the oldest of those loses its RAM, then its overlays, and keeps its
\* manifest; nothing looks at the pins again.
PruneOne ==
    /\ \E i \in doomed :
          /\ \A j \in doomed : i <= j
          /\ \/ /\ store[i].ram # Absent
                /\ store' = [store EXCEPT ![i].ram = Absent]
                /\ UNCHANGED doomed
             \/ /\ store[i].ram = Absent
                /\ store' = [store EXCEPT ![i].ovl = IF @ = Absent THEN @ ELSE 0]
                /\ doomed' = doomed \ {i}
    /\ late' = late \cap doomed'

\* One operation of fs::remove_dir_all: some file goes, the empty directory last.
Shrink(d) ==
    IF d \in {EmptyDir, NoDir} THEN {NoDir}
    ELSE {[d EXCEPT ![p] = EmptyDir[p]] : p \in {q \in PARTS : d[q] # EmptyDir[q]}}

\* archive_head, first half: whatever was archived under that id goes.
RemoveArchived(i) == \E d \in Shrink(store[i]) : store' = [store EXCEPT ![i] = d]

\* clear_checkpoint.  A removal that followed the directory to HEAD loses it.
ClearHead ==
    \E d \in Shrink(head) :
       /\ head' = d
       /\ target' = IF d = NoDir /\ target = AtHead THEN Absent ELSE target

\* Mutant: a failed move papered over by deleting HEAD.
MoveHeadLoses(i) == head' = NoDir /\ UNCHANGED <<store, target>>

\* Mutant: filed under the id of the revision being committed.
MoveHeadMisnamed(i) ==
    /\ store' = [store EXCEPT ![IF rev = Absent THEN i ELSE rev] = head]
    /\ head' = NoDir
    /\ UNCHANGED target

\* archive_head, second half: HEAD moves into the archive under that id, and a
\* removal that followed the directory to HEAD follows it there.
MoveHead(i) ==
    /\ store' = [store EXCEPT ![i] = head]
    /\ head' = NoDir
    /\ target' = IF target = AtHead THEN i ELSE target

Init ==
    /\ head = NoDir
    /\ tmp = NoDir
    /\ store = [i \in IDS |-> NoDir]
    /\ live = 0
    /\ disk = 0
    /\ minted = 0
    /\ sweeps = 0
    /\ deaths = 0
    /\ spc = "off"
    /\ mode = "live"
    /\ taken = FALSE
    /\ rev = Absent
    /\ parent = Absent
    /\ doomed = {}
    /\ cpc = "idle"
    /\ target = Absent
    /\ todo = {}
    /\ torn = FALSE
    /\ hurt = FALSE
    /\ raced = FALSE
    /\ late = {}

-----------------------------------------------------------------------------
\* The session: one run of the guest (chm/src/imp.rs).

\* Attaching the disks creates the overlays when there are none.  A cold boot
\* also empties the overlay of a shipped base image: a GuestWrite that follows.
Attach ==
    \/ live # 0 /\ UNCHANGED disks
    \/ live = 0 /\ disk < MaxDisk /\ disk' = disk + 1 /\ live' = disk + 1

\* A run starts.  With checkpoints enabled a HEAD that is there is refused on
\* overlay drift (the run does not start), dropped if its manifest does not
\* parse, resumed otherwise; without them HEAD is left alone.  The operator does
\* not start a run while a rollback is going on.
Start ==
    /\ spc = "off"
    /\ cpc \in {"idle", "sweeping"}
    /\ \/ Attach /\ spc' = "running"
       \/ /\ HasCheckpoint(head)
          /\ ~Drift(head)
          /\ ~Readable(head)
          /\ spc' = "drop"
          /\ UNCHANGED disks
    /\ taken' = FALSE
    /\ UNCHANGED <<head, tmp, store, counts, mode, rev, parent, raced, prune, cli, hurt>>

\* clear_checkpoint of the HEAD that could not be read, then a cold boot.
Drop ==
    /\ spc = "drop"
    /\ ClearHead
    /\ \/ head' # NoDir /\ UNCHANGED <<spc, disks>>
       \/ head' = NoDir /\ Attach /\ spc' = "running"
    /\ UNCHANGED <<tmp, store, counts, mode, taken, rev, parent, raced, prune,
                   cpc, todo, torn, hurt>>

\* The guest writes to its disk.
GuestWrite ==
    /\ spc = "running"
    /\ disk < MaxDisk
    /\ disk' = disk + 1
    /\ live' = disk + 1
    /\ UNCHANGED <<head, tmp, store, counts, session, prune, cli, hurt>>

\* write_checkpoint: with the world stopped or torn down, read the parent, mint
\* an id, and start commit_checkpoint with an empty staging directory.
Commit ==
    /\ spc = "running"
    /\ minted < MaxId
    /\ minted' = minted + 1
    /\ rev' = minted + 1
    /\ parent' = IF Readable(head) THEN head.man ELSE Absent
    /\ mode' \in {"live", "stop"}
    /\ tmp' = EmptyDir
    /\ spc' = "ram"
    /\ UNCHANGED <<head, store, disks, sweeps, deaths, taken, raced, prune, cli, hurt>>

\* A call that returns forgets its locals.
Returns(pc) ==
    /\ spc' = pc
    /\ mode' = "live"
    /\ rev' = Absent
    /\ parent' = Absent
    /\ raced' = FALSE

\* A commit that fails: the cadence carries on, the teardown stands down.
Fails == Returns(IF mode = "live" THEN "running" ELSE "standdown")

\* The run is over.
Ends == Returns("off") /\ taken' = FALSE

\* dump_ram into the staging directory, if it is still there.
StageRam ==
    /\ spc = "ram"
    /\ \/ tmp = NoDir /\ Fails /\ UNCHANGED tmp
       \/ /\ tmp # NoDir
          /\ tmp' = [tmp EXCEPT !.ram = live]
          /\ spc' = "overlays"
          /\ UNCHANGED <<mode, rev, parent, raced>>
    /\ UNCHANGED <<head, store, disks, counts, taken, prune, cli, hurt>>

\* Mutant: the fingerprint bracket is dropped and the copy is of
\* the overlays captured with the parent.
StageOverlaysOfParent ==
    /\ spc = "overlays"
    /\ spc' = "manifest"
    /\ tmp' = IF tmp = NoDir THEN [EmptyDir EXCEPT !.ovl = live]
                             ELSE [tmp EXCEPT !.ovl = IF head.ovl > 0 THEN head.ovl ELSE live]
    /\ UNCHANGED <<head, store, disks, counts, mode, taken, rev, parent, raced,
                   prune, cli, hurt>>

\* snapshot_overlays: copy_tree creates <staging>/overlays and every missing
\* directory above it.  Nothing moves the live overlays meanwhile, so the
\* fingerprints before and after agree.  (A running guest has overlays.)
StageOverlays ==
    /\ spc = "overlays"
    /\ spc' = "manifest"
    /\ tmp' = IF tmp = NoDir THEN [EmptyDir EXCEPT !.ovl = live]
                             ELSE [tmp EXCEPT !.ovl = live]
    /\ UNCHANGED <<head, store, disks, counts, mode, taken, rev, parent, raced,
                   prune, cli, hurt>>

\* The fingerprint and then the manifest, into a directory that must exist.
StageManifest ==
    /\ spc = "manifest"
    /\ \/ tmp = NoDir /\ Fails /\ UNCHANGED tmp
       \/ /\ tmp # NoDir
          /\ tmp' = [tmp EXCEPT !.fp = live, !.man = rev]
          /\ spc' = "archive"
          /\ UNCHANGED <<mode, rev, parent, raced>>
    /\ UNCHANGED <<head, store, disks, counts, taken, prune, cli, hurt>>

\* Free the checkpoint directory: archive the parent, or delete what is there
\* when it could not be read.
Archive ==
    /\ spc = "archive"
    /\ \/ /\ parent = Absent
          /\ ClearHead
          /\ spc' = IF head' = NoDir THEN "swap" ELSE "archive"
          /\ UNCHANGED store
       \/ /\ parent # Absent
          /\ RemoveArchived(parent)
          /\ spc' = IF store'[parent] = NoDir THEN "move" ELSE "archive"
          /\ UNCHANGED <<head, target>>
    /\ UNCHANGED <<tmp, disks, counts, mode, taken, rev, parent, raced, prune,
                   cpc, todo, torn, hurt>>

Move ==
    /\ spc = "move"
    /\ MoveHead(parent)
    /\ spc' = "swap"
    /\ UNCHANGED <<tmp, disks, counts, mode, taken, rev, parent, raced, prune,
                   cpc, todo, torn, hurt>>

\* fs::rename of the staging directory into place.  A gc that is removing the
\* staging directory follows it if it has opened it, and finds nothing if not.
Swap ==
    /\ spc = "swap"
    /\ \/ tmp = NoDir /\ Fails /\ UNCHANGED <<head, tmp, target, hurt>>
       \/ /\ tmp # NoDir
          /\ head' = tmp
          /\ tmp' = NoDir
          /\ target' \in IF target = Staging THEN {Staging, AtHead} ELSE {target}
          /\ hurt' = (hurt \/ raced)
          /\ spc' = "verify"
          /\ UNCHANGED <<mode, rev, parent, raced>>
    /\ UNCHANGED <<store, disks, counts, taken, prune, cpc, todo, torn>>

\* verify_checkpoint_describes_overlays, then prune_revisions looks.
Verify ==
    /\ spc = "verify"
    /\ \/ Drift(head) /\ Fails /\ UNCHANGED doomed
       \/ /\ ~Drift(head)
          /\ doomed' = Excess(store)
          /\ spc' = "prune"
          /\ UNCHANGED <<mode, rev, parent, raced>>
    /\ UNCHANGED <<head, tmp, store, disks, counts, taken, late, cli, hurt>>

\* prune_revisions, then the commit returns: the cadence counts the snapshot as
\* taken, the teardown is over.
Prune ==
    /\ spc = "prune"
    /\ \/ PruneOne /\ UNCHANGED session
       \/ /\ doomed = {}
          /\ \/ mode = "live" /\ Returns("running") /\ taken' = TRUE
             \/ mode = "stop" /\ Ends
          /\ UNCHANGED <<store, prune>>
    /\ UNCHANGED <<head, tmp, disks, counts, cli, hurt>>

\* A run that is not to be suspended: the guest powered off, a vCPU failed, or
\* nobody asked for a checkpoint.
Stop ==
    /\ spc = "running"
    /\ spc' = "standdown"
    /\ UNCHANGED <<head, tmp, store, disks, counts, mode, taken, rev, parent, raced,
                   prune, cli, hurt>>

\* retire_or_clear_head: HEAD is deleted unless this run's cadence wrote one.
StandDown ==
    /\ spc = "standdown"
    /\ \/ /\ ~taken
          /\ ClearHead
          /\ \/ head' # NoDir /\ UNCHANGED session
             \/ head' = NoDir /\ Ends
       \/ /\ taken
          /\ ~Readable(head)
          /\ Ends
          /\ UNCHANGED <<head, target>>
       \/ /\ taken
          /\ Readable(head)
          /\ parent' = head.man
          /\ spc' = "retire"
          /\ UNCHANGED <<head, target, mode, taken, rev, raced>>
    /\ UNCHANGED <<tmp, store, disks, counts, prune, cpc, todo, torn, hurt>>

\* retire_checkpoint: archive_head, then prune_revisions.
Retire ==
    /\ \/ /\ spc = "retire"
          /\ RemoveArchived(parent)
          /\ spc' = IF store'[parent] = NoDir THEN "file" ELSE "retire"
          /\ UNCHANGED <<head, target, taken, mode, rev, parent, raced, prune>>
       \/ /\ spc = "file"
          /\ MoveHead(parent)
          /\ spc' = "filed"
          /\ UNCHANGED <<taken, mode, rev, parent, raced, prune>>
       \/ /\ spc = "filed"
          /\ doomed' = Excess(store)
          /\ spc' = "trim"
          /\ UNCHANGED <<head, store, target, taken, mode, rev, parent, raced, late>>
       \/ /\ spc = "trim"
          /\ \/ PruneOne /\ UNCHANGED session
             \/ doomed = {} /\ Ends /\ UNCHANGED <<store, prune>>
          /\ UNCHANGED <<head, target>>
    /\ UNCHANGED <<tmp, disks, counts, cpc, todo, torn, hurt>>

\* The session's process is killed, or the machine goes down.
SessionDies ==
    /\ "session" \in Faults
    /\ spc # "off"
    /\ deaths < MaxDeaths
    /\ deaths' = deaths + 1
    /\ Ends
    /\ doomed' = {}
    /\ late' = {}
    /\ hurt' = (hurt \/ (spc = "standdown" /\ ~taken))
    /\ UNCHANGED <<head, tmp, store, disks, minted, sweeps, cli>>

-----------------------------------------------------------------------------
\* The operator: `chm revisions <dir> pin | unpin | delete | gc`, `chm rollback`.

\* resolve_revision_dir: the archive first, then HEAD.
InArchive(i) == store[i].man # Absent

\* pin_revision: create or remove the marker, in one file-system operation.
PinRevision(i) ==
    /\ cpc = "idle"
    /\ \/ /\ InArchive(i)
          /\ store' = [store EXCEPT ![i].pin = ~@]
          /\ late' = late \cup ({i} \cap doomed)
          /\ UNCHANGED head
       \/ /\ ~InArchive(i)
          /\ head.man = i
          /\ head' = [head EXCEPT !.pin = ~@]
          /\ UNCHANGED <<store, late>>
    /\ UNCHANGED <<tmp, disks, counts, session, doomed, cli, hurt>>

\* A removal begins.
StartSweep ==
    /\ sweeps < MaxSweeps
    /\ sweeps' = sweeps + 1
    /\ cpc' = "sweeping"

\* delete_revision, its look: HEAD and pinned revisions are refused.
DeleteRevision(i) ==
    /\ cpc = "idle"
    /\ InArchive(i)
    /\ ~store[i].pin
    /\ target' = i
    /\ StartSweep
    /\ UNCHANGED <<head, tmp, store, disks, minted, deaths, session, prune, todo, torn, hurt>>

\* plan_gc: the staging directory, and archived directories whose manifest does
\* not parse unless they are pinned; each is removed in turn.
RunGc ==
    /\ cpc = "idle"
    /\ \/ tmp # NoDir /\ target' = Staging
       \/ \E i \in IDS : /\ store[i] # NoDir
                         /\ ~Readable(store[i])
                         /\ ~store[i].pin
                         /\ target' = i
    /\ StartSweep
    /\ UNCHANGED <<head, tmp, store, disks, minted, deaths, session, prune, todo, torn, hurt>>

\* The pcs between the creation of the staging directory and its renaming.
Staged == {"ram", "overlays", "manifest", "archive", "move", "swap"}

\* Their remove_dir_all, on the directory that was opened, wherever it is by now:
\* one operation of it.  Of a directory that a commit is filling, files written
\* after the listing stay (the RAM is written first, so it is listed if anything
\* is) and the last rmdir fails; so it does once the directory is HEAD.
Sweep ==
    /\ cpc = "sweeping"
    /\ \/ /\ target \in IDS
          /\ RemoveArchived(target)
          /\ cpc' = IF store'[target] = NoDir THEN "idle" ELSE "sweeping"
          /\ UNCHANGED <<head, tmp, raced, hurt>>
       \/ /\ target = Staging
          /\ tmp' \in Shrink(tmp)
          /\ cpc' = IF tmp' = NoDir THEN "idle" ELSE "sweeping"
          /\ raced' = (raced \/ spc \in Staged)
          /\ UNCHANGED <<head, store, hurt>>
       \/ /\ target = AtHead
          /\ head' \in Shrink(head) \ {NoDir}
          /\ hurt' = TRUE
          /\ raced' = (raced \/ spc = "verify")
          /\ UNCHANGED <<tmp, store, cpc>>
       \/ /\ \/ target = Absent
             \/ target = Staging /\ tmp.ram = Absent
             \/ target = AtHead /\ head.ram = Absent
          /\ cpc' = "idle"
          /\ UNCHANGED <<head, tmp, store, raced, hurt>>
    /\ target' = IF cpc' = "idle" THEN Absent ELSE target
    /\ UNCHANGED <<disks, counts, spc, mode, taken, rev, parent, prune, todo, torn>>

\* rollback, up to its first write: the target is archived, or it is HEAD and
\* will be archived first.  The operator rolls back a snapshot that is not
\* running.
Rollback(i) ==
    /\ spc = "off"
    /\ cpc = "idle"
    /\ minted < MaxId
    /\ \/ InArchive(i) /\ cpc' = "check"
       \/ ~InArchive(i) /\ head.man = i /\ cpc' = "filetarget"
    /\ target' = i
    /\ UNCHANGED <<head, tmp, store, disks, counts, session, prune, todo, torn, hurt>>

\* archive_head of a target that is HEAD.
RollbackFileTarget ==
    /\ \/ /\ cpc = "filetarget"
          /\ RemoveArchived(target)
          /\ cpc' = IF store'[target] = NoDir THEN "movetarget" ELSE "filetarget"
          /\ UNCHANGED <<head, target>>
       \/ cpc = "movetarget" /\ MoveHead(target) /\ cpc' = "check"
    /\ UNCHANGED <<tmp, disks, counts, session, prune, todo, torn, hurt>>

\* A target whose RAM was pruned is refused; otherwise the current HEAD makes
\* room: archived if it can be read, deleted if it cannot.
RollbackFileHead ==
    /\ \/ /\ cpc = "check"
          /\ \/ store[target].ram = Absent /\ cpc' = "idle" /\ target' = Absent
             \/ /\ store[target].ram # Absent
                /\ cpc' = IF Readable(head) THEN "filehead" ELSE "clearhead"
                /\ UNCHANGED target
          /\ UNCHANGED <<head, store>>
       \/ /\ cpc = "filehead"
          /\ RemoveArchived(head.man)
          /\ cpc' = IF store'[head.man] = NoDir THEN "movehead" ELSE "filehead"
          /\ UNCHANGED <<head, target>>
       \/ cpc = "movehead" /\ MoveHead(head.man) /\ cpc' = "mkdir"
       \/ /\ cpc = "clearhead"
          /\ ClearHead
          /\ cpc' = IF head' = NoDir THEN "mkdir" ELSE "clearhead"
          /\ UNCHANGED store
    /\ UNCHANGED <<tmp, disks, counts, session, prune, todo, torn, hurt>>

\* copy_tree from the target to HEAD: the files in the order the directory
\* lists them, each one a copy of its own.
RollbackCopy ==
    /\ \/ /\ cpc = "mkdir"
          /\ head' = EmptyDir
          /\ todo' = PARTS
          /\ cpc' = "copy"
       \/ /\ cpc = "copy"
          /\ \E p \in todo :
                /\ head' = [head EXCEPT ![p] = store[target][p]]
                /\ todo' = todo \ {p}
          /\ cpc' = IF todo' = {} THEN "unlink" ELSE "copy"
    /\ UNCHANGED <<tmp, store, disks, counts, session, prune, target, torn, hurt>>

\* restore_overlays: the live overlays go, the captured ones are copied back;
\* nothing happens for a revision that captured none.
RollbackRestore ==
    /\ \/ cpc = "unlink" /\ store[target].ovl = 0 /\ cpc' = "truncate" /\ UNCHANGED live
       \/ cpc = "unlink" /\ store[target].ovl # 0 /\ cpc' = "restore" /\ live' = 0
       \/ cpc = "restore" /\ cpc' = "truncate" /\ live' = store[target].ovl
    /\ UNCHANGED <<head, tmp, store, disk, counts, session, prune, target, todo, torn,
                   hurt>>

\* The manifest is rewritten in place under a new id, then prune_revisions.
RollbackRename ==
    /\ \/ /\ cpc = "truncate"
          /\ head' = [head EXCEPT !.man = Torn]
          /\ cpc' = "rewrite"
          /\ UNCHANGED <<store, minted, prune, target>>
       \/ /\ cpc = "rewrite"
          /\ head' = [head EXCEPT !.man = minted + 1]
          /\ minted' = minted + 1
          /\ doomed' = Excess(store)
          /\ cpc' = "prune"
          /\ UNCHANGED <<store, late, target>>
       \/ /\ cpc = "prune"
          /\ \/ PruneOne /\ UNCHANGED <<cpc, target>>
             \/ /\ doomed = {}
                /\ cpc' = "idle"
                /\ target' = Absent
                /\ UNCHANGED <<store, prune>>
          /\ UNCHANGED <<head, minted>>
    /\ UNCHANGED <<tmp, disks, sweeps, deaths, session, todo, torn, hurt>>

\* The command is interrupted, or one of its writes fails (a full disk) and it
\* returns the error.
CliDies ==
    /\ "cli" \in Faults
    /\ cpc # "idle"
    /\ deaths < MaxDeaths
    /\ deaths' = deaths + 1
    /\ cpc' = "idle"
    /\ target' = Absent
    /\ todo' = {}
    /\ torn' = (torn \/ cpc # "sweeping")
    /\ hurt' = (hurt \/ (cpc = "sweeping" /\ target \in IDS))
    /\ IF cpc = "prune" THEN doomed' = {} /\ late' = {} ELSE UNCHANGED prune
    /\ UNCHANGED <<head, tmp, store, disks, minted, sweeps, session>>

Session ==
    \/ Start \/ Drop \/ GuestWrite \/ Commit \/ StageRam \/ StageOverlays
    \/ StageManifest \/ Archive \/ Move \/ Swap \/ Verify \/ Prune \/ Stop
    \/ StandDown \/ Retire \/ SessionDies

Operator ==
    \/ \E i \in IDS : PinRevision(i) \/ DeleteRevision(i) \/ Rollback(i)
    \/ RunGc \/ Sweep \/ RollbackFileTarget \/ RollbackFileHead \/ RollbackCopy
    \/ RollbackRestore \/ RollbackRename \/ CliDies

Next == Session \/ Operator

Spec == Init /\ [][Next]_vars

-----------------------------------------------------------------------------
\* A revision that resumes: it can be read, and its RAM, its overlays and its
\* fingerprint are of one moment.
Whole(d) == Readable(d) /\ d.ram # Absent /\ d.ovl = d.ram /\ d.fp = d.ram

\* The ids that some directory holds whole.
Resumable == {i \in IDS : Whole(store[i]) \/ (head.man = i /\ Whole(head))}

\* The ids whose directory the operator is removing.
Swept ==
    {i \in IDS : cpc = "sweeping" /\ (target = i \/ (target = AtHead /\ head.man = i))}

SessionPc == {"off", "running", "drop", "ram", "overlays", "manifest", "archive",
              "move", "swap", "verify", "prune", "standdown", "retire", "file",
              "filed", "trim"}

CliPc == {"idle", "sweeping", "filetarget", "movetarget", "check", "filehead",
          "movehead", "clearhead", "mkdir", "copy", "unlink", "restore", "truncate",
          "rewrite", "prune"}

\* The type of every variable; an archived directory is named after the
\* revision its manifest describes, which is how rollback finds it again
\* (archive_head and revisions_dir().join(id)).
TypeOK ==
    /\ head \in DIRS \cup {NoDir}
    /\ tmp \in DIRS \cup {NoDir}
    /\ store \in [IDS -> DIRS \cup {NoDir}]
    /\ \A i \in IDS : store[i].man \in {i, Absent}
    /\ live \in 0..MaxDisk
    /\ disk \in 0..MaxDisk
    /\ minted \in 0..MaxId
    /\ sweeps \in 0..MaxSweeps
    /\ deaths \in 0..MaxDeaths
    /\ spc \in SessionPc
    /\ mode \in {"live", "stop"}
    /\ taken \in BOOLEAN
    /\ rev \in IDS \cup {Absent}
    /\ parent \in IDS \cup {Absent}
    /\ doomed \subseteq IDS
    /\ cpc \in CliPc
    /\ target \in IDS \cup {Absent, Staging, AtHead}
    /\ todo \subseteq PARTS
    /\ torn \in BOOLEAN
    /\ hurt \in BOOLEAN
    /\ raced \in BOOLEAN
    /\ late \subseteq doomed

\* A HEAD that a start resumes: it is accepted by has_checkpoint, it parses, and
\* overlay_drift does not object (the guard of the run loop, chm/src/imp.rs).
Resumes ==
    /\ spc = "off"
    /\ cpc \in {"idle", "sweeping"}
    /\ HasCheckpoint(head)
    /\ Readable(head)
    /\ ~Drift(head)

\* A run that resumes HEAD resumes it against the disk its RAM remembers.
ResumePairsAlways == Resumes => head.ram = live

\* The same wherever sessions, commands and rollbacks died, file by file: the
\* one HEAD that a start may pair with another disk is one that has lost its
\* fingerprint, and that takes a rollback or a removal cut short, or a gc that
\* raced a commit.
ResumePairsRamWithDisk ==
    Resumes => head.ram = live \/ (head.fp = Absent /\ (torn \/ hurt))

\* The pinned revisions of the archive, those excepted that were pinned while a
\* prune that had already looked was under way, and whether they stay whole.
PinnedStayWhole ==
    \A i \in IDS \ late : store[i].pin /\ Whole(store[i]) => Whole(store[i])'

\* No step takes a pinned revision of the archive away or makes it less than
\* whole, as long as every rollback ran to its end: pruning spares what was
\* pinned when it looked, deleting and collecting refuse it, and archiving
\* another revision does not land on it.
PinnedArchiveKept == [][~torn => PinnedStayWhole]_vars

\* The same whatever died.
PinnedArchiveTorn == [][PinnedStayWhole]_vars

\* The same for every pin, when nothing dies.
PinnedArchiveAlways ==
    [][\A i \in IDS : store[i].pin /\ Whole(store[i]) => Whole(store[i])']_vars

\* A pinned revision stays resumable wherever it is, HEAD included, until the
\* operator unpins it.
PinnedSurvives ==
    [][\A i \in Resumable :
          store[i].pin \/ (head.man = i /\ head.pin) => (i \in Resumable)']_vars

\* Until it prunes, committing a checkpoint (or dying in the middle of it)
\* costs no revision that could be resumed before: the parent is at HEAD or in
\* the archive at every instant of commit_checkpoint, and only what the operator
\* is deleting goes.  (A rollback that died leaves a HEAD that is filed over the
\* whole revision it was copied from.)
CommitKeepsHistory ==
    [][~torn /\ spc \in Staged => Resumable \ Swept \subseteq Resumable']_vars

\* The live snapshot that retire_checkpoint files when a run ends badly can
\* still be rolled back to while the store is pruned and when it has been,
\* unless the operator deletes it.
RetiredStaysResumable ==
    [][~torn /\ spc \in {"filed", "trim"} /\ parent \in Resumable \ Swept
          => parent \in Resumable']_vars

\* Whatever died before, a checkpoint that commit_checkpoint has swapped in is a
\* consistent pair of RAM and disk; if gc was removing the staging directory
\* meanwhile, some of its files may be gone, but what is there is of this disk.
CommittedHeadIsPaired ==
    spc = "verify" =>
       /\ head.ram \in {live, Absent}
       /\ head.ovl \in {live, 0}
       /\ head.fp \in {live, Absent}
       /\ raced \/ Whole(head)

\* When commit_checkpoint proves the checkpoint it has just swapped in, that
\* checkpoint is one has_checkpoint accepts.
CommittedHasRam == spc = "verify" => HasCheckpoint(head)

=============================================================================
