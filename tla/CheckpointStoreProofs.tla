------------------------ MODULE CheckpointStoreProofs ------------------------
(***************************************************************************)
(* For any number of revisions, disk states, removals and deaths.          *)
(* Directories are removed file by file here, so a directory may have lost *)
(* any of its files; what is proved of every directory, always, is that    *)
(* the RAM and the fingerprint it still has are of one disk.  The second   *)
(* half is about the order of the ids: HEAD is newer than every directory  *)
(* of the archive, so what is filed lands on nothing, and what is removed  *)
(* to make room for it is not there.  From that follow what a step may not *)
(* do: lose a pinned revision, history to a commit, or the snapshot that   *)
(* was just retired.                                                       *)
(***************************************************************************)
EXTENDS CheckpointStore, FiniteSetTheorems, TLAPS

\* The RAM and the fingerprint that a directory has are of one disk.
Agree(d) == d.ram # Absent /\ d.fp # Absent => d.ram = d.fp

\* What is left of directory d after some of its files went.
Sub(e, d) ==
    /\ e.man \in {d.man, Absent}
    /\ e.ram \in {d.ram, Absent}
    /\ e.ovl \in {d.ovl, 0, Absent}
    /\ e.fp \in {d.fp, Absent}
    /\ e.pin => d.pin

\* No rollback while a session runs.
Apart == spc # "off" => cpc \in {"idle", "sweeping"}

\* HEAD is the revision that is about to be filed under its name, or a gc that
\* followed it there has removed its manifest.
Named ==
    /\ spc \in Staged \ {"swap"} /\ parent # Absent => head.man \in {parent, Absent}
    /\ spc = "move" => parent # Absent
    /\ spc \in {"retire", "file"} => parent # Absent /\ head.man \in {parent, Absent}
    /\ cpc \in {"filetarget", "movetarget"} => head.man = target
    /\ cpc \in {"filehead", "movehead"} => Readable(head)

\* What is there of a commit's files is of the live disk.
Filled(d) == d.ram \in {live, Absent} /\ d.ovl \in {live, 0} /\ d.fp \in {live, Absent}

\* What a commit has staged so far; all of it is there unless gc raced it.
Stages ==
    /\ ~tmp.pin
    /\ spc \in Staged => rev \in IDS
    /\ spc \in Staged /\ tmp # NoDir => Filled(tmp) /\ tmp.man \in {rev, Absent}
    /\ spc \in Staged /\ ~raced => tmp # NoDir
    /\ spc \in Staged \ {"ram"} /\ ~raced => tmp.ram = live
    /\ spc \in Staged \ {"ram", "overlays"} /\ ~raced => tmp.ovl = live
    /\ spc \in {"archive", "move", "swap"} /\ ~raced => tmp.fp = live /\ tmp.man = rev

Copying == {"copy", "unlink", "restore", "truncate"}

\* What a rollback knows about its target and about the HEAD it builds.
Target ==
    /\ cpc = "idle" => target = Absent
    /\ cpc \notin {"idle", "sweeping"} => target \in IDS
    /\ cpc \notin {"idle", "sweeping", "prune"} => minted < MaxId
    /\ cpc \in {"check", "clearhead", "mkdir"} \cup Copying => store[target].man = target
    /\ cpc \in {"filehead", "movehead"} => store[target].man = target \/ head.man = target
    /\ cpc \in Copying \cup {"rewrite", "prune"} => head \in DIRS
    /\ cpc \in Copying =>
          \A p \in PARTS : head[p] = store[target][p] \/ (p \in todo /\ head[p] = EmptyDir[p])
    /\ cpc \in Copying \ {"copy"} => todo = {}

\* No directory mixes the RAM of one disk with the fingerprint of another.
Agreeing == Agree(head) /\ \A i \in IDS : Agree(store[i])

\* Only a prune has looked.
Pruning == doomed # {} => spc \in {"prune", "trim"} \/ cpc = "prune"

Inv ==
    /\ TypeOK
    /\ Apart
    /\ Named
    /\ Stages
    /\ Target
    /\ Agreeing
    /\ Pruning
    /\ CommittedHeadIsPaired

-----------------------------------------------------------------------------
\* Directories.

\* The constants that stand for what is not there, and a new directory.
LEMMA Absence ==
    /\ Absent \notin IDS /\ Torn \notin IDS /\ Torn # Absent
    /\ Staging \notin IDS /\ AtHead \notin IDS /\ AtHead # Absent /\ AtHead # Staging /\ Staging # Absent
    /\ EmptyDir \in DIRS
    /\ EmptyDir.man = Absent /\ EmptyDir.ram = Absent /\ EmptyDir.fp = Absent /\ EmptyDir.ovl = 0
    /\ EmptyDir.pin = FALSE
    /\ NoDir.man = Absent /\ NoDir.ram = Absent /\ NoDir.fp = Absent /\ NoDir.ovl = Absent
    /\ NoDir.pin = FALSE
    /\ Agree(EmptyDir) /\ Agree(NoDir)
    /\ ~Readable(EmptyDir) /\ ~Readable(NoDir) /\ ~HasCheckpoint(NoDir)
    /\ NoDir # EmptyDir /\ NoDir \notin DIRS
BY StoreAssumption DEF Absent, Torn, Staging, AtHead, IDS, DIRS, EmptyDir, NoDir, Agree, HasCheckpoint, Readable

\* A directory that has something exists.
LEMMA Exists ==
    ASSUME NEW d \in DIRS \cup {NoDir}, d.man # Absent \/ d.ram # Absent \/ d.fp # Absent \/ d.pin
    PROVE  d \in DIRS
BY Absence

\* Its files are written one at a time.
LEMMA Written ==
    ASSUME NEW d \in DIRS
    PROVE  /\ \A x \in IDS \cup {Absent, Torn} : [d EXCEPT !.man = x] \in DIRS
           /\ \A x \in 0..MaxDisk \cup {Absent} : [d EXCEPT !.ram = x] \in DIRS
           /\ \A x \in 0..MaxDisk : [d EXCEPT !.ovl = x] \in DIRS
           /\ \A x \in 0..MaxDisk \cup {Absent} : [d EXCEPT !.fp = x] \in DIRS
           /\ \A x \in BOOLEAN : [d EXCEPT !.pin = x] \in DIRS
           /\ \A x \in 0..MaxDisk, y \in IDS : [d EXCEPT !.fp = x, !.man = y] \in DIRS
<1>1. ASSUME NEW x \in IDS \cup {Absent, Torn} PROVE [d EXCEPT !.man = x] \in DIRS
    BY DEF DIRS
<1>2. ASSUME NEW x \in 0..MaxDisk \cup {Absent} PROVE [d EXCEPT !.ram = x] \in DIRS
    BY DEF DIRS
<1>3. ASSUME NEW x \in 0..MaxDisk PROVE [d EXCEPT !.ovl = x] \in DIRS
    BY DEF DIRS
<1>4. ASSUME NEW x \in 0..MaxDisk \cup {Absent} PROVE [d EXCEPT !.fp = x] \in DIRS
    BY DEF DIRS
<1>5. ASSUME NEW x \in BOOLEAN PROVE [d EXCEPT !.pin = x] \in DIRS
    BY DEF DIRS
<1>6. ASSUME NEW x \in 0..MaxDisk, NEW y \in IDS PROVE [d EXCEPT !.fp = x, !.man = y] \in DIRS
    BY DEF DIRS
<1> QED BY <1>1, <1>2, <1>3, <1>4, <1>5, <1>6

\* A pin changes nothing else.
LEMMA PinDir ==
    ASSUME NEW d \in DIRS, NEW x \in BOOLEAN
    PROVE  /\ [d EXCEPT !.pin = x].man = d.man /\ [d EXCEPT !.pin = x].ram = d.ram
           /\ [d EXCEPT !.pin = x].ovl = d.ovl /\ [d EXCEPT !.pin = x].fp = d.fp
           /\ [d EXCEPT !.pin = x].pin = x
           /\ Agree(d) => Agree([d EXCEPT !.pin = x])
           /\ Whole(d) => Whole([d EXCEPT !.pin = x])
BY DEF DIRS, Agree, Whole, Readable

\* What an operation of remove_dir_all leaves.
LEMMA ShrinkDir ==
    ASSUME NEW d \in DIRS \cup {NoDir}, NEW e \in Shrink(d)
    PROVE  /\ e \in DIRS \cup {NoDir}
           /\ Sub(e, d)
           /\ d = NoDir => e = NoDir
           /\ d \in DIRS /\ e # NoDir => e \in DIRS
<1>1. CASE d \in {EmptyDir, NoDir}
    BY <1>1, Absence DEF Shrink, Sub
<1>2. CASE d \notin {EmptyDir, NoDir}
    <2>1. d \in DIRS
        BY <1>2
    <2>2. PICK p \in PARTS : e = [d EXCEPT ![p] = EmptyDir[p]]
        BY <1>2 DEF Shrink
    <2>3. 0 \in 0..MaxDisk
        BY StoreAssumption
    <2>4. /\ EmptyDir["man"] = Absent /\ EmptyDir["ram"] = Absent /\ EmptyDir["fp"] = Absent
          /\ EmptyDir["ovl"] = 0 /\ EmptyDir["pin"] = FALSE
        BY DEF EmptyDir
    <2>5. e \in DIRS /\ Sub(e, d)
        <3>1. CASE p = "man"
            BY <2>1, <2>2, <2>4, <3>1 DEF DIRS, Sub
        <3>2. CASE p = "ram"
            BY <2>1, <2>2, <2>4, <3>2 DEF DIRS, Sub
        <3>3. CASE p = "ovl"
            BY <2>1, <2>2, <2>3, <2>4, <3>3 DEF DIRS, Sub
        <3>4. CASE p = "fp"
            BY <2>1, <2>2, <2>4, <3>4 DEF DIRS, Sub
        <3>5. CASE p = "pin"
            BY <2>1, <2>2, <2>4, <3>5 DEF DIRS, Sub
        <3> QED BY <3>1, <3>2, <3>3, <3>4, <3>5 DEF PARTS
    <2> QED BY <1>2, <2>1, <2>5
<1> QED BY <1>1, <1>2

\* What is left of a directory agrees with itself if the directory did.
LEMMA SubAgree ==
    ASSUME NEW d, NEW e, Sub(e, d)
    PROVE  /\ Agree(d) => Agree(e)
           /\ ~Readable(d) => ~Readable(e)
           /\ e.man # Absent => e.man = d.man
<1>1. Absent \notin IDS
    BY Absence
<1> QED BY <1>1 DEF Sub, Agree, Readable

\* The archive after some of its files went.
StoreSub ==
    /\ store' \in [IDS -> DIRS \cup {NoDir}]
    /\ \A j \in IDS : Sub(store'[j], store[j]) /\ (store[j] = NoDir => store'[j] = NoDir)

\* Removing an archived directory, or the payload of one, only takes away.
LEMMA Takes ==
    ASSUME TypeOK, UNCHANGED store \/ PruneOne \/ \E i \in IDS : RemoveArchived(i)
    PROVE  StoreSub
<1>0. store \in [IDS -> DIRS \cup {NoDir}] /\ doomed \subseteq IDS
    BY DEF TypeOK
<1>1. CASE UNCHANGED store
    BY <1>0, <1>1 DEF StoreSub, Sub
<1>2. ASSUME NEW i \in IDS, NEW e \in DIRS \cup {NoDir}, store' = [store EXCEPT ![i] = e],
             Sub(e, store[i]), store[i] = NoDir => e = NoDir
      PROVE  StoreSub
    BY <1>0, <1>2 DEF StoreSub, Sub
<1>3. ASSUME NEW i \in IDS, RemoveArchived(i) PROVE StoreSub
    <2>1. PICK e \in Shrink(store[i]) : store' = [store EXCEPT ![i] = e]
        BY <1>3 DEF RemoveArchived
    <2> QED BY <1>0, <1>2, <2>1, ShrinkDir
<1>4. CASE PruneOne
    <2>1. PICK i \in doomed :
             \/ store[i].ram # Absent /\ store' = [store EXCEPT ![i].ram = Absent]
             \/ store' = [store EXCEPT ![i].ovl = IF store[i].ovl = Absent THEN store[i].ovl ELSE 0]
        BY <1>4 DEF PruneOne
    <2>2. i \in IDS /\ store[i] \in DIRS \cup {NoDir}
        BY <1>0, <2>1
    <2>3. CASE store[i].ram # Absent /\ store' = [store EXCEPT ![i].ram = Absent]
        <3>1. store[i] \in DIRS
            BY <2>2, <2>3, Exists
        <3>2. [store[i] EXCEPT !.ram = Absent] \in DIRS
            BY <3>1, Written
        <3>3. Sub([store[i] EXCEPT !.ram = Absent], store[i])
            BY <3>1 DEF Sub, DIRS
        <3>4. store' = [store EXCEPT ![i] = [store[i] EXCEPT !.ram = Absent]]
            BY <2>3
        <3>5. store[i] # NoDir
            BY <2>3, Absence
        <3> QED BY <1>2, <2>2, <3>2, <3>3, <3>4, <3>5
    <2>4. CASE store' = [store EXCEPT ![i].ovl = IF store[i].ovl = Absent THEN store[i].ovl ELSE 0]
        <3> DEFINE e == [store[i] EXCEPT !.ovl = IF store[i].ovl = Absent THEN store[i].ovl ELSE 0]
        <3>1. store' = [store EXCEPT ![i] = e]
            BY <2>4
        <3>2. CASE store[i] = NoDir
            <4>1. e = NoDir
                BY <3>2, Absence DEF NoDir, EmptyDir
            <4>2. Sub(e, store[i])
                BY <3>2, <4>1 DEF Sub
            <4> HIDE DEF e
            <4> QED BY <1>2, <2>2, <3>1, <4>1, <4>2
        <3>3. CASE store[i] # NoDir
            <4>1. store[i] \in DIRS /\ 0 \in 0..MaxDisk /\ Absent \notin 0..MaxDisk
                BY <2>2, <3>3, StoreAssumption DEF Absent
            <4>2. e = [store[i] EXCEPT !.ovl = 0]
                BY <4>1 DEF DIRS
            <4>3. [store[i] EXCEPT !.ovl = 0] \in DIRS
                BY <4>1, Written
            <4>4. Sub([store[i] EXCEPT !.ovl = 0], store[i])
                BY <4>1 DEF Sub, DIRS
            <4> HIDE DEF e
            <4> QED BY <1>2, <2>2, <3>1, <3>3, <4>2, <4>3, <4>4
        <3> QED BY <3>2, <3>3
    <2> QED BY <2>1, <2>3, <2>4
<1> QED BY <1>1, <1>3, <1>4

\* So the archive keeps its types, its names and its agreement.
LEMMA StoreKept ==
    ASSUME TypeOK, StoreSub
    PROVE  /\ store' \in [IDS -> DIRS \cup {NoDir}]
           /\ \A j \in IDS : store'[j].man \in {j, Absent}
           /\ (\A j \in IDS : Agree(store[j])) => \A j \in IDS : Agree(store'[j])
<1>1. \A j \in IDS : store[j].man \in {j, Absent}
    BY DEF TypeOK
<1>2. \A j \in IDS : Sub(store'[j], store[j])
    BY DEF StoreSub
<1>3. \A j \in IDS : Agree(store[j]) => Agree(store'[j])
    BY <1>2, SubAgree
<1>4. \A j \in IDS : store'[j].man \in {store[j].man, Absent}
    BY <1>2 DEF Sub
<1> QED BY <1>1, <1>3, <1>4 DEF StoreSub

\* Filing HEAD under its own name, too.
LEMMA Filed ==
    ASSUME TypeOK, NEW i \in IDS, MoveHead(i), head.man \in {i, Absent}
    PROVE  /\ store' \in [IDS -> DIRS \cup {NoDir}]
           /\ \A j \in IDS : store'[j].man \in {j, Absent}
           /\ Agreeing => \A j \in IDS : Agree(store'[j])
           /\ head' = NoDir /\ store'[i] = head /\ \A j \in IDS \ {i} : store'[j] = store[j]
           /\ target' = (IF target = AtHead THEN i ELSE target)
BY DEF MoveHead, TypeOK, Agreeing

\* One operation of clear_checkpoint.
LEMMA Cleared ==
    ASSUME TypeOK, ClearHead
    PROVE  /\ head' \in DIRS \cup {NoDir}
           /\ Sub(head', head)
           /\ Agree(head) => Agree(head')
           /\ ~Readable(head) => ~Readable(head')
           /\ target' = (IF head' = NoDir /\ target = AtHead THEN Absent ELSE target)
<1>1. PICK d \in Shrink(head) :
         head' = d /\ target' = (IF d = NoDir /\ target = AtHead THEN Absent ELSE target)
    BY DEF ClearHead
<1>2. d \in DIRS \cup {NoDir} /\ Sub(d, head)
    BY ShrinkDir DEF TypeOK
<1> QED BY <1>1, <1>2, SubAgree

-----------------------------------------------------------------------------
\* Every action preserves Inv.

LEMMA InitInv == Init => Inv
<1> SUFFICES ASSUME Init PROVE Inv
    OBVIOUS
<1>1. store \in [IDS -> DIRS \cup {NoDir}] /\ \A i \in IDS : store[i] = NoDir
    BY DEF Init
<1>2. 0 \in 0..MaxDisk /\ 0 \in 0..MaxId /\ 0 \in 0..MaxSweeps /\ 0 \in 0..MaxDeaths
    BY StoreAssumption
<1>3. TypeOK
    BY <1>1, <1>2, Absence DEF Init, TypeOK, SessionPc, CliPc
<1> QED BY <1>1, <1>3, Absence DEF Init, Inv, Apart, Named, Stages, Target, Agreeing, Pruning,
           CommittedHeadIsPaired, Staged, Copying

\* A step that leaves the directories alone keeps what is said of them alone.
LEMMA AgreeingKept ==
    ASSUME Inv, UNCHANGED <<head, store>>
    PROVE  /\ Agreeing'
           /\ head' \in DIRS \cup {NoDir}
           /\ store' \in [IDS -> DIRS \cup {NoDir}]
           /\ \A i \in IDS : store'[i].man \in {i, Absent}
BY DEF Inv, TypeOK, Agreeing

LEMMA RunInv == Inv /\ (Start \/ GuestWrite \/ Commit \/ Stop \/ SessionDies) => Inv'
<1> SUFFICES ASSUME Inv, Start \/ GuestWrite \/ Commit \/ Stop \/ SessionDies PROVE Inv'
    OBVIOUS
<1>0. UNCHANGED <<head, store, cpc, target, todo>>
    BY DEF Start, GuestWrite, Commit, Stop, SessionDies, cli
<1>1. /\ Agreeing'
      /\ head' \in DIRS \cup {NoDir}
      /\ store' \in [IDS -> DIRS \cup {NoDir}]
      /\ \A i \in IDS : store'[i].man \in {i, Absent}
    BY <1>0, AgreeingKept
<1>2. CASE Start
    <2>1. live' \in 0..MaxDisk /\ disk' \in 0..MaxDisk
        BY <1>2, StoreAssumption DEF Inv, TypeOK, Start, Attach, disks
    <2>2. spc' \in {"running", "drop"} /\ spc = "off" /\ cpc \in {"idle", "sweeping"}
        BY <1>2 DEF Start
    <2>3. taken' = FALSE /\ UNCHANGED <<tmp, counts, mode, rev, parent, raced, prune, cli, hurt>>
        BY <1>2 DEF Start
    <2>4. TypeOK'
        BY <1>0, <1>1, <2>1, <2>2, <2>3 DEF Inv, TypeOK, SessionPc, counts, cli, prune
    <2>5. Apart' /\ Target' /\ Pruning'
        BY <1>0, <2>2, <2>3 DEF Inv, Apart, Target, Pruning, Copying, counts, prune
    <2>6. Named' /\ Stages' /\ CommittedHeadIsPaired'
        BY <1>0, <2>2, <2>3 DEF Inv, Named, Stages, CommittedHeadIsPaired, Staged
    <2> QED BY <1>1, <2>4, <2>5, <2>6 DEF Inv
<1>3. CASE GuestWrite
    <2>1. live' \in 0..MaxDisk /\ disk' \in 0..MaxDisk
        BY <1>3, StoreAssumption DEF Inv, TypeOK, GuestWrite
    <2>2. TypeOK'
        BY <1>0, <1>1, <1>3, <2>1 DEF Inv, TypeOK, GuestWrite, counts, session, cli, prune
    <2>3. cpc \in {"idle", "sweeping"}
        BY <1>3 DEF Inv, Apart, GuestWrite
    <2>4. Apart' /\ Target' /\ Pruning'
        BY <1>0, <1>3, <2>3 DEF Inv, GuestWrite, Apart, Target, Pruning, Copying, counts, prune, session
    <2>5. Named' /\ Stages' /\ CommittedHeadIsPaired'
        BY <1>0, <1>3, <2>3 DEF Inv, GuestWrite, Named, Stages, CommittedHeadIsPaired, Staged, session
    <2> QED BY <1>1, <2>2, <2>4, <2>5 DEF Inv
<1>4. CASE Commit
    <2>1. minted' \in 0..MaxId /\ rev' \in IDS
        BY <1>4, StoreAssumption DEF Inv, TypeOK, Commit, IDS
    <2>2. parent' \in IDS \cup {Absent} /\ (parent' # Absent => head'.man = parent')
        BY <1>0, <1>4 DEF Commit, Readable
    <2>3. cpc \in {"idle", "sweeping"}
        BY <1>4 DEF Inv, Apart, Commit
    <2>4. TypeOK'
        BY <1>1, <1>4, <2>1, <2>2, Absence DEF Inv, TypeOK, Commit, SessionPc, disks, cli, prune
    <2>5. Stages'
        BY <1>4, <2>1, Absence DEF Inv, Stages, Commit, Filled, Staged
    <2>6. Apart' /\ Target' /\ Pruning'
        BY <1>0, <1>4, <2>3 DEF Inv, Commit, Apart, Target, Pruning, Copying, prune
    <2>7. Named' /\ CommittedHeadIsPaired'
        BY <1>0, <1>4, <2>2, <2>3 DEF Commit, Named, CommittedHeadIsPaired, Staged
    <2> QED BY <1>1, <2>4, <2>5, <2>6, <2>7 DEF Inv
<1>5. CASE Stop
    <2>1. TypeOK'
        BY <1>0, <1>1, <1>5 DEF Inv, TypeOK, Stop, SessionPc, counts, cli, prune, disks
    <2>2. cpc \in {"idle", "sweeping"}
        BY <1>5 DEF Inv, Apart, Stop
    <2>3. Apart' /\ Target' /\ Pruning'
        BY <1>0, <1>5, <2>2 DEF Inv, Stop, Apart, Target, Pruning, Copying, counts, prune
    <2>4. Named' /\ Stages' /\ CommittedHeadIsPaired'
        BY <1>0, <1>5, <2>2 DEF Inv, Stop, Named, Stages, CommittedHeadIsPaired, Staged
    <2> QED BY <1>1, <2>1, <2>3, <2>4 DEF Inv
<1>6. CASE SessionDies
    <2>1. deaths' \in 0..MaxDeaths
        BY <1>6, StoreAssumption DEF Inv, TypeOK, SessionDies
    <2>2. TypeOK'
        BY <1>0, <1>1, <1>6, <2>1 DEF Inv, TypeOK, SessionDies, Ends, Returns, SessionPc, cli, disks
    <2>3. cpc \in {"idle", "sweeping"}
        BY <1>6 DEF Inv, Apart, SessionDies
    <2>4. Apart' /\ Target' /\ Pruning'
        BY <1>0, <1>6, <2>3 DEF Inv, SessionDies, Ends, Returns, Apart, Target, Pruning, Copying
    <2>5. Named' /\ Stages' /\ CommittedHeadIsPaired'
        BY <1>0, <1>6, <2>3 DEF Inv, SessionDies, Ends, Returns, Named, Stages, CommittedHeadIsPaired, Staged
    <2> QED BY <1>1, <2>2, <2>4, <2>5 DEF Inv
<1> QED BY <1>2, <1>3, <1>4, <1>5, <1>6

\* While a session runs no rollback does, so the session has no target to mind.
LEMMA SessionTarget ==
    ASSUME Inv, spc # "off", UNCHANGED cpc, target = Absent => target' = Absent
    PROVE  Target' /\ Apart' /\ cpc \in {"idle", "sweeping"}
BY DEF Inv, Apart, Target, Copying

LEMMA DropInv == Inv /\ Drop => Inv'
<1> SUFFICES ASSUME Inv, Drop PROVE Inv'
    OBVIOUS
<1>0. /\ spc = "drop" /\ ClearHead
      /\ UNCHANGED <<tmp, store, counts, mode, taken, rev, parent, raced, prune, cpc, todo, torn, hurt>>
    BY DEF Drop
<1>1. head' \in DIRS \cup {NoDir} /\ (Agree(head) => Agree(head')) /\ target' \in {target, Absent}
    BY <1>0, Cleared DEF Inv
<1>2. Target' /\ Apart' /\ cpc \in {"idle", "sweeping"}
    BY <1>0, <1>1, SessionTarget
<1>3. spc' \in {"drop", "running"} /\ live' \in 0..MaxDisk /\ disk' \in 0..MaxDisk
    BY <1>0, StoreAssumption DEF Drop, Inv, TypeOK, Attach, disks
<1>4. Agreeing'
    BY <1>0, <1>1 DEF Inv, Agreeing
<1>5. TypeOK'
    BY <1>0, <1>1, <1>3 DEF Inv, TypeOK, SessionPc, counts, prune
<1>6. Named' /\ Stages' /\ CommittedHeadIsPaired' /\ Pruning'
    BY <1>0, <1>2, <1>3 DEF Inv, Named, Stages, CommittedHeadIsPaired, Pruning, Staged, prune
<1> QED BY <1>2, <1>4, <1>5, <1>6 DEF Inv

\* The commit's files, one by one.
LEMMA StageInv == Inv /\ (StageRam \/ StageOverlays \/ StageManifest) => Inv'
<1> SUFFICES ASSUME Inv, StageRam \/ StageOverlays \/ StageManifest PROVE Inv'
    OBVIOUS
<1>0. /\ UNCHANGED <<head, store, disks, counts, taken, prune, cli, hurt>>
      /\ spc \in {"ram", "overlays", "manifest"}
    BY DEF StageRam, StageOverlays, StageManifest
<1>1. /\ Agreeing'
      /\ head' \in DIRS \cup {NoDir}
      /\ store' \in [IDS -> DIRS \cup {NoDir}]
      /\ \A i \in IDS : store'[i].man \in {i, Absent}
    BY <1>0, AgreeingKept
<1>2. Target' /\ Apart' /\ cpc \in {"idle", "sweeping"}
    BY <1>0, SessionTarget DEF cli
<1>3. CASE tmp = NoDir /\ Fails /\ UNCHANGED tmp
    <2>1. spc' \in {"running", "standdown"} /\ mode' = "live" /\ rev' = Absent /\ parent' = Absent /\ raced' = FALSE
        BY <1>3 DEF Fails, Returns
    <2>2. TypeOK'
        BY <1>0, <1>1, <1>3, <2>1 DEF Inv, TypeOK, SessionPc, counts, prune, disks, cli
    <2>3. Named' /\ Stages' /\ CommittedHeadIsPaired' /\ Pruning'
        BY <1>0, <1>2, <1>3, <2>1 DEF Inv, Named, Stages, CommittedHeadIsPaired, Pruning, Staged, prune, cli
    <2> QED BY <1>1, <1>2, <2>2, <2>3 DEF Inv
<1>4. ASSUME tmp' \in DIRS, Filled(tmp'), ~tmp'.pin, tmp'.man \in {rev, Absent},
             spc' \in {"overlays", "manifest", "archive"},
             ~raced => tmp'.ram = live,
             spc' # "overlays" /\ ~raced => tmp'.ovl = live,
             spc' = "archive" /\ ~raced => tmp'.fp = live /\ tmp'.man = rev,
             UNCHANGED <<mode, rev, parent, raced>>
      PROVE  Inv'
    <2>1. Stages'
        BY <1>0, <1>4, Absence DEF Inv, Stages, Staged, Filled, disks
    <2>2. TypeOK'
        BY <1>0, <1>1, <1>4 DEF Inv, TypeOK, SessionPc, counts, prune, disks, cli
    <2>3. Named' /\ CommittedHeadIsPaired' /\ Pruning'
        BY <1>0, <1>2, <1>4 DEF Inv, Named, CommittedHeadIsPaired, Pruning, Staged, prune, cli
    <2> QED BY <1>1, <1>2, <2>1, <2>2, <2>3 DEF Inv
<1>5. live \in 0..MaxDisk /\ rev \in IDS
    BY <1>0 DEF Inv, TypeOK, Stages, Staged
<1>6. tmp # NoDir => tmp \in DIRS /\ Filled(tmp) /\ ~tmp.pin /\ tmp.man \in {rev, Absent}
    BY <1>0 DEF Inv, TypeOK, Stages, Staged
<1>7. CASE StageRam /\ tmp # NoDir
    <2>1. tmp' = [tmp EXCEPT !.ram = live] /\ tmp \in DIRS /\ tmp' \in DIRS
        BY <1>5, <1>6, <1>7, Written DEF StageRam
    <2>2. tmp'.ram = live /\ tmp'.ovl = tmp.ovl /\ tmp'.fp = tmp.fp /\ tmp'.man = tmp.man /\ tmp'.pin = tmp.pin
        BY <2>1 DEF DIRS
    <2> QED BY <1>4, <1>6, <1>7, <2>1, <2>2 DEF StageRam, Filled
<1>8. CASE StageOverlays /\ tmp # NoDir
    <2>1. tmp' = [tmp EXCEPT !.ovl = live] /\ tmp \in DIRS /\ tmp' \in DIRS
        BY <1>5, <1>6, <1>8, Written DEF StageOverlays
    <2>2. tmp'.ovl = live /\ tmp'.ram = tmp.ram /\ tmp'.fp = tmp.fp /\ tmp'.man = tmp.man /\ tmp'.pin = tmp.pin
        BY <2>1 DEF DIRS
    <2>3. ~raced => tmp.ram = live
        BY <1>8 DEF Inv, Stages, StageOverlays, Staged
    <2> QED BY <1>4, <1>6, <1>8, <2>1, <2>2, <2>3 DEF StageOverlays, Filled
<1>9. CASE StageOverlays /\ tmp = NoDir
    <2>1. tmp' = [EmptyDir EXCEPT !.ovl = live] /\ tmp' \in DIRS
        BY <1>5, <1>9, Written, Absence DEF StageOverlays
    <2>2. tmp'.ovl = live /\ tmp'.ram = Absent /\ tmp'.fp = Absent /\ tmp'.man = Absent /\ ~tmp'.pin
        BY <2>1 DEF EmptyDir
    <2>3. raced
        BY <1>9 DEF Inv, Stages, StageOverlays, Staged
    <2> QED BY <1>4, <1>9, <2>1, <2>2, <2>3 DEF StageOverlays, Filled
<1>10. CASE StageManifest /\ tmp # NoDir
    <2>0. tmp' = [tmp EXCEPT !.fp = live, !.man = rev] /\ tmp \in DIRS
        BY <1>6, <1>10 DEF StageManifest
    <2>1. tmp' \in DIRS
        BY <1>5, <2>0, Written
    <2>2. tmp'.ovl = tmp.ovl /\ tmp'.ram = tmp.ram /\ tmp'.fp = live /\ tmp'.man = rev /\ tmp'.pin = tmp.pin
        BY <2>0 DEF DIRS
    <2>3. ~raced => tmp.ram = live /\ tmp.ovl = live
        BY <1>10 DEF Inv, Stages, StageManifest, Staged
    <2> QED BY <1>4, <1>6, <1>10, <2>1, <2>2, <2>3 DEF StageManifest, Filled
<1> QED BY <1>3, <1>7, <1>8, <1>9, <1>10 DEF StageRam, StageOverlays, StageManifest

\* The directories change places.
LEMMA SwapInv == Inv /\ (Archive \/ Move \/ Swap) => Inv'
<1> SUFFICES ASSUME Inv, Archive \/ Move \/ Swap PROVE Inv'
    OBVIOUS
<1>0. /\ spc \in {"archive", "move", "swap"}
      /\ UNCHANGED <<disks, counts, taken, prune, cpc, todo, torn>>
    BY DEF Archive, Move, Swap
<1>a. TypeOK /\ spc # "off" /\ spc \in Staged
    BY <1>0 DEF Inv, Staged
<1>1. CASE Archive /\ parent = Absent
    <2>1. ClearHead /\ UNCHANGED <<tmp, mode, rev, parent, raced, store, hurt>>
        BY <1>1 DEF Archive
    <2>2. head' \in DIRS \cup {NoDir} /\ (Agree(head) => Agree(head')) /\ target' \in {target, Absent}
        BY <2>1, <1>a, Cleared
    <2>3. Target' /\ Apart' /\ cpc \in {"idle", "sweeping"}
        BY <1>0, <1>a, <2>2, SessionTarget
    <2>4. Agreeing'
        BY <2>1, <2>2 DEF Inv, Agreeing
    <2>5. spc' \in {"archive", "swap"} /\ spc = "archive"
        BY <1>1 DEF Archive
    <2>6. Stages'
        BY <1>0, <2>1, <2>5 DEF Inv, Stages, Staged, Filled, disks
    <2>7. TypeOK'
        BY <1>0, <1>1, <2>1, <2>2, <2>3, <2>4, <2>5, <2>6 DEF Inv, TypeOK, SessionPc, counts, prune, disks
    <2>8. Named' /\ CommittedHeadIsPaired' /\ Pruning'
        BY <1>0, <1>1, <2>1, <2>2, <2>3, <2>4, <2>5, <2>6 DEF Inv, Named, CommittedHeadIsPaired, Pruning, Staged, prune
    <2> QED BY <1>0, <1>1, <2>1, <2>2, <2>3, <2>4, <2>5, <2>6, <2>7, <2>8 DEF Inv
<1>2. CASE Archive /\ parent # Absent
    <2>1. RemoveArchived(parent) /\ UNCHANGED <<tmp, mode, rev, parent, raced, head, target, hurt>>
        BY <1>2 DEF Archive
    <2>2. parent \in IDS
        BY <1>2, <1>a DEF TypeOK
    <2>3. StoreSub
        BY <1>a, <2>1, <2>2, Takes
    <2>4. /\ store' \in [IDS -> DIRS \cup {NoDir}]
          /\ \A j \in IDS : store'[j].man \in {j, Absent}
          /\ \A j \in IDS : Agree(store'[j])
        BY <1>a, <2>3, StoreKept DEF Inv, Agreeing
    <2>5. Target' /\ Apart' /\ cpc \in {"idle", "sweeping"}
        BY <1>0, <1>a, <2>1, SessionTarget
    <2>6. Agreeing'
        BY <2>1, <2>4 DEF Inv, Agreeing
    <2>7. spc' \in {"archive", "move"} /\ spc = "archive"
        BY <1>2 DEF Archive
    <2>8. Stages'
        BY <1>0, <2>1, <2>7 DEF Inv, Stages, Staged, Filled, disks
    <2>9. TypeOK'
        BY <1>0, <1>2, <2>1, <2>4, <2>5, <2>6, <2>7, <2>8 DEF Inv, TypeOK, SessionPc, counts, prune, disks
    <2>10. Named' /\ CommittedHeadIsPaired' /\ Pruning'
        BY <1>0, <1>2, <2>1, <2>4, <2>5, <2>6, <2>7, <2>8 DEF Inv, Named, CommittedHeadIsPaired, Pruning, Staged, prune
    <2> QED BY <1>0, <1>2, <2>1, <2>4, <2>5, <2>6, <2>7, <2>8, <2>9, <2>10 DEF Inv
<1>3. CASE Move
    <2>1. MoveHead(parent) /\ spc = "move" /\ spc' = "swap" /\ UNCHANGED <<tmp, mode, rev, parent, raced, hurt>>
        BY <1>3 DEF Move
    <2>2. parent \in IDS /\ head.man \in {parent, Absent}
        BY <1>a, <2>1 DEF Inv, TypeOK, Named, Staged
    <2>3. /\ store' \in [IDS -> DIRS \cup {NoDir}]
          /\ \A j \in IDS : store'[j].man \in {j, Absent}
          /\ \A j \in IDS : Agree(store'[j])
          /\ head' = NoDir
          /\ target' = (IF target = AtHead THEN parent ELSE target)
        BY <1>a, <2>1, <2>2, Filed DEF Inv
    <2>4. target = Absent => target' = Absent
        BY <2>3, Absence
    <2>5. Target' /\ Apart' /\ cpc \in {"idle", "sweeping"}
        BY <1>0, <1>a, <2>4, SessionTarget
    <2>6. Agreeing'
        BY <2>3, Absence DEF Agreeing
    <2>7. Stages'
        BY <1>0, <2>1 DEF Inv, Stages, Staged, Filled, disks
    <2>8. TypeOK'
        BY <1>0, <2>1, <2>2, <2>3, <2>5, <2>6, <2>7 DEF Inv, TypeOK, SessionPc, counts, prune, disks
    <2>9. Named' /\ CommittedHeadIsPaired' /\ Pruning'
        BY <1>0, <2>1, <2>2, <2>3, <2>5, <2>6, <2>7 DEF Inv, Named, CommittedHeadIsPaired, Pruning, Staged, prune
    <2> QED BY <1>0, <2>1, <2>2, <2>3, <2>5, <2>6, <2>7, <2>8, <2>9 DEF Inv
<1>4. CASE Swap /\ tmp = NoDir
    <2>1. /\ UNCHANGED <<head, tmp, target, hurt, store>>
          /\ spc' \in {"running", "standdown"} /\ mode' = "live" /\ rev' = Absent /\ parent' = Absent /\ raced' = FALSE
        BY <1>4 DEF Swap, Fails, Returns
    <2>2. /\ Agreeing'
          /\ head' \in DIRS \cup {NoDir}
          /\ store' \in [IDS -> DIRS \cup {NoDir}]
          /\ \A i \in IDS : store'[i].man \in {i, Absent}
        BY <2>1, AgreeingKept
    <2>3. Target' /\ Apart' /\ cpc \in {"idle", "sweeping"}
        BY <1>0, <1>a, <2>1, SessionTarget
    <2>4. TypeOK'
        BY <1>0, <2>1, <2>2, <2>3 DEF Inv, TypeOK, SessionPc, counts, prune, disks
    <2>5. Named' /\ Stages' /\ CommittedHeadIsPaired' /\ Pruning'
        BY <1>0, <2>1, <2>2, <2>3 DEF Inv, Named, Stages, CommittedHeadIsPaired, Pruning, Staged, prune
    <2> QED BY <1>0, <2>1, <2>2, <2>3, <2>4, <2>5 DEF Inv
<1>5. CASE Swap /\ tmp # NoDir
    <2>1. /\ head' = tmp /\ tmp' = NoDir /\ spc' = "verify" /\ spc = "swap"
          /\ target' \in {target, AtHead} /\ (target' # target => target = Staging)
          /\ hurt' = (hurt \/ raced)
          /\ UNCHANGED <<mode, rev, parent, raced, store>>
        BY <1>5 DEF Swap
    <2>2. tmp \in DIRS /\ Filled(tmp) /\ rev \in IDS /\ live \in 0..MaxDisk
        BY <1>5, <1>a DEF Inv, Stages, TypeOK
    <2>3. ~raced => tmp.ram = live /\ tmp.ovl = live /\ tmp.fp = live /\ tmp.man = rev
        BY <1>a, <2>1 DEF Inv, Stages, Staged
    <2>4. CommittedHeadIsPaired'
        <3>1. ~raced => Whole(tmp)
            BY <2>2, <2>3, StoreAssumption DEF Whole, Readable, Absent
        <3> QED BY <1>0, <2>1, <2>2, <3>1 DEF CommittedHeadIsPaired, Filled, disks, Whole
    <2>5. Agreeing'
        BY <2>1, <2>2 DEF Inv, Agreeing, Agree, Filled
    <2>6. target = Absent => target' = Absent
        BY <2>1, Absence
    <2>7. Target' /\ Apart' /\ cpc \in {"idle", "sweeping"}
        BY <1>0, <1>a, <2>6, SessionTarget
    <2>8. Stages' /\ Named'
        BY <1>0, <2>1, <2>7, Absence DEF Stages, Named, Staged
    <2> QED BY <1>0, <2>1, <2>2, <2>4, <2>5, <2>7, <2>8 DEF Inv, TypeOK, Pruning,
           SessionPc, counts, prune, disks
<1> QED BY <1>1, <1>2, <1>3, <1>4, <1>5 DEF Swap

\* Pruning takes nothing but what it looked at, and no name.
LEMMA PruneOneInv ==
    ASSUME Inv, PruneOne
    PROVE  /\ store' \in [IDS -> DIRS \cup {NoDir}]
           /\ \A j \in IDS : store'[j].man \in {j, Absent}
           /\ \A j \in IDS : Agree(store'[j])
           /\ doomed' \subseteq doomed /\ late' \subseteq doomed'
<1>1. TypeOK
    BY DEF Inv
<1>2. StoreSub
    BY <1>1, Takes
<1> QED BY <1>1, <1>2, StoreKept DEF Inv, Agreeing, PruneOne

\* What a prune looks at.
LEMMA ExcessIds == Excess(store) \subseteq IDS
BY DEF Excess, Prunable

LEMMA VerifyInv == Inv /\ (Verify \/ Prune) => Inv'
<1> SUFFICES ASSUME Inv, Verify \/ Prune PROVE Inv'
    OBVIOUS
<1>0. spc \in {"verify", "prune"} /\ UNCHANGED <<head, tmp, disks, counts, cli, hurt>>
    BY DEF Verify, Prune
<1>1. Target' /\ Apart' /\ cpc \in {"idle", "sweeping"}
    BY <1>0, SessionTarget DEF cli
<1>2. CASE Verify
    <2>1. UNCHANGED <<store, taken, late>>
        BY <1>2 DEF Verify
    <2>2. /\ Agreeing'
          /\ head' \in DIRS \cup {NoDir}
          /\ store' \in [IDS -> DIRS \cup {NoDir}]
          /\ \A i \in IDS : store'[i].man \in {i, Absent}
        BY <1>0, <2>1, AgreeingKept
    <2>3. doomed = {}
        BY <1>1, <1>2 DEF Inv, Pruning, Verify
    <2>4. \/ /\ spc' \in {"running", "standdown"} /\ mode' = "live" /\ rev' = Absent /\ parent' = Absent /\ raced' = FALSE
             /\ doomed' = doomed
          \/ spc' = "prune" /\ doomed' \subseteq IDS /\ UNCHANGED <<mode, rev, parent, raced>>
        BY <1>2, ExcessIds DEF Verify, Fails, Returns
    <2>5. TypeOK'
        BY <1>0, <1>2, <2>1, <2>2, <2>3, <2>4 DEF Inv, TypeOK, SessionPc, counts, disks, cli
    <2>6. Stages' /\ Named' /\ CommittedHeadIsPaired' /\ Pruning'
        BY <1>0, <1>1, <2>1, <2>3, <2>4 DEF Inv, Stages, Named, CommittedHeadIsPaired, Pruning, Staged, cli
    <2> QED BY <1>1, <2>2, <2>5, <2>6 DEF Inv
<1>3. CASE Prune /\ PruneOne
    <2>1. UNCHANGED session
        BY <1>3 DEF Prune, PruneOne
    <2>2. /\ store' \in [IDS -> DIRS \cup {NoDir}]
          /\ \A j \in IDS : store'[j].man \in {j, Absent}
          /\ \A j \in IDS : Agree(store'[j])
          /\ doomed' \subseteq doomed /\ late' \subseteq doomed'
        BY <1>3, PruneOneInv
    <2>3. TypeOK'
        BY <1>0, <2>1, <2>2 DEF Inv, TypeOK, session, counts, disks, cli
    <2>4. Stages' /\ Named' /\ CommittedHeadIsPaired' /\ Pruning' /\ Agreeing'
        BY <1>0, <1>1, <1>3, <2>1, <2>2 DEF Inv, Stages, Named, CommittedHeadIsPaired, Pruning, Staged, cli,
           session, Agreeing, Prune
    <2> QED BY <1>1, <2>3, <2>4 DEF Inv
<1>4. CASE Prune /\ ~PruneOne
    <2>1. /\ UNCHANGED <<store, prune>> /\ doomed = {}
          /\ spc' \in {"running", "off"} /\ mode' = "live" /\ rev' = Absent /\ parent' = Absent /\ raced' = FALSE
          /\ taken' \in BOOLEAN
        BY <1>4 DEF Prune, Ends, Returns
    <2>2. /\ Agreeing'
          /\ head' \in DIRS \cup {NoDir}
          /\ store' \in [IDS -> DIRS \cup {NoDir}]
          /\ \A i \in IDS : store'[i].man \in {i, Absent}
        BY <1>0, <2>1, AgreeingKept
    <2>3. TypeOK'
        BY <1>0, <2>1, <2>2 DEF Inv, TypeOK, SessionPc, counts, disks, cli, prune
    <2>4. Stages' /\ Named' /\ CommittedHeadIsPaired' /\ Pruning'
        BY <1>0, <1>1, <2>1 DEF Inv, Stages, Named, CommittedHeadIsPaired, Pruning, Staged, cli, prune
    <2> QED BY <1>1, <2>2, <2>3, <2>4 DEF Inv
<1> QED BY <1>2, <1>3, <1>4

LEMMA StandDownInv == Inv /\ StandDown => Inv'
<1> SUFFICES ASSUME Inv, StandDown PROVE Inv'
    OBVIOUS
<1>0. spc = "standdown" /\ UNCHANGED <<tmp, store, disks, counts, prune, cpc, todo, torn, hurt>>
    BY DEF StandDown
<1>1. /\ head' \in DIRS \cup {NoDir} /\ (Agree(head) => Agree(head'))
      /\ target' \in {target, Absent}
    <2>1. CASE ClearHead
        BY <2>1, Cleared DEF Inv
    <2>2. CASE UNCHANGED <<head, target>>
        BY <2>2 DEF Inv, TypeOK
    <2> QED BY <2>1, <2>2 DEF StandDown
<1>2. Target' /\ Apart' /\ cpc \in {"idle", "sweeping"}
    BY <1>0, <1>1, SessionTarget
<1>3. \/ spc' = spc /\ UNCHANGED <<mode, taken, rev, parent, raced>>
      \/ spc' = "off" /\ mode' = "live" /\ rev' = Absent /\ parent' = Absent /\ raced' = FALSE /\ taken' = FALSE
      \/ /\ spc' = "retire" /\ parent' = head.man /\ head.man \in IDS
         /\ UNCHANGED <<head, mode, taken, rev, raced>>
    BY DEF StandDown, Ends, Returns, session, Readable
<1>4. Agreeing'
    BY <1>0, <1>1 DEF Inv, Agreeing
<1>5. TypeOK'
    BY <1>0, <1>1, <1>3 DEF Inv, TypeOK, SessionPc, counts, disks, prune
<1>6. Stages' /\ Named' /\ CommittedHeadIsPaired' /\ Pruning'
    BY <1>0, <1>2, <1>3, Absence DEF Inv, Stages, Named, CommittedHeadIsPaired, Pruning, Staged, prune
<1> QED BY <1>2, <1>4, <1>5, <1>6 DEF Inv

LEMMA RetireInv == Inv /\ Retire => Inv'
<1> SUFFICES ASSUME Inv, Retire PROVE Inv'
    OBVIOUS
<1>0. spc \in {"retire", "file", "filed", "trim"} /\ UNCHANGED <<tmp, disks, counts, cpc, todo, torn, hurt>>
    BY DEF Retire
<1>a. TypeOK
    BY DEF Inv
<1>b. spc \in {"retire", "file"} => parent \in IDS /\ head.man \in {parent, Absent}
    BY DEF Inv, TypeOK, Named
<1>1. /\ head' \in DIRS \cup {NoDir} /\ Agree(head')
      /\ store' \in [IDS -> DIRS \cup {NoDir}]
      /\ \A j \in IDS : store'[j].man \in {j, Absent}
      /\ \A j \in IDS : Agree(store'[j])
      /\ target' \in IDS \cup {target} /\ (target = Absent => target' = Absent)
    <2>1. CASE spc = "retire"
        <3>1. RemoveArchived(parent) /\ UNCHANGED <<head, target>>
            BY <2>1 DEF Retire
        <3>2. StoreSub
            BY <1>a, <1>b, <2>1, <3>1, Takes
        <3> QED BY <1>a, <3>1, <3>2, StoreKept DEF Inv, Agreeing, TypeOK
    <2>2. CASE spc = "file"
        <3>1. MoveHead(parent)
            BY <2>2 DEF Retire
        <3> QED BY <1>a, <1>b, <2>2, <3>1, Filed, Absence DEF Inv
    <2>3. CASE spc = "filed" \/ (spc = "trim" /\ ~PruneOne)
        <3>1. UNCHANGED <<head, store, target>>
            BY <2>3 DEF Retire
        <3> QED BY <3>1, AgreeingKept DEF Agreeing
    <2>4. CASE spc = "trim" /\ PruneOne
        <3>1. UNCHANGED <<head, target>>
            BY <2>4 DEF Retire
        <3> QED BY <2>4, <3>1, PruneOneInv DEF Inv, Agreeing, TypeOK
    <2> QED BY <1>0, <2>1, <2>2, <2>3, <2>4
<1>2. Target' /\ Apart' /\ cpc \in {"idle", "sweeping"}
    BY <1>0, <1>1, SessionTarget
<1>3. \/ /\ spc = "retire" /\ spc' \in {"retire", "file"}
         /\ UNCHANGED <<head, taken, mode, rev, parent, raced, prune>>
      \/ spc = "file" /\ spc' = "filed" /\ UNCHANGED <<taken, mode, rev, parent, raced, prune>>
      \/ /\ spc = "filed" /\ spc' = "trim" /\ doomed' \subseteq IDS
         /\ UNCHANGED <<taken, mode, rev, parent, raced, late>>
      \/ /\ spc = "trim" /\ doomed' \subseteq doomed /\ late' \subseteq doomed' /\ PruneOne
         /\ UNCHANGED <<spc, taken, mode, rev, parent, raced>>
      \/ /\ spc = "trim" /\ doomed = {} /\ spc' = "off" /\ mode' = "live" /\ rev' = Absent
         /\ parent' = Absent /\ raced' = FALSE /\ taken' = FALSE /\ UNCHANGED prune
    BY ExcessIds, PruneOneInv DEF Retire, Ends, Returns, session
<1>4. spc = "filed" => doomed = {}
    BY <1>2 DEF Inv, Pruning
<1>5. Agreeing'
    BY <1>1 DEF Agreeing
<1>6. TypeOK'
    <2>1. spc' \in SessionPc /\ mode' \in {"live", "stop"} /\ taken' \in BOOLEAN /\ rev' \in IDS \cup {Absent}
          /\ parent' \in IDS \cup {Absent} /\ raced' \in BOOLEAN
        BY <1>3 DEF Inv, TypeOK, SessionPc
    <2>2. doomed' \subseteq IDS /\ late' \subseteq doomed'
        BY <1>3, <1>4 DEF Inv, TypeOK, prune
    <2> QED BY <1>0, <1>1, <2>1, <2>2 DEF Inv, TypeOK, counts, disks
<1>7. Stages' /\ Named' /\ CommittedHeadIsPaired' /\ Pruning'
    BY <1>0, <1>2, <1>3, Absence DEF Inv, Stages, Named, CommittedHeadIsPaired, Pruning, Staged, prune
<1> QED BY <1>2, <1>5, <1>6, <1>7 DEF Inv

LEMMA HousekeepingInv ==
    Inv /\ (RunGc \/ \E i \in IDS : PinRevision(i) \/ DeleteRevision(i)) => Inv'
<1> SUFFICES ASSUME Inv, RunGc \/ \E i \in IDS : PinRevision(i) \/ DeleteRevision(i) PROVE Inv'
    OBVIOUS
<1>a. cpc = "idle" /\ UNCHANGED <<tmp, live, disk, minted, deaths, spc, mode, taken, rev, parent, raced,
                                  doomed, todo, torn, hurt>>
    BY DEF RunGc, PinRevision, DeleteRevision, disks, counts, session, cli, prune
<1>1. CASE RunGc \/ \E i \in IDS : DeleteRevision(i)
    <2>1. /\ UNCHANGED <<head, store, late>>
          /\ cpc' = "sweeping" /\ target' \in IDS \cup {Staging}
          /\ sweeps' \in 0..MaxSweeps
        BY <1>1, StoreAssumption DEF RunGc, DeleteRevision, StartSweep, Inv, TypeOK, prune
    <2>2. /\ Agreeing'
          /\ head' \in DIRS \cup {NoDir}
          /\ store' \in [IDS -> DIRS \cup {NoDir}]
          /\ \A i \in IDS : store'[i].man \in {i, Absent}
        BY <2>1, AgreeingKept
    <2>3. TypeOK'
        BY <1>a, <2>1, <2>2 DEF Inv, TypeOK, CliPc
    <2>4. Apart' /\ Target' /\ Pruning'
        BY <1>a, <2>1 DEF Inv, Apart, Target, Pruning, Copying
    <2>5. Named' /\ Stages' /\ CommittedHeadIsPaired'
        BY <1>a, <2>1 DEF Inv, Named, Stages, CommittedHeadIsPaired, Filled, Whole, Readable
    <2> QED BY <2>2, <2>3, <2>4, <2>5 DEF Inv
<1>2. ASSUME NEW i \in IDS, PinRevision(i) PROVE Inv'
    <2>1. UNCHANGED <<sweeps, cpc, target>>
        BY <1>2 DEF PinRevision, counts, cli
    <2>2. /\ head' \in DIRS \cup {NoDir} /\ head'.man = head.man /\ head'.ram = head.ram /\ head'.ovl = head.ovl
          /\ head'.fp = head.fp
          /\ store' \in [IDS -> DIRS \cup {NoDir}]
          /\ \A j \in IDS : store'[j].man = store[j].man /\ store'[j].ram = store[j].ram /\ store'[j].fp = store[j].fp
          /\ late' \subseteq doomed
        <3>0. TypeOK
            BY DEF Inv
        <3>1. CASE InArchive(i)
            <4>1. store[i] \in DIRS
                BY <3>0, <3>1, Exists DEF InArchive, TypeOK
            <4>2. store' = [store EXCEPT ![i] = [store[i] EXCEPT !.pin = ~store[i].pin]]
                BY <1>2, <3>1 DEF PinRevision
            <4>3. store[i].pin \in BOOLEAN
                BY <4>1 DEF DIRS
            <4>4. [store[i] EXCEPT !.pin = ~store[i].pin] \in DIRS
                BY <4>1, <4>3, Written
            <4>5. UNCHANGED head /\ late' = late \cup ({i} \cap doomed)
                BY <1>2, <3>1 DEF PinRevision
            <4> QED BY <3>0, <4>1, <4>2, <4>3, <4>4, <4>5, PinDir DEF TypeOK
        <3>2. CASE ~InArchive(i)
            <4>1. head.man = i /\ UNCHANGED <<store, late>> /\ head' = [head EXCEPT !.pin = ~head.pin]
                BY <1>2, <3>2 DEF PinRevision
            <4>2. head \in DIRS
                BY <3>0, <4>1, Exists, Absence DEF TypeOK
            <4>3. head.pin \in BOOLEAN
                BY <4>2 DEF DIRS
            <4>4. [head EXCEPT !.pin = ~head.pin] \in DIRS
                BY <4>2, <4>3, Written
            <4> QED BY <3>0, <4>1, <4>2, <4>3, <4>4, PinDir DEF TypeOK
        <3> QED BY <3>1, <3>2
    <2>3. TypeOK'
        BY <1>a, <2>1, <2>2 DEF Inv, TypeOK
    <2>4. Agreeing'
        BY <2>2 DEF Inv, Agreeing, Agree
    <2>5. Apart' /\ Stages' /\ Target' /\ Pruning'
        BY <1>a, <2>1 DEF Inv, Apart, Stages, Target, Pruning, Copying, Filled
    <2>6. Named' /\ CommittedHeadIsPaired'
        BY <1>a, <2>1, <2>2 DEF Inv, Named, CommittedHeadIsPaired, Whole, Readable
    <2> QED BY <2>3, <2>4, <2>5, <2>6 DEF Inv
<1> QED BY <1>1, <1>2

LEMMA SweepInv == Inv /\ Sweep => Inv'
<1> SUFFICES ASSUME Inv, Sweep PROVE Inv'
    OBVIOUS
<1>0. /\ cpc = "sweeping" /\ cpc' \in {"idle", "sweeping"}
      /\ target' = IF cpc' = "idle" THEN Absent ELSE target
      /\ UNCHANGED <<disks, counts, spc, mode, taken, rev, parent, prune, todo, torn>>
    BY DEF Sweep
<1>a. TypeOK
    BY DEF Inv
<1>1. Apart' /\ Target' /\ target' \in IDS \cup {Absent, Staging, AtHead}
    BY <1>0, <1>a DEF Apart, Target, Copying, TypeOK
<1>b. Pruning'
    BY <1>0 DEF Inv, Pruning, prune
<1>2. CASE target \in IDS /\ RemoveArchived(target) /\ UNCHANGED <<head, tmp, raced, hurt>>
    <2>1. StoreSub
        BY <1>a, <1>2, Takes
    <2>2. /\ store' \in [IDS -> DIRS \cup {NoDir}]
          /\ \A j \in IDS : store'[j].man \in {j, Absent}
          /\ \A j \in IDS : Agree(store'[j])
        BY <1>a, <2>1, StoreKept DEF Inv, Agreeing
    <2>3. Agreeing'
        BY <1>2, <2>2 DEF Inv, Agreeing
    <2>4. TypeOK'
        BY <1>0, <1>1, <1>2, <2>2 DEF Inv, TypeOK, CliPc, counts, disks, prune
    <2>5. Stages' /\ Named' /\ CommittedHeadIsPaired'
        BY <1>0, <1>2 DEF Inv, Stages, Named, CommittedHeadIsPaired, Filled, Whole, Readable, disks
    <2> QED BY <1>1, <1>b, <2>3, <2>4, <2>5 DEF Inv
<1>3. CASE tmp' \in Shrink(tmp) /\ raced' = (raced \/ spc \in Staged) /\ UNCHANGED <<head, store, hurt>>
    <2>1. tmp' \in DIRS \cup {NoDir} /\ Sub(tmp', tmp) /\ (tmp = NoDir => tmp' = NoDir)
        BY <1>3, <1>a, ShrinkDir DEF TypeOK
    <2>2. /\ Agreeing'
          /\ head' \in DIRS \cup {NoDir}
          /\ store' \in [IDS -> DIRS \cup {NoDir}]
          /\ \A i \in IDS : store'[i].man \in {i, Absent}
        BY <1>3, AgreeingKept
    <2>3. TypeOK'
        BY <1>0, <1>1, <1>3, <2>1, <2>2 DEF Inv, TypeOK, CliPc, counts, disks, prune
    <2>4. Stages'
        <3>1. tmp' # NoDir => tmp'.ovl \in 0..MaxDisk /\ Absent \notin 0..MaxDisk
            BY <2>1 DEF DIRS, Absent
        <3> QED BY <1>0, <1>3, <2>1, <3>1 DEF Inv, Stages, Sub, Filled, disks, Staged
    <2>5. Named' /\ CommittedHeadIsPaired'
        BY <1>0, <1>3 DEF Inv, Named, CommittedHeadIsPaired, Whole, Readable, disks, Staged
    <2> QED BY <1>1, <1>b, <2>2, <2>3, <2>4, <2>5 DEF Inv
<1>4. CASE /\ head' \in Shrink(head) \ {NoDir} /\ hurt' = TRUE /\ raced' = (raced \/ spc = "verify")
           /\ UNCHANGED <<tmp, store, cpc>>
    <2>1. head' \in DIRS /\ Sub(head', head)
        BY <1>4, <1>a, ShrinkDir DEF TypeOK
    <2>2. Agreeing'
        BY <1>4, <2>1, SubAgree DEF Inv, Agreeing
    <2>3. TypeOK'
        BY <1>0, <1>1, <1>4, <2>1 DEF Inv, TypeOK, CliPc, counts, disks, prune
    <2>4. Stages'
        BY <1>0, <1>4 DEF Inv, Stages, Filled, disks, Staged
    <2>5. Named'
        BY <1>0, <1>4, <2>1 DEF Inv, Named, Sub
    <2>6. CommittedHeadIsPaired'
        <3>1. head'.ovl \in 0..MaxDisk /\ Absent \notin 0..MaxDisk
            BY <2>1 DEF DIRS, Absent
        <3> QED BY <1>0, <1>4, <2>1, <3>1 DEF Inv, CommittedHeadIsPaired, Sub, disks
    <2> QED BY <1>1, <1>b, <2>2, <2>3, <2>4, <2>5, <2>6 DEF Inv
<1>5. CASE UNCHANGED <<head, tmp, store, raced, hurt>>
    <2>1. /\ Agreeing'
          /\ head' \in DIRS \cup {NoDir}
          /\ store' \in [IDS -> DIRS \cup {NoDir}]
          /\ \A i \in IDS : store'[i].man \in {i, Absent}
        BY <1>5, AgreeingKept
    <2>2. TypeOK'
        BY <1>0, <1>1, <1>5, <2>1 DEF Inv, TypeOK, CliPc, counts, disks, prune
    <2>3. Stages' /\ Named' /\ CommittedHeadIsPaired'
        BY <1>0, <1>5 DEF Inv, Stages, Named, CommittedHeadIsPaired, Filled, Whole, Readable, disks
    <2> QED BY <1>1, <1>b, <2>1, <2>2, <2>3 DEF Inv
<1> QED BY <1>2, <1>3, <1>4, <1>5 DEF Sweep

\* While a rollback runs no session does.
LEMMA RollbackFrame ==
    ASSUME Inv, spc = "off", UNCHANGED <<tmp, session>>
    PROVE  /\ Apart' /\ Stages' /\ CommittedHeadIsPaired'
           /\ spc' \in SessionPc /\ mode' \in {"live", "stop"} /\ taken' \in BOOLEAN /\ rev' \in IDS \cup {Absent}
           /\ parent' \in IDS \cup {Absent} /\ raced' \in BOOLEAN /\ tmp' \in DIRS \cup {NoDir}
           /\ Named' <=> /\ cpc' \in {"filetarget", "movetarget"} => head'.man = target'
                         /\ cpc' \in {"filehead", "movehead"} => Readable(head')
BY DEF Inv, Apart, Stages, CommittedHeadIsPaired, session, TypeOK, Named, Staged, Readable

\* A rollback is one as long as it is neither idle nor sweeping.
LEMMA RollbackOff ==
    ASSUME Inv, cpc \notin {"idle", "sweeping"}
    PROVE  spc = "off" /\ target \in IDS
BY DEF Inv, Apart, Target

LEMMA RollbackInv == Inv /\ (\E i \in IDS : Rollback(i)) => Inv'
<1> SUFFICES ASSUME Inv, NEW i \in IDS, Rollback(i) PROVE Inv'
    OBVIOUS
<1>0. /\ spc = "off" /\ cpc = "idle" /\ minted < MaxId /\ target' = i
      /\ UNCHANGED <<head, tmp, store, disks, counts, session, prune, todo, torn, hurt>>
      /\ \/ store[i].man # Absent /\ cpc' = "check"
         \/ head.man = i /\ cpc' = "filetarget"
    BY DEF Rollback, InArchive
<1>1. /\ Apart' /\ Stages' /\ CommittedHeadIsPaired' /\ Named'
      /\ spc' \in SessionPc /\ mode' \in {"live", "stop"} /\ taken' \in BOOLEAN /\ rev' \in IDS \cup {Absent}
      /\ parent' \in IDS \cup {Absent} /\ raced' \in BOOLEAN /\ tmp' \in DIRS \cup {NoDir}
    BY <1>0, RollbackFrame
<1>2. /\ Agreeing'
      /\ head' \in DIRS \cup {NoDir}
      /\ store' \in [IDS -> DIRS \cup {NoDir}]
      /\ \A j \in IDS : store'[j].man \in {j, Absent}
    BY <1>0, AgreeingKept
<1>3. TypeOK'
    BY <1>0, <1>1, <1>2 DEF Inv, TypeOK, CliPc, counts, disks, prune
<1>4. Target'
    BY <1>0, <1>2 DEF Target, Copying, counts
<1>5. Pruning'
    BY <1>0 DEF Inv, Pruning, prune, session
<1> QED BY <1>1, <1>2, <1>3, <1>4, <1>5 DEF Inv

LEMMA FileTargetInv == Inv /\ RollbackFileTarget => Inv'
<1> SUFFICES ASSUME Inv, RollbackFileTarget PROVE Inv'
    OBVIOUS
<1>0. /\ cpc \in {"filetarget", "movetarget"}
      /\ UNCHANGED <<tmp, disks, counts, session, prune, todo, torn, hurt>>
    BY DEF RollbackFileTarget
<1>a. TypeOK /\ spc = "off" /\ target \in IDS /\ head.man = target /\ minted < MaxId
    BY <1>0, RollbackOff DEF Inv, Named, Target
<1>1. /\ head' \in DIRS \cup {NoDir} /\ Agree(head')
      /\ store' \in [IDS -> DIRS \cup {NoDir}]
      /\ \A j \in IDS : store'[j].man \in {j, Absent}
      /\ \A j \in IDS : Agree(store'[j])
      /\ target' = target
      /\ cpc' \in {"filetarget", "movetarget", "check"}
      /\ cpc' = "check" => store'[target].man = target
      /\ cpc' # "check" => head' = head
    <2>1. CASE cpc = "filetarget"
        <3>1. /\ RemoveArchived(target) /\ UNCHANGED <<head, target>>
              /\ cpc' \in {"filetarget", "movetarget"}
            BY <2>1 DEF RollbackFileTarget
        <3>2. StoreSub
            BY <1>a, <3>1, Takes
        <3> QED BY <1>a, <3>1, <3>2, StoreKept DEF Inv, Agreeing, TypeOK
    <2>2. CASE cpc = "movetarget"
        <3>1. MoveHead(target) /\ cpc' = "check"
            BY <2>2 DEF RollbackFileTarget
        <3>2. target # AtHead
            BY <1>a, Absence
        <3> QED BY <1>a, <3>1, <3>2, Filed, Absence DEF Inv
    <2> QED BY <1>0, <2>1, <2>2
<1>2. /\ Apart' /\ Stages' /\ CommittedHeadIsPaired' /\ Named'
      /\ spc' \in SessionPc /\ mode' \in {"live", "stop"} /\ taken' \in BOOLEAN /\ rev' \in IDS \cup {Absent}
      /\ parent' \in IDS \cup {Absent} /\ raced' \in BOOLEAN /\ tmp' \in DIRS \cup {NoDir}
    BY <1>0, <1>a, <1>1, RollbackFrame
<1>3. TypeOK'
    BY <1>0, <1>a, <1>1, <1>2 DEF TypeOK, CliPc, counts, disks, prune
<1>4. Target'
    BY <1>0, <1>a, <1>1 DEF Target, Copying, counts
<1>5. Pruning' /\ Agreeing'
    BY <1>0, <1>1 DEF Inv, Pruning, prune, session, Agreeing
<1> QED BY <1>2, <1>3, <1>4, <1>5 DEF Inv

LEMMA FileHeadInv == Inv /\ RollbackFileHead => Inv'
<1> SUFFICES ASSUME Inv, RollbackFileHead PROVE Inv'
    OBVIOUS
<1>0. /\ cpc \in {"check", "filehead", "movehead", "clearhead"}
      /\ UNCHANGED <<tmp, disks, counts, session, prune, todo, torn, hurt>>
    BY DEF RollbackFileHead
<1>a. TypeOK /\ spc = "off" /\ target \in IDS /\ minted < MaxId
    BY <1>0, RollbackOff DEF Inv, Target
<1>b. target # AtHead
    BY <1>a, Absence
<1>1. /\ head' \in DIRS \cup {NoDir} /\ Agree(head')
      /\ store' \in [IDS -> DIRS \cup {NoDir}]
      /\ \A j \in IDS : store'[j].man \in {j, Absent}
      /\ \A j \in IDS : Agree(store'[j])
      /\ target' = (IF cpc' = "idle" THEN Absent ELSE target)
      /\ cpc' \in {"idle", "filehead", "movehead", "clearhead", "mkdir"}
      /\ cpc' \in {"clearhead", "mkdir"} => store'[target].man = target
      /\ cpc' \in {"filehead", "movehead"} =>
            Readable(head') /\ (store'[target].man = target \/ head'.man = target)
    <2>1. CASE cpc = "check"
        <3>1. UNCHANGED <<head, store>> /\ store[target].man = target
            BY <2>1 DEF RollbackFileHead, Inv, Target
        <3>2. /\ target' = (IF cpc' = "idle" THEN Absent ELSE target)
              /\ cpc' \in {"idle", "filehead", "clearhead"}
              /\ cpc' = "filehead" => Readable(head)
            BY <2>1 DEF RollbackFileHead
        <3> QED BY <3>1, <3>2, AgreeingKept DEF Agreeing, Readable
    <2>2. CASE cpc = "filehead"
        <3>1. /\ RemoveArchived(head.man) /\ UNCHANGED <<head, target>>
              /\ cpc' \in {"filehead", "movehead"}
            BY <2>2 DEF RollbackFileHead
        <3>2. head.man \in IDS /\ (store[target].man = target \/ head.man = target)
            BY <2>2 DEF Inv, Named, Target, Readable
        <3>3. StoreSub
            BY <1>a, <3>1, <3>2, Takes
        <3>4. head.man # target => store'[target] = store[target]
            BY <1>a, <3>1, <3>2 DEF RemoveArchived, TypeOK
        <3> QED BY <1>a, <3>1, <3>2, <3>3, <3>4, StoreKept DEF Inv, Agreeing, TypeOK, Readable
    <2>3. CASE cpc = "movehead"
        <3>1. MoveHead(head.man) /\ cpc' = "mkdir"
            BY <2>3 DEF RollbackFileHead
        <3>2. head.man \in IDS /\ (store[target].man = target \/ head.man = target)
            BY <2>3 DEF Inv, Named, Target, Readable
        <3>3. /\ store' \in [IDS -> DIRS \cup {NoDir}]
              /\ \A j \in IDS : store'[j].man \in {j, Absent}
              /\ \A j \in IDS : Agree(store'[j])
              /\ head' = NoDir /\ store'[head.man] = head /\ \A j \in IDS \ {head.man} : store'[j] = store[j]
              /\ target' = (IF target = AtHead THEN head.man ELSE target)
            BY <1>a, <3>1, <3>2, Filed DEF Inv
        <3> QED BY <1>a, <1>b, <3>1, <3>2, <3>3, Absence
    <2>4. CASE cpc = "clearhead"
        <3>1. ClearHead /\ UNCHANGED store /\ store[target].man = target /\ cpc' \in {"clearhead", "mkdir"}
            BY <2>4 DEF RollbackFileHead, Inv, Target
        <3>2. /\ head' \in DIRS \cup {NoDir} /\ (Agree(head) => Agree(head'))
              /\ target' = (IF head' = NoDir /\ target = AtHead THEN Absent ELSE target)
            BY <1>a, <3>1, Cleared
        <3> QED BY <1>a, <1>b, <3>1, <3>2 DEF Inv, Agreeing, TypeOK
    <2> QED BY <1>0, <2>1, <2>2, <2>3, <2>4
<1>2. /\ Apart' /\ Stages' /\ CommittedHeadIsPaired' /\ Named'
      /\ spc' \in SessionPc /\ mode' \in {"live", "stop"} /\ taken' \in BOOLEAN /\ rev' \in IDS \cup {Absent}
      /\ parent' \in IDS \cup {Absent} /\ raced' \in BOOLEAN /\ tmp' \in DIRS \cup {NoDir}
    BY <1>0, <1>a, <1>1, RollbackFrame
<1>3. TypeOK'
    BY <1>0, <1>a, <1>1, <1>2 DEF TypeOK, CliPc, counts, disks, prune
<1>4. Target'
    BY <1>0, <1>a, <1>1 DEF Target, Copying, counts
<1>5. Pruning' /\ Agreeing'
    BY <1>0, <1>1 DEF Inv, Pruning, prune, session, Agreeing
<1> QED BY <1>2, <1>3, <1>4, <1>5 DEF Inv

LEMMA CopyInv == Inv /\ RollbackCopy => Inv'
<1> SUFFICES ASSUME Inv, RollbackCopy PROVE Inv'
    OBVIOUS
<1>0. /\ cpc \in {"mkdir", "copy"}
      /\ UNCHANGED <<tmp, store, disks, counts, session, prune, target, torn, hurt>>
    BY DEF RollbackCopy
<1>a. TypeOK /\ spc = "off" /\ target \in IDS /\ minted < MaxId /\ store[target].man = target
    BY <1>0, RollbackOff DEF Inv, Target, Copying
<1>b. store[target] \in DIRS /\ Agree(store[target])
    BY <1>a, Exists, Absence DEF TypeOK, Inv, Agreeing
<1>c. /\ EmptyDir["man"] = Absent /\ EmptyDir["ram"] = Absent /\ EmptyDir["fp"] = Absent
      /\ EmptyDir["ovl"] = 0 /\ EmptyDir["pin"] = FALSE
    BY DEF EmptyDir
<1>1. /\ cpc' \in {"copy", "unlink"}
      /\ head' \in DIRS
      /\ todo' \subseteq PARTS
      /\ \A p \in PARTS : head'[p] = store[target][p] \/ (p \in todo' /\ head'[p] = EmptyDir[p])
      /\ cpc' = "unlink" => todo' = {}
    <2>1. CASE cpc = "mkdir"
        <3>1. head' = EmptyDir /\ todo' = PARTS /\ cpc' = "copy"
            BY <2>1 DEF RollbackCopy
        <3> QED BY <3>1, Absence
    <2>2. CASE cpc = "copy"
        <3>1. PICK p \in todo : head' = [head EXCEPT ![p] = store[target][p]] /\ todo' = todo \ {p}
            BY <2>2 DEF RollbackCopy
        <3>2. cpc' = IF todo' = {} THEN "unlink" ELSE "copy"
            BY <2>2 DEF RollbackCopy
        <3>3. /\ head \in DIRS /\ todo \subseteq PARTS
              /\ \A q \in PARTS : head[q] = store[target][q] \/ (q \in todo /\ head[q] = EmptyDir[q])
            BY <1>a, <2>2 DEF Inv, Target, Copying, TypeOK
        <3>4. head' \in DIRS /\ \A q \in PARTS : head'[q] = IF q = p THEN store[target][p] ELSE head[q]
            <4>0. p \in PARTS
                BY <3>1, <3>3
            <4>1. CASE p = "man"
                BY <1>b, <3>1, <3>3, <4>1 DEF DIRS, PARTS
            <4>2. CASE p = "ram"
                BY <1>b, <3>1, <3>3, <4>2 DEF DIRS, PARTS
            <4>3. CASE p = "ovl"
                BY <1>b, <3>1, <3>3, <4>3 DEF DIRS, PARTS
            <4>4. CASE p = "fp"
                BY <1>b, <3>1, <3>3, <4>4 DEF DIRS, PARTS
            <4>5. CASE p = "pin"
                BY <1>b, <3>1, <3>3, <4>5 DEF DIRS, PARTS
            <4> QED BY <4>0, <4>1, <4>2, <4>3, <4>4, <4>5 DEF PARTS
        <3> QED BY <3>1, <3>2, <3>3, <3>4
    <2> QED BY <1>0, <2>1, <2>2
<1>d. Agree(head')
    <2>1. head'.ram \in {store[target].ram, Absent} /\ head'.fp \in {store[target].fp, Absent}
        BY <1>1, <1>c DEF PARTS
    <2> QED BY <2>1, <1>b DEF Agree
<1>2. /\ Apart' /\ Stages' /\ CommittedHeadIsPaired' /\ Named'
      /\ spc' \in SessionPc /\ mode' \in {"live", "stop"} /\ taken' \in BOOLEAN /\ rev' \in IDS \cup {Absent}
      /\ parent' \in IDS \cup {Absent} /\ raced' \in BOOLEAN /\ tmp' \in DIRS \cup {NoDir}
    BY <1>0, <1>a, <1>1, RollbackFrame
<1>3. TypeOK'
    BY <1>0, <1>a, <1>1, <1>2 DEF TypeOK, CliPc, counts, disks, prune
<1>4. Target'
    BY <1>0, <1>a, <1>1 DEF Target, Copying, counts
<1>5. Pruning' /\ Agreeing'
    BY <1>0, <1>d DEF Inv, Pruning, prune, session, Agreeing
<1> QED BY <1>2, <1>3, <1>4, <1>5 DEF Inv

LEMMA RestoreInv == Inv /\ RollbackRestore => Inv'
<1> SUFFICES ASSUME Inv, RollbackRestore PROVE Inv'
    OBVIOUS
<1>0. /\ cpc \in {"unlink", "restore"} /\ cpc' \in {"restore", "truncate"}
      /\ live' \in {live, 0, store[target].ovl}
      /\ UNCHANGED <<head, tmp, store, disk, counts, session, prune, target, todo, torn, hurt>>
    BY DEF RollbackRestore
<1>a. TypeOK /\ spc = "off" /\ target \in IDS /\ minted < MaxId /\ store[target].man = target
    BY <1>0, RollbackOff DEF Inv, Target, Copying
<1>b. store[target] \in DIRS
    BY <1>a, Exists, Absence DEF TypeOK
<1>c. live' \in 0..MaxDisk
    BY <1>0, <1>a, <1>b, StoreAssumption DEF TypeOK, DIRS
<1>2. /\ Apart' /\ Stages' /\ CommittedHeadIsPaired' /\ Named'
      /\ spc' \in SessionPc /\ mode' \in {"live", "stop"} /\ taken' \in BOOLEAN /\ rev' \in IDS \cup {Absent}
      /\ parent' \in IDS \cup {Absent} /\ raced' \in BOOLEAN /\ tmp' \in DIRS \cup {NoDir}
    BY <1>0, <1>a, RollbackFrame
<1>3. TypeOK'
    BY <1>0, <1>a, <1>c, <1>2 DEF TypeOK, CliPc, counts, prune
<1>4. Target'
    BY <1>0, <1>a DEF Inv, Target, Copying, counts
<1>5. Pruning' /\ Agreeing'
    BY <1>0 DEF Inv, Pruning, prune, session, Agreeing
<1> QED BY <1>2, <1>3, <1>4, <1>5 DEF Inv

LEMMA RenameInv == Inv /\ RollbackRename => Inv'
<1> SUFFICES ASSUME Inv, RollbackRename PROVE Inv'
    OBVIOUS
<1>0. /\ cpc \in {"truncate", "rewrite", "prune"}
      /\ UNCHANGED <<tmp, disks, sweeps, deaths, session, todo, torn, hurt>>
    BY DEF RollbackRename
<1>a. TypeOK /\ spc = "off" /\ target \in IDS /\ head \in DIRS /\ Agree(head)
    BY <1>0, RollbackOff DEF Inv, Target, Copying, Agreeing
<1>b. cpc # "prune" => minted < MaxId /\ minted + 1 \in IDS /\ minted + 1 \in 0..MaxId /\ doomed = {}
    BY <1>0, <1>a, StoreAssumption DEF Inv, Target, TypeOK, IDS, Pruning
<1>1. /\ head' \in DIRS /\ Agree(head')
      /\ store' \in [IDS -> DIRS \cup {NoDir}]
      /\ \A j \in IDS : store'[j].man \in {j, Absent}
      /\ \A j \in IDS : Agree(store'[j])
      /\ doomed' \subseteq IDS /\ late' \subseteq doomed'
      /\ minted' \in 0..MaxId
      /\ cpc' \in {"rewrite", "prune", "idle"}
      /\ cpc' = "rewrite" => minted' < MaxId
      /\ target' = (IF cpc' = "idle" THEN Absent ELSE target)
      /\ doomed' # {} => cpc' = "prune"
    <2>0. \A x \in IDS \cup {Absent, Torn} :
             [head EXCEPT !.man = x] \in DIRS /\ Agree([head EXCEPT !.man = x])
        <3>1. ASSUME NEW x \in IDS \cup {Absent, Torn} PROVE Agree([head EXCEPT !.man = x])
            BY <1>a DEF Agree, DIRS
        <3> QED BY <1>a, <3>1, Written
    <2>1. CASE cpc = "truncate"
        <3>1. head' = [head EXCEPT !.man = Torn] /\ cpc' = "rewrite" /\ UNCHANGED <<store, minted, prune, target>>
            BY <2>1 DEF RollbackRename
        <3> QED BY <1>a, <1>b, <2>0, <2>1, <3>1 DEF Inv, TypeOK, Agreeing, prune
    <2>2. CASE cpc = "rewrite"
        <3>1. /\ head' = [head EXCEPT !.man = minted + 1] /\ cpc' = "prune" /\ minted' = minted + 1
              /\ doomed' = Excess(store) /\ UNCHANGED <<store, late, target>>
            BY <2>2 DEF RollbackRename
        <3>2. late = {}
            BY <1>a, <1>b, <2>2 DEF TypeOK
        <3> QED BY <1>a, <1>b, <2>0, <2>2, <3>1, <3>2, ExcessIds DEF Inv, TypeOK, Agreeing
    <2>3. CASE cpc = "prune" /\ PruneOne
        <3>1. UNCHANGED <<cpc, target, head, minted>>
            BY <2>3 DEF RollbackRename, PruneOne
        <3>2. /\ store' \in [IDS -> DIRS \cup {NoDir}]
              /\ \A j \in IDS : store'[j].man \in {j, Absent}
              /\ \A j \in IDS : Agree(store'[j])
              /\ doomed' \subseteq doomed /\ late' \subseteq doomed'
            BY <2>3, PruneOneInv
        <3> QED BY <1>a, <2>3, <3>1, <3>2 DEF TypeOK
    <2>4. CASE cpc = "prune" /\ ~PruneOne
        <3>1. doomed = {} /\ cpc' = "idle" /\ target' = Absent /\ UNCHANGED <<store, prune, head, minted>>
            BY <2>4 DEF RollbackRename
        <3> QED BY <1>a, <3>1 DEF Inv, TypeOK, Agreeing, prune
    <2> QED BY <1>0, <2>1, <2>2, <2>3, <2>4
<1>2. /\ Apart' /\ Stages' /\ CommittedHeadIsPaired' /\ Named'
      /\ spc' \in SessionPc /\ mode' \in {"live", "stop"} /\ taken' \in BOOLEAN /\ rev' \in IDS \cup {Absent}
      /\ parent' \in IDS \cup {Absent} /\ raced' \in BOOLEAN /\ tmp' \in DIRS \cup {NoDir}
    BY <1>0, <1>a, <1>1, RollbackFrame
<1>3. TypeOK'
    BY <1>0, <1>a, <1>1, <1>2 DEF TypeOK, CliPc, disks
<1>4. Target'
    BY <1>a, <1>1 DEF Target, Copying
<1>5. Pruning' /\ Agreeing'
    BY <1>1 DEF Pruning, Agreeing
<1> QED BY <1>2, <1>3, <1>4, <1>5 DEF Inv

LEMMA CliDiesInv == Inv /\ CliDies => Inv'
<1> SUFFICES ASSUME Inv, CliDies PROVE Inv'
    OBVIOUS
<1>0. /\ cpc # "idle" /\ cpc' = "idle" /\ target' = Absent /\ todo' = {}
      /\ torn' \in BOOLEAN /\ hurt' \in BOOLEAN
      /\ UNCHANGED <<head, tmp, store, disks, minted, sweeps, session>>
    BY DEF CliDies, Inv, TypeOK
<1>1. deaths' \in 0..MaxDeaths
    BY StoreAssumption DEF CliDies, Inv, TypeOK
<1>2. IF cpc = "prune" THEN doomed' = {} /\ late' = {} ELSE UNCHANGED prune
    BY DEF CliDies
<1>3. /\ Agreeing'
      /\ head' \in DIRS \cup {NoDir}
      /\ store' \in [IDS -> DIRS \cup {NoDir}]
      /\ \A i \in IDS : store'[i].man \in {i, Absent}
    BY <1>0, AgreeingKept
<1>4. doomed' \subseteq IDS /\ late' \subseteq doomed' /\ Pruning'
    BY <1>0, <1>2 DEF Inv, TypeOK, Pruning, prune, session
<1>5. TypeOK'
    BY <1>0, <1>1, <1>3, <1>4 DEF Inv, TypeOK, CliPc, disks, session
<1>6. Apart' /\ Target'
    BY <1>0 DEF Apart, Target, Copying
<1>7. Stages' /\ Named' /\ CommittedHeadIsPaired'
    BY <1>0 DEF Inv, Stages, Named, CommittedHeadIsPaired, Filled, Whole, Readable, disks, session
<1> QED BY <1>3, <1>4, <1>5, <1>6, <1>7 DEF Inv

LEMMA NextInv == Inv /\ [Next]_vars => Inv'
<1> SUFFICES ASSUME Inv, [Next]_vars PROVE Inv'
    OBVIOUS
<1>1. CASE Session
    BY <1>1, RunInv, DropInv, StageInv, SwapInv, VerifyInv, StandDownInv, RetireInv DEF Session
<1>2. CASE Operator
    BY <1>2, HousekeepingInv, SweepInv, RollbackInv, FileTargetInv, FileHeadInv, CopyInv, RestoreInv,
       RenameInv, CliDiesInv DEF Operator
<1>3. CASE UNCHANGED vars
    BY <1>3 DEF vars, Inv, TypeOK, Apart, Named, Stages, Target, Agreeing, Pruning, CommittedHeadIsPaired,
       Filled, Whole, Readable, Agree
<1> QED BY <1>1, <1>2, <1>3 DEF Next

\* Inv holds in every reachable state.
THEOREM InvHolds == Spec => []Inv
BY InitInv, NextInv, PTL DEF Spec

\* Every variable has its type, and an archived directory is named after its
\* manifest, wherever a process dies (archive_head, commit_checkpoint, rollback).
THEOREM TypeCorrect == Spec => []TypeOK
<1>1. Inv => TypeOK
    BY DEF Inv
<1> QED BY <1>1, InvHolds, PTL

\* A checkpoint that commit_checkpoint has swapped in pairs RAM with disk; a gc
\* that raced it may have cost it files, and never mixed it with another disk.
THEOREM CommittedPaired == Spec => []CommittedHeadIsPaired
<1>1. Inv => CommittedHeadIsPaired
    BY DEF Inv
<1> QED BY <1>1, InvHolds, PTL

-----------------------------------------------------------------------------
\* The order of the ids, while no rollback was cut short.

\* The directories of the archive, and the one a removal has opened.
Old(j) == store[j] # NoDir \/ (cpc = "sweeping" /\ target = j)

\* Ids are minted in order, and HEAD's is newer than those of the archive, but
\* for the copy a rollback makes of one.
Newest ==
    /\ \A j \in IDS : Old(j) => j <= minted
    /\ Readable(head) => head.man <= minted
    /\ cpc \notin Copying /\ Readable(head) => \A j \in IDS : Old(j) => j < head.man

\* A commit's id is newer still, and what it files lands on nothing.
Superseding ==
    spc \in Staged =>
       /\ rev = minted
       /\ \A j \in IDS : Old(j) => j < rev
       /\ parent = Absent => ~Readable(head)
       /\ parent # Absent => parent < rev
       /\ parent # Absent /\ spc # "swap" => \A j \in IDS : Old(j) => j < parent
       /\ spc = "swap" => ~Readable(head)

\* So does what a retirement files, which is then the newest of the archive.
Retiring ==
    /\ spc \in {"retire", "file", "filed", "trim"} => parent \in 1..minted
    /\ spc \in {"retire", "file"} => \A j \in IDS : Old(j) => j < parent
    /\ spc \in {"filed", "trim"} => \A j \in IDS : Old(j) => j <= parent
    /\ spc = "trim" /\ MaxKeep > 1 => parent \notin doomed

\* What is being removed or reduced was not pinned when it was chosen.
Spared ==
    /\ cpc = "sweeping" /\ target \in IDS => ~store[target].pin
    /\ target = AtHead => ~head.pin
    /\ \A i \in doomed \ late : ~store[i].pin

\* A checkpoint with RAM has its fingerprint.
HasPrint(d) == Readable(d) /\ d.ram # Absent => d.fp # Absent

\* So has every checkpoint that is not being removed or copied.
Printed ==
    ~hurt =>
       /\ \A i \in IDS : ~(cpc = "sweeping" /\ target = i) => HasPrint(store[i])
       /\ ~(spc = "standdown" /\ ~taken) /\ cpc \notin {"copy", "rewrite"} => HasPrint(head)
       /\ cpc = "rewrite" => head.ram = Absent \/ head.fp # Absent

\* What is deleted to make room could not be read.
Clearing == spc = "drop" \/ cpc = "clearhead" => ~Readable(head)

Order == Newest /\ Superseding /\ Retiring

History == ~torn => Order /\ Spared /\ Printed /\ Clearing

\* What a step adds to the archive: nothing, when files only go.
LEMMA OldLess ==
    ASSUME StoreSub, \A j \in IDS : cpc' = "sweeping" /\ target' = j => Old(j)
    PROVE  \A j \in IDS : Old(j)' => Old(j)
BY DEF StoreSub, Old

\* Then the newest is the newest still, if HEAD is the same or less.
LEMMA QuietNewest ==
    ASSUME Newest, minted' = minted, \A j \in IDS : Old(j)' => Old(j),
           Readable(head') => Readable(head) /\ head'.man = head.man,
           cpc \in Copying /\ Readable(head') => cpc' \in Copying
    PROVE  Newest'
BY DEF Newest, Readable

\* A step of nobody who commits or retires.
LEMMA QuietOrder ==
    ASSUME Order, minted' = minted, \A j \in IDS : Old(j)' => Old(j),
           Readable(head') => Readable(head) /\ head'.man = head.man,
           cpc \in Copying /\ Readable(head') => cpc' \in Copying,
           UNCHANGED <<rev, parent>>, spc' = spc, doomed' \subseteq doomed
    PROVE  Order'
<1>1. Newest'
    BY QuietNewest DEF Order
<1>2. Superseding'
    BY DEF Order, Superseding, Readable
<1>3. Retiring'
    BY DEF Order, Retiring
<1> QED BY <1>1, <1>2, <1>3 DEF Order

\* The same when the session neither commits nor retires afterwards.
LEMMA IdleOrder ==
    ASSUME Order, minted' = minted, \A j \in IDS : Old(j)' => Old(j),
           Readable(head') => Readable(head) /\ head'.man = head.man,
           cpc \in Copying /\ Readable(head') => cpc' \in Copying,
           spc' \in {"off", "running", "drop", "standdown", "verify", "prune"}
    PROVE  Order'
<1>1. Newest'
    BY QuietNewest DEF Order
<1> QED BY <1>1 DEF Order, Superseding, Retiring, Staged

\* What makes room for a revision that is newer than the archive removes nothing.
LEMMA NothingThere ==
    ASSUME Inv, NEW i \in IDS, RemoveArchived(i), ~Old(i)
    PROVE  store' = store /\ store'[i] = NoDir
<1>1. store[i] = NoDir /\ store \in [IDS -> DIRS \cup {NoDir}]
    BY DEF Old, Inv, TypeOK
<1>2. PICK d \in Shrink(store[i]) : store' = [store EXCEPT ![i] = d]
    BY DEF RemoveArchived
<1>3. d = NoDir
    BY <1>1, <1>2, ShrinkDir
<1> QED BY <1>1, <1>2, <1>3

\* Filing HEAD adds its id to the archive, and leaves the rest alone.
LEMMA FiledOld ==
    ASSUME Inv, NEW i \in IDS, MoveHead(i), head.man \in {i, Absent}, UNCHANGED cpc
    PROVE  \A j \in IDS : Old(j)' => Old(j) \/ j = i
<1>1. /\ \A j \in IDS \ {i} : store'[j] = store[j]
      /\ target' = (IF target = AtHead THEN i ELSE target)
    BY Filed DEF Inv
<1> QED BY <1>1 DEF Old

\* A directory with a manifest is there.
LEMMA OldRead == ASSUME Inv, NEW j \in IDS, store[j].man # Absent PROVE Old(j)
BY Absence DEF Old

\* Pruning keeps every fingerprint, pins nothing and dooms nothing more.
LEMMA PruneHistory ==
    ASSUME Inv, PruneOne
    PROVE  /\ StoreSub
           /\ doomed' \ late' \subseteq doomed \ late /\ doomed' \subseteq doomed
           /\ \A j \in IDS : HasPrint(store[j]) => HasPrint(store'[j])
           /\ \A j \in IDS : (store'[j].pin => store[j].pin)
           /\ \A j \in IDS \ doomed : store'[j] = store[j]
<1>0. TypeOK
    BY DEF Inv
<1>1. StoreSub
    BY <1>0, Takes
<1>2. PICK i \in doomed :
         \/ /\ store[i].ram # Absent /\ store' = [store EXCEPT ![i].ram = Absent]
            /\ UNCHANGED doomed
         \/ /\ store[i].ram = Absent /\ doomed' = doomed \ {i}
            /\ store' = [store EXCEPT ![i].ovl = IF store[i].ovl = Absent THEN store[i].ovl ELSE 0]
    BY DEF PruneOne
<1>3. late' = late \cap doomed'
    BY DEF PruneOne
<1>4. i \in IDS /\ store[i] \in DIRS \cup {NoDir}
    BY <1>0, <1>2 DEF TypeOK
<1>5. store'[i].ram = Absent /\ \A j \in IDS \ {i} : store'[j] = store[j]
    <2>1. CASE store[i].ram # Absent /\ store' = [store EXCEPT ![i].ram = Absent]
        <3>1. store[i] \in DIRS
            BY <1>4, <2>1, Exists
        <3> QED BY <1>0, <1>4, <2>1, <3>1 DEF TypeOK, DIRS
    <2>2. CASE /\ store[i].ram = Absent
               /\ store' = [store EXCEPT ![i].ovl = IF store[i].ovl = Absent THEN store[i].ovl ELSE 0]
        <3>1. CASE store[i] = NoDir
            <4>1. store'[i] = [NoDir EXCEPT !.ovl = IF NoDir.ovl = Absent THEN NoDir.ovl ELSE 0]
                BY <1>0, <1>4, <2>2, <3>1 DEF TypeOK
            <4>2. store'[i].ram = Absent
                BY <4>1 DEF NoDir, EmptyDir
            <4> QED BY <1>0, <1>4, <2>2, <4>2 DEF TypeOK
        <3>2. CASE store[i] \in DIRS
            BY <1>0, <1>4, <2>2, <3>2 DEF TypeOK, DIRS
        <3> QED BY <1>4, <3>1, <3>2
    <2> QED BY <1>2, <2>1, <2>2
<1>6. \A j \in IDS : HasPrint(store[j]) => HasPrint(store'[j])
    BY <1>5 DEF HasPrint
<1>7. \A j \in IDS : (store'[j].pin => store[j].pin)
    BY <1>1 DEF StoreSub, Sub
<1> QED BY <1>1, <1>2, <1>3, <1>5, <1>6, <1>7

\* What is doomed by a look at the archive was not pinned.
LEMMA ExcessSpared == \A i \in Excess(store) : ~store[i].pin
BY DEF Excess, Prunable

\* A step that keeps the directories keeps the archive's fingerprints and pins.
LEMMA PrintedKept ==
    ASSUME Inv, Printed, UNCHANGED <<head, store>>, hurt' = hurt,
           cpc' # "sweeping" => cpc # "sweeping" \/ target \notin IDS,
           cpc' = "sweeping" /\ cpc = "sweeping" => target' = target \/ target \notin IDS,
           ~(spc' = "standdown" /\ ~taken') /\ cpc' \notin {"copy", "rewrite"} =>
              ~(spc = "standdown" /\ ~taken) /\ cpc \notin {"copy", "rewrite"},
           cpc' = "rewrite" => cpc = "rewrite"
    PROVE  Printed'
BY DEF Printed, HasPrint, Readable

LEMMA RunHistory ==
    Inv /\ History /\ (Start \/ GuestWrite \/ Stop \/ SessionDies) => History'
<1> SUFFICES ASSUME Inv, History, Start \/ GuestWrite \/ Stop \/ SessionDies, ~torn'
             PROVE  (Order /\ Spared /\ Printed /\ Clearing)'
    BY DEF History
<1>0. /\ UNCHANGED <<head, store, minted, cpc, target, torn>>
      /\ spc' \in {"off", "running", "drop", "standdown"}
    BY DEF Start, GuestWrite, Stop, SessionDies, Ends, Returns, session, cli, counts
<1>a. TypeOK /\ Order /\ Spared /\ Printed /\ Clearing
    BY <1>0 DEF History, Inv
<1>b. StoreSub
    BY <1>0, <1>a, Takes
<1>1. Order'
    <2>1. \A j \in IDS : Old(j)' => Old(j)
        BY <1>0 DEF Old
    <2> QED BY <1>0, <1>a, <2>1, IdleOrder
<1>2. Spared'
    <2>1. (doomed' = doomed /\ late' = late) \/ doomed' = {}
        BY DEF Start, GuestWrite, Stop, SessionDies, prune
    <2> QED BY <1>0, <1>a, <2>1 DEF Spared
<1>3. Printed'
    <2>1. CASE Start \/ GuestWrite \/ Stop
        <3>1. /\ hurt' = hurt
              /\ ~(spc' = "standdown" /\ ~taken') => ~(spc = "standdown" /\ ~taken)
            BY <2>1 DEF Start, GuestWrite, Stop, session
        <3> QED BY <1>0, <1>a, <3>1, PrintedKept
    <2>2. CASE SessionDies
        <3>1. hurt' = (hurt \/ (spc = "standdown" /\ ~taken)) /\ spc' = "off"
            BY <2>2 DEF SessionDies, Ends, Returns
        <3>2. CASE hurt'
            BY <3>2 DEF Printed
        <3>3. CASE ~hurt'
            <4>1. hurt' = hurt /\ ~(spc = "standdown" /\ ~taken)
                BY <1>a, <3>1, <3>3 DEF TypeOK
            <4> QED BY <1>0, <1>a, <4>1, PrintedKept
        <3> QED BY <3>2, <3>3
    <2> QED BY <2>1, <2>2
<1>4. Clearing'
    BY <1>0, <1>a DEF Clearing, Start, GuestWrite, Stop, SessionDies, Ends, Returns, session, Readable
<1> QED BY <1>1, <1>2, <1>3, <1>4

LEMMA CommitHistory == Inv /\ History /\ Commit => History'
<1> SUFFICES ASSUME Inv, History, Commit, ~torn'
             PROVE  (Order /\ Spared /\ Printed /\ Clearing)'
    BY DEF History
<1>0. /\ UNCHANGED <<head, store, cpc, target, torn, taken, hurt, doomed, late>>
      /\ spc = "running" /\ spc' = "ram" /\ minted' = minted + 1 /\ rev' = minted + 1
      /\ parent' = IF Readable(head) THEN head.man ELSE Absent
    BY DEF Commit, cli, prune
<1>a. TypeOK /\ Order /\ Spared /\ Printed /\ Clearing /\ minted \in Nat /\ \A j \in IDS : j \in Nat
    BY <1>0, StoreAssumption DEF History, Inv, TypeOK, IDS
<1>b. cpc \notin Copying /\ cpc \notin {"copy", "rewrite"}
    BY <1>0 DEF Inv, Apart, Copying
<1>1. \A j \in IDS : (Old(j)' <=> Old(j)) /\ (Old(j) => j <= minted)
    BY <1>0, <1>a DEF Old, Order, Newest
<1>2. Newest'
    BY <1>0, <1>a, <1>1 DEF Order, Newest, Readable
<1>3. Superseding'
    BY <1>0, <1>a, <1>b, <1>1, Absence DEF Order, Newest, Superseding, Readable
<1>4. Retiring' /\ Spared' /\ Clearing'
    BY <1>0, <1>a, <1>b DEF Retiring, Spared, Clearing, Readable
<1>5. Printed'
    BY <1>0, <1>a, PrintedKept
<1> QED BY <1>2, <1>3, <1>4, <1>5 DEF Order

LEMMA StageHistory ==
    Inv /\ History /\ (StageRam \/ StageOverlays \/ StageManifest) => History'
<1> SUFFICES ASSUME Inv, History, StageRam \/ StageOverlays \/ StageManifest, ~torn'
             PROVE  (Order /\ Spared /\ Printed /\ Clearing)'
    BY DEF History
<1>0. /\ UNCHANGED <<head, store, minted, cpc, target, torn, taken, hurt, doomed, late>>
      /\ spc \in {"ram", "overlays", "manifest"}
      /\ \/ spc' \in {"running", "standdown"}
         \/ spc' \in {"overlays", "manifest", "archive"} /\ UNCHANGED <<rev, parent>>
    BY DEF StageRam, StageOverlays, StageManifest, cli, prune, counts, Fails, Returns
<1>a. TypeOK /\ Order /\ Spared /\ Printed /\ Clearing
    BY <1>0 DEF History, Inv
<1>1. \A j \in IDS : Old(j)' <=> Old(j)
    BY <1>0 DEF Old
<1>2. Newest'
    BY <1>0, <1>a, <1>1, QuietNewest DEF Order
<1>3. Superseding'
    BY <1>0, <1>a, <1>1 DEF Order, Superseding, Staged, Readable
<1>4. Retiring' /\ Spared' /\ Clearing'
    BY <1>0, <1>a DEF Retiring, Spared, Clearing, Readable
<1>5. Printed'
    BY <1>0, <1>a, PrintedKept
<1> QED BY <1>2, <1>3, <1>4, <1>5 DEF Order

\* Filing a HEAD that is newer than the archive, by anyone.
LEMMA FiledHistory ==
    ASSUME Inv, Spared, Printed, NEW i \in IDS, MoveHead(i), head.man \in {i, Absent}, ~Old(i),
           cpc' = "sweeping" <=> cpc = "sweeping", hurt' = hurt, doomed = {}, doomed' = {},
           spc # "standdown", cpc \notin {"copy", "rewrite"}, cpc' # "rewrite"
    PROVE  Spared' /\ Printed'
<1>1. /\ head' = NoDir /\ store'[i] = head /\ \A j \in IDS \ {i} : store'[j] = store[j]
      /\ target' = (IF target = AtHead THEN i ELSE target)
    BY Filed DEF Inv
<1>2. ~(cpc = "sweeping" /\ target = i)
    BY DEF Old
<1>3. Spared'
    BY <1>1, <1>2, Absence DEF Spared
<1>4. HasPrint(head')
    BY <1>1, Absence DEF HasPrint
<1>5. ~hurt => HasPrint(head) /\ \A j \in IDS : ~(cpc = "sweeping" /\ target = j) => HasPrint(store[j])
    BY DEF Printed
<1>6. ~hurt => \A j \in IDS : ~(cpc' = "sweeping" /\ target' = j) => HasPrint(store'[j])
    BY <1>1, <1>5, Absence
<1>7. Printed'
    BY <1>4, <1>6 DEF Printed, HasPrint, Readable
<1> QED BY <1>3, <1>7

LEMMA SwapHistory == Inv /\ History /\ (Archive \/ Move \/ Swap) => History'
<1> SUFFICES ASSUME Inv, History, Archive \/ Move \/ Swap, ~torn'
             PROVE  (Order /\ Spared /\ Printed /\ Clearing)'
    BY DEF History
<1>0. /\ UNCHANGED <<minted, cpc, torn, taken, doomed, late>>
      /\ spc \in {"archive", "move", "swap"}
    BY DEF Archive, Move, Swap, counts, prune
<1>a. TypeOK /\ Order /\ Spared /\ Printed /\ Clearing /\ minted \in Nat /\ \A j \in IDS : j \in Nat
    BY <1>0, StoreAssumption DEF History, Inv, TypeOK, IDS
<1>b. cpc \in {"idle", "sweeping"} /\ cpc \notin Copying /\ doomed = {}
    BY <1>0 DEF Inv, Apart, Copying, Pruning
<1>c. spc \in Staged /\ spc \notin {"retire", "file", "filed", "trim", "drop", "standdown"}
    BY <1>0 DEF Staged
<1>1. CASE Archive /\ parent = Absent
    <2>1. ClearHead /\ UNCHANGED <<rev, parent, store, hurt>> /\ spc' \in {"archive", "swap"}
        BY <1>1 DEF Archive
    <2>2. /\ head' \in DIRS \cup {NoDir} /\ Sub(head', head)
          /\ ~Readable(head) => ~Readable(head')
          /\ target' \in {target, Absent} /\ (target' = AtHead => target = AtHead)
        BY <1>a, <2>1, Cleared, Absence
    <2>3. ~Readable(head) /\ ~Readable(head')
        BY <1>1, <1>a, <1>c, <2>2 DEF Order, Superseding
    <2>4. \A j \in IDS : (Old(j)' => Old(j)) /\ j # Absent
        BY <1>0, <2>1, <2>2, Absence DEF Old
    <2>5. Newest'
        BY <1>0, <1>a, <1>b, <2>3, <2>4, QuietNewest DEF Order
    <2>6. Superseding' /\ Retiring' /\ Clearing'
        BY <1>0, <1>1, <1>a, <1>b, <1>c, <2>1, <2>3, <2>4 DEF Order, Superseding, Retiring, Clearing
    <2>7. Spared'
        BY <1>0, <1>a, <2>1, <2>2, Absence DEF Spared, Sub
    <2>8. Printed'
        <3>1. HasPrint(head')
            BY <2>3 DEF HasPrint
        <3>2. ~hurt => \A j \in IDS : ~(cpc = "sweeping" /\ target = j) => HasPrint(store[j])
            BY <1>a DEF Printed
        <3>3. \A j \in IDS : target = j => target' = j
            BY <2>1, <1>a, Cleared, Absence
        <3>4. ~hurt' => \A j \in IDS : ~(cpc' = "sweeping" /\ target' = j) => HasPrint(store'[j])
            BY <1>0, <2>1, <3>2, <3>3
        <3> QED BY <1>0, <1>b, <3>1, <3>4 DEF Printed, HasPrint, Readable
    <2> QED BY <2>5, <2>6, <2>7, <2>8 DEF Order
<1>2. CASE Archive /\ parent # Absent
    <2>1. /\ RemoveArchived(parent) /\ UNCHANGED <<rev, parent, head, target, hurt>> /\ spc = "archive"
          /\ spc' \in {"archive", "move"}
        BY <1>2 DEF Archive
    <2>2. parent \in IDS /\ ~Old(parent)
        BY <1>2, <1>a, <1>c, <2>1 DEF TypeOK, Order, Superseding
    <2>3. store' = store
        BY <2>1, <2>2, NothingThere
    <2>4. \A j \in IDS : Old(j)' <=> Old(j)
        BY <1>0, <2>1, <2>3 DEF Old
    <2>5. Newest'
        BY <1>0, <1>a, <2>1, <2>4, QuietNewest DEF Order
    <2>6. Superseding' /\ Retiring' /\ Clearing'
        BY <1>0, <1>a, <1>b, <1>c, <2>1, <2>4 DEF Order, Superseding, Retiring, Clearing, Readable
    <2>7. Spared'
        BY <1>0, <1>a, <2>1, <2>3 DEF Spared
    <2>8. Printed'
        BY <1>0, <1>a, <2>1, <2>3, PrintedKept
    <2> QED BY <2>5, <2>6, <2>7, <2>8 DEF Order
<1>3. CASE Move
    <2>1. MoveHead(parent) /\ spc = "move" /\ spc' = "swap" /\ UNCHANGED <<rev, parent, hurt>>
        BY <1>3 DEF Move
    <2>2. parent \in IDS /\ head.man \in {parent, Absent} /\ parent # Absent
        BY <1>a, <1>c, <2>1 DEF Inv, TypeOK, Named, Staged
    <2>3. ~Old(parent) /\ parent < rev /\ rev = minted
        BY <1>a, <1>c, <2>1, <2>2 DEF Order, Superseding
    <2>4. \A j \in IDS : Old(j)' => Old(j) \/ j = parent
        BY <1>0, <2>1, <2>2, FiledOld
    <2>5. head' = NoDir /\ ~Readable(head')
        BY <2>1, Absence DEF MoveHead
    <2>6. \A j \in IDS : Old(j) => j < rev
        BY <1>a, <1>c DEF Order, Superseding
    <2>7. \A j \in IDS : Old(j)' => j < rev /\ j <= minted
        BY <1>a, <2>2, <2>3, <2>4, <2>6
    <2>8. Newest' /\ Superseding' /\ Retiring' /\ Clearing'
        BY <1>0, <1>b, <2>1, <2>2, <2>3, <2>5, <2>7 DEF Newest, Superseding, Retiring, Clearing
    <2>9. Spared' /\ Printed'
        BY <1>0, <1>a, <1>b, <1>c, <2>1, <2>2, <2>3, FiledHistory
    <2> QED BY <2>8, <2>9 DEF Order
<1>4. CASE Swap /\ tmp = NoDir
    <2>1. UNCHANGED <<head, target, hurt, store>> /\ spc' \in {"running", "standdown"} /\ spc = "swap"
        BY <1>4 DEF Swap, Fails, Returns
    <2>2. Order'
        <3>1. \A j \in IDS : Old(j)' => Old(j)
            BY <1>0, <2>1 DEF Old
        <3> QED BY <1>0, <1>a, <2>1, <3>1, IdleOrder
    <2>3. Spared' /\ Clearing'
        BY <1>0, <1>a, <1>b, <2>1 DEF Spared, Clearing
    <2>4. Printed'
        BY <1>0, <1>a, <1>b, <2>1, PrintedKept
    <2> QED BY <2>2, <2>3, <2>4
<1>5. CASE Swap /\ tmp # NoDir
    <2>1. /\ head' = tmp /\ spc' = "verify" /\ spc = "swap"
          /\ target' \in {target, AtHead} /\ (target' # target => target = Staging)
          /\ hurt' = (hurt \/ raced)
          /\ UNCHANGED <<rev, parent, store>>
        BY <1>5 DEF Swap
    <2>2. /\ tmp.man \in {rev, Absent} /\ ~tmp.pin
          /\ ~raced => tmp.fp = live
        BY <1>5, <1>c, <2>1 DEF Inv, Stages, Staged
    <2>3. live # Absent
        BY <1>a, StoreAssumption DEF TypeOK, Absent
    <2>4. \A j \in IDS : (Old(j)' => Old(j)) /\ (Old(j) => j < rev) /\ rev = minted
        BY <1>0, <1>a, <1>c, <2>1, Absence DEF Old, Order, Superseding
    <2>5. rev = minted
        BY <1>a, <1>c DEF Order, Superseding
    <2>6. Newest'
        BY <1>0, <1>a, <2>1, <2>2, <2>4, <2>5, Absence DEF Newest, Order, Readable
    <2>7. Superseding' /\ Retiring' /\ Clearing'
        BY <1>0, <1>b, <2>1 DEF Superseding, Retiring, Clearing, Staged
    <2>8. Spared'
        BY <1>0, <1>a, <2>1, <2>2, Absence DEF Spared
    <2>9. Printed'
        <3>1. ~raced => HasPrint(head')
            BY <2>1, <2>2, <2>3 DEF HasPrint
        <3>2. \A j \in IDS : (target' = j <=> target = j)
            BY <2>1, Absence
        <3> QED BY <1>0, <1>a, <1>b, <2>1, <3>1, <3>2 DEF Printed, HasPrint, Readable
    <2> QED BY <2>6, <2>7, <2>8, <2>9 DEF Order
<1> QED BY <1>1, <1>2, <1>3, <1>4, <1>5 DEF Swap

\* Clearing a HEAD, by anyone: of one that could not be read nothing is left that
\* could, and of any other nothing is said until it is gone.
LEMMA ClearedHistory ==
    ASSUME Inv, Spared, Printed, ClearHead, UNCHANGED <<store, hurt, doomed, late, cpc>>,
           cpc \notin {"copy", "rewrite"},
           ~Readable(head) \/ head' = NoDir \/ (spc' = "standdown" /\ ~taken')
    PROVE  /\ Spared' /\ Printed'
           /\ \A j \in IDS : Old(j)' => Old(j)
           /\ Readable(head') => Readable(head) /\ head'.man = head.man
<1>a. TypeOK
    BY DEF Inv
<1>1. /\ Sub(head', head) /\ (~Readable(head) => ~Readable(head'))
      /\ target' = (IF head' = NoDir /\ target = AtHead THEN Absent ELSE target)
    BY <1>a, Cleared
<1>2. \A j \in IDS : target' = j <=> target = j
    BY <1>1, Absence
<1>3. Spared'
    BY <1>1, <1>2, Absence DEF Spared, Sub
<1>4. HasPrint(head') \/ (spc' = "standdown" /\ ~taken')
    BY <1>1, Absence DEF HasPrint
<1>5. Printed'
    BY <1>2, <1>4 DEF Printed, HasPrint, Readable
<1>6. \A j \in IDS : Old(j)' => Old(j)
    BY <1>2 DEF Old
<1>7. Readable(head') => Readable(head) /\ head'.man = head.man
    BY <1>1, Absence DEF Sub, Readable
<1> QED BY <1>3, <1>5, <1>6, <1>7

LEMMA DropHistory == Inv /\ History /\ Drop => History'
<1> SUFFICES ASSUME Inv, History, Drop, ~torn'
             PROVE  (Order /\ Spared /\ Printed /\ Clearing)'
    BY DEF History
<1>0. /\ spc = "drop" /\ ClearHead /\ spc' \in {"drop", "running"}
      /\ UNCHANGED <<store, minted, taken, doomed, late, cpc, torn, hurt>>
    BY DEF Drop, prune, counts
<1>a. Order /\ Spared /\ Printed /\ Clearing /\ ~Readable(head)
    BY <1>0 DEF History, Clearing
<1>b. cpc \notin {"copy", "rewrite", "clearhead"} /\ cpc \notin Copying
    BY <1>0 DEF Inv, Apart, Copying
<1>1. /\ Spared' /\ Printed'
      /\ \A j \in IDS : Old(j)' => Old(j)
      /\ Readable(head') => Readable(head) /\ head'.man = head.man
    BY <1>0, <1>a, <1>b, ClearedHistory
<1>2. Order'
    BY <1>0, <1>a, <1>b, <1>1, IdleOrder
<1>3. Clearing'
    BY <1>a, <1>1 DEF Clearing
<1> QED BY <1>1, <1>2, <1>3

LEMMA VerifyHistory == Inv /\ History /\ (Verify \/ Prune) => History'
<1> SUFFICES ASSUME Inv, History, Verify \/ Prune, ~torn'
             PROVE  (Order /\ Spared /\ Printed /\ Clearing)'
    BY DEF History
<1>0. /\ spc \in {"verify", "prune"} /\ spc' \in {"off", "running", "standdown", "prune"}
      /\ UNCHANGED <<head, minted, cpc, target, torn, hurt>>
    BY DEF Verify, Prune, cli, counts, Fails, Ends, Returns, session
<1>a. TypeOK /\ Order /\ Spared /\ Printed /\ Clearing
    BY <1>0 DEF History, Inv
<1>b. cpc \notin {"copy", "rewrite", "clearhead"} /\ cpc \notin Copying
    BY <1>0 DEF Inv, Apart, Copying
<1>c. Clearing'
    BY <1>0, <1>b DEF Clearing
<1>1. CASE UNCHANGED store
    <2>1. \A j \in IDS : Old(j)' => Old(j)
        BY <1>0, <1>1 DEF Old
    <2>2. Order'
        BY <1>0, <1>a, <1>b, <2>1, IdleOrder
    <2>3. Printed'
        BY <1>0, <1>1, <1>a, PrintedKept
    <2>4. doomed' = Excess(store) \/ (doomed' = doomed /\ late' = late) \/ PruneOne
        BY DEF Verify, Prune, prune
    <2>5. \A i \in doomed' \ late' : ~store[i].pin
        BY <1>a, <2>4, ExcessSpared, PruneHistory DEF Spared
    <2>6. Spared'
        BY <1>0, <1>1, <1>a, <2>5 DEF Spared
    <2> QED BY <1>c, <2>2, <2>3, <2>6
<1>2. CASE PruneOne
    <2>1. /\ StoreSub
          /\ doomed' \ late' \subseteq doomed \ late
          /\ \A j \in IDS : HasPrint(store[j]) => HasPrint(store'[j])
          /\ \A j \in IDS : (store'[j].pin => store[j].pin)
        BY <1>2, PruneHistory
    <2>2. \A j \in IDS : Old(j)' => Old(j)
        BY <1>0, <2>1, OldLess DEF Old
    <2>3. Order'
        BY <1>0, <1>a, <1>b, <2>2, IdleOrder
    <2>4. Printed'
        BY <1>0, <1>a, <1>b, <2>1 DEF Printed, HasPrint, Readable
    <2>5. Spared'
        BY <1>0, <1>a, <2>1 DEF Spared, TypeOK
    <2> QED BY <1>c, <2>3, <2>4, <2>5
<1> QED BY <1>1, <1>2 DEF Verify, Prune

LEMMA StandDownHistory == Inv /\ History /\ StandDown => History'
<1> SUFFICES ASSUME Inv, History, StandDown, ~torn'
             PROVE  (Order /\ Spared /\ Printed /\ Clearing)'
    BY DEF History
<1>0. /\ spc = "standdown" /\ UNCHANGED <<store, minted, cpc, torn, hurt, doomed, late>>
    BY DEF StandDown, counts, prune
<1>a. TypeOK /\ Order /\ Spared /\ Printed /\ Clearing
    BY <1>0 DEF History, Inv
<1>b. cpc \notin {"copy", "rewrite", "clearhead"} /\ cpc \notin Copying
    BY <1>0 DEF Inv, Apart, Copying
<1>c. Clearing'
    BY <1>0, <1>b DEF Clearing, StandDown, session, Ends, Returns
<1>1. CASE ~taken
    <2>1. /\ ClearHead /\ spc' \in {"standdown", "off"}
          /\ head' = NoDir \/ (spc' = "standdown" /\ ~taken')
        BY <1>0, <1>1 DEF StandDown, session, Ends, Returns
    <2>2. /\ Spared' /\ Printed'
          /\ \A j \in IDS : Old(j)' => Old(j)
          /\ Readable(head') => Readable(head) /\ head'.man = head.man
        BY <1>0, <1>a, <1>b, <2>1, ClearedHistory
    <2>3. Order'
        BY <1>0, <1>a, <1>b, <2>1, <2>2, IdleOrder
    <2> QED BY <1>c, <2>2, <2>3
<1>2. CASE taken
    <2>1. /\ UNCHANGED <<head, target>>
          /\ \/ spc' = "off"
             \/ spc' = "retire" /\ parent' = head.man /\ Readable(head)
        BY <1>0, <1>2 DEF StandDown, Ends, Returns
    <2>2. \A j \in IDS : Old(j)' <=> Old(j)
        BY <1>0, <2>1 DEF Old
    <2>3. Newest'
        BY <1>0, <1>a, <2>1, <2>2, QuietNewest DEF Order
    <2>4. Superseding'
        BY <2>1 DEF Superseding, Staged
    <2>5. Retiring'
        <3>1. Readable(head) => head.man \in 1..minted
            BY <1>a, StoreAssumption DEF Order, Newest, Readable, IDS, TypeOK
        <3> QED BY <1>0, <1>a, <1>b, <2>1, <2>2, <3>1 DEF Retiring, Order, Newest
    <2>6. Spared'
        BY <1>0, <1>a, <2>1 DEF Spared
    <2>7. Printed'
        BY <1>0, <1>2, <1>a, <1>b, <2>1, PrintedKept
    <2> QED BY <1>c, <2>3, <2>4, <2>5, <2>6, <2>7 DEF Order
<1> QED BY <1>1, <1>2

\* The newest revision of the archive is not among what a prune may take when
\* the budget leaves room for one.
LEMMA NewestSpared ==
    ASSUME NEW p \in IDS, MaxKeep > 1, \A j \in Prunable(store) : j <= p
    PROVE  p \notin Excess(store)
<1>1. {j \in Prunable(store) : j > p} = {}
    <2>1. \A j \in Prunable(store) : ~(j > p)
        BY StoreAssumption DEF Prunable, IDS
    <2> QED BY <2>1
<1>2. Cardinality({j \in Prunable(store) : j > p}) = 0
    BY <1>1, FS_EmptySet
<1> QED BY <1>2, StoreAssumption DEF Excess

LEMMA RetireHistory == Inv /\ History /\ Retire => History'
<1> SUFFICES ASSUME Inv, History, Retire, ~torn'
             PROVE  (Order /\ Spared /\ Printed /\ Clearing)'
    BY DEF History
<1>0. /\ spc \in {"retire", "file", "filed", "trim"} /\ spc' \in {"retire", "file", "filed", "trim", "off"}
      /\ UNCHANGED <<minted, cpc, torn, hurt>>
    BY DEF Retire, counts, Ends, Returns, session
<1>a. TypeOK /\ Order /\ Spared /\ Printed /\ Clearing /\ minted \in Nat /\ \A j \in IDS : j \in Nat
    BY <1>0, StoreAssumption DEF History, Inv, TypeOK, IDS
<1>b. cpc \in {"idle", "sweeping"} /\ cpc \notin Copying /\ (spc # "trim" => doomed = {})
    BY <1>0 DEF Inv, Apart, Copying, Pruning
<1>c. Clearing' /\ Superseding'
    BY <1>0, <1>b DEF Clearing, Superseding, Staged
<1>d. parent \in 1..minted
    BY <1>0, <1>a DEF Order, Retiring
<1>e. parent \in IDS
    BY <1>d, <1>a, StoreAssumption DEF TypeOK, IDS
<1>1. CASE spc = "retire"
    <2>1. /\ RemoveArchived(parent) /\ UNCHANGED <<head, target, parent, doomed, late>> /\ spc' \in {"retire", "file"}
        BY <1>1 DEF Retire, prune
    <2>2. ~Old(parent)
        BY <1>1, <1>a, <1>e DEF Order, Retiring
    <2>3. store' = store
        BY <1>e, <2>1, <2>2, NothingThere
    <2>4. \A j \in IDS : Old(j)' <=> Old(j)
        BY <1>0, <2>1, <2>3 DEF Old
    <2>5. Newest'
        BY <1>0, <1>a, <2>1, <2>4, QuietNewest DEF Order
    <2>6. Retiring'
        BY <1>0, <1>1, <1>a, <2>1, <2>4 DEF Order, Retiring
    <2>7. Spared'
        BY <1>0, <1>a, <2>1, <2>3 DEF Spared
    <2>8. Printed'
        BY <1>0, <1>1, <1>a, <1>b, <2>1, <2>3, PrintedKept
    <2> QED BY <1>c, <2>5, <2>6, <2>7, <2>8 DEF Order
<1>2. CASE spc = "file"
    <2>1. MoveHead(parent) /\ spc' = "filed" /\ UNCHANGED <<parent, doomed, late>>
        BY <1>2 DEF Retire, prune
    <2>2. head.man \in {parent, Absent} /\ ~Old(parent)
        BY <1>2, <1>a, <1>e DEF Inv, Named, Order, Retiring
    <2>3. \A j \in IDS : Old(j)' => Old(j) \/ j = parent
        BY <1>0, <1>e, <2>1, <2>2, FiledOld
    <2>4. ~Readable(head')
        BY <2>1, Absence DEF MoveHead
    <2>5. \A j \in IDS : Old(j) => j < parent
        BY <1>2, <1>a DEF Order, Retiring
    <2>6. \A j \in IDS : Old(j)' => j <= parent /\ j <= minted
        BY <1>a, <1>d, <2>3, <2>5
    <2>7. Newest' /\ Retiring'
        BY <1>0, <1>d, <2>1, <2>4, <2>6 DEF Newest, Retiring
    <2>8. Spared' /\ Printed'
        BY <1>0, <1>2, <1>a, <1>b, <1>e, <2>1, <2>2, FiledHistory
    <2> QED BY <1>c, <2>7, <2>8 DEF Order
<1>3. CASE spc = "filed"
    <2>1. /\ doomed' = Excess(store) /\ spc' = "trim"
          /\ UNCHANGED <<head, store, target, parent, late>>
        BY <1>3 DEF Retire
    <2>2. \A j \in IDS : (Old(j)' <=> Old(j)) /\ (Old(j) => j <= parent)
        BY <1>0, <1>3, <1>a, <2>1 DEF Old, Order, Retiring
    <2>3. \A j \in Prunable(store) : j <= parent
        BY <2>2, OldRead, Absence DEF Prunable, Readable
    <2>4. MaxKeep > 1 => parent \notin doomed'
        BY <1>e, <2>1, <2>3, NewestSpared
    <2>5. Newest'
        BY <1>0, <1>a, <2>1, <2>2, QuietNewest DEF Order
    <2>6. Retiring'
        BY <1>0, <1>d, <2>1, <2>2, <2>4 DEF Retiring
    <2>7. Spared'
        BY <1>0, <1>a, <2>1, ExcessSpared DEF Spared
    <2>8. Printed'
        BY <1>0, <1>3, <1>a, <1>b, <2>1, PrintedKept
    <2> QED BY <1>c, <2>5, <2>6, <2>7, <2>8 DEF Order
<1>4. CASE spc = "trim" /\ PruneOne
    <2>1. UNCHANGED <<head, target>> /\ (spc' = "off" \/ UNCHANGED <<spc, parent>>)
        BY <1>4 DEF Retire, session, Ends, Returns
    <2>2. /\ StoreSub
          /\ doomed' \ late' \subseteq doomed \ late /\ doomed' \subseteq doomed
          /\ \A j \in IDS : HasPrint(store[j]) => HasPrint(store'[j])
          /\ \A j \in IDS : (store'[j].pin => store[j].pin)
        BY <1>4, PruneHistory
    <2>3. \A j \in IDS : Old(j)' => Old(j)
        BY <1>0, <2>1, <2>2, OldLess DEF Old
    <2>4. Newest'
        BY <1>0, <1>a, <2>1, <2>3, QuietNewest DEF Order
    <2>5. Retiring'
        BY <1>0, <1>4, <1>a, <2>1, <2>2, <2>3 DEF Order, Retiring
    <2>6. Printed'
        BY <1>0, <1>4, <1>a, <1>b, <2>1, <2>2 DEF Printed, HasPrint, Readable
    <2>7. Spared'
        BY <1>0, <1>a, <2>1, <2>2 DEF Spared, TypeOK
    <2> QED BY <1>c, <2>4, <2>5, <2>6, <2>7 DEF Order
<1>5. CASE spc = "trim" /\ ~PruneOne
    <2>1. spc' = "off" /\ UNCHANGED <<head, store, target, doomed, late>>
        BY <1>5 DEF Retire, Ends, Returns, prune
    <2>2. \A j \in IDS : Old(j)' => Old(j)
        BY <1>0, <2>1 DEF Old
    <2>3. Order'
        BY <1>0, <1>a, <1>b, <2>1, <2>2, IdleOrder
    <2>4. Spared'
        BY <1>0, <1>a, <2>1 DEF Spared
    <2>5. Printed'
        BY <1>0, <1>5, <1>a, <1>b, <2>1, PrintedKept
    <2> QED BY <1>c, <2>3, <2>4, <2>5
<1> QED BY <1>0, <1>1, <1>2, <1>3, <1>4, <1>5

LEMMA HousekeepingHistory ==
    Inv /\ History /\ (RunGc \/ \E i \in IDS : PinRevision(i) \/ DeleteRevision(i)) => History'
<1> SUFFICES ASSUME Inv, History, RunGc \/ \E i \in IDS : PinRevision(i) \/ DeleteRevision(i), ~torn'
             PROVE  (Order /\ Spared /\ Printed /\ Clearing)'
    BY DEF History
<1>0. cpc = "idle" /\ UNCHANGED <<minted, spc, taken, rev, parent, doomed, torn, hurt>>
    BY DEF RunGc, PinRevision, DeleteRevision, counts, session, cli, prune
<1>a. TypeOK /\ Order /\ Spared /\ Printed /\ Clearing /\ target = Absent
    BY <1>0 DEF History, Inv, Target
<1>b. cpc \notin Copying
    BY <1>0 DEF Copying
<1>1. CASE RunGc \/ \E i \in IDS : DeleteRevision(i)
    <2>1. /\ UNCHANGED <<head, store, late>> /\ cpc' = "sweeping"
          /\ target' = Staging \/ (target' \in IDS /\ store[target'] # NoDir /\ ~store[target'].pin)
        BY <1>1, Absence DEF RunGc, DeleteRevision, StartSweep, prune, InArchive
    <2>2. \A j \in IDS : Old(j)' => Old(j)
        BY <2>1, Absence DEF Old
    <2>3. Order'
        BY <1>0, <1>a, <1>b, <2>1, <2>2, QuietOrder
    <2>4. Spared'
        BY <1>0, <1>a, <2>1, Absence DEF Spared
    <2>5. Printed'
        BY <1>0, <1>a, <2>1, PrintedKept
    <2>6. Clearing'
        BY <1>0, <1>a, <2>1 DEF Clearing, Readable
    <2> QED BY <2>3, <2>4, <2>5, <2>6
<1>2. ASSUME NEW i \in IDS, PinRevision(i)
      PROVE  (Order /\ Spared /\ Printed /\ Clearing)'
    <2>1. UNCHANGED <<cpc, target>>
        BY <1>2 DEF PinRevision, cli
    <2>2. /\ head'.man = head.man /\ head'.ram = head.ram /\ head'.fp = head.fp
          /\ \A j \in IDS : /\ store'[j].man = store[j].man /\ store'[j].ram = store[j].ram
                            /\ store'[j].fp = store[j].fp
                            /\ store[j] = NoDir => store'[j] = NoDir
          /\ \A j \in doomed \ late' : store'[j].pin => store[j].pin /\ j \notin late
        <3>1. CASE InArchive(i)
            <4>1. store[i] \in DIRS /\ store[i] # NoDir
                BY <1>a, <3>1, Exists, Absence DEF InArchive, TypeOK
            <4>2. store' = [store EXCEPT ![i] = [store[i] EXCEPT !.pin = ~store[i].pin]]
                BY <1>2, <3>1 DEF PinRevision
            <4>3. store[i].pin \in BOOLEAN
                BY <4>1 DEF DIRS
            <4>4. UNCHANGED head /\ late' = late \cup ({i} \cap doomed)
                BY <1>2, <3>1 DEF PinRevision
            <4>5. \A j \in IDS \ {i} : store'[j] = store[j]
                BY <1>a, <4>2 DEF TypeOK
            <4>6. store'[i] = [store[i] EXCEPT !.pin = ~store[i].pin]
                BY <1>a, <4>2 DEF TypeOK
            <4>7. \A j \in doomed \ late' : j \in IDS \ {i} /\ j \notin late
                BY <1>a, <4>4 DEF TypeOK
            <4>8. /\ store'[i].man = store[i].man /\ store'[i].ram = store[i].ram
                  /\ store'[i].fp = store[i].fp
                BY <4>1, <4>3, <4>6, PinDir
            <4>9. \A j \in IDS : /\ store'[j].man = store[j].man /\ store'[j].ram = store[j].ram
                                 /\ store'[j].fp = store[j].fp
                                 /\ store[j] = NoDir => store'[j] = NoDir
                BY <4>1, <4>5, <4>8
            <4>10. \A j \in doomed \ late' : store'[j].pin => store[j].pin /\ j \notin late
                BY <4>5, <4>7
            <4> QED BY <4>4, <4>9, <4>10
        <3>2. CASE ~InArchive(i)
            <4>1. head.man = i /\ UNCHANGED <<store, late>> /\ head' = [head EXCEPT !.pin = ~head.pin]
                BY <1>2, <3>2 DEF PinRevision
            <4>2. head \in DIRS
                BY <1>a, <4>1, Exists, Absence DEF TypeOK
            <4>3. head.pin \in BOOLEAN
                BY <4>2 DEF DIRS
            <4> QED BY <4>1, <4>2, <4>3, PinDir
        <3> QED BY <3>1, <3>2
    <2>3. \A j \in IDS : Old(j)' => Old(j)
        BY <2>1, <2>2 DEF Old
    <2>4. Order'
        BY <1>0, <1>a, <1>b, <2>1, <2>2, <2>3, QuietOrder DEF Readable
    <2>5. Spared'
        BY <1>0, <1>a, <2>1, <2>2, Absence DEF Spared
    <2>6. Printed'
        BY <1>0, <1>a, <2>1, <2>2 DEF Printed, HasPrint, Readable
    <2>7. Clearing'
        BY <1>0, <1>a, <2>1, <2>2 DEF Clearing, Readable
    <2> QED BY <2>4, <2>5, <2>6, <2>7
<1> QED BY <1>1, <1>2

LEMMA SweepHistory == Inv /\ History /\ Sweep => History'
<1> SUFFICES ASSUME Inv, History, Sweep, ~torn'
             PROVE  (Order /\ Spared /\ Printed /\ Clearing)'
    BY DEF History
<1>0. /\ cpc = "sweeping" /\ cpc' \in {"idle", "sweeping"}
      /\ target' = IF cpc' = "idle" THEN Absent ELSE target
      /\ UNCHANGED <<minted, spc, taken, rev, parent, doomed, late, torn>>
    BY DEF Sweep, counts, prune
<1>a. TypeOK /\ Order /\ Spared /\ Printed /\ Clearing
    BY <1>0 DEF History, Inv
<1>b. cpc \notin Copying
    BY <1>0 DEF Copying
<1>c. Absent \notin IDS /\ Absent # AtHead /\ Staging \notin IDS /\ AtHead \notin IDS
    BY Absence
<1>1. CASE /\ target \in IDS /\ RemoveArchived(target) /\ UNCHANGED <<head, tmp, raced, hurt>>
           /\ cpc' = IF store'[target] = NoDir THEN "idle" ELSE "sweeping"
    <2>1. StoreSub
        BY <1>a, <1>1, Takes
    <2>2. \A j \in IDS : Old(j)' => Old(j)
        BY <1>0, <1>c, <2>1, OldLess DEF Old
    <2>3. \A j \in IDS \ {target} : store'[j] = store[j]
        BY <1>a, <1>1 DEF RemoveArchived, TypeOK
    <2>4. \A j \in IDS : store'[j].pin => store[j].pin
        BY <2>1 DEF StoreSub, Sub
    <2>5. Order'
        BY <1>0, <1>1, <1>a, <1>b, <2>2, QuietOrder
    <2>6. Spared'
        BY <1>0, <1>1, <1>a, <1>c, <2>4 DEF Spared, TypeOK
    <2>7. Printed'
        <3>1. HasPrint(NoDir)
            BY Absence DEF HasPrint
        <3>2. ~hurt => \A j \in IDS \ {target} : HasPrint(store[j])
            BY <1>a DEF Printed
        <3>3. ~hurt => \A j \in IDS : ~(cpc' = "sweeping" /\ target' = j) => HasPrint(store'[j])
            BY <1>0, <1>1, <2>3, <3>1, <3>2
        <3> QED BY <1>0, <1>1, <1>a, <3>3 DEF Printed, HasPrint, Readable
    <2>8. Clearing'
        BY <1>0, <1>1, <1>a DEF Clearing, Readable
    <2> QED BY <2>5, <2>6, <2>7, <2>8
<1>2. CASE target \notin IDS /\ UNCHANGED <<head, store, hurt>>
    <2>1. \A j \in IDS : Old(j)' => Old(j)
        BY <1>0, <1>2, <1>c DEF Old
    <2>2. Order'
        BY <1>0, <1>2, <1>a, <1>b, <2>1, QuietOrder
    <2>3. Spared'
        BY <1>0, <1>2, <1>a, <1>c DEF Spared
    <2>4. Printed'
        BY <1>0, <1>2, <1>a, PrintedKept
    <2>5. Clearing'
        BY <1>0, <1>2, <1>a DEF Clearing, Readable
    <2> QED BY <2>2, <2>3, <2>4, <2>5
<1>3. CASE target = AtHead /\ head' \in Shrink(head) /\ hurt' = TRUE /\ UNCHANGED <<store, cpc>>
    <2>1. Sub(head', head)
        BY <1>3, <1>a, ShrinkDir DEF TypeOK
    <2>2. Readable(head') => Readable(head) /\ head'.man = head.man
        BY <2>1, <1>c DEF Sub, Readable
    <2>3. \A j \in IDS : Old(j)' => Old(j)
        BY <1>0, <1>3, <1>c DEF Old
    <2>4. Order'
        BY <1>0, <1>3, <1>a, <1>b, <2>2, <2>3, QuietOrder
    <2>5. Spared'
        BY <1>0, <1>3, <1>a, <2>1, <1>c DEF Spared, Sub
    <2>6. Printed' /\ Clearing'
        BY <1>0, <1>3, <1>a, <2>2 DEF Printed, Clearing
    <2> QED BY <2>4, <2>5, <2>6
<1> QED BY <1>1, <1>2, <1>3, Absence DEF Sweep

LEMMA RollbackHistory == Inv /\ History /\ (\E i \in IDS : Rollback(i)) => History'
<1> SUFFICES ASSUME Inv, History, NEW i \in IDS, Rollback(i), ~torn'
             PROVE  (Order /\ Spared /\ Printed /\ Clearing)'
    BY DEF History
<1>0. /\ cpc = "idle" /\ cpc' \in {"check", "filetarget"} /\ target' = i
      /\ UNCHANGED <<head, store, minted, spc, taken, rev, parent, doomed, late, torn, hurt>>
    BY DEF Rollback, counts, session, prune
<1>a. Order /\ Spared /\ Printed /\ Clearing
    BY <1>0 DEF History
<1>1. \A j \in IDS : Old(j)' => Old(j)
    BY <1>0 DEF Old
<1>2. Order'
    BY <1>0, <1>a, <1>1, QuietOrder DEF Copying
<1>3. Spared' /\ Clearing'
    BY <1>0, <1>a, Absence DEF Spared, Clearing, Readable
<1>4. Printed'
    BY <1>0, <1>a, PrintedKept
<1> QED BY <1>2, <1>3, <1>4

\* A rollback files HEAD, the target or not, on nothing.
LEMMA RollbackFiles ==
    ASSUME Inv, History, ~torn, cpc \in {"filetarget", "movetarget", "filehead", "movehead"},
           UNCHANGED <<minted, session, prune, hurt>>, cpc' \notin {"sweeping", "rewrite", "clearhead"},
           \/ RemoveArchived(head.man) /\ UNCHANGED <<head, target>>
           \/ MoveHead(head.man)
    PROVE  (Order /\ Spared /\ Printed /\ Clearing)'
<1>a. Order /\ Spared /\ Printed /\ Clearing /\ TypeOK /\ spc = "off" /\ spc' = spc /\ target \in IDS
    BY RollbackOff DEF History, Inv, session
<1>b. cpc \notin Copying /\ cpc \notin {"sweeping", "copy", "rewrite"}
    BY DEF Copying
<1>c. head.man \in IDS /\ doomed = {} /\ UNCHANGED <<doomed, late, taken, rev, parent>>
    BY <1>a DEF Inv, Named, Readable, Pruning, prune, session
<1>d. ~Old(head.man) /\ head.man <= minted /\ \A j \in IDS : Old(j) => j <= minted
    BY <1>a, <1>b, <1>c DEF Order, Newest, Readable, IDS
<1>e. AtHead \notin IDS
    BY Absence
<1>1. CASE RemoveArchived(head.man) /\ UNCHANGED <<head, target>>
    <2>1. store' = store
        BY <1>1, <1>c, <1>d, NothingThere
    <2>2. \A j \in IDS : Old(j)' => Old(j)
        BY <1>b, <2>1 DEF Old
    <2>3. Order'
        BY <1>1, <1>a, <1>b, <1>c, <2>2, QuietOrder
    <2>4. Spared' /\ Clearing'
        BY <1>1, <1>a, <1>c, <2>1 DEF Spared, Clearing
    <2>5. Printed'
        BY <1>1, <1>a, <1>b, <1>c, <2>1, PrintedKept
    <2> QED BY <2>3, <2>4, <2>5
<1>2. CASE MoveHead(head.man)
    <2>1. ~Readable(head')
        BY <1>2, Absence DEF MoveHead
    <2>2. /\ \A j \in IDS \ {head.man} : store'[j] = store[j]
        BY <1>2, <1>a, <1>c, Filed
    <2>3. \A j \in IDS : Old(j)' => j <= minted
        BY <1>d, <2>2 DEF Old
    <2>4. Order'
        BY <1>a, <2>1, <2>3 DEF Order, Newest, Superseding, Retiring, Staged
    <2>5. Spared' /\ Printed'
        BY <1>2, <1>a, <1>b, <1>c, <1>d, FiledHistory
    <2>6. Clearing'
        BY <2>1 DEF Clearing
    <2> QED BY <2>4, <2>5, <2>6
<1> QED BY <1>1, <1>2

LEMMA FileHistory == Inv /\ History /\ (RollbackFileTarget \/ RollbackFileHead) => History'
<1> SUFFICES ASSUME Inv, History, RollbackFileTarget \/ RollbackFileHead, ~torn'
             PROVE  (Order /\ Spared /\ Printed /\ Clearing)'
    BY DEF History
<1>0. UNCHANGED <<minted, session, prune, torn, hurt>>
    BY DEF RollbackFileTarget, RollbackFileHead, counts
<1>1. CASE cpc \in {"filetarget", "movetarget", "filehead", "movehead"}
    <2>1. cpc \in {"filetarget", "movetarget"} => head.man = target
        BY DEF Inv, Named
    <2>2. /\ cpc' \in {"filetarget", "movetarget", "check", "filehead", "movehead", "mkdir"}
          /\ \/ RemoveArchived(head.man) /\ UNCHANGED <<head, target>>
             \/ MoveHead(head.man)
        BY <1>1, <2>1 DEF RollbackFileTarget, RollbackFileHead
    <2> QED BY <1>0, <1>1, <2>2, RollbackFiles
<1>2. CASE cpc = "check"
    <2>0. /\ UNCHANGED <<head, store>> /\ cpc' \in {"idle", "filehead", "clearhead"}
          /\ target' \in {target, Absent}
          /\ cpc' = "clearhead" => ~Readable(head)
        BY <1>2 DEF RollbackFileTarget, RollbackFileHead
    <2>1. Order /\ Spared /\ Printed /\ Clearing /\ spc = "off" /\ target \in IDS
        BY <1>0, <1>2, RollbackOff DEF History
    <2>2. \A j \in IDS : Old(j)' => Old(j)
        BY <2>0 DEF Old
    <2>3. Order'
        BY <1>0, <1>2, <2>0, <2>1, <2>2, QuietOrder DEF Copying, session, prune
    <2>4. Spared' /\ Clearing'
        BY <1>0, <2>0, <2>1, Absence DEF Spared, Clearing, Readable, prune, session
    <2>5. Printed'
        BY <1>0, <1>2, <2>0, <2>1, PrintedKept DEF session
    <2> QED BY <2>3, <2>4, <2>5
<1>3. CASE cpc = "clearhead"
    <2>0. ClearHead /\ UNCHANGED store /\ cpc' \in {"mkdir", "clearhead"}
        BY <1>3 DEF RollbackFileTarget, RollbackFileHead
    <2>1. /\ Order /\ Spared /\ Printed /\ Clearing /\ spc = "off" /\ spc' = "off" /\ target \in IDS
          /\ ~Readable(head) /\ TypeOK /\ UNCHANGED <<doomed, late>>
        BY <1>0, <1>3, RollbackOff DEF History, Clearing, session, Inv, prune
    <2>2. ~Readable(head') /\ target' = target
        BY <2>0, <2>1, Cleared, Absence
    <2>3. \A j \in IDS : Old(j)' => Old(j)
        BY <2>0 DEF Old
    <2>4. Order'
        BY <1>0, <1>3, <2>1, <2>2, <2>3, IdleOrder
    <2>5. Spared' /\ Clearing'
        BY <2>0, <2>1, <2>2, Absence DEF Spared, Clearing
    <2>6. Printed'
        BY <1>0, <1>3, <2>0, <2>1, <2>2 DEF Printed, HasPrint, Readable
    <2> QED BY <2>4, <2>5, <2>6
<1> QED BY <1>1, <1>2, <1>3 DEF RollbackFileTarget, RollbackFileHead

LEMMA CopyHistory == Inv /\ History /\ (RollbackCopy \/ RollbackRestore) => History'
<1> SUFFICES ASSUME Inv, History, RollbackCopy \/ RollbackRestore, ~torn'
             PROVE  (Order /\ Spared /\ Printed /\ Clearing)'
    BY DEF History
<1>0. /\ UNCHANGED <<store, minted, spc, taken, rev, parent, doomed, late, target, torn, hurt>>
      /\ cpc \in {"mkdir", "copy", "unlink", "restore"}
      /\ cpc' \in Copying
    BY DEF RollbackCopy, RollbackRestore, counts, session, prune, Copying
<1>a. TypeOK /\ Order /\ Spared /\ Printed /\ Clearing /\ spc = "off" /\ target \in IDS /\ store[target].man = target
    BY <1>0, RollbackOff DEF History, Inv, Target, Copying
<1>b. /\ cpc' \notin {"idle", "sweeping", "rewrite", "clearhead"}
      /\ cpc \notin {"idle", "sweeping", "rewrite", "clearhead"}
    BY <1>0 DEF Copying
<1>1. Inv'
    BY CopyInv, RestoreInv
<1>2. \A p \in PARTS : head'[p] = store[target][p] \/ (p \in todo' /\ head'[p] = EmptyDir[p])
    BY <1>0, <1>1 DEF Inv, Target
<1>3. /\ head'.man \in {target, Absent}
      /\ cpc' # "copy" => head'.man = target /\ head'.ram = store[target].ram /\ head'.fp = store[target].fp
    <2>1. EmptyDir["man"] = Absent
        BY DEF EmptyDir
    <2>2. cpc' # "copy" => todo' = {}
        BY <1>0, <1>1 DEF Inv, Target
    <2> QED BY <1>2, <1>a, <2>1, <2>2 DEF PARTS
<1>4. \A j \in IDS : Old(j)' <=> Old(j)
    BY <1>0, <1>b DEF Old
<1>5. target <= minted
    BY <1>a, OldRead, Absence DEF Order, Newest
<1>6. Newest'
    BY <1>0, <1>a, <1>3, <1>4, <1>5, Absence DEF Order, Newest, Readable
<1>7. Superseding' /\ Retiring' /\ Clearing'
    BY <1>0, <1>a, <1>b DEF Superseding, Retiring, Clearing, Staged
<1>8. Spared'
    BY <1>0, <1>a, <1>b, Absence DEF Spared
<1>9. Printed'
    <2>1. ~hurt => \A j \in IDS : HasPrint(store[j])
        BY <1>a, <1>b DEF Printed
    <2>2. cpc' # "copy" => (HasPrint(store[target]) => HasPrint(head'))
        BY <1>a, <1>3 DEF HasPrint, Readable
    <2> QED BY <1>0, <1>a, <1>b, <2>1, <2>2 DEF Printed, HasPrint, Readable
<1> QED BY <1>6, <1>7, <1>8, <1>9 DEF Order

LEMMA RenameHistory == Inv /\ History /\ RollbackRename => History'
<1> SUFFICES ASSUME Inv, History, RollbackRename, ~torn'
             PROVE  (Order /\ Spared /\ Printed /\ Clearing)'
    BY DEF History
<1>0. UNCHANGED <<spc, taken, rev, parent, torn, hurt>> /\ cpc \in {"truncate", "rewrite", "prune"}
    BY DEF RollbackRename, session
<1>a. /\ TypeOK /\ Order /\ Spared /\ Printed /\ Clearing /\ spc = "off" /\ target \in IDS /\ head \in DIRS
      /\ minted \in Nat /\ \A j \in IDS : j \in Nat
    BY <1>0, RollbackOff, StoreAssumption DEF History, Inv, Target, TypeOK, IDS, Copying
<1>b. cpc \notin {"idle", "sweeping", "copy", "clearhead"} /\ (cpc = "rewrite" => cpc \notin Copying)
    BY <1>0 DEF Copying
<1>c. Superseding' /\ Retiring'
    BY <1>0, <1>a DEF Superseding, Retiring, Staged
<1>1. CASE cpc = "truncate"
    <2>1. /\ head' = [head EXCEPT !.man = Torn] /\ cpc' = "rewrite"
          /\ UNCHANGED <<store, minted, doomed, late, target>>
        BY <1>1 DEF RollbackRename, prune
    <2>2. ~Readable(head') /\ head'.ram = head.ram /\ head'.fp = head.fp
        BY <1>a, <2>1, Absence DEF Readable, DIRS
    <2>3. Readable(head)
        <3>1. store[target].man = target /\ todo = {} /\ \A p \in PARTS : head[p] = store[target][p]
            BY <1>1 DEF Inv, Target, Copying
        <3> QED BY <1>a, <3>1 DEF Readable, PARTS
    <2>4. \A j \in IDS : Old(j)' => Old(j)
        BY <1>b, <2>1 DEF Old
    <2>5. Newest'
        BY <1>a, <2>1, <2>2, <2>4, QuietNewest DEF Order
    <2>6. Spared' /\ Clearing'
        BY <1>0, <1>a, <2>1, <2>2, Absence DEF Spared, Clearing
    <2>7. Printed'
        <3>1. ~hurt => HasPrint(head)
            BY <1>1, <1>a DEF Printed
        <3> QED BY <1>0, <1>1, <1>a, <2>1, <2>2, <2>3, <3>1 DEF Printed, HasPrint, Readable
    <2> QED BY <1>c, <2>5, <2>6, <2>7 DEF Order
<1>2. CASE cpc = "rewrite"
    <2>1. /\ head' = [head EXCEPT !.man = minted + 1] /\ minted' = minted + 1 /\ cpc' = "prune"
          /\ doomed' = Excess(store) /\ UNCHANGED <<store, late, target>>
        BY <1>2 DEF RollbackRename
    <2>2. head'.man = minted + 1 /\ head'.ram = head.ram /\ head'.fp = head.fp
        BY <1>a, <2>1 DEF DIRS
    <2>3. \A j \in IDS : Old(j)' => j <= minted
        BY <1>a, <2>1 DEF Old, Order, Newest
    <2>4. Newest'
        BY <1>a, <2>1, <2>2, <2>3 DEF Newest, Readable
    <2>5. Spared' /\ Clearing'
        BY <1>0, <1>a, <2>1, ExcessSpared, Absence DEF Spared, Clearing
    <2>6. Printed'
        BY <1>0, <1>2, <1>a, <2>1, <2>2 DEF Printed, HasPrint, Readable
    <2> QED BY <1>c, <2>4, <2>5, <2>6 DEF Order
<1>3. CASE cpc = "prune" /\ PruneOne
    <2>1. UNCHANGED <<cpc, target, head, minted>>
        BY <1>3 DEF RollbackRename, PruneOne
    <2>2. /\ StoreSub
          /\ doomed' \ late' \subseteq doomed \ late
          /\ \A j \in IDS : HasPrint(store[j]) => HasPrint(store'[j])
          /\ \A j \in IDS : (store'[j].pin => store[j].pin)
        BY <1>3, PruneHistory
    <2>3. \A j \in IDS : Old(j)' => Old(j)
        BY <2>1, <2>2, OldLess DEF Old
    <2>4. Newest'
        BY <1>a, <2>1, <2>3, QuietNewest DEF Order
    <2>5. Printed' /\ Clearing'
        BY <1>0, <1>3, <1>a, <2>1, <2>2 DEF Printed, HasPrint, Readable, Clearing
    <2>6. Spared'
        BY <1>0, <1>a, <2>1, <2>2 DEF Spared, TypeOK
    <2> QED BY <1>c, <2>4, <2>5, <2>6 DEF Order
<1>4. CASE cpc = "prune" /\ ~PruneOne
    <2>1. doomed = {} /\ cpc' = "idle" /\ target' = Absent /\ UNCHANGED <<store, doomed, late, head, minted>>
        BY <1>4 DEF RollbackRename, prune
    <2>2. \A j \in IDS : Old(j)' => Old(j)
        BY <2>1 DEF Old
    <2>3. Newest'
        BY <1>4, <1>a, <2>1, <2>2, QuietNewest DEF Order, Copying
    <2>4. Spared' /\ Clearing'
        BY <1>0, <1>a, <2>1, Absence DEF Spared, Clearing
    <2>5. Printed'
        BY <1>0, <1>4, <1>a, <2>1, PrintedKept
    <2> QED BY <1>c, <2>3, <2>4, <2>5 DEF Order
<1> QED BY <1>0, <1>1, <1>2, <1>3, <1>4

LEMMA CliDiesHistory == Inv /\ History /\ CliDies => History'
<1> SUFFICES ASSUME Inv, History, CliDies, ~torn'
             PROVE  (Order /\ Spared /\ Printed /\ Clearing)'
    BY DEF History
<1>0. /\ UNCHANGED <<head, store, minted, spc, taken, rev, parent>>
      /\ torn' = (torn \/ cpc # "sweeping") /\ cpc' = "idle" /\ target' = Absent
      /\ hurt' = (hurt \/ (cpc = "sweeping" /\ target \in IDS))
    BY DEF CliDies, session
<1>1. ~torn /\ cpc = "sweeping"
    BY <1>0 DEF Inv, TypeOK
<1>2. UNCHANGED <<doomed, late>>
    BY <1>1 DEF CliDies, prune
<1>a. TypeOK /\ Order /\ Spared /\ Printed /\ Clearing
    BY <1>1 DEF History, Inv
<1>3. \A j \in IDS : Old(j)' => Old(j)
    BY <1>0 DEF Old
<1>4. Order'
    BY <1>0, <1>1, <1>2, <1>a, <1>3, QuietOrder DEF Copying
<1>5. Spared' /\ Clearing'
    BY <1>0, <1>1, <1>2, <1>a, Absence DEF Spared, Clearing, Readable
<1>6. Printed'
    <2>1. CASE hurt'
        BY <2>1 DEF Printed
    <2>2. CASE ~hurt'
        <3>1. hurt' = hurt /\ target \notin IDS
            BY <1>0, <1>1, <1>a, <2>2 DEF TypeOK
        <3> QED BY <1>0, <1>1, <1>a, <3>1, PrintedKept
    <2> QED BY <2>1, <2>2
<1> QED BY <1>4, <1>5, <1>6

LEMMA InitHistory == Init => History
<1> SUFFICES ASSUME Init PROVE Order /\ Spared /\ Printed /\ Clearing
    BY DEF History
<1>1. \A j \in IDS : store[j] = NoDir /\ ~Old(j)
    BY DEF Init, Old
<1>2. ~Readable(head)
    BY Absence DEF Init
<1> QED BY <1>1, <1>2, Absence DEF Init, Order, Newest, Superseding, Retiring, Spared, Printed, Clearing,
           HasPrint, Staged

LEMMA NextHistory == Inv /\ History /\ [Next]_vars => History'
<1> SUFFICES ASSUME Inv, History, [Next]_vars PROVE History'
    OBVIOUS
<1>1. CASE Session
    BY <1>1, RunHistory, CommitHistory, DropHistory, StageHistory, SwapHistory, VerifyHistory,
       StandDownHistory, RetireHistory DEF Session
<1>2. CASE Operator
    BY <1>2, HousekeepingHistory, SweepHistory, RollbackHistory, FileHistory, CopyHistory,
       RenameHistory, CliDiesHistory DEF Operator
<1>3. CASE UNCHANGED vars
    BY <1>3 DEF vars, History, Order, Newest, Superseding, Retiring, Spared, Printed, Clearing, HasPrint,
       Readable, Old
<1> QED BY <1>1, <1>2, <1>3 DEF Next

\* While no rollback was cut short, history is in order.
THEOREM HistoryHolds == Spec => []History
BY InitHistory, NextHistory, InvHolds, PTL DEF Spec

-----------------------------------------------------------------------------
\* What the runs check, for every value of the constants.

\* A start that resumes HEAD resumes it against the disk its RAM remembers,
\* whatever died, file by file, and whatever was removed meanwhile: the one HEAD
\* that may be paired with another disk has lost its fingerprint, to a rollback
\* or a removal cut short or to a gc that raced a commit (overlay_drift and the
\* run loop's guard).
THEOREM ResumePairs == Spec => []ResumePairsRamWithDisk
<1>1. Inv /\ History => ResumePairsRamWithDisk
    <2> SUFFICES ASSUME Inv, History, Resumes
                 PROVE  head.ram = live \/ (head.fp = Absent /\ (torn \/ hurt))
        BY DEF ResumePairsRamWithDisk
    <2>1. /\ spc = "off" /\ cpc \in {"idle", "sweeping"} /\ Readable(head) /\ head.ram # Absent
          /\ head.fp = Absent \/ head.fp = live
        BY DEF Resumes, HasCheckpoint, Drift
    <2>2. CASE head.fp # Absent
        BY <2>1, <2>2 DEF Inv, Agreeing, Agree
    <2>3. CASE head.fp = Absent
        <3>1. ~torn /\ ~hurt => HasPrint(head)
            BY <2>1 DEF History, Printed
        <3> QED BY <2>1, <2>3, <3>1 DEF HasPrint
    <2> QED BY <2>2, <2>3
<1> QED BY <1>1, InvHolds, HistoryHolds, PTL

\* The archive after an operation of somebody who makes room or files.
LEMMA ArchiveKeeps ==
    ASSUME Inv, NEW p \in IDS, ~Old(p), head.man \in {p, Absent},
           RemoveArchived(p) \/ MoveHead(p)
    PROVE  \A i \in IDS : Whole(store[i]) => i # p /\ store'[i] = store[i]
<1>1. \A i \in IDS : Whole(store[i]) => i # p
    BY Absence DEF Old, Whole
<1>2. CASE RemoveArchived(p)
    BY <1>1, <1>2, NothingThere
<1>3. CASE MoveHead(p)
    BY <1>1, <1>3, Filed DEF Inv
<1> QED BY <1>2, <1>3

\* What every step does to the archive while no rollback was cut short: a whole
\* revision stays whole unless it is doomed or being swept.
LEMMA WholeKept ==
    ASSUME Inv, History, ~torn, [Next]_vars, NEW i \in IDS, Whole(store[i]), ~Whole(store'[i])
    PROVE  \/ i \in doomed /\ PruneOne
           \/ cpc = "sweeping" /\ target = i /\ Sweep
<1>0. TypeOK /\ Order
    BY DEF Inv, History
<1>1. store' # store
    OBVIOUS
<1>2. ASSUME NEW p \in IDS, ~Old(p), head.man \in {p, Absent}, RemoveArchived(p) \/ MoveHead(p)
      PROVE  FALSE
    BY <1>2, ArchiveKeeps
<1>3. CASE PruneOne
    BY <1>3, PruneHistory
<1>4. CASE Sweep
    <2>1. target \in IDS /\ RemoveArchived(target) /\ cpc = "sweeping"
        BY <1>1, <1>4 DEF Sweep
    <2>2. \A j \in IDS \ {target} : store'[j] = store[j]
        BY <1>0, <2>1 DEF RemoveArchived, TypeOK
    <2> QED BY <1>4, <2>1, <2>2
<1>5. CASE Archive \/ Move
    <2>1. spc \in {"archive", "move"} /\ parent # Absent /\ (RemoveArchived(parent) \/ MoveHead(parent))
        BY <1>1, <1>5, Absence DEF Archive, Move, Inv, Named, Staged
    <2>2. parent \in IDS /\ spc \in Staged /\ spc # "swap"
        BY <1>0, <2>1 DEF TypeOK, Staged
    <2>3. head.man \in {parent, Absent}
        BY <2>1, <2>2 DEF Inv, Named
    <2>4. \A j \in IDS : Old(j) => j < parent
        BY <1>0, <2>1, <2>2 DEF Order, Superseding
    <2>5. ~Old(parent)
        BY <2>2, <2>4, StoreAssumption DEF IDS
    <2> QED BY <1>2, <2>1, <2>2, <2>3, <2>5
<1>6. CASE Retire /\ ~PruneOne
    <2>1. spc \in {"retire", "file"} /\ (RemoveArchived(parent) \/ MoveHead(parent))
        BY <1>1, <1>6 DEF Retire
    <2>2. parent \in IDS /\ ~Old(parent) /\ head.man \in {parent, Absent}
        BY <1>0, <2>1 DEF TypeOK, Order, Retiring, Inv, Named
    <2> QED BY <1>2, <2>1, <2>2
<1>7. CASE RollbackFileTarget \/ RollbackFileHead
    <2>1. /\ cpc \in {"filetarget", "movetarget", "filehead", "movehead"}
          /\ RemoveArchived(head.man) \/ MoveHead(head.man)
        BY <1>1, <1>7 DEF RollbackFileTarget, RollbackFileHead, Inv, Named
    <2>2. target \in IDS /\ head.man \in IDS
        BY <2>1, RollbackOff DEF Inv, Named, Readable
    <2>3. ~Old(head.man)
        BY <1>0, <2>1, <2>2 DEF Order, Newest, Readable, Copying, IDS
    <2> QED BY <1>2, <2>1, <2>2, <2>3
<1>8. ASSUME NEW j \in IDS, PinRevision(j) PROVE FALSE
    <2>1. InArchive(j) /\ store' = [store EXCEPT ![j] = [store[j] EXCEPT !.pin = ~store[j].pin]]
        BY <1>1, <1>8 DEF PinRevision
    <2>2. store[j] \in DIRS
        BY <1>0, <2>1, Exists DEF InArchive, TypeOK
    <2>3. store[j].pin \in BOOLEAN
        BY <2>2 DEF DIRS
    <2>4. Whole(store[j]) => Whole([store[j] EXCEPT !.pin = ~store[j].pin])
        BY <2>2, <2>3, PinDir
    <2> QED BY <1>0, <2>1, <2>4 DEF TypeOK
<1>9. CASE RollbackRename /\ ~PruneOne
    BY <1>1, <1>9 DEF RollbackRename
<1>10. CASE Prune /\ ~PruneOne
    BY <1>1, <1>10 DEF Prune
<1>11. CASE UNCHANGED store
    BY <1>1, <1>11
<1>12. CASE UNCHANGED vars
    BY <1>1, <1>12 DEF vars
<1>13. CASE Start \/ Drop \/ GuestWrite \/ Commit \/ StageRam \/ StageOverlays \/ StageManifest \/ Swap \/ Verify \/ Stop
            \/ StandDown \/ SessionDies
    BY <1>1, <1>13 DEF Start, Drop, GuestWrite, Commit, StageRam, StageOverlays, StageManifest, Swap, Verify,
       Stop, StandDown, SessionDies
<1>14. CASE RunGc \/ RollbackCopy \/ RollbackRestore \/ CliDies \/ \E j \in IDS : DeleteRevision(j) \/ Rollback(j)
    BY <1>1, <1>14 DEF RunGc, RollbackCopy, RollbackRestore, CliDies, DeleteRevision, Rollback
<1> QED BY <1>3, <1>4, <1>5, <1>6, <1>7, <1>8, <1>9, <1>10, <1>12, <1>13, <1>14 DEF Next, Session, Operator

\* No step costs a pinned revision of the archive its payload: what a prune took
\* for unpinned when it looked, and the operator pinned since, is excepted, and
\* so is a store in which a rollback was cut short (prune_revisions_keeping,
\* delete_revision, plan_gc, archive_head).
THEOREM PinnedKept == Spec => PinnedArchiveKept
<1>1. Inv /\ History /\ [Next]_vars => [~torn => PinnedStayWhole]_vars
    <2> SUFFICES ASSUME Inv, History, [Next]_vars, ~torn, NEW i \in IDS \ late,
                        store[i].pin, Whole(store[i]), ~Whole(store'[i])
                 PROVE  FALSE
        BY DEF PinnedStayWhole, Whole, Readable
    <2>1. \/ i \in doomed /\ PruneOne
          \/ cpc = "sweeping" /\ target = i /\ Sweep
        BY WholeKept
    <2>2. Spared
        BY DEF History
    <2> QED BY <2>1, <2>2 DEF Spared
<1> QED BY <1>1, InvHolds, HistoryHolds, PTL DEF Spec, PinnedArchiveKept

\* What a session's step, or a command that is no rollback, does to HEAD.
LEMMA CommitHead ==
    ASSUME Inv, History, ~torn, [Next]_vars, spc \in Staged, Readable(head), Whole(head), head.man \notin Swept
    PROVE  (head'.man = head.man /\ Whole(head')) \/ Whole(store'[head.man])
<1>0. TypeOK /\ Order /\ cpc \in {"idle", "sweeping"} /\ head.man \in IDS
    BY DEF Inv, History, Apart, Staged, Readable
<1>1. CASE head' = head
    BY <1>1
<1>2. CASE Archive
    BY <1>0, <1>2 DEF Archive, Order, Superseding
<1>3. CASE Move
    <2>1. MoveHead(parent) /\ parent \in IDS /\ head.man = parent
        BY <1>0, <1>3, Absence DEF Move, Inv, Named, Staged, TypeOK
    <2>2. store'[parent] = head
        BY <1>0, <2>1, Filed
    <2> QED BY <2>1, <2>2
<1>4. CASE Swap
    BY <1>0, <1>4 DEF Swap, Order, Superseding
<1>5. CASE Sweep
    <2>1. head' = head \/ (target = AtHead /\ cpc = "sweeping")
        BY <1>5 DEF Sweep
    <2> QED BY <1>0, <1>1, <2>1 DEF Swept
<1>6. ASSUME NEW j \in IDS, PinRevision(j) PROVE head'.man = head.man /\ Whole(head')
    <2>1. head' = head \/ head' = [head EXCEPT !.pin = ~head.pin]
        BY <1>6 DEF PinRevision
    <2>2. head \in DIRS
        BY <1>0, Exists, Absence DEF TypeOK
    <2>3. head.pin \in BOOLEAN
        BY <2>2 DEF DIRS
    <2> QED BY <2>1, <2>2, <2>3, PinDir
<1>7. CASE StageRam \/ StageOverlays \/ StageManifest \/ SessionDies \/ RunGc \/ CliDies
           \/ \E j \in IDS : DeleteRevision(j) \/ Rollback(j)
    BY <1>1, <1>7 DEF StageRam, StageOverlays, StageManifest, SessionDies, RunGc, CliDies, DeleteRevision, Rollback
<1>8. CASE UNCHANGED vars
    BY <1>1, <1>8 DEF vars
<1>9. CASE Start \/ Drop \/ GuestWrite \/ Commit \/ Verify \/ Prune \/ Stop \/ StandDown \/ Retire
    BY <1>9 DEF Start, Drop, GuestWrite, Commit, Verify, Prune, Stop, StandDown, Retire, Staged
<1>10. CASE RollbackFileTarget \/ RollbackFileHead \/ RollbackCopy \/ RollbackRestore \/ RollbackRename
    BY <1>0, <1>10 DEF RollbackFileTarget, RollbackFileHead, RollbackCopy, RollbackRestore, RollbackRename
<1> QED BY <1>2, <1>3, <1>4, <1>5, <1>6, <1>7, <1>8, <1>9, <1>10 DEF Next, Session, Operator

\* Committing a checkpoint, or dying in the middle of it, costs no revision that
\* could be resumed before, unless the operator is deleting it
\* (commit_checkpoint).
THEOREM CommitKeeps == Spec => CommitKeepsHistory
<1>1. Inv /\ History /\ [Next]_vars =>
         [~torn /\ spc \in Staged => Resumable \ Swept \subseteq Resumable']_vars
    <2> SUFFICES ASSUME Inv, History, [Next]_vars, ~torn, spc \in Staged, NEW i \in Resumable \ Swept
                 PROVE  i \in Resumable'
        OBVIOUS
    <2>0. i \in IDS
        BY DEF Resumable
    <2>1. CASE Whole(store[i])
        <3>1. Whole(store'[i])
            <4>1. SUFFICES ASSUME ~Whole(store'[i]) PROVE FALSE
                OBVIOUS
            <4>2. \/ i \in doomed
                  \/ cpc = "sweeping" /\ target = i
                BY <2>0, <2>1, <4>1, WholeKept
            <4> QED BY <2>0, <4>2 DEF Inv, Pruning, Apart, Staged, Swept
        <3> QED BY <2>0, <3>1 DEF Resumable, Whole, Readable
    <2>2. CASE head.man = i /\ Whole(head)
        <3>1. Readable(head)
            BY <2>2 DEF Whole
        <3>2. (head'.man = head.man /\ Whole(head')) \/ Whole(store'[head.man])
            BY <2>2, <3>1, CommitHead
        <3> QED BY <2>0, <2>2, <3>2 DEF Resumable, Whole, Readable
    <2> QED BY <2>1, <2>2 DEF Resumable
<1> QED BY <1>1, InvHolds, HistoryHolds, PTL DEF Spec, CommitKeepsHistory

\* With a budget of two or more, the live snapshot that a run which ends badly
\* files can still be rolled back to while the store is pruned and when it has
\* been (retire_checkpoint).
THEOREM RetiredStays == ASSUME MaxKeep > 1 PROVE Spec => RetiredStaysResumable
<1>1. Inv /\ History /\ [Next]_vars =>
         [~torn /\ spc \in {"filed", "trim"} /\ parent \in Resumable \ Swept => parent \in Resumable']_vars
    <2> SUFFICES ASSUME Inv, History, [Next]_vars, ~torn, spc \in {"filed", "trim"}, parent \in Resumable \ Swept
                 PROVE  parent \in Resumable'
        BY DEF Resumable
    <2>0. parent \in IDS /\ TypeOK /\ cpc \in {"idle", "sweeping"}
        BY DEF Resumable, Inv, Apart
    <2>1. parent \notin doomed
        BY DEF History, Order, Retiring, Inv, Pruning, Apart
    <2>2. CASE Whole(store[parent])
        <3>1. Whole(store'[parent])
            BY <2>0, <2>1, <2>2, WholeKept DEF Swept
        <3> QED BY <2>0, <3>1 DEF Resumable, Whole, Readable
    <2>3. CASE head.man = parent /\ Whole(head)
        <3>1. head'.man = head.man /\ Whole(head')
            <4>1. CASE head' = head
                BY <2>3, <4>1
            <4>2. CASE Sweep
                <5>1. head' = head \/ (target = AtHead /\ cpc = "sweeping")
                    BY <4>2 DEF Sweep
                <5> QED BY <2>0, <2>3, <4>1, <5>1 DEF Swept
            <4>3. ASSUME NEW j \in IDS, PinRevision(j) PROVE head'.man = head.man /\ Whole(head')
                <5>1. head' = head \/ head' = [head EXCEPT !.pin = ~head.pin]
                    BY <4>3 DEF PinRevision
                <5>2. head \in DIRS
                    BY <2>0, <2>3, Exists, Absence DEF TypeOK
                <5>3. head.pin \in BOOLEAN
                    BY <5>2 DEF DIRS
                <5> QED BY <2>3, <5>1, <5>2, <5>3, PinDir
            <4>4. CASE Retire \/ SessionDies \/ RunGc \/ CliDies \/ \E j \in IDS : DeleteRevision(j) \/ Rollback(j)
                BY <4>1, <4>4 DEF Retire, SessionDies, RunGc, CliDies, DeleteRevision, Rollback
            <4>5. CASE UNCHANGED vars
                BY <4>1, <4>5 DEF vars
            <4>6. CASE Start \/ Drop \/ GuestWrite \/ Commit \/ StageRam \/ StageOverlays \/ StageManifest
                       \/ Archive \/ Move \/ Swap \/ Verify \/ Prune \/ Stop \/ StandDown
                BY <4>6 DEF Start, Drop, GuestWrite, Commit, StageRam, StageOverlays, StageManifest, Archive, Move,
                   Swap, Verify, Prune, Stop, StandDown
            <4>7. CASE RollbackFileTarget \/ RollbackFileHead \/ RollbackCopy \/ RollbackRestore \/ RollbackRename
                BY <2>0, <4>7 DEF RollbackFileTarget, RollbackFileHead, RollbackCopy, RollbackRestore, RollbackRename
            <4> QED BY <4>2, <4>3, <4>4, <4>5, <4>6, <4>7 DEF Next, Session, Operator
        <3> QED BY <2>0, <2>3, <3>1 DEF Resumable, Whole, Readable
    <2> QED BY <2>2, <2>3 DEF Resumable
<1> QED BY <1>1, InvHolds, HistoryHolds, PTL DEF Spec, RetiredStaysResumable

=============================================================================
