SPECIFICATION Spec
CONSTANTS
    MaxId = 3
    MaxDisk = 2
    MaxSweeps = 1
    MaxDeaths = 1
    MaxKeep = 2
    Faults = {"session", "cli"}
INVARIANTS
    TypeOK
    ResumePairsRamWithDisk
    CommittedHeadIsPaired
PROPERTIES
    PinnedArchiveKept
    CommitKeepsHistory
    RetiredStaysResumable
\* The bound on disk states stops a session whose overlays a dead rollback removed.
CHECK_DEADLOCK FALSE
