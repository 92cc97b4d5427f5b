SPECIFICATION Spec
CONSTANTS
    MaxId = 2
    MaxDisk = 2
    MaxSweeps = 1
    MaxDeaths = 0
    MaxKeep = 2
    Faults = {}
INVARIANT
    CommittedHasRam
