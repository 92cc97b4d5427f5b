SPECIFICATION Spec
CONSTANTS
    MaxId = 3
    MaxDisk = 3
    MaxSweeps = 0
    MaxDeaths = 1
    MaxKeep = 2
    Faults = {"cli"}
INVARIANT
    ResumePairsAlways
