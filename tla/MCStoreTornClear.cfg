SPECIFICATION Spec
CONSTANTS
    MaxId = 2
    MaxDisk = 2
    MaxSweeps = 0
    MaxDeaths = 1
    MaxKeep = 2
    Faults = {"session"}
INVARIANT
    ResumePairsAlways
