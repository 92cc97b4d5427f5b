SPECIFICATION Spec
CONSTANTS
    MaxId = 3
    MaxDisk = 2
    MaxSweeps = 0
    MaxDeaths = 0
    MaxKeep = 2
    Faults = {}
PROPERTY
    PinnedArchiveAlways
