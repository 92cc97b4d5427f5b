SPECIFICATION Spec
CONSTANTS
    MaxId = 3
    MaxDisk = 2
    MaxSweeps = 0
    MaxDeaths = 0
    MaxKeep = 1
    Faults = {}
PROPERTY
    RetiredStaysResumable
