SPECIFICATION Spec
CONSTANTS
    CPUS = {0}
    MaxRaise = 2
    Checkpoints = TRUE
INVARIANT
    LpiAlwaysQueued
