SPECIFICATION Spec
CONSTANTS
    CPUS = {0, 1}
    MaxRaise = 1
    Checkpoints = TRUE
INVARIANT
    CheckpointKeepsQueued
