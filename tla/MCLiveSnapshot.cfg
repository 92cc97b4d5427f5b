SPECIFICATION FairSpec
CONSTANTS
    VCPUS = {v1}
    WRITERS = {w1}
    MaxEpoch = 2
INVARIANT DumpHasNoWriter
PROPERTIES
    GateSpec
    LatchSpec
    PauseReturns
    SessionEnds
