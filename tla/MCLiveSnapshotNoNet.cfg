SPECIFICATION FairSpec
CONSTANTS
    VCPUS = {v1, v2}
    WRITERS = {}
    MaxEpoch = 1
PROPERTY SessionEnds
