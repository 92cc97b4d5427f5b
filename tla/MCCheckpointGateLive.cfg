SPECIFICATION FairSpec
CONSTANTS
    VCPUS = {v1, v2}
    COORDINATORS = {c1}
    MaxEpoch = 2
PROPERTIES
    RequestNoticed
    NobodyStranded
    TeardownCompletes
