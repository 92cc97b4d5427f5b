SPECIFICATION Spec
CONSTANTS
    VCPUS = {v1, v2}
    COORDINATORS = {c1, c2}
    MaxEpoch = 3
SYMMETRY ThreadSymmetry
INVARIANTS
    TypeOK
    OneCoordinator
    OnTimeCapturesAreHeld
    NoShortCheckpoint
