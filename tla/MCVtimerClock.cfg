SPECIFICATION Spec
CONSTANTS
    VCPUS = {v1, v2}
    STEPPERS = {s1, s2}
    Num = 3
    Den = 1
    BaseHost = 6
    BaseGuest = 1
    MaxNow = 9
    Wrap = 64
SYMMETRY ThreadSymmetry
INVARIANTS
    TypeOK
    CoherentOffset
    SlowButCorrect
PROPERTY
    NeverRewinds
