SPECIFICATION Spec
CONSTANTS
    VCPUS = {v1, v2}
    STEPPERS = {s1}
    Num = 3
    Den = 1
    BaseHost = 0
    BaseGuest = 8
    MaxNow = 2
    Wrap = 64
PROPERTY EntryWaitsForStep
