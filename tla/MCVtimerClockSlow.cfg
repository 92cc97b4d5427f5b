SPECIFICATION Spec
CONSTANTS
    VCPUS = {v1, v2}
    STEPPERS = {s1}
    Num = 1
    Den = 2
    BaseHost = 2
    BaseGuest = 4
    MaxNow = 9
    Wrap = 64
PROPERTY NeverRewinds
