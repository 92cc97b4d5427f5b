SPECIFICATION Spec
CONSTANTS
    VCPUS = {v1, v2}
    STEPPERS = {s1}
    Num = 3
    Den = 1
    BaseHost = 5
    BaseGuest = 0
    MaxNow = 9
    Wrap = 64
PROPERTY StepReachesCurve
