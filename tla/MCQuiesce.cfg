SPECIFICATION Spec
CONSTANTS
    WRITERS = {w1, w2}
    JoinFirst = FALSE
INVARIANTS
    TypeOK
    HeldMeansParked
    NoLostWakeup
    PauserNotForgotten
SYMMETRY WriterSymmetry
