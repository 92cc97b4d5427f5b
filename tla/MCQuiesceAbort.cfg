SPECIFICATION PatientSpec
CONSTANTS
    WRITERS = {w1, w2}
    JoinFirst = TRUE
PROPERTY TeardownAbortsPause
