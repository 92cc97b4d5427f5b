SPECIFICATION Spec
CONSTANTS
    CPUS = {0, 1}
    MaxRaise = 0
    Checkpoints = TRUE
PROPERTY
    ResumeKeepsSettings
