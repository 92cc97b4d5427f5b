SPECIFICATION FairSpec
CONSTANTS
    CPUS = {0}
    MaxRaise = 2
    Checkpoints = TRUE
INVARIANTS
    TypeOK
    DeliveredOnce
    NoneLost
PROPERTIES
    TickReturns
