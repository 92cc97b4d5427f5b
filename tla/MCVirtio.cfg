SPECIFICATION FairSpec
CONSTANTS
    CPUS = {"c1", "c2"}
    KINDS = {"block", "net"}
    Users <- MCUsers
    Readers = {"c2"}
    TRANSPORTS = {"pci", "mmio"}
    Size <- MCSize
    Wrap <- MCWrap
    MaxSent = 1
    MaxReads = 1
    TxLocked = TRUE
    IrqKept = TRUE
INVARIANTS
    TypeOK
    NoWakeSlept
    SomeoneServes
PROPERTIES
    NothingStranded
CHECK_DEADLOCK FALSE
