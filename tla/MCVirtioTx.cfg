SPECIFICATION Spec
CONSTANTS
    CPUS = {"c1", "c2"}
    KINDS = {"net"}
    Users <- MCAllUsers
    Readers = {"c2"}
    TRANSPORTS = {"pci", "mmio"}
    Size <- MCLongTx
    Wrap <- MCLongWrap
    MaxSent = 2
    MaxReads = 0
    TxLocked = FALSE
    IrqKept = TRUE
INVARIANTS
    SomeoneServes
CHECK_DEADLOCK FALSE
