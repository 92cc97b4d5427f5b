SPECIFICATION Spec
CONSTANTS
    CPUS = {"c1", "c2"}
    KINDS = {"block", "net"}
    Users <- MCAllUsers
    Readers = {"c1", "c2"}
    TRANSPORTS = {"pci", "mmio"}
    Size <- MCSize
    Wrap <- MCWrap
    MaxSent = 1
    MaxReads = 1
    TxLocked = TRUE
    IrqKept = TRUE
INVARIANTS
    NoCircularWait
CHECK_DEADLOCK FALSE
