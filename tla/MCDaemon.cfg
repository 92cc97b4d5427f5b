SPECIFICATION FairSpec
CONSTANTS
    CONNS = {c1, c2}
    VERBS = {"start", "stop", "console", "input", "exec", "shutdown"}
    ROLES = {"library", "cold"}
    MaxVm = 2
    Cap = 4
    MaxOutput = 3
    Digits = 2
    MaxNoise = 2
INVARIANTS
    TypeOK
    OneVmAtATime
    CleanExit
    ReaderComplete
    ExecReportsItsOwn
PROPERTIES
    StopCompletes
\* A daemon whose clients have gone may wait for ever.
CHECK_DEADLOCK FALSE
