CONSTANTS
    Modes = {"DELETE", "PERSIST"}
    Levels = {"EXTRA"}
    AlignedEnd = FALSE
    AutoVacuum = "durable"
    FinalizeFails = {}
    InitSizes = {2}
    MaxPage = 2
    MaxTxn = 2
    MaxSavepoint = 0
    MaxVersion = 2
    MaxFault = 1
    MaxCrash = 1

SPECIFICATION Spec
INVARIANT AtomicCommit
INVARIANT Recoverable
INVARIANT Durable
