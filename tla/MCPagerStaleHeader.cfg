CONSTANTS
    Modes = {"PERSIST"}
    Levels = {"FULL"}
    AlignedEnd = TRUE
    AutoVacuum = "never"
    FinalizeFails = {}
    InitSizes = {2}
    MaxPage = 2
    MaxTxn = 2
    MaxSavepoint = 0
    MaxVersion = 2
    MaxFault = 0
    MaxCrash = 0

SPECIFICATION Spec
INVARIANT AtomicCommit
