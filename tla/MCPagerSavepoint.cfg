CONSTANTS
    Modes = {"DELETE"}
    Levels = {"NORMAL", "FULL"}
    AlignedEnd = FALSE
    AutoVacuum = "never"
    FinalizeFails = {}
    InitSizes = {1, 2}
    MaxPage = 2
    MaxTxn = 1
    MaxSavepoint = 2
    MaxVersion = 2
    MaxFault = 1
    MaxCrash = 0

SPECIFICATION Spec
INVARIANT Recoverable
INVARIANT SavepointRestored
