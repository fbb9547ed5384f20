CONSTANTS
    Modes = {"DELETE", "TRUNCATE"}
    Levels = {"FULL"}
    AlignedEnd = FALSE
    AutoVacuum = "never"
    FinalizeFails = {"DELETE"}
    InitSizes = {0}
    MaxPage = 2
    MaxTxn = 2
    MaxSavepoint = 0
    MaxVersion = 3
    MaxFault = 1
    MaxCrash = 1

SPECIFICATION FairSpec
INVARIANT TypeOK
INVARIANT NoHotJournal
INVARIANT CacheCoherent
INVARIANT AtomicCommit
INVARIANT Recoverable
PROPERTY CallEnds
PROPERTY Recovers
