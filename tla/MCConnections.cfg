CONSTANTS
    Conn = {c1, c2}
    Modes = {"DELETE", "PERSIST"}
    InitSizes = {0}
    ZeroPageCached = FALSE
    MaxTxn = 2
    MaxCrash = 1

SPECIFICATION FairSpec
INVARIANT TypeOK
INVARIANT Exclusion
INVARIANT LevelIsHeld
INVARIANT ReadersSeeCommitted
INVARIANT FilesHoldCommitted
INVARIANT LiveJournalKept
PROPERTY CounterGrows
PROPERTY WriterGetsIn
