SPECIFICATION Spec
CONSTANTS
    c1 = c1
    c2 = c2
    Connection = {c1, c2}
    NoConn = NoConn
    Page = {1, 2}
    NSlot = 1
    MaxFrame = 3
    MaxTxn = 2
    MaxSalt = 2
    MaxCrash = 0
    SyncCommit = FALSE
    ResetRace = TRUE
SYMMETRY Symmetry
INVARIANT BackfillInLog
