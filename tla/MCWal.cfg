SPECIFICATION Spec
CONSTANTS
    c1 = c1
    c2 = c2
    Connection = {c1, c2}
    NoConn = NoConn
    Page = {1, 2}
    NSlot = 2
    MaxFrame = 3
    MaxTxn = 2
    MaxSalt = 2
    MaxCrash = 1
    SyncCommit = FALSE
    ResetRace = FALSE
SYMMETRY Symmetry
INVARIANT SnapshotHeld
INVARIANT CommitsKept
INVARIANT SyncedKept
