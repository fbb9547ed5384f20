\* Three connections, one of which may read uncommitted data.
SPECIFICATION FairSpec
CONSTANTS
    Handle = {h1, h2, h3}
    NoHandle = NoHandle
    Tables = {1, 2}
    ReadUncommit = {h3}
    MaxStmt = 2
    MaxFault = 1
INVARIANT BtreeIntegrity
INVARIANT ReadersKeepLocks
INVARIANT NoDirtyRead
PROPERTY WriterNotStarved
