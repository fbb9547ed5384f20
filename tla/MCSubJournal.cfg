SPECIFICATION Spec
CONSTANTS
    r1 = r1
    r2 = r2
    Record = {r1, r2}
    PageSize = 2
    ChunkSize = 2
    Spills <- MCSpills
    RetryFailed = FALSE
    MaxSavepoint = 2
    MaxRecord = 3
INVARIANT AssertionsHold ReadpointInList
PROPERTY ImplementsLog
