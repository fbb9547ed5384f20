CONSTANTS
    InitSizes = {0, 3}
    DestSize = 2
    MaxPage = 3
    MaxTxn = 3
    MaxFault = 1
    MaxBusy = 1

SPECIFICATION FairSpec
INVARIANT TypeOK
INVARIANT CopyTracksSource
PROPERTY DoneIsSnapshot
PROPERTY BackupEnds
