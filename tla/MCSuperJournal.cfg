CONSTANTS
    DB = {d1, d2}
    MaxTxn = 2
    MaxFault = 1
    MaxLoss = 2

SPECIFICATION Spec
SYMMETRY Symmetry
INVARIANT AllOrNone
INVARIANT NothingTorn
INVARIANT CommittedStays
CHECK_DEADLOCK FALSE
