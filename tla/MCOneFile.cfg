SPECIFICATION Spec
CONSTANTS
    BLOBSIZE = 4
    Sizes = {0, 1, 2}
INVARIANT HandlesAreCounted
