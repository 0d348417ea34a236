CONSTANTS
    Databases = {d1, d2}
    Imports = {i1, i2}
    Capacity = 1
    MaxFaults = 2
    None = None
SPECIFICATION LiveSpec
INVARIANTS
    DeletedIsFree
    ThresholdOwned
PROPERTIES
    BatchesCovered
    NoCloseUnderLease
    EveryImportEnds
    ThresholdReturns
CHECK_DEADLOCK FALSE
