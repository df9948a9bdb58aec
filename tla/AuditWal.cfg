\* Two appends over three lifetimes; lines of one or two bytes, room for two.
CONSTANTS
    Calls = {c1, c2}
    Ids = {i1, i2}
    MaxRecords = 2
    MaxBytes = 3
    MaxRecordBytes = 2
    MaxOpens = 3
SPECIFICATION WalFairSpec
INVARIANT WalSafe
PROPERTY WalSettles
CHECK_DEADLOCK FALSE
