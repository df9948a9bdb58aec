\* Two requests over two process lifetimes; room for one retained completion.
CONSTANTS
    Calls = {c1, c2}
    Ids = {i1, i2}
    MaxRecords = 2
    MaxBytes = 2
    MaxRecordBytes = 1
    MaxOpens = 2
    MaxActive = 2
    Capacity = 1
    MaxCompleted = 2
    MaxUncorrelated = 1
SPECIFICATION EgressFairSpec
INVARIANT EgressSafe
PROPERTY ChecksAnswered
CHECK_DEADLOCK FALSE
