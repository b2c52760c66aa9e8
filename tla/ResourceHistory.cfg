CONSTANTS
    MaxUid = 2
    KeepMinorNodeUpdates = FALSE
    PartLen = 2
    MaxTime = 2
    MaxVersion = 2
    MaxRecords = 3
SPECIFICATION Spec
INVARIANTS
    TypeOK
    DeletedAtEndIsLast
    ChangedOncePerVersion
    LastStateIsKept
CHECK_DEADLOCK FALSE
