CONSTANTS
    TableNames <- MCTableNames
    KeyOrder <- MCKeyOrder
    LateTables <- MCLateTables
    MaxPart = 3
    MaxRows = 1
    PartLen = 2
    TimeLimit = 4
    SizeThreshold = 2
    DiskSizes = {2, 5}
    DeletionBatchSize = 1
SPECIFICATION FairSpec
INVARIANTS
    TypeOK
    SelectsOldestAndEnough
    NoIndexPanic
PROPERTIES
    KeepsRecentData
    DropPassEnds
    ExpiredDataGoes
CHECK_DEADLOCK FALSE
