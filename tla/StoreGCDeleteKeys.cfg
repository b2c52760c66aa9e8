CONSTANTS
    TableNames <- MCTableNames
    KeyOrder <- MCKeyOrder
    LateTables <- MCLateTables
    MaxPart = 2
    MaxRows = 1
    PartLen = 2
    TimeLimit = 2
    SizeThreshold = 2
    DiskSizes = {1}
    DeletionBatchSize = 1
SPECIFICATION FairSpec
PROPERTY DeletionEnds
CHECK_DEADLOCK FALSE
