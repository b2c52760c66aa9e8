CONSTANTS
    MinuteLen = 2
    PartLen = 4
    MaxTime = 7
    MaxCount = 3
    MaxRecords = 2
SPECIFICATION Spec
INVARIANT NewEventIsAdded
CHECK_DEADLOCK FALSE
