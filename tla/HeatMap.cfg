CONSTANTS
    All = All
    Populations <- MCPopulations
    Selections <- MCSelections
    Ranges <- MCRanges
    MinuteLen = 2
    PartLen = 2
    Resync = 2
    MaxAdjust = 3
    MaxTime = 4
    QueryFrom = 4
    MaxRecords = 3
    MaxEventRows = 1
SPECIFICATION Spec
INVARIANTS
    TypeOK
    RowsShowLifetimes
    RowsJoinTheirOwn
    OverlaysFitTheirRows
    FindsWhatIsThere
    EventsAreOfTheResource
CHECK_DEADLOCK FALSE
