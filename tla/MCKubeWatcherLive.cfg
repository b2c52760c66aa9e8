CONSTANTS
    WellKnown = {w1}
    Crds = {c1}
    Informers = {i1, i2}
    None = None
    IncludeCrds = TRUE
    ChanCap = 1
    MaxRecords = 1
    MaxTicks = 2
SPECIFICATION FairSpec
PROPERTIES
    ImplementsIngressChannel
    StopCompletes
    InformersExit
CHECK_DEADLOCK FALSE
