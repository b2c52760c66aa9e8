CONSTANTS
    Watched = {w1}
    Played = {p1}
    ChanCap = 1
    MaxRewrites = 1
SPECIFICATION FairSpec
INVARIANTS
    TypeOK
    NoStoreUseAfterClose
    AcceptedIsProcessed
PROPERTY ShutdownTerminates
CHECK_DEADLOCK FALSE
