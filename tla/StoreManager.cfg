CONSTANT MaxRewrites = 2
SPECIFICATION FairSpec
INVARIANTS
    TypeOK
    NoDbUseAfterShutdown
PROPERTY ShutdownCompletes
CHECK_DEADLOCK FALSE
