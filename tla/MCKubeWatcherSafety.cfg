CONSTANTS
    WellKnown = {w1}
    Crds = {c1, c2}
    Informers = {i1, i2, i3, i4}
    None = None
    IncludeCrds = TRUE
    ChanCap = 1
    MaxRecords = 1
    MaxTicks = 2
SPECIFICATION Spec
SYMMETRY Symmetry
INVARIANTS
    TypeOK
    NoSendOnClosedChannel
    ClosedAtMostOnce
    OneLiveInformerPerCrd
    NoInformerLeak
CHECK_DEADLOCK FALSE
