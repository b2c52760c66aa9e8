SPECIFICATION Spec
CONSTANTS
    Names = {1, 2}
    Payloads = {p, q}
    PartLen = 2
    MinLookback = 1
    MaxLookBack = 3
    MaxDelay = 1
    MaxTime = 4
    MaxRows = 3
    Lookbacks = {2, 5}
    Stamps = {3, 5}
    None = None
SYMMETRY PayloadSymmetry
INVARIANTS
    TypeOK
    ShowsPayloadInForce
    AnswerIsAHistory
PROPERTIES
    RangeIsSane
