CONSTANTS
    c1 = c1
    c2 = c2
    Ctl = {c1}
    Capital = 2
    FailureThreshold = 2
    RecoverySeconds = 1
    FailureCap = 2
    p1 = p1
    p2 = p2
    p3 = p3
    Ids = {p1, p2, p3}
    MaxAstray = 1
    LedgerBound = 1
    MaxQueue = 1
    Overlap = FALSE
    RestartInPlace = TRUE
    Faults = {}
SPECIFICATION FairSpec
PROPERTY RefinesHolding
PROPERTY BreakerProtocol
