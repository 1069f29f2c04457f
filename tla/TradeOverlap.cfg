CONSTANTS
    c1 = c1
    c2 = c2
    Ctl = {c1}
    Capital = 2
    FailureThreshold = 1
    RecoverySeconds = 1
    FailureCap = 1
    p1 = p1
    p2 = p2
    p3 = p3
    Ids = {p1, p2, p3}
    MaxAstray = 1
    LedgerBound = 1
    MaxQueue = 0
    Overlap = TRUE
    RestartInPlace = FALSE
    Faults = {"crash", "store"}
SPECIFICATION Spec
INVARIANT TypeOK
INVARIANT BalanceConserved
INVARIANT PositionPersisted
INVARIANT AgreesAtRest
