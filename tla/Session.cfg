CONSTANTS
    Sessions = {t1, t2}
    Providers <- TwoProviders
    Budget = 1
    FailureThreshold = 1
    RecoverySeconds = 1
    Order <- SomeParams
    TfWeights <- TfParams
    ScoreWeights <- ScoreParams
    Bounds <- SomeBounds
    Preset <- SomePreset
    One = 1000
    Tolerance = 1
    Pushes <- UpAndApart
    MaxSessions = 2
    MaxMonths = 1
SPECIFICATION FairSpec
INVARIANT BudgetHolds
PROPERTY RouterKeepsBreakers
PROPERTY GuardrailsHold
PROPERTY SessionsEnd
CHECK_DEADLOCK FALSE
