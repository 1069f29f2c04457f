CONSTANTS
    s1 = s1
    p1 = p1
    p2 = p2
    Strategies = {s1}
    Params <- TwoParams
    Http = {h1, h2}
    MaxRollbacks = 2
    MaxEvents <- Bounds
    Faults = TRUE
SPECIFICATION FairSpec
INVARIANT AppliedIsRecorded
INVARIANT RolledBackTogether
PROPERTY SuspendsForRollbacks
PROPERTY MonitoringEnds
CHECK_DEADLOCK FALSE
