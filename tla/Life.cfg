CONSTANTS
    h1 = h1
    h2 = h2
    c1 = c1
    c2 = c2
    Deployments = {"embedded", "ipc"}
    Http = {h1, h2}
    Commands = {c1, c2}
    Endpoints = {"start", "stop", "pause", "resume", "emergency_exit", "emergency_stop"}
    MaxCrashes = 1
SPECIFICATION FairSpec
INVARIANT NeverStuckMidTick
PROPERTY StopEndsTrading
PROPERTY SavedCommandHandled
CHECK_DEADLOCK FALSE
