SPECIFICATION Spec
CONSTANTS
    Modes <- MCModes
    Periods <- MCPeriods
    Workers = 1
    MaxHistory = 1
    MaxJobs = 2
    MaxDay = 3
INVARIANTS
    UnderWayIsKnown
    OnlyLoneBarsMissing
PROPERTIES
    FinalIsFinal
    JobEnds
