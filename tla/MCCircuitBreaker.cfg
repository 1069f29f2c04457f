CONSTANTS
    tickTask = tickTask
    busTask = busTask
    controlTask = controlTask
    Attempts <- MCAttempts
    FailureThreshold = 3
    RecoverySeconds = 2
    FailureCap = 5
SPECIFICATION FairSpec
INVARIANT CountMatchesState
PROPERTY NoAdmissionWhileCooling
PROPERTY AdmitsAgainAndAgain
