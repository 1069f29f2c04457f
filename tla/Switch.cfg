CONSTANTS
    Regimes <- Market2
    None = "none"
    FirstPreset = "STR-001"
    Debounce = 2
    Cooldown = 1
    Prices = {2, 6}
    Loss = 3
    Tighten = 3
    MinDistance = 1
    MaxQueue = 1
    Faults = TRUE
SPECIFICATION FairSpec
INVARIANT NoSwitchLost
INVARIANT EnginesFollowPreset
PROPERTY SwitchIsDebounced
PROPERTY DeferralEnds
