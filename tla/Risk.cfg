CONSTANTS
    s1 = s1
    Order <- One
    MaxConsecutiveLosses = 3
    CooldownHours = 2
    DayHours = 2
    DailyLimit = 2
    Overlap = FALSE
    MaxQueue = 1
    PnlBound = 2
SPECIFICATION RiskFairSpec
PROPERTY BanObeyed
PROPERTY LimitObeyed
PROPERTY TradesAgain
