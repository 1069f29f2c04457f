SPECIFICATION Spec
CONSTANTS
    None = None
    Plans <- MCPlans
    WarmUp = 1
    Week = 2
    LeastOos = 2
    Shapes <- MCShapes
    Initial = 30
    Fee = 1
    Slip = 1
    Stop = 2
    Profit = 4
    Activation = 2
    Trail = 3
    MaxLosses = 2
    DailyLoss = 6
CHECK_DEADLOCK FALSE
INVARIANTS
    EachBarOnce
    ExitsHonoured
    BooksBalance
PROPERTIES
    WalkEnds
