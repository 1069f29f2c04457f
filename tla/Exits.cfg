CONSTANTS
    s1 = s1
    s2 = s2
    Order <- One
    Others = {s2}
    Ids = {1, 2, 3}
    Prices <- SomePrices
    Stops = {2}
    Targets = {4}
    MaxQueue = 1
    MaxLots <- SomeLots
    InPlace = {TRUE}
    MaxRows = 1
SPECIFICATION ExitsFairSpec
INVARIANT LevelsStick
PROPERTY SellsWhatTriggered
PROPERTY BreachEnds
