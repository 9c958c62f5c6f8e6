SPECIFICATION Spec
CONSTANTS
    Results = {r1, r2}
    Players = {1, 2}
    Deciders = {d1}
    Polls = {p1}
    NoOne = NoOne
    NoResult = NoResult
    PoolSize = 4
    GameDays = {0}
    ResultWindowDays = 0
    MaxTicks = 5
    MaxOptOuts = 0
    MaxFaults = 2
    WestOfUtc = FALSE
    MaxPosts = 3
INVARIANTS
    RatedExactlyOnce
    ChangesFormChain
    NoCircularWait
    CardTellsTruth
    SilentNeedsFaults
PROPERTIES
    ImplementsLedger
CHECK_DEADLOCK FALSE
