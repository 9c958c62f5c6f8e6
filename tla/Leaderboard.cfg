SPECIFICATION FairSpec
CONSTANTS
    Results = {r1}
    Players = {1, 2}
    Deciders = {d1}
    Polls = {p1}
    NoOne = NoOne
    NoResult = NoResult
    PoolSize = 4
    GameDays = {0, 1}
    ResultWindowDays = 1
    MaxTicks = 7
    MaxOptOuts = 1
    MaxFaults = 1
    WestOfUtc = FALSE
    MaxPosts = 3
INVARIANTS
    PostedOnce
PROPERTIES
    RatedDayIsPosted
    EveryResultDecided
CHECK_DEADLOCK FALSE
