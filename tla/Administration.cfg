SPECIFICATION Spec
CONSTANTS
    Requests = {r1, r2}
    NoReq = NoReq
    MaxFaults = 1
    KnownUsers = {anna, ben}
    NewLogins = {new}
    Nobody = Nobody
    Chats = {club, gym}
    MaxChanges = 1
    FirstCred = FirstCred
    FirstMatch = FirstMatch
    NoCred = NoCred
    LoginNames = {first, second}
SYMMETRY Alike
CHECK_DEADLOCK FALSE
INVARIANTS
    OwnerRemains
    FirstLoginsAgree
    TrailFollowsFlag
    DisallowedGroupIsNotBooked
    CourtsCanBeGivenBack
PROPERTIES
    CacheMovesForward
