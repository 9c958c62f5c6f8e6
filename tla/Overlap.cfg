SPECIFICATION Spec
CONSTANTS
    Slots = {1}
    Games = {1}
    Matches = {1, 2, 3}
    Facility <- TwoCourts
    Preferred <- PreferTwoOne
    CourtsPerSlot = 2
    PlayersPerCourt = 2
    Creds = {1, 2}
    MaxCourts = 1
    Pollers = {p1, p2}
    Admins = {a1}
    Jobs <- FewJobs
    StartAt <- OneVerySoon
    Grace = 1
    ReminderLead = 1
    FinalLead = 1
    Fraction = "1/3"
    OpensAt = 0
    AnnounceAt = 1
    CleanupAt = 4
    EventTicks = 1
    PollWindow = 0
    Horizon = 4
    MaxPlayers = 0
    FaultKinds = {"read"}
    MaxFaults = 1
    MaxCrashes = 0
    MaxRequests = 1
    PollsKeepUp = FALSE
    FlagLoaded = TRUE
INVARIANTS
    RecordsFollowPlatform
CHECK_DEADLOCK FALSE
