SPECIFICATION Spec
CONSTANTS
    Slots = {1}
    Games = {1, 2}
    Matches = {1, 2, 3, 4}
    Facility <- TwoCourts
    Preferred <- PreferTwoOne
    CourtsPerSlot = 2
    PlayersPerCourt = 2
    Creds = {1, 2}
    MaxCourts = 1
    Pollers = {p1}
    Admins = {}
    Jobs <- AllJobs
    StartAt <- OneMiddling
    Grace = 2
    ReminderLead = 2
    FinalLead = 1
    Fraction = "1/3"
    OpensAt = 0
    AnnounceAt = 1
    CleanupAt = 7
    EventTicks = 1
    PollWindow = 0
    Horizon = 7
    MaxPlayers = 1
    FaultKinds = {"read", "write", "book", "cancel", "lost", "telegram"}
    MaxFaults = 2
    MaxCrashes = 1
    MaxRequests = 0
    PollsKeepUp = TRUE
    FlagLoaded = FALSE
INVARIANTS
    RowCanceledIsReleased
PROPERTIES
    ImplementsLedger
CHECK_DEADLOCK FALSE
