SPECIFICATION Spec
CONSTANTS
    Slots = {1}
    Games = {1, 2}
    Matches = {1, 2, 3, 4, 5, 6}
    Facility <- FourCourts
    Preferred <- PreferThree
    CourtsPerSlot = 3
    PlayersPerCourt = 2
    Creds = {1, 2}
    MaxCourts = 2
    Pollers = {p1}
    Admins = {}
    Jobs <- AllJobs
    StartAt <- OneLater
    Grace = 1
    ReminderLead = 2
    FinalLead = 1
    Fraction = "1/3"
    OpensAt = 0
    AnnounceAt = 2
    CleanupAt = 9
    EventTicks = 2
    PollWindow = 0
    Horizon = 11
    MaxPlayers = 3
    FaultKinds = {"read", "book", "cancel", "telegram"}
    MaxFaults = 2
    MaxCrashes = 0
    MaxRequests = 0
    PollsKeepUp = TRUE
    FlagLoaded = FALSE
INVARIANTS
    SeatsKept
    HalfStays
    SlotNotOverbooked
    OneGamePerSlot
CHECK_DEADLOCK FALSE
