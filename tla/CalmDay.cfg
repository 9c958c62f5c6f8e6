SPECIFICATION FairSpec
CONSTANTS
    Slots = {1, 2}
    Games = {1, 2}
    Matches = {1, 2, 3, 4, 5, 6}
    Facility <- ThreeCourts
    Preferred <- PreferThree
    CourtsPerSlot = 3
    PlayersPerCourt = 2
    Creds = {1, 2}
    MaxCourts = 2
    Pollers = {p1}
    Admins = {}
    Jobs <- AllJobs
    StartAt <- TwoLater
    Grace = 1
    ReminderLead = 2
    FinalLead = 1
    Fraction = "1/3"
    OpensAt = 0
    AnnounceAt = 2
    CleanupAt = 9
    EventTicks = 2
    PollWindow = 0
    Horizon = 11
    MaxPlayers = 5
    FaultKinds = {}
    MaxFaults = 0
    MaxCrashes = 0
    MaxRequests = 0
    PollsKeepUp = TRUE
    FlagLoaded = FALSE
INVARIANTS
    NoIdleCourtKept
    ListedCourtsAreReserved
    SlotsStayApart
PROPERTIES
    EveryGameCloses
    BookedSlotIsAnnounced
    ReminderIsSent
CHECK_DEADLOCK FALSE
