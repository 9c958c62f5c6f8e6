SPECIFICATION FairSpec
CONSTANTS
    Players = {p1, p2}
    Taps = {t1, t2}
    PlayersPerCourt = 2
    MaxCourts = 2
    MaxGuests = 2
    Editors = {e1, e2}
    MaxMessages = 2
    MaxChanges = 3
    MaxFaults = 1
INVARIANTS
    CountedSeatKept
    AnnouncementIsCurrent
    NoOrphan
PROPERTIES
    AnnouncementCatchesUp
CHECK_DEADLOCK FALSE
