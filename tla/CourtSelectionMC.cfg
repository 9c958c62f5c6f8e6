SPECIFICATION Spec
CONSTANTS
    MaxNum = 4
    MaxReserved = 4
    MaxListed = 3
    MaxN = 5
INVARIANTS
    RunsAreDrainedInOrder
    PreferenceIsFollowed
    ReleaseIsExactAndSaid
CHECK_DEADLOCK FALSE
