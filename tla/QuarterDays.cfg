SPECIFICATION Spec
CONSTANTS
    s1 = s1
    s2 = s2
    Site <- TwoSites
    Q = 3
    MILLE = 3
    Duration <- TwoDurations
    Rates = {0, 2, 3}
    MARCH = 3
    MAX_OWED = 1
    MAX_FRAME = 4
    LAST_TICK = 2
INVARIANTS
    TypeOK
    HostsAgree
    WorkIsPaid
PROPERTIES
    CompletesOnItsDay
CHECK_DEADLOCK FALSE
