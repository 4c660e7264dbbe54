SPECIFICATION PlaySpec
CONSTANTS
    near = near
    far = far
    Body <- TwoBodies
    transit_ticks <- Transits
    scan_ticks <- Scans
    regions_total <- Regions
    Pace <- TwoSpeeds
    STEP = 2
    sim_ticks_per_day = 2
    econ_tick_days = 3
    max_catchup_steps = 2
    MAX_DELTA = 12
    LAST_DAY = 11
INVARIANTS
    TypeOK
    RevealFollowsSchedule
    EtaIsHonest
CHECK_DEADLOCK FALSE
