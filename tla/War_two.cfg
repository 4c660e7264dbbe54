SPECIFICATION Spec
CONSTANTS
    a = a
    b = b
    p1 = p1
    p2 = p2
    p3 = p3
    null_entity = none
    Nation <- TwoNations
    Province = {p1, p2, p3}
    Tiles <- SmallTiles
    InitOwner <- TwoOwners
    k_war_goals_max = 1
    k_war_truce_ticks = 2
    k_war_offer_cooldown_ticks = 2
    LAST_TICK = 2
    MAX_LOST = 1
    MAX_WARS = 2
    MAX_BATTLES = 1
INVARIANTS
    TypeOK
    WarTables
    TruceIsQuiet
PROPERTIES
    NationKeepsGround
    TermsRunOut
    GroundMovesByPeace
    PeaceReturnsGoals
CHECK_DEADLOCK FALSE
