SPECIFICATION Spec
CONSTANTS
    Tiles = {1, 2, 3, 4, 5, 6}
    Nations = {1, 2, 3}
    Units = {1, 2, 3, 4, 5}
    owner <- Owners
    muster_base <- Bases
    crossable <- Sides
    beside <- Neighbours
    province_of <- ProvinceOf
    tile_to_nation <- Ground
    province_owner <- Home
    Deployed <- Start
    Mustering = {5}
    Quarrels <- Foes
    Unsupplied = {2}
    k_withdraw_max_steps = 32
    MAX_ROUTE = 2
    MAX_ORDERS = 3
    MAX_VERBS = 3
    LAST_DAY = 3
INVARIANTS
    TypeOK
    OneNationPerTile
    FightsInOrder
PROPERTIES
    StepByStep
    OrderSpentByItsBattle
CHECK_DEADLOCK FALSE
