SPECIFICATION Spec
CONSTANTS
    None = None
    Grounds = {0, 1}
    Leans = {0, 1}
    MaxRoll = 1
    MaxPresses = 3
INVARIANTS
    TypeOK
    PlaysWhatWasAsked
    HeldIsCurrent
    OneBuild
PROPERTIES
    CarriesOn
    WaitsEnd
CHECK_DEADLOCK FALSE
