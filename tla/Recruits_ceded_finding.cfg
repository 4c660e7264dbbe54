SPECIFICATION Spec
CONSTANTS
    None = None
    Nations = {1, 2}
    Bases = {1, 2, 3}
    Centres = {1, 2}
    Provinces = {1, 2}
    kind <- Kind
    base_province <- BaseProvince
    centre_province <- CentreProvince
    first_owner <- FirstOwner
    Sites = {3}
    first_population <- FirstPopulation
    per_base <- PerBase
    crew = 2
    hire_batch_manpower = 2
    k_wing_hp_full = 5
    k_recruit_cap_quarters = 2
    k_recruit_pool_max = 4
    k_village = 1
    THOUSAND = 3
    MUSTER_TICKS = {2}
    WING_TICKS = 1
    Hires = {1, 2}
    Wings = {1}
    MAX_POPULATION = 2
    MAX_EVENTS = 1
PROPERTIES DroppedMustersRefund
