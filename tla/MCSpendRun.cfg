SPECIFICATION Spec
CONSTANTS
    none = none
    NoGold = none
    MaxGold = 1
    MaxHeld = 3
    MaxJobs = 2
    MaxCalls = 2
    Ten = 2
    HeroPools <- MCHeroPools
    UnitCosts <- MCUnitCosts
    CostRates <- MCCostRates
    MaxRoom = 2
INVARIANTS
    WithinHeld
PROPERTIES
    FileStopsSpends
    SeenDropStopsItsOwn
    RunEnds
