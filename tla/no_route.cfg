SPECIFICATION CSpec
CONSTANTS
    N = 3
    IntMax = 5
    Maps <- SmallAndWrappedMaps
    MaxToll = 7
INVARIANTS
    NoRouteCostsNothing
CHECK_DEADLOCK FALSE
