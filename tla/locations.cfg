SPECIFICATION LocSpec
CONSTANTS
    Names = {"a", "b"}
    Costs <- SignedCosts
    UMax = 7
    LocationFiles <- AnyFiles
    MaxLines = 3
    MaxLoads = 3
INVARIANTS
    LocTypeOK
    OwnsItsLocations
    MapAgreesWithList
PROPERTIES
    OnlyUnusedLeak
    NoPartialLoad
CHECK_DEADLOCK FALSE
