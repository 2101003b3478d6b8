SPECIFICATION LocSpec
CONSTANTS
    Names = {"a", "b"}
    Costs <- SignedCosts
    UMax = 7
    LocationFiles <- WellFormedFiles
    MaxLines = 2
    MaxLoads = 3
PROPERTIES
    LoadRefreshes
