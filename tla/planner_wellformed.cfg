SPECIFICATION PlannerSpec
CONSTANTS
    Names = {"a", "b"}
    Costs = {2}
    UMax = 7
    LocationFiles <- PlannerFiles
    MaxLines = 2
    MaxLoads = 3
    RouteNames = {"a", "b", "x"}
    RouteFiles <- SmallRouteFiles
INVARIANTS
    PlannerTypeOK
    NoRouteIsMissing
    DestinationsAreListed
    NoUseAfterFree
PROPERTIES
    ImplementsPlans
