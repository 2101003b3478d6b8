SPECIFICATION LocSpec
CONSTANTS
    Names = {"a", "b"}
    Costs = {2}
    UMax = 7
    LocationFiles <- MistypedFiles
    MaxLines = 2
    MaxLoads = 3
INVARIANTS
    PreviousListIsKept
CHECK_DEADLOCK FALSE
