SPECIFICATION CSpec
CONSTANTS
    N = 3
    IntMax = 5
    Maps <- SmallAndWrappedMaps
    MaxToll = 7
INVARIANTS
    TypeOK
    MinIndexIsAssigned
    TollsAreEarned
    NoCheaperRoute
    AnswerIsCheapest
CHECK_DEADLOCK FALSE
