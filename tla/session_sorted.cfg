SPECIFICATION SessionSpec
CONSTANTS
    Names <- ShippedAndInvented
    Width <- OwnWidth
    Parts <- WholeNames
    MaxChars = 100
    Databases <- ShippedAndSorted
    Edited = FALSE
    Entries <- Indices
    SizeMax = 16
    MaxLocations = 5
    SomeWidths = {19, 24, 32, 49, 99}
INVARIANTS
    AllAreOffered
    CostIsForChosenRoute
CHECK_DEADLOCK FALSE
