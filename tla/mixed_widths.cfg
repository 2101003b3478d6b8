SPECIFICATION SessionSpec
CONSTANTS
    Names <- Invented
    Width <- OwnWidth
    Parts <- WholeNames
    MaxChars = 100
    Databases <- Lists
    Edited = FALSE
    Entries <- Indices
    SizeMax = 3
    MaxLocations = 3
    SomeWidths = {9, 49, 69}
INVARIANTS
    AllAreOffered
CHECK_DEADLOCK FALSE
