SPECIFICATION FairSessionSpec
CONSTANTS
    Names <- Invented
    Width <- OwnWidth
    Parts <- WholeNames
    MaxChars = 5
    Databases <- Lists
    Edited = TRUE
    Entries <- Anything
    SizeMax = 9
    MaxLocations = 3
    SomeWidths = {1, 3, 4}
INVARIANTS
    PageFits
    RequestIsTheUsers
PROPERTIES
    PagingEnds
    QuestionsEnd
CHECK_DEADLOCK FALSE
