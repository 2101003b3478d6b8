SPECIFICATION FairSystemSpec
CONSTANTS
    c1 = c1
    c2 = c2
    c3 = c3
    a = a
    b = b
    Clients <- ThreeClients
    None = None
    Observed = c1
    Names <- TwoNames
    Width <- AnyWidth
    Parts <- WholeNames
    MaxChars = 2
    Databases <- Lists
    Edited = TRUE
    Entries <- SomeEntries
    SizeMax = 2
INVARIANTS
    ServiceTypeOK
    OneMessageUnderWay
    OneSessionAtATime
PROPERTIES
    SessionIsServed
    NoWaitWithoutCause
    ServersEndIsNoticed
CHECK_DEADLOCK FALSE
