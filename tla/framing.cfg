SPECIFICATION FramingSpec
CONSTANTS
    Messages = {"status", "route", "locations"}
    BodyLength <- Bodies
    HeaderLength = 3
    MaxMessages = 3
INVARIANTS
    FramingTypeOK
    NothingIsThrownAway
PROPERTIES
    ImplementsChannel
    EverythingArrives
    ConversationGoesOn
CHECK_DEADLOCK FALSE
