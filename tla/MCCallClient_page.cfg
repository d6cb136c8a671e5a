SPECIFICATION FairSpec
CONSTANTS
    MAX_RECONNECTS = 1
    MaxInits = 2
    MaxJoins = 2
    MaxSignals = 2
CHECK_DEADLOCK FALSE
INVARIANTS
    NothingLostBeforeCall
    OneSocket
    PageFits
PROPERTIES
    GivesUp
