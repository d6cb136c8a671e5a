SPECIFICATION FairSpec
CONSTANTS
    c1 = c1
    c2 = c2
    Room = Room
    Conns = {c1, c2}
    MAX_PARTICIPANTS = 2
    CHANNEL_CAPACITY = 1
    FORWARD_CAPACITY = 1
    MaxSignals = 0
    MaxQueries = 1
    MaxBreaks = 1
CHECK_DEADLOCK FALSE
PROPERTIES
    HandlerEnds
    FarewellHeard
