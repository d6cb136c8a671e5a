SPECIFICATION Spec
CONSTANTS
    c1 = c1
    c2 = c2
    Room = Room
    Conns = {c1, c2}
    MAX_PARTICIPANTS = 2
    CHANNEL_CAPACITY = 1
    FORWARD_CAPACITY = 1
    MaxSignals = 2
    MaxQueries = 1
    MaxBreaks = 1
SYMMETRY Symmetric
CHECK_DEADLOCK FALSE
INVARIANTS
    PlacesCounted
PROPERTIES
    GapFree
    FarewellIsLast
    AnnouncedListens
