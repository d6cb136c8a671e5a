SPECIFICATION FairSpec
CONSTANTS
    c1 = c1
    c2 = c2
    r1 = r1
    None = None
    Conns = {c1, c2}
    RoomIds = {r1}
    MAX_PARTICIPANTS = 2
    GRACE = 1
    CountMod = 256
    MaxRooms = 2
    MaxPeerId = 2
CHECK_DEADLOCK FALSE
INVARIANTS
    PeerIdsDistinct
    GaugeNeverAhead
    CallEndRecorded
PROPERTIES
    AbandonedReclaimed
