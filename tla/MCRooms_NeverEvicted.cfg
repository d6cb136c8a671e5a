SPECIFICATION Spec
CONSTANTS
    c1 = c1
    c2 = c2
    c3 = c3
    r1 = r1
    None = None
    Conns = {c1, c2, c3}
    RoomIds = {r1}
    MAX_PARTICIPANTS = 2
    GRACE = 0
    CountMod = 256
    MaxRooms = 2
    MaxPeerId = 4
SYMMETRY Symmetric
CHECK_DEADLOCK FALSE
INVARIANTS
    NeverEvicted
