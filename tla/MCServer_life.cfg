SPECIFICATION Spec
CONSTANTS
    s1 = s1
    s2 = s2
    i1 = i1
    i2 = i2
    i3 = i3
    i4 = i4
    c1 = c1
    c2 = c2
    NoIP = NoIP
    Servers = {s1, s2}
    Front = s1
    MIGRATIONS <- Order
    SEEDED <- Seeds
    Identifiers <- TagWords
    Releases <- AllTexts
    Faulty <- BadTexts
    Objects <- RepoObjects
    Effects <- RepoEffects
    Purpose <- RepoPurpose
    Databases <- Provisioned
    CallEvents <- EventObjects
    MaxFails = 1
    Traffics <- Everything
    IPs = {i1, i2, i3, i4}
    Callers = {c1, c2}
    WINDOW = 1
    MAX_JOINS_PER_WINDOW = 2
    JOIN_JANITOR_EVERY = 1
    JOIN_MAP_SIZE_CAP = 2
    RATE_LIMIT_MAX = 2
    JANITOR_EVERY = 2
    MAP_SIZE_CAP = 2
    Endpoints = {"turn-credentials", "event"}
    PerMinute <- Quotas
    MINUTE = 12
    MaxClock = 12
    Loads = {1, 2}
    BatchSize = 2
    MaxIds = 2
    MaxBatches = 2
    Numerals <- Numbers
    LowerCase <- Lowered
    Urls <- PoolUrls
    Configs <- PoolConfigs
    MaxReloads = 1
    ServerCfg <- PoolCfg
    TURN_URLS <- StaticTurn
    STUN_URLS <- StaticStun
    FORCE_RELAY_REGIONS <- ForceRelay
    HeaderValues <- Countries
    NoHeader = NoHeader
SYMMETRY Symmetric
CHECK_DEADLOCK FALSE
INVARIANTS
    RecordedIsApplied
    NoCrashLoop
    ServesMigrated
    MapBounded
    RetryHelps
    OneIdPerBrowser
    EventsLand
    OfferSound
PROPERTIES
    WindowKept
