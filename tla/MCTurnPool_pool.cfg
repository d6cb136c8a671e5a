SPECIFICATION FairSpec
CONSTANTS
    u1 = u1
    u2 = u2
    Urls <- TwoUrls
    Configs <- OneOrBoth
    UNHEALTHY_AFTER = 2
    MaxReloads = 1
INVARIANTS
    HealthIsHistory
    GaugeIsPool
PROPERTIES
    ImplementsPool
    DeadIsDropped
    LiveIsOffered
