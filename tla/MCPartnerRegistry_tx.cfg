SPECIFICATION RegistrySpec
CONSTANTS
    t1 = t1
    t2 = t2
    r1 = r1
    r2 = r2
    r3 = r3
    p1 = p1
    p2 = p2
    k1 = k1
    k2 = k2
    k3 = k3
    Tokens <- TwoTokens
    Reqs <- ThreeReqs
    Keys <- ThreeKeys
    PartnerOf <- PartnerOfKey
    Owner <- OwnerOfToken
    MaxPosts = 3
    MaxLapses = 2
SYMMETRY Symmetric
CHECK_DEADLOCK FALSE
INVARIANTS
    UsedNamesNode
    GoneForGood
PROPERTIES
    CommitsOnlyValid
