SPECIFICATION Spec
CONSTANTS
    t1 = t1
    t2 = t2
    r1 = r1
    r2 = r2
    ours = ours
    theirs = theirs
    v1 = v1
    v2 = v2
    latest = latest
    Tokens <- TwoTokens
    Reqs <- TwoReqs
    Keys <- OurKey
    PartnerOf <- PartnerOfOurKey
    Owner <- OwnerOfToken
    EdgeKey = ours
    Versions <- Tags
    Latest = latest
    Reseeds <- FirstToSecond
    MaxPosts = 0
    MaxLapses = 0
    FirstTags <- OldOrLatest
    MaxScripts = 3
SYMMETRY Symmetric
INVARIANTS
    SealedIsRegistered
    ConfIsRegistered
    ReportIsTrue
