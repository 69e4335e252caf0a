CONSTANTS
    k1 = k1
    k2 = k2
    d1 = d1
    d2 = d2
    o1 = o1
    o2 = o2
    p = p
    PaperOwner = p
    MaxInflight = 3
    PaperAmounts <- Paper
    r1 = r1
    r2 = r2
    r3 = r3
    Null = Null
    Key = {k1}
    Digest = {d1}
    Owner = {o1, p}
    LeaseId = {r1, r2}
    Counter <- MCCounter
    ProviderCounter <- MCProviderCounter
    Cap <- NoPaperLeft
    ReserveAmounts <- CallOrPaper
    Usage <- OneCall
    TTL = 1
    MaxParallel = 1
    MaxTombstones = 2
    MaxMutableUnits = 30
    HeadroomUnits = 2
    MaxTime = 2
    ClockLag = 1
    KeyOf <- SameKey
    DigestOf <- SameDigest
    AmountsOf <- OneCallEach
SPECIFICATION GSpec
INVARIANT LedgerLoads
