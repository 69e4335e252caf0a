CONSTANTS
    k1 = k1
    k2 = k2
    d1 = d1
    d2 = d2
    o1 = o1
    o2 = o2
    r1 = r1
    r2 = r2
    r3 = r3
    Null = Null
    Key = {k1, k2}
    Digest = {d1}
    Owner = {o1}
    LeaseId = {r1, r2}
    Counter <- MCCounter
    ProviderCounter <- MCProviderCounter
    Cap <- MCCap
    ReserveAmounts <- CallAmounts
    Usage <- CallUsage
    TTL = 1
    MaxParallel = 2
    MaxTombstones = 2
    MaxMutableUnits = 30
    HeadroomUnits = 2
    MaxTime = 2
    ClockLag = 1
SPECIFICATION Spec
SYMMETRY RunsAndKeys
INVARIANT TypeOK
INVARIANT UnreadableOnlyByPaperOrLateCancel
INVARIANT SpendWithinCaps
INVARIANT StartedRunSettleable
PROPERTY SettledOnce
PROPERTY ImplementsLifecycle
