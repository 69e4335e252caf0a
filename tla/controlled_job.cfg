CONSTANTS
    c1 = c1
    c2 = c2
    Containers = {c1, c2}
    Nobody = Nobody
    ClaimAttempts = 2
    PutAttempts = 2
    MaxBeats = 1
    MaxFaults = 1
SPECIFICATION FairSpec
CHECK_DEADLOCK FALSE
INVARIANT TypeOK
INVARIANT TerminalIsQuiescent
INVARIANT CompletedIsClean
PROPERTY SurvivesFaults
