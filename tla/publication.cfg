SPECIFICATION Spec
CONSTANTS
    Publishers = {p1, p2}
    Readers = {r1}
    MaxBuild = 2
    MaxGeneration = 2
    Failing = {2}
SYMMETRY Symmetric
CHECK_DEADLOCK FALSE
INVARIANT TypeOK
INVARIANT ReturnedPublished
INVARIANT ReadyAgrees
PROPERTY ReturnedNewest
