CONSTANTS
  Procs = {p, q}
  p = p
  q = q
  MaxSeq = 2
  Artifacts <- OneArtifact
  Markers = {2}
  SideRows = {1}
  MaxRuns = 2
  MaxIssued = 2
  MaxKey = 2
SPECIFICATION Spec
SYMMETRY Symmetric
INVARIANT TypeOK
INVARIANT CursorCovers
INVARIANT HandleExact
PROPERTY SignedMatchesMirror
PROPERTY SigningNeverRollsBack
CHECK_DEADLOCK FALSE
