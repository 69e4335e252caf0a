SPECIFICATION Spec
CONSTANTS
  d1 = d1
  Datasets = {d1}
  MonthDays = 2
  MaxDay = 2
  Runs = {1, 2}
  Verdicts = {"COMPLETE", "FAILED"}
  MaxPolicy = 2
  MaxBuild = 2
INVARIANT TypeOK
INVARIANT CompleteIsSigned
PROPERTY PromotedIsCovered
PROPERTY RetainedIsCovered
CHECK_DEADLOCK FALSE
