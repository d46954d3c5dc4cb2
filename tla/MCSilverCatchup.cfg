CONSTANTS
  j1 = j1
  j2 = j2
  a = a
  b = b
  c = c
  Jobs <- MCTwoJobs
  Runs <- MCTwoRuns
  Dt <- MCDt
  SnapshotType <- MCStream
  Parts <- MCParts
  Catalog = FALSE
  LastDay = 2
  Commands <- Writing
  Disturbances <- Kinds
  MaxShocks = 2
SPECIFICATION Spec
INVARIANTS
  NoFileTwice
  MarkedMeansStored
PROPERTIES
  MarksKept
SYMMETRY EitherJob
