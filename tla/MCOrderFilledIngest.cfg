CONSTANTS
  j1 = j1
  j2 = j2
  Jobs <- MCTwoJobs
  Ts <- MCTs
  DayLength = 3
  PageSize = 2
  BatchSize = 3
  Disturbances <- AllKinds
  MaxShocks = 2
SPECIFICATION Spec
INVARIANTS
  ListedFilesExist
  NoHoles
  TwiceOnlyAtCursor
PROPERTIES
  PartsKept
SYMMETRY EitherJob
CHECK_DEADLOCK FALSE
