CONSTANTS
  j1 = j1
  j2 = j2
  Jobs <- MCJobs
  Streams <- MCStreams
  Records <- MCRecords
  SecondLength = 1
  DayLength = 2
  Horizon <- MCHorizon
  PageSize = 1
  BatchSize = 2
  MaxRetries = 1
  MaxChanges <- MCChanges
  MaxRuns = 2
  Disturbances <- MCKinds
  MaxShocks <- MCShocks
SPECIFICATION Spec
INVARIANTS
  CursorCovers
  SnapshotComplete
  DayComplete
SYMMETRY EitherJob
CHECK_DEADLOCK FALSE
