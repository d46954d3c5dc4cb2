CONSTANTS
  j1 = j1
  j2 = j2
  Jobs <- MCOneJob
  Ts <- MCLongTs
  DayLength = 3
  PageSize = 2
  BatchSize = 3
  Disturbances <- Failures
  MaxShocks = 2
SPECIFICATION FairSpec
PROPERTIES
  EventuallyIngested
CHECK_DEADLOCK FALSE
