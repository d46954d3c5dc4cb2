CONSTANTS
  j1 = j1
  j2 = j2
  a = a
  b = b
  c = c
  Jobs <- MCOneJob
  Runs <- MCRuns
  Dt <- MCDt
  SnapshotType <- MCCatalog
  Parts <- MCParts
  Catalog = TRUE
  LastDay = 2
  Commands <- CatchupOnly
  Disturbances <- Interruptions
  MaxShocks = 2
SPECIFICATION FairSpec
PROPERTIES
  EventuallyStored
