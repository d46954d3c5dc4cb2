CONSTANTS
  j1 = j1
  j2 = j2
  ann = ann
  bob = bob
  sports = sports
  news = news
  Jobs <- MCJobs
  Tables <- MCTables
  Bronze <- MCBronze
  PartFiles <- MCPartFiles
  Dimensions <- MCDimensions
  Tokens <- MCTokens
  Category <- MCCategory
  Wallets <- MCWallets
  DayLength = 2
  FirstDay = 2
  LastDay = 3
  MinFiles = 2
  Retention = 0
  OrphanAge = 0
  ByDay <- MCByDay
  Modes <- MCModes
  Operations <- AllOperations
  MaxWrites <- MCMaxWrites
  MaxLoads <- MCMaxLoads
  Disturbances <- MCDisturbances
  MaxShocks = 1
SPECIFICATION Spec
INVARIANTS
  CurrentReadable
  NewestStored
  RowsOnce
  DimensionLatest
  CountsRight
SYMMETRY EitherJob
CHECK_DEADLOCK FALSE
