CONSTANTS
  j1 = j1
  j2 = j2
  ann = ann
  bob = bob
  cat = cat
  yes = yes
  Jobs <- MCTwoJobs
  Wallets <- MCWallets
  Outcomes <- MCOutcomes
  Feed <- MCFeed
  DayLength = 10
  LastDay = 2
  TTLDays = 0
  MaxRuns = 2
  Disturbances <- Kinds
SPECIFICATION Spec
INVARIANTS
  NoTradeTwice
  NoTradeMissed
  NoUpdateLost
  LedgerChains
  PositionsMatchLedger
  PartitionComplete
PROPERTIES
  SettlesInOrder
SYMMETRY EitherJob
CHECK_DEADLOCK FALSE
