\* The daily tables of Gold.
SPECIFICATION Spec

CONSTANTS
  j1 = j1
  j2 = j2
  w1 = w1
  w2 = w2
  m = m
  Jobs <- MCJobs
  Wallets <- MCWallets
  Watchlist <- MCWatchlist
  Fills <- MCFills
  LastDay = 2
  LedgerTTL = 1
  MaxSpan = 1
  MaxCommands = 2
  MaxCopies = 2
  Commands <- CommandNames
  Disturbances <- Kinds
  MaxShocks = 1

CHECK_DEADLOCK FALSE

SYMMETRY MCSymmetry

INVARIANTS
  PartitionsKept
  MirrorAgrees
  RowsOfTheirDay

PROPERTIES
  ExistingKept
