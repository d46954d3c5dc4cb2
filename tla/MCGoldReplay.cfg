\* Snapshots of three days, computed in any order of ranges.
SPECIFICATION Spec

CONSTANTS
  j1 = j1
  j2 = j2
  w1 = w1
  w2 = w2
  m = m
  Jobs <- MCOneJob
  Wallets <- MCWallets
  Watchlist <- MCWatchlist
  Fills <- MCTwoDayFills
  LastDay = 3
  LedgerTTL = 30
  MaxSpan = 1
  MaxCommands = 2
  MaxCopies = 2
  Commands <- MCReplays
  Disturbances = {}
  MaxShocks = 0

CHECK_DEADLOCK FALSE

INVARIANTS
  SnapshotsOfTheirDay
