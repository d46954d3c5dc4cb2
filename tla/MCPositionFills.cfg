CONSTANTS
  Quantities <- MCQuantities
  Prices <- MCPrices
  Fees <- MCFees
  MaxFills = 4
SPECIFICATION FillsSpec
INVARIANTS
  AccountingIdentity
  CostWithinEra
  OpenedSince
CHECK_DEADLOCK FALSE
