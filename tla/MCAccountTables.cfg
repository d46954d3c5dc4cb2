CONSTANTS
  r1 = r1
  r2 = r2
  k1 = k1
  k2 = k2
  t1 = t1
  t2 = t2
  t3 = t3
  n1 = n1
  n2 = n2
  n3 = n3
  NoId = NoId
  NoName = NoName
  Requests <- MCRequests
  Keys <- MCKeys
  Limit = 1
  Ids <- MCIds
  Names <- MCNames
SPECIFICATION Spec
INVARIANTS
  UniqueKeys
  LimitOverrun
  DefaultsBounded
  DefaultKept
SYMMETRY Alike
CONSTRAINT OneTable
