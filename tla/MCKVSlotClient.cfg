SPECIFICATION Spec
CONSTANTS
  r1 = r1
  r2 = r2
  r3 = r3
  r4 = r4
  t1 = t1
  NoRequest = NoRequest
  Requests <- MCRequests
  Tokens <- MCTokens
  MaxSlots = 3
  MaxPos = 2
INVARIANTS
  CellsFollowHolder
