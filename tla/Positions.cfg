CONSTANTS
  o1 = o1
  o2 = o2
  k1 = k1
  m1 = m1
  m2 = m2
  Order <- Orders
  Key <- OneKey
  Trades <- TwoFills
  Monitor <- TwoLoops
  Cap = 3
  StopLoss = 1
  TakeProfit = 1
  Move <- Moves
  NoRow = NoRow
  MaxFaults = 1
SPECIFICATION Spec
INVARIANT PositionTypeOK
INVARIANT RowWithinCap
INVARIANT BookedWithinFills
INVARIANT CacheFollowsBooks
INVARIANT AloneOneRow
PROPERTY ImplementsSignedLedger
PROPERTY OverdueExits
CHECK_DEADLOCK FALSE
