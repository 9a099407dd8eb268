CONSTANTS
  o1 = o1
  i1 = i1
  i2 = i2
  nobody = nobody
  Nobody = nobody
  Order <- OneOrder
  Instance <- OneInstance
  Faults <- DatabaseFault
  Adapter = "alpaca"
  MaxSubmitAttempts = 2
  MaxRestarts = 1
SPECIFICATION Spec
INVARIANT OnlyApprovedOrders
CHECK_DEADLOCK FALSE
