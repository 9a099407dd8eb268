CONSTANTS
  o1 = o1
  i1 = i1
  i2 = i2
  nobody = nobody
  Nobody = nobody
  Order <- OneOrder
  Instance <- TwoInstances
  Faults <- BrokerFault
  Adapter = "alpaca"
  MaxSubmitAttempts = 2
  MaxRestarts = 1
SYMMETRY Swaps
SPECIFICATION Spec
INVARIANT FillAccounted
INVARIANT OnlyApprovedOrders
PROPERTY LivingOrdersLeftAlone
PROPERTY OnlyDeadLetterAfterEnd
CHECK_DEADLOCK FALSE
