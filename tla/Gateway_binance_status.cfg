CONSTANTS
  o1 = o1
  i1 = i1
  i2 = i2
  nobody = nobody
  Nobody = nobody
  Order <- OneOrder
  Instance <- OneInstance
  Faults <- NoFault
  Adapter = "binance"
  MaxSubmitAttempts = 2
  MaxRestarts = 0
SPECIFICATION Spec
PROPERTY StatusIsCurrent
CHECK_DEADLOCK FALSE
