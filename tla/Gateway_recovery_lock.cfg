CONSTANTS
  o1 = o1
  i1 = i1
  i2 = i2
  nobody = nobody
  Nobody = nobody
  Order <- OneOrder
  Instance <- TwoInstances
  Faults <- NoFault
  Adapter = "alpaca"
  MaxSubmitAttempts = 2
  MaxRestarts = 0
SPECIFICATION Spec
PROPERTY RecoveryBlocksExecution
CHECK_DEADLOCK FALSE
