CONSTANTS
  o1 = o1
  i1 = i1
  i2 = i2
  nobody = nobody
  Nobody = nobody
  Order <- OneOrder
  Instance <- TwoInstances
  Faults <- DatabaseAndBrokerFaults
  Adapter = "alpaca"
  MaxSubmitAttempts = 2
  MaxRestarts = 1
SYMMETRY Swaps
SPECIFICATION Spec
INVARIANT GatewayTypeOK
INVARIANT NoPhantomPosition
INVARIANT LogTruthful
INVARIANT ReplayedThenResolved
PROPERTY HaltHolds
CHECK_DEADLOCK FALSE
