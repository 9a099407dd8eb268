CONSTANTS
  o1 = o1
  i1 = i1
  i2 = i2
  nobody = nobody
  Nobody = nobody
  Order <- OneOrder
  Instance <- OneInstance
  Faults <- RedisFault
  Adapter = "alpaca"
  MaxSubmitAttempts = 2
  MaxRestarts = 1
SPECIFICATION FairSpec
INVARIANT OnlyLivingLeases
PROPERTY ImplementsFillBooking
PROPERTY OrderEnds
PROPERTY LeaseFreed
PROPERTY RecoveryEnds
CHECK_DEADLOCK FALSE
