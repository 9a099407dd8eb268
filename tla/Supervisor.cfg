CONSTANTS
  NAgents = 2
  MaxRetries = 3
  Fragile <- SecondFragile
SPECIFICATION Spec
INVARIANT SupervisorTypeOK
INVARIANT WatchedWhileAlive
PROPERTY RestartsSpaced
PROPERTY ErrorIsFinal
PROPERTY RevivedInTime
CHECK_DEADLOCK FALSE
