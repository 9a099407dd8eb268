CONSTANTS
  c1 = c1
  c2 = c2
  c3 = c3
  k1 = k1
  k2 = k2
  s1 = s1
  Call <- Calls
  Client <- Clients
  Stream <- OneStream
  ClientOf <- ClientsOfCalls
  StreamOf <- StreamsOfCalls
  Parented <- ParentedCalls
  Nothing = Nothing
  MaxAttempts = 2
  MaxFaults = 1
SPECIFICATION Spec
INVARIANT LineageTypeOK
INVARIANT VerifyChainIsSound
INVARIANT SweepIsSound
PROPERTY ImplementsLogs
PROPERTY CallEnds
CHECK_DEADLOCK FALSE
