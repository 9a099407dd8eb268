CONSTANTS
  q1 = q1
  q2 = q2
  Api <- Requests
  MaxRetries = 1
  MaxFaults = 3
SPECIFICATION Spec
INVARIANT SwitchTypeOK
INVARIANT CopiesAgree
INVARIANT ConfirmedHaltHolds
PROPERTY BreachHalts
