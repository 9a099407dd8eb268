CONSTANTS
  s1 = s1
  s2 = s2
  r1 = r1
  r2 = r2
  Strategy <- Strategies
  Runner <- Runners2
  Nobody = Nobody
  BatchSize = 2
  MaxCopies = 2
  MaxTasks = 3
  MaxFaults = 1
SPECIFICATION Spec
INVARIANT PipelineTypeOK
INVARIANT OneTaskPerClaim
 
PROPERTY ImplementsStrategyQueue
CHECK_DEADLOCK FALSE
 
