SPECIFICATION FairJobSpec
CONSTANTS
  Callers = {caller}
  Workers = {w1, w2}
  QueueSize = 2
  RetryLimit = 1
  Every = 1
  MaxJobs = 3
  MaxTime = 2
  MaxStarts = 2
INVARIANTS
  AcceptedAccounted
  DeadAfterRetryLimit
  StopDrains
PROPERTIES
  StopReturns
CHECK_DEADLOCK FALSE
