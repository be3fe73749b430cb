SPECIFICATION JobSpec
CONSTANTS
  Callers = {caller}
  Workers = {w1, w2}
  QueueSize = 2
  RetryLimit = 1
  Every = 1
  MaxJobs = 3
  MaxTime = 2
  MaxStarts = 2
INVARIANTS
  NoPanic
CHECK_DEADLOCK FALSE
