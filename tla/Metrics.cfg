SPECIFICATION FairMetricsSpec
CONSTANTS
  e1 = e1
  e2 = e2
  bad = bad
  k1 = k1
  k2 = k2
  lat = lat
  Events <- MCEvents
  Invalid <- MCInvalid
  CounterKey <- MCCounterKey
  LatKey <- MCLatKey
  Duration <- MCDuration
  Workers = {w1, w2}
  QueueSize = 1
  RedisStore = TRUE
  MaxStarts = 2
  MaxFailures = 1
INVARIANTS
  CountedOnce
  StopFlushes
PROPERTIES
  EverythingFlushed
CHECK_DEADLOCK FALSE
