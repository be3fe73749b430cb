SPECIFICATION FairRedisSpec
CONSTANTS
  Workers = {w1, w2}
  MaxMessages = 3
  MaxStarts = 2
  MaxFaults = 1
INVARIANTS
  HandledAtMostOnce
  StreamKeepsUnfinished

  
CHECK_DEADLOCK FALSE
