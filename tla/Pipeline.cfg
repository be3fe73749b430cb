SPECIFICATION FairPipeSpec
CONSTANTS
  Events = {1, 2}
  Publishers = {pubA}
  BatchSize = 2
  MaxAttempts = 2
  Flaky = {1}
  MaxFaults = 1
  ReadCount = 2
  MaxTries = 1
  MaxMessages = 5
  LosesAnswers = TRUE
  MaxStops = 1
INVARIANTS
  AckedAreSettled
  HandledAtMostOnce
  CopiesAccounted
PROPERTIES
  SettledForGood
  OrdersReachProjection
CHECK_DEADLOCK FALSE
