SPECIFICATION FairPubSpec
CONSTANTS
  Events = {1}
  Publishers = {pubA, pubB}
  BatchSize = 1
  MaxAttempts = 3
  Flaky = {1}
  MaxFaults = 2
INVARIANTS
  PubTypeOK
  PublishedOnStream
  DeadAfterMaxAttempts
PROPERTIES
  PendingSettles
CHECK_DEADLOCK FALSE
