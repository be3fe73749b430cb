SPECIFICATION FairConSpec
CONSTANTS
  Orders = {1, 2}
  ReadCount = 2
  MaxTries = 2
  MaxMessages = 2
  LosesAnswers = FALSE
  MaxStops = 0
PROPERTIES
  DeliveredSettles
CHECK_DEADLOCK FALSE
