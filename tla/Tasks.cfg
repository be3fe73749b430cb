SPECIFICATION ServiceSpec
CONSTANTS
  Emails = {ann, ben}
  AuthRequests = {a1, a2}
  AccessTTL = 1
  RefreshTTL = 1
  MaxTokens = 3
  MaxLogins = 3
  MaxTime = 2
  TaskRequests = {t1, t2}
  MaxTasks = 1
  MaxRestarts = 1
SYMMETRY Symmetry
INVARIANTS
  SessionsNeverFork
  OnlyOwnerWrites
CHECK_DEADLOCK FALSE
