CONSTANTS
  Callers = {c1, c2}
  UserCount = 2
  MaxTimers = 3
  Throws = TRUE
  Catches = TRUE
SPECIFICATION FairSpec
INVARIANTS Answers OneTimer QuietAfterOff
PROPERTIES  UsersServed
CHECK_DEADLOCK FALSE
