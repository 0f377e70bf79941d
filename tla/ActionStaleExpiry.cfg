\* The deadline passes between a SELECT and its expiry check.
SPECIFICATION Spec
CONSTANTS
  s1 = s1
  s2 = s2
  Actions <- OneAction
  Sessions = {s1}
  SessionOf <- OneOwner
  Executors = {e1}
  Workers = {}
  Readers = {r1}
  Deciders = {d1}
  NoProc = NoProc
  NoAction = NoAction
  BatchSize = 1
  StaleReads = TRUE
  LeaseMayExpire = FALSE
  MaxCrashes = 0
CHECK_DEADLOCK FALSE

PROPERTIES ExecutingUntilOutcome
