\* The session that proposed an Action ends under it; the user has another one.
SPECIFICATION FairSpec
CONSTANTS
  s1 = s1
  s2 = s2
  Actions <- OneAction
  Sessions = {s1, s2}
  SessionOf <- OneOwner
  Executors = {e1}
  Workers = {w1}
  Readers = {}
  Deciders = {d1}
  NoProc = NoProc
  NoAction = NoAction
  BatchSize = 1
  StaleReads = FALSE
  LeaseMayExpire = FALSE
  MaxCrashes = 1
CHECK_DEADLOCK FALSE
PROPERTIES SignedInOwnerSettles
