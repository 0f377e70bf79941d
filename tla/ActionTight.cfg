\* Every actor on one Action, under the timing the code relies on.
SPECIFICATION Spec
CONSTANTS
  s1 = s1
  s2 = s2
  Actions <- OneAction
  Sessions = {s1}
  SessionOf <- OneOwner
  Executors = {e1, e2}
  Workers = {w1}
  Readers = {r1}
  Deciders = {d1}
  NoProc = NoProc
  NoAction = NoAction
  BatchSize = 1
  StaleReads = FALSE
  LeaseMayExpire = FALSE
  MaxCrashes = 1
\* The owner may stop using the system at any point.
CHECK_DEADLOCK FALSE
INVARIANTS TypeOK RowTellsTheWrite OneWriter
PROPERTIES KeepsPromise
