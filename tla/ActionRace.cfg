\* An execution, the recovery worker, a reader, a decision and a logout on one Action,
\* in the transactions of separate sessions, the lease expiring under its holder.
SPECIFICATION FairSpec
CONSTANTS
  s1 = s1
  s2 = s2
  Actions <- OneAction
  Sessions = {s1}
  SessionOf <- OneOwner
  Executors = {e1}
  Workers = {w1}
  Readers = {r1}
  Deciders = {d1}
  NoProc = NoProc
  NoAction = NoAction
  BatchSize = 1
  StaleReads = FALSE
  LeaseMayExpire = TRUE
  MaxCrashes = 1
CHECK_DEADLOCK FALSE
INVARIANTS WriteWasApproved SucceededHasDraft
PROPERTIES ClaimedOnce NoClaimAfterLogout OwnedActionSettles
