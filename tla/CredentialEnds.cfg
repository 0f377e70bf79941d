\* A crashed holder, fair scheduling; no logout, so the system may stop.
SPECIFICATION FairSpec
CONSTANTS
  p1 = p1
  p2 = p2
  Procs <- TwoRequests
  NoProc = NoProc
  LeaseMayExpire = FALSE
  RetiresOld = TRUE
  Logouts = {}
  MaxTokens = 2
  MaxFaults = 1
CHECK_DEADLOCK FALSE
PROPERTIES RequestsEnd
