\* Two requests and both kinds of logout, with one fault.
SPECIFICATION Spec
CONSTANTS
  p1 = p1
  p2 = p2
  Procs <- TwoRequests
  NoProc = NoProc
  LeaseMayExpire = FALSE
  RetiresOld = TRUE
  Logouts = {"user", "erp"}
  MaxTokens = 2
  MaxFaults = 1
SYMMETRY RequestSymmetry
INVARIANTS TypeOK OneRefresher StoredTokenWorks RetryUsesNewToken
PROPERTIES TokensMoveForward
