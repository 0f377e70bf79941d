\* A logout during the refresh round trip.
SPECIFICATION Spec
CONSTANTS
  p1 = p1
  p2 = p2
  Procs <- TwoRequests
  NoProc = NoProc
  LeaseMayExpire = FALSE
  RetiresOld = TRUE
  Logouts = {"user", "erp"}
  MaxTokens = 2
  MaxFaults = 0
SYMMETRY RequestSymmetry
PROPERTIES RevokedIsFinal
