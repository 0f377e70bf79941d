\* A login presented twice, a request, the logouts and two deliveries with two failures.
SPECIFICATION FairSpec
CONSTANTS
  c1 = c1
  c2 = c2
  r1 = r1
  d1 = d1
  d2 = d2
  Callbacks <- TwoCallbacks
  Requests <- OneRequest
  Deliveries <- TwoDeliveries
  RetriesEarly = FALSE
  MaxFaults = 2
CHECK_DEADLOCK FALSE
INVARIANTS TypeOK  
 
