\* Two turns, the owner and the retention worker on one conversation.
SPECIFICATION FairSpec
CONSTANTS
  c1 = c1
  t1 = t1
  t2 = t2
  Conversations <- OneConversation
  Turns <- TwoTurns
  Worker = Worker
  NoOne = NoOne
  Trigger = 3
  Keep = 1
  Fitting <- AFew
  BatchSize = 1
  LeaseMayExpire = FALSE
  MaxMessages = 5
  MaxFaults = 1
CHECK_DEADLOCK FALSE
INVARIANTS TypeOK NumberIsNext SummaryIsWhole ContextIsSound
PROPERTIES KeepsRecord TurnsEnd DeletedIsPurged
