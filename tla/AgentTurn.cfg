\* One turn of any kind, with passes of up to two calls.
SPECIFICATION FairSpec
CONSTANTS
  list1 = list1
  list2 = list2
  count = count
  doc = doc
  s1 = s1
  s2 = s2
  Messages <- SomeMessages
  Queries <- SomeQueries
  Terminal <- TerminalQueries
  Lists <- ListQueries
  Slots <- TwoSlots
  MaxRepeats = 2
  MaxPasses = 3
  MaxFaults = 1
CHECK_DEADLOCK FALSE
INVARIANTS TypeOK OneOutcome DoneIsStored RepeatsBounded
PROPERTIES Converges KeepsToolContract TurnShrinks TurnEnds
