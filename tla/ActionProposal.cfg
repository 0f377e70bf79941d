\* Two calls of the tool in one turn while other users change the documents.
SPECIFICATION Spec
CONSTANTS
  stores = stores
  a = a
  ab = ab
  item = item
  customer = customer
  Absent = Absent
  NoAbbr = NoAbbr
  Labels <- OneLabel
  Abbrs <- TwoAbbrs
  Longer <- ALongerAbbr
  UserAbbr = a
  CompanyAbbr = ab
  Revocable <- OneField
  Links <- SomeLinks
  Proposals <- SomeProposals
  MaxRows = 1
  Chunk = 2
  MaxCalls = 2
  MaxChanges = 3
  MaxFaults = 1
CHECK_DEADLOCK FALSE
INVARIANTS TypeOK OneProposal PreviewIsTrue AliasIsSound
PROPERTIES KeepsToolContract
