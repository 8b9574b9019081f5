SPECIFICATION CollabSpec
CONSTANTS
  t1 = t1
  o1 = o1
  o2 = o2
  s1 = s1
  c1 = c1
  c2 = c2
  Original = Original
  External = External
  None = None
  Ticket <- MCTicket
  Client <- MCClient
  Op <- OneOp
  Field <- OneField
  OpField <- OneFieldOp
  OpTicket <- OneOpTicket
  Author <- OneAuthor
  Sync <- OneSync
  Caller <- OneCaller
  MaxAttempts = 1
  MaxStalled = 1
  MaxEdits = 1
  MaxFaults = 1
  MaxCrashes = 1
  MaxDrops = 1
INVARIANTS
  CollabTypeOK
  EditStaysUntilSettled
  SavedForOthersIsSaved
