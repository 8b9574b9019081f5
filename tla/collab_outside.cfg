SPECIFICATION CollabFairSpec
CONSTANTS
  t1 = t1
  o1 = o1
  o2 = o2
  s1 = s1
  c1 = c1
  c2 = c2
  Original = Original
  External = External
  None = None
  Ticket <- MCTicket
  Client <- OneClient
  Op <- OneOp
  Field <- OneField
  OpField <- OneFieldOp
  OpTicket <- OneOpTicket
  Author <- OneAuthor
  Sync <- OneSync
  Caller <- OneCaller
  MaxAttempts = 1
  MaxStalled = 1
  MaxEdits = 1
  MaxFaults = 0
  MaxCrashes = 0
  MaxDrops = 0
PROPERTY
  OutsideEditsArrive
