SPECIFICATION CollabSpec
CONSTANTS
  t1 = t1
  o1 = o1
  o2 = o2
  s1 = s1
  c1 = c1
  c2 = c2
  Original = Original
  External = External
  None = None
  Ticket <- MCTicket
  Client <- MCClient
  Op <- TwoOps
  Field <- Dates
  OpField <- DateOps
  OpTicket <- TwoOpTicket
  Author <- TwoAuthors
  Sync <- OneSync
  Caller <- OneCaller
  MaxAttempts = 1
  MaxStalled = 1
  MaxEdits = 0
  MaxFaults = 0
  MaxCrashes = 0
  MaxDrops = 0
INVARIANTS
  EchoesAgree
  EditStaysUntilSettled
