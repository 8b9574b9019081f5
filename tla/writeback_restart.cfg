SPECIFICATION FairSpec
CONSTANTS
  t1 = t1
  o1 = o1
  o2 = o2
  s1 = s1
  Original = Original
  External = External
  None = None
  Op <- MCOp
  Ticket <- MCTicket
  OpTicket <- MCOpTicket
  Field <- OneField
  OpField <- SameFieldOp
  Sync <- MCSync
  MaxAttempts = 2
  MaxStalled = 1
  MaxEdits = 0
  MaxFaults = 0
  MaxCrashes = 1
INVARIANTS
  PendingHasJob
  FailedLogNeverLands
  NoResurrection
  FifoUnlessRerun
PROPERTIES
  JobsSettle
  CacheConverges
