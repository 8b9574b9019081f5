SPECIFICATION Spec
CONSTANTS
  t1 = t1
  o1 = o1
  o2 = o2
  s1 = s1
  Original = Original
  External = External
  None = None
  Op <- MCOp
  Ticket <- MCTicket
  OpTicket <- MCOpTicket
  Field <- BoardFields
  OpField <- BoardOp
  Sync <- MCSync
  MaxAttempts = 2
  MaxStalled = 1
  MaxEdits = 1
  MaxFaults = 1
  MaxCrashes = 0
INVARIANTS
  TypeOK
  CacheCoherent
  SyncedLogLands
  IInv
PROPERTIES
  KeepsContract
