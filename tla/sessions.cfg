SPECIFICATION FairSpec
CONSTANTS
  b1 = b1
  b2 = b2
  u1 = u1
  u2 = u2
  i1 = i1
  i2 = i2
  Browser <- MCBrowser
  User <- MCUser
  UserOf <- MCUserOf
  Item <- MCItem
  Source = i1
  Copy = i2
  MaxSessions = 2
  MaxEvents = 2
CHECK_DEADLOCK FALSE
INVARIANTS
  SessionsTypeOK
  OneSession
  EmptyIsExplained
PROPERTIES
  EveryoneLands
  CacheHeals
