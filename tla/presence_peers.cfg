SPECIFICATION Spec
CONSTANTS
  u1 = u1
  u2 = u2
  t1 = t1
  t2 = t2
  c1 = c1
  c2 = c2
  c3 = c3
  None = None
  User <- MCUser
  Tab <- MCTab
  Conn <- MCConn
  UserOf <- MCUserOf
  TabOf <- MCTabOf
  MaxCalls = 2
  MaxEvents = 1
SYMMETRY SocketSymmetry
CHECK_DEADLOCK FALSE
INVARIANTS
  PresenceTypeOK
  PeersSettle
