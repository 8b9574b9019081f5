SPECIFICATION FairSpec
CONSTANTS
  Browser = {b1, b2}
  s1 = s1
  s2 = s2
  s3 = s3
  Sprint = {s1, s2, s3}
  Orders <- MCOrders
  Value = {v1}
  Days = Days
  None = None
  Gone = Gone
  MaxRequests = 2
  MaxEdits = 2
  MaxEvents = 2
CHECK_DEADLOCK FALSE
INVARIANT SharedTypeOK
INVARIANT EditedStays
PROPERTY NotesFollowTheirSprint
PROPERTY GoneStaysGone
PROPERTY CapacitiesAgree
