SPECIFICATION FairSpec
CONSTANTS
  None = None
  Unassigned = Unassigned
  NoEpic = NoEpic
  m1 = m1
  m2 = m2
  NITER = 3
  starts <- MCStarts
  finishes <- MCFinishes
  Today = 2
  WorkItem <- MCWorkItem
  Member <- MCMember
  Areas = {}
  Teams <- MCTeams
  MemberOff <- MCMemberOff
  TeamOff <- MCTeamOff
  DayWorked <- MCDayWorked
  AdoBoards <- MCAdoBoards
  TypeStates <- MCTypeStates
  TypeCategories <- MCTypeCategories
  MaxLevels = 2
  Done = {"Closed"}
  Priority <- MCPriority
  Rank <- MCRank
  Projects <- MCProjects
  Edited <- MCEdited
  Touched = {"s"}
  MaxGestures = 2
  MaxMishaps = 1
  MaxUnderWay = 1
CHECK_DEADLOCK FALSE
INVARIANTS
  BoardTypeOK
  EpicsAreNearest
  StoriesOnce
  HiddenWithTheirRow
  BandIsTheBars
  WaterlineSplits
  BarsStayOnGrid
  DropsAreReadBack
PROPERTIES
  EditsAreWritten
  BoardFollows
