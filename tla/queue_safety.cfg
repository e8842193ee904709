SPECIFICATION Spec
CONSTANTS
  None = None
  near = near
  far = far
  mine = mine
  theirs = theirs
  Project = {near, far}
  Task = {mine, theirs}
  Person = {ana}
  HomeOf <- Homes
  CodeRank <- Alphabet
  Worker = {w1, w2}
  Session = {s1, s2}
  Category = {"IN_PROGRESS", "BLOCKED", "DONE"}
  EntryCategory = "IN_PROGRESS"
  Capacity = {1, 2}
  Score = {0, 1}
  StaleAfter = 1
  Due = {0, 1}
  Forced = {near}
  DefaultCapacity = 1
  PageSize = 1
  LastDay = 2
  EditLimit = 2
SYMMETRY Symmetric
CHECK_DEADLOCK FALSE
INVARIANTS
  TypeOK
  SettledQueueAgreesWithDetail
  SettledQueueShowsTheOverride
  LastDecisionStands
  PagesCoverTheQueue
