SPECIFICATION TabSpec
CONSTANTS
  Nothing = Nothing
  SeenLimit = 1
  MaxCommits = 2
  MaxFaults = 1
INVARIANTS
  TabTypeOK
  CardFollowsTheProject
CHECK_DEADLOCK FALSE
