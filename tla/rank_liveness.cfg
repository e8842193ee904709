SPECIFICATION FairSpec
CONSTANTS
  None = None
  Project = {p1}
  Worker = {w1, w2}
  Console = {c1}
  TargetDates = {2}
  DueDates = {}
  Registered = {"priority-recalculator"}
  Horizon = 3
  FinalWeek = 1
  Threshold = 3
  MaxDay = 3
  MaxEdits = 0
  MaxRebuilds = 1
  MaxAborts = 1
PROPERTY
  BucketsCatchUp
