SPECIFICATION Spec
CONSTANTS
  None = None
  Project = {p1}
  Worker = {w1, w2}
  Console = {}
  TargetDates = {0}
  DueDates = {0}
  Registered = {"priority-recalculator", "snapshot-builder"}
  Horizon = 3
  FinalWeek = 1
  Threshold = 1
  MaxDay = 1
  MaxEdits = 1
  MaxRebuilds = 0
  MaxAborts = 0
SYMMETRY PoolSymmetry
INVARIANTS
  TypeOK
  SettledScoreIsCurrent
  SettledSnapshotIsCurrent
