SPECIFICATION Spec
CONSTANTS
  None = None
  v1 = v1
  v2 = v2
  amount1 = amount1
  b1 = b1
  b2 = b2
  k1 = k1
  k2 = k2
  Task = {k1, k2}
  Blocker = {b1, b2}
  Amount = {amount1}
  Worth <- Logarithm
  Factor = {75, 300}
  Due = {0}
  Policy <- Saved
  Version = {v1, v2}
  SeedPolicy <- Installed
  PerDay = 2
  Horizon = 2
  FinalWeek = 1
  Threshold = 1
  AgeSaturation = 2
  UrgentSaturation = 3
  LastInstant = 3
  EditLimit = 3
SYMMETRY Keys
INVARIANTS
  TypeOK
  SkippingIsANoOp
  TimeNeverLowersAScore
PROPERTY
  ReliefNeverRaisesAScore
