SPECIFICATION Spec
CONSTANTS
  h1 = h1
  h2 = h2
  None = None
  Event = {1, 2}
  Handler = {h1, h2}
  Subscribers <- MCSubscribers
  Poison <- MCPoison
  Worker = {w1, w2}
  Admin = {a1}
  BatchSize = 2
  MaxAttempts = 2
  MaxDrains = 1
  MaxFailures = 1
  MaxCrashes = 1
  MaxOutages = 1
  MaxRequeues = 1
SYMMETRY WorkerSymmetry
INVARIANTS
  TypeOK
  EffectOncePerClaim
  DrainsAreDisjoint
  NothingElseIsLost
  BudgetIsHonoured
PROPERTY
  KeepsPromise
