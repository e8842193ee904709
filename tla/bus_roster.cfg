SPECIFICATION Spec
CONSTANTS
  None = None
  Event = {1, 2, 3}
  Handler <- Reactor
  Subscribers <- MCSubscribers
  Poison <- MCPoison
  Worker = {w1}
  Admin = {}
  BatchSize = 1
  MaxAttempts = 2
  MaxDrains = 1
  MaxFailures = 0
  MaxCrashes = 0
  MaxOutages = 0
  MaxRequeues = 0
INVARIANT
  OnlyFailuresDeadLetter
