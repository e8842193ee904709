SPECIFICATION FairSpec
CONSTANTS
  h1 = h1
  h2 = h2
  None = None
  Event = {1, 2}
  Handler = {h1}
  Subscribers <- MCSubscribers
  Poison <- PoisonFirst
  Worker = {w1, w2}
  Admin = {a1}
  BatchSize = 1
  MaxAttempts = 2
  MaxDrains = 1
  MaxFailures = 1
  MaxCrashes = 1
  MaxOutages = 0
  MaxRequeues = 1
PROPERTIES
  EveryDeliverySettles
