SPECIFICATION Spec
CONSTANTS
  p1 = p1
  p2 = p2
  a = a
  b = b
  gone = gone
  v1 = v1
  v2 = v2
  plan = plan
  build = build
  ship = ship
  w1 = w1
  w2 = w2
  seeder = seeder
  None = None
  Project = {p1, p2}
  Fact = {a, b, gone}
  Archived = {gone}
  SeedFact <- TwoProjects
  Version = {v1, v2}
  SeedVersion = v1
  Title = {plan, build, ship}
  Sheet <- TwoTasks
  NewRow <- MoreTasks
  SeedBlockers = 1
  TaskLimit = 3
  LinkLimit = 4
  CodeLimit = 3
  EditLimit = 3
  Worker = {w1, w2}
  Seeder = seeder
SYMMETRY Workers
INVARIANTS TypeOK NextCodeIsFree ScoresFollowTheRows LoopsNeedAReseed
PROPERTY ReseedingIsANoOp
