SPECIFICATION Spec
CONSTANTS
  None = None
  Workflow <- Flows
  Code = {"a", "b"}
  Project = {}
  Task = {t}
  EngagementType = {retainer}
  Session = {s1, s2}
  Kind <- KindOfFlow
  Default <- DefaultFlow
  Demand = {{}, {"reason"}}
  Offer = {{}}
  SeedStates <- Installed
  SeedEntry <- Entries
  SeedEdges <- Drawn
  EditLimit = 2
SYMMETRY Requesters
INVARIANTS
  TypeOK
  AssignedWorkflowHoldsTheState
  TrailEndsAtTheState
  StrandedRecordsHaveAnExcuse
  WithdrawnWithTheirState
