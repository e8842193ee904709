SPECIFICATION Spec
CONSTANTS
  None = None
  Absent = Absent
  Label = {"Ana Gil", "Ana Maria Gil", "Leo Paz"}
  Stem <- Slug
  Role = {"ops", "dev"}
  Points = {10, 20}
  Session = {s1, s2}
  New <- Sheets
  Change <- Patches
  SeedMember <- Leads
  SeedRole <- Installed
  CodeLimit = 2
  EditLimit = 3
SYMMETRY Symmetric
CHECK_DEADLOCK FALSE
INVARIANTS
  TypeOK
  LockoutNeedsARace
  RosterIsOnRecord
  RolesKeepTheirPlace
