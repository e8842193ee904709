SPECIFICATION Spec
CONSTANTS
  None = None
  Task = {1, 2, 3}
  Session = {s1, s2}
  Payload <- UpToTwo
SYMMETRY RequestSymmetry
INVARIANTS
  TypeOK
  CodesAreUnique
  LoopsNeedARace
  NoMutualDependency
