SPECIFICATION Spec
CONSTANTS
  c1 = c1
  c2 = c2
  c3 = c3
  Calls = {c1, c2, c3}
  Names = {"a", "b"}
  LastTick = 1
  None = None
SYMMETRY CallsSym
INVARIANT RevisionsAreUnique
CHECK_DEADLOCK FALSE
