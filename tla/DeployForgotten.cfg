\* Two deploys of any kind, two destinations, one forgetting, one change.
CONSTANTS
  Deploys = {d1, d2}
  LIMIT = 1
  Requests <- Automatic
  Dests = {east, west}
  Forgets = {f1}
  None = None
  MaxChanges = 1
SYMMETRY Symmetry
SPECIFICATION Spec
PROPERTIES
  ForgottenAsksAgain
CHECK_DEADLOCK FALSE
