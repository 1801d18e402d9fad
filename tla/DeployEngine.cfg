\* Two deploys of any kind, two destinations, one forgetting, one change.
CONSTANTS
  Deploys = {d1, d2}
  LIMIT = 1
  Requests <- AllRequests
  Dests = {east, west}
  Forgets = {f1}
  None = None
  MaxChanges = 1
SYMMETRY Symmetry
CONSTRAINT Explored
SPECIFICATION Spec
INVARIANTS
  IInv
  WritesAreJournaled
  NothingIsNothing
  JournalIsHonest
PROPERTIES
  PlacementIsConfirmed
CHECK_DEADLOCK FALSE
