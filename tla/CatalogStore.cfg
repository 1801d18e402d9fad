\* Three processes, two swaps, two locks removed under live owners.
CONSTANTS
  Procs = {p1, p2, p3}
  MaxVersions = 2
  MaxRemovals = 2
  Nobody = Nobody
SYMMETRY Symmetry
SPECIFICATION StoreSpec
INVARIANTS
  StoreIInv
  AnswersAreTruthful
  RobbedByHand
PROPERTIES
  ImplementsAtomicCatalog
CHECK_DEADLOCK FALSE
