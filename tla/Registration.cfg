\* Two processes and three operations on one label; revisions 0 to 3, the
\* later ones of fewer credentials.
CONSTANTS
  Procs = {p1, p2}
  Ops = {o1, o2, o3}
  Titles = {t1}
  Forms = {f1, f2}
  None = None
  MaxRevision = 3
CONSTRAINT LaterArePlain
SYMMETRY Symmetry
SPECIFICATION Spec
INVARIANTS
  IInv
  NoSecretIsForgotten
  CatalogIsBacked
  AnswersAreTruthful
PROPERTIES
  NewLabelsDiffer
  OutcomesStay
  RotationsFollowTheirPrevious
CHECK_DEADLOCK FALSE
