\* Three operations on one credential; a replacement overtakes one that died before its record.
CONSTANTS
  Procs = {p1, p2}
  Ops = {o1, o2, o3}
  Titles = {t1}
  Forms = {f1}
  None = None
  MaxRevision = 3
SYMMETRY Symmetry
CONSTRAINT OneRotatedCredential
SPECIFICATION Spec
INVARIANTS
  PublishedIsNeverConflict
CHECK_DEADLOCK FALSE
