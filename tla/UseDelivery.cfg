\* Three processes, two operations of one use, one change, two removed locks.
CONSTANTS
  Procs = {p1, p2, p3}
  Ops = {o1, o2}
  Nobody = Nobody
  Orphan = Orphan
  AgeLimit = 1
  MaxChanges = 1
  MaxRemovals = 2
SYMMETRY Symmetry
SPECIFICATION Spec
INVARIANTS
  IInv
  EffectHasReceipt
  CompletedWasCurrent
PROPERTIES
  NoReplay
  ApprovalIsFresh
CHECK_DEADLOCK FALSE
