\* Two deploys and one reader that takes no lock; room for one receipt, so
\* that the second start evicts the first while it is still open.
CONSTANTS
  Deploys = {d1, d2}
  Readers = {r1}
  KindsUsed = {1, 3}
  Observed = {"completed", "incomplete"}
  LIMIT = 1
  Free = Free
SPECIFICATION FairSpec
INVARIANTS
  IInv
  NoStartLost
  ResultsAreHonest
  ReadersSeeAcknowledgedStarts
PROPERTIES
  JournalOnlyGrows
  ImplementsAtomicJournal
  ChangeReturns
CHECK_DEADLOCK FALSE
