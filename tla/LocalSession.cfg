SPECIFICATION FairSpec
CONSTANTS
  Calls = {c1, c2}
  c1 = c1
  c2 = c2
  MaxEdits = 1
  None = None
INVARIANTS OneApplication ReceiptsAreTrue
PROPERTY TrialsEnd
CHECK_DEADLOCK FALSE
