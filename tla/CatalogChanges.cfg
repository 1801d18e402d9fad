SPECIFICATION Spec
CONSTANTS
  c1 = c1
  c2 = c2
  c3 = c3
  c4 = c4
  Calls = {c1, c2, c3, c4}
  Bindings = {"b"}
  Credentials = {"k1", "k2"}
  None = None
CONSTRAINT Story
SYMMETRY CallsSym
INVARIANTS AnswersAreTrue PublishedAsConfirmed
CHECK_DEADLOCK FALSE
