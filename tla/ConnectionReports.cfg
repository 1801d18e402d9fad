SPECIFICATION RSpec
CONSTANTS
  c1 = c1
  c2 = c2
  c3 = c3
  c4 = c4
  Calls = {c1, c2, c3, c4}
  Envs = {"dev", "live"}
  Routes = {"managed", "native"}
  Tracked = "dev"
  Clock = {0}
  None = None
  JournalLimit = 1
SYMMETRY CallsSym
INVARIANTS IInv NothingForgotten SettledNamesTheValue ChecksAreHonest
PROPERTIES ResumeIsAsReviewed ReportsAreTrue
CONSTRAINT Story
CHECK_DEADLOCK FALSE
