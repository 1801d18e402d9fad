------------------------- MODULE MCConnectionReports -------------------------
(***************************************************************************)
(* ConnectionReports with four commands of which one may die: either four  *)
(* selections and resumes, or one selection and three commands that change *)
(* the credential or read, with two checks and one report at most; with    *)
(* three commands or more the selection is the one the readers follow.     *)
(***************************************************************************)
EXTENDS ConnectionReports, TLC

CONSTANTS c1, c2, c3, c4

CallsSym == Permutations(Calls)

Of(kinds) == {c \in Calls : kind[c] \in kinds}
Selections == Of({"select", "resume"})
Started == Calls \ Of({"none"})

\* Bound: what the commands of one behaviour are, and how many die.
Story ==
  /\ Cardinality(dead) <= 1
  /\ Cardinality(Selections) > 1 => Selections = Started
  /\ Selections # Started /\ Cardinality(Started) > 2 =>
       \A c \in Selections : want[c] = [env |-> Tracked, route |-> "managed"]
  /\ Cardinality(Of({"check"})) <= 2
  /\ Cardinality(Of({"report"})) <= 1
=============================================================================
