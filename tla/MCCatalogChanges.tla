--------------------------- MODULE MCCatalogChanges ---------------------------
(***************************************************************************)
(* CatalogChanges with four commands, of which one may die: at most three  *)
(* changes, the first of them a binding that is made, and a fourth command *)
(* only after one has died.                                                *)
(***************************************************************************)
EXTENDS CatalogChanges, FiniteSets, TLC

CONSTANTS c1, c2, c3, c4

CallsSym == Permutations(Calls)

Of(kinds) == {c \in Calls : kind[c] \in kinds}
In(steps) == {c \in Calls : pc[c] \in steps}

\* Bound: what the commands of one behaviour are, and how many die.
Story ==
  /\ Cardinality(In({"dead"})) <= 1
  /\ Cardinality(Calls \ Of({"none", "recover"})) <= 3
  /\ Of({"none"}) = {} => In({"dead"}) # {}
  /\ \A c \in Calls : answer[c] = "refused" => Now > 0
=============================================================================
