---------------------------- MODULE MCCatalogStore ----------------------------
(* A small instance of CatalogStore for TLC. *)
EXTENDS CatalogStore, TLC

Symmetry == Permutations(Procs)
=============================================================================
