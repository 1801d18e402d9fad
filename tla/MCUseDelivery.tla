--------------------------- MODULE MCUseDelivery -----------------------------
(* A small instance of UseDelivery for TLC. *)
EXTENDS UseDelivery, TLC

Symmetry == Permutations(Procs) \cup Permutations(Ops)
=============================================================================
