--------------------------- MODULE MCVaultRegistry ---------------------------
(***************************************************************************)
(* VaultRegistry with three calls, two secrets and two ticks of the clock. *)
(***************************************************************************)
EXTENDS VaultRegistry, TLC

CONSTANTS c1, c2, c3

CallsSym == Permutations(Calls)
=============================================================================
