---------------------------- MODULE MCLocalLaunch ----------------------------
(***************************************************************************)
(* LocalLaunch with three launches and one change of their basis.          *)
(***************************************************************************)
EXTENDS LocalLaunch, TLC

CONSTANTS c1, c2, c3

CallsSym == Permutations(Calls)
=============================================================================
