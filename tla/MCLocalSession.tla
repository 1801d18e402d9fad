---------------------------- MODULE MCLocalSession ----------------------------
(***************************************************************************)
(* LocalSession with two commands and one change of their basis.           *)
(***************************************************************************)
EXTENDS LocalSession

CONSTANTS c1, c2
=============================================================================
