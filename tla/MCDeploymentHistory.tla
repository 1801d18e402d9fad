------------------------- MODULE MCDeploymentHistory -------------------------
(* Small instances of DeploymentHistory for TLC. *)
EXTENDS DeploymentHistory, TLC

\* Deploys and Readers are interchangeable in every safety property.
Symmetry == Permutations(Deploys) \cup Permutations(Readers)
=============================================================================
