---------------------------- MODULE MCDeployEngine -----------------------------
(* Small instances of DeployEngine for TLC. *)
EXTENDS DeployEngine, TLC

Req(kind, automatic, forced) == [kind |-> kind, automatic |-> automatic, forced |-> forced]

(* Every kind of request, with and without a person, with and without a pre-step. *)
AllRequests ==
  {Req("legacy", TRUE, FALSE), Req("legacy", FALSE, TRUE), Req("connection", TRUE, FALSE),
   Req("connection", FALSE, TRUE), Req("preparation", FALSE, FALSE)}

(* Operations that may repeat without a person. *)
Automatic == {Req("legacy", TRUE, FALSE), Req("connection", TRUE, FALSE)}

(* One deploy is an operation that may repeat.  A destination is forgotten while
   two legacy ones run and nothing changes: the records they read and write are
   the same for every kind. *)
SomeoneRepeats == \E d \in Deploys : request[d].automatic
ForgettingApart ==
  (\E f \in Forgets : forget[f].at # "idle") =>
    /\ version = 0 /\ cred = 0
    /\ \A d \in Deploys : request[d] = Req("legacy", TRUE, FALSE)
Explored == SomeoneRepeats /\ ForgettingApart

Symmetry == Permutations(Deploys) \cup Permutations(Dests)
=============================================================================
