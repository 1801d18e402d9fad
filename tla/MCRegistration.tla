--------------------------- MODULE MCRegistration ----------------------------
(* A small instance of Registration for TLC. *)
EXTENDS Registration, TLC

Symmetry == Permutations(Procs) \cup Permutations(Ops) \cup Permutations(Titles) \cup Permutations(Forms)

(* Credentials that were recorded. *)
Recorded == Cardinality({o \in Ops : ops[o] # None /\ ops[o].previous = None})

(* Nobody declined, and every probe of presence answered. *)
Plain ==
  \A o \in Ops :
    /\ helper[o] \notin {"cancelled", "failed"}
    /\ ops[o] # None => ops[o].state # "unresolved"

(* One credential, rotated in plain behaviours. *)
OneRotatedCredential == Recorded <= 1 /\ Plain

(* Operations that were named to a caller who asked for another one. *)
Refused == {o \in Ops : \E a \in told[o] : ~a.fits}

(* All records and requests have one label, and nobody was refused. *)
OneForm ==
  /\ Refused = {}
  /\ Cardinality({ops[o].label : o \in {q \in Ops : ops[q] # None}} \cup
                 {req[p].label : p \in {q \in Procs : req[q] # NoRequest}}) <= 1

Known == Cardinality({o \in Ops : ops[o] # None})

(* Two operations are explored in every behaviour up to the first revision after
   the empty catalog and three if they are of one credential; from the second on,
   two credentials only in plain behaviours, and the third revision of one
   credential in plain behaviours only.  Two forms of the label are explored up to
   the first revision: of one operation in every behaviour, with callers that are
   refused, and of two in plain behaviours without. *)
LaterArePlain ==
  /\ Known > 2 => Recorded <= 1
  /\ catalog.revision > 1 => Recorded <= 1 \/ Plain
  /\ catalog.revision > 2 => OneRotatedCredential
  /\ ~OneForm =>
       /\ catalog.revision <= 1 /\ Cardinality(Refused) <= 1
       /\ Known <= 1 \/ (Known = 2 /\ Plain /\ Refused = {})
=============================================================================
