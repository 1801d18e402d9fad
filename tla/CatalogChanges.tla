---------------------------- MODULE CatalogChanges ----------------------------
(***************************************************************************)
(* Changes of the catalog that a person confirms, and their recovery:      *)
(* applyBinding and recoverBinding of core/vnext/binding.ts,               *)
(* applyManagement of core/vnext/manage.ts and registerProfile of          *)
(* core/vnext/launch.ts.                                                   *)
(*                                                                         *)
(* Each plans a whole new catalog from the one it read, shows the change   *)
(* to a person, plans again, records the proposal as an operation and      *)
(* swaps the catalog.  The catalog is the compare-and-swap register that   *)
(* CatalogStore implements; an operation has a file of its own.  Commands  *)
(* run in processes of their own, may fail or die at any step, and a       *)
(* recovery may run at any time, even beside the command it is about.      *)
(***************************************************************************)
EXTENDS Integers, Sequences

CONSTANTS
  Calls,        \* commands that are run, each once
  Bindings,     \* variables of one environment that may be bound
  Credentials,
  None

ASSUME ChangesAssumption ==
  None \notin Calls \cup Bindings \cup Credentials \cup [credential : Credentials, id : Calls]

VARIABLES
  published,    \* every catalog that was swapped in, with its author
  op,           \* call -> state of its operation's file
  kind,         \* call -> what it does
  aim,          \* call -> the binding, credential or operation it is about
  base,         \* call -> position of the catalog its plan was made from
  snap,         \* call -> position of the file it expects to replace
  want,         \* call -> the catalog it proposes
  seen,         \* a recovery's call -> the operation's state it read
  pc,           \* call -> its next step
  answer        \* call -> what it answered

plan == <<kind, aim, base, want>>
vars == <<published, op, plan, snap, seen, pc, answer>>

\* A binding names its credential and the call whose identity it was given; the
\* project, its directory; a profile, the bindings it uses and who registered it.
Empty == [rev |-> 0, linked |-> [b \in Bindings |-> None], risk |-> "unknown",
          place |-> "first", profile |-> None]
Content(i) == IF i = 0 THEN Empty ELSE published[i].catalog
Now == Len(published)

NoAim == [binding |-> None, credential |-> None, call |-> None]

Init ==
  /\ published = <<>>
  /\ op = [c \in Calls |-> "none"]
  /\ kind = [c \in Calls |-> "none"]
  /\ aim = [c \in Calls |-> NoAim]
  /\ base = [c \in Calls |-> 0]
  /\ snap = [c \in Calls |-> 0]
  /\ want = [c \in Calls |-> None]
  /\ seen = [c \in Calls |-> "none"]
  /\ pc = [c \in Calls |-> "idle"]
  /\ answer = [c \in Calls |-> "none"]

Goto(c, step) == pc' = [pc EXCEPT ![c] = step]
Answer(c, said) == Goto(c, "done") /\ answer' = [answer EXCEPT ![c] = said]

-----------------------------------------------------------------------------
(* What a plan proposes, or None where it is refused or changes nothing. *)

Inputs(k) == IF k.profile = None THEN {} ELSE k.profile.uses

\* An existing association keeps its identity, a new one gets one.
Bound(k, c, a) ==
  LET old == k.linked[a.binding]
  IN  IF old # None /\ old.credential = a.credential THEN None
      ELSE [k EXCEPT !.rev = @ + 1,
                     !.linked[a.binding] = [credential |-> a.credential,
                                            id |-> IF old = None THEN c ELSE old.id]]

\* A profile does not silently lose an input.
Unlinked(k, a) ==
  IF k.linked[a.binding] = None \/ a.binding \in Inputs(k) THEN None
  ELSE [k EXCEPT !.rev = @ + 1, !.linked[a.binding] = None]

Classified(k, a) ==
  IF k.linked[a.binding] = None \/ k.risk = "production" THEN None
  ELSE [k EXCEPT !.rev = @ + 1, !.risk = "production"]

\* The project is in another directory, with every binding it has.
Relinked(k, a) ==
  IF k.linked[a.binding] = None \/ k.place = "second" THEN None
  ELSE [k EXCEPT !.rev = @ + 1, !.place = "second"]

Profiled(k, c, a) ==
  IF k.linked[a.binding] = None \/ Inputs(k) = {a.binding} THEN None
  ELSE [k EXCEPT !.rev = @ + 1, !.profile = [uses |-> {a.binding}, by |-> c]]

Proposed(k, c, action, a) ==
  IF action = "bind" THEN Bound(k, c, a)
  ELSE IF action = "unlink" THEN Unlinked(k, a)
  ELSE IF action = "classify" THEN Classified(k, a)
  ELSE IF action = "relink" THEN Relinked(k, a)
  ELSE Profiled(k, c, a)

-----------------------------------------------------------------------------
(* A change: plan, confirmation, plan again, operation, swap. *)

\* Everything but a binding needs a catalog that is there.
Plan(c, action, a) ==
  /\ pc[c] = "idle"
  /\ kind' = [kind EXCEPT ![c] = action]
  /\ aim' = [aim EXCEPT ![c] = a]
  /\ base' = [base EXCEPT ![c] = Now]
  /\ want' = [want EXCEPT ![c] = Proposed(Content(Now), c, action, a)]
  /\ IF want'[c] = None \/ (Now = 0 /\ action # "bind") THEN Answer(c, "refused")
                                                        ELSE Goto(c, "confirm") /\ UNCHANGED answer
  /\ UNCHANGED <<published, op, snap, seen>>

Confirm(c) ==
  /\ pc[c] = "confirm"
  /\ \/ Goto(c, "recheck") /\ UNCHANGED answer
     \/ Answer(c, "cancelled")
  /\ UNCHANGED <<published, op, plan, snap, seen>>

Unchanged(c) == Content(Now) = Content(base[c])

\* The fingerprint of the second plan covers the whole catalog, and the project,
\* which may change at any time.
Recheck(c) ==
  /\ pc[c] = "recheck"
  /\ \/ Answer(c, "changed") /\ UNCHANGED snap
     \/ /\ Unchanged(c)
        /\ snap' = [snap EXCEPT ![c] = base[c]]
        /\ Goto(c, IF base[c] = 0 THEN "create"
                   ELSE IF kind[c] \in {"unlink", "classify", "relink"} THEN "reread" ELSE "prepare")
        /\ UNCHANGED answer
  /\ UNCHANGED <<published, op, plan, seen>>

\* Management reads the file it expects once more.
Reread(c) ==
  /\ pc[c] = "reread"
  /\ IF Unchanged(c) THEN snap' = [snap EXCEPT ![c] = Now] /\ Goto(c, "prepare") /\ UNCHANGED answer
                     ELSE Answer(c, "changed") /\ UNCHANGED snap
  /\ UNCHANGED <<published, op, plan, seen>>

\* The first binding makes the empty catalog it then replaces.
Create(c) ==
  /\ pc[c] = "create"
  /\ \/ /\ Now = 0
        /\ published' = <<[catalog |-> Empty, by |-> c]>>
        /\ \/ snap' = [snap EXCEPT ![c] = 1] /\ Goto(c, "prepare") /\ UNCHANGED answer
           \/ Answer(c, "unavailable") /\ UNCHANGED snap
     \/ Answer(c, "unavailable") /\ UNCHANGED <<published, snap>>
  /\ UNCHANGED <<op, plan, seen>>

\* saveOperation: the file must still say what the caller last saw in it.  An
\* error may come before or after the rename.
Save(c, of, old, new) == op[of] = old /\ op' = [op EXCEPT ![of] = new]

Record(c, step, old, new, next) ==
  /\ pc[c] = step
  /\ \/ Save(c, c, old, new) /\ Goto(c, next) /\ UNCHANGED answer
     \/ Save(c, c, old, new) /\ Answer(c, "recovery-required")
     \/ Answer(c, "recovery-required") /\ UNCHANGED op
  /\ UNCHANGED <<published, plan, snap, seen>>

Prepare(c) == Record(c, "prepare", "none", "prepared", "execute")
Execute(c) == Record(c, "execute", "prepared", "executing", "swap")

\* Fault: the file is not compared with the expected one.
RevisionOnly(c) == want[c].rev > 0

\* compareAndSwap: the expected file is the one there, and the next revision.
Expected(c) == snap[c] = Now /\ want[c].rev = Content(snap[c]).rev + 1

Swap(c) ==
  /\ pc[c] = "swap"
  /\ \/ /\ Expected(c)
        /\ published' = Append(published, [catalog |-> want[c], by |-> c])
        /\ \/ Goto(c, "complete") /\ UNCHANGED answer
           \/ Answer(c, "recovery-required")
     \/ Answer(c, "recovery-required") /\ UNCHANGED published
  /\ UNCHANGED <<op, plan, snap, seen>>

Complete(c) ==
  /\ pc[c] = "complete"
  /\ \/ Save(c, c, "executing", "completed") /\ Answer(c, "completed")
     \/ Save(c, c, "executing", "completed") /\ Answer(c, "recovery-required")
     \/ Answer(c, "recovery-required") /\ UNCHANGED op
  /\ UNCHANGED <<published, plan, snap, seen>>

-----------------------------------------------------------------------------
(* recoverBinding, by any process at any time. *)

Recover(c, of) ==
  /\ pc[c] = "idle" /\ kind[of] \notin {"none", "recover"}
  /\ kind' = [kind EXCEPT ![c] = "recover"]
  /\ aim' = [aim EXCEPT ![c].call = of]
  /\ seen' = [seen EXCEPT ![c] = op[of]]
  /\ IF op[of] = "none" THEN Answer(c, "unavailable")
     ELSE IF op[of] = "completed" THEN Answer(c, "completed")
     ELSE Goto(c, "compare") /\ UNCHANGED answer
  /\ UNCHANGED <<published, op, base, snap, want>>

\* Fault: a catalog at least as new as the proposed one is taken for it.
AtLeastAsNew(c) == Now > 0 /\ Content(Now).rev >= want[aim[c].call].rev

\* The catalog must be exactly the proposed one.
TookEffect(c) == Now > 0 /\ Content(Now) = want[aim[c].call]

Compare(c) ==
  /\ pc[c] = "compare"
  /\ IF TookEffect(c) THEN Goto(c, "mark") /\ UNCHANGED answer
                      ELSE Answer(c, "recovery-required")
  /\ UNCHANGED <<published, op, plan, snap, seen>>

Mark(c) ==
  /\ pc[c] = "mark"
  /\ \/ Save(c, aim[c].call, seen[c], "completed") /\ Answer(c, "completed")
     \/ Save(c, aim[c].call, seen[c], "completed") /\ Answer(c, "unavailable")
     \/ Answer(c, "unavailable") /\ UNCHANGED op
  /\ UNCHANGED <<published, plan, snap, seen>>

Crash(c) ==
  /\ pc[c] \notin {"idle", "done", "dead"}
  /\ Goto(c, "dead")
  /\ UNCHANGED <<published, op, plan, snap, seen, answer>>

-----------------------------------------------------------------------------
Next ==
  \E c \in Calls :
    \/ \E b \in Bindings :
         \/ \E k \in Credentials : Plan(c, "bind", [NoAim EXCEPT !.binding = b, !.credential = k])
         \/ \E action \in {"unlink", "classify", "relink", "profile"} : Plan(c, action, [NoAim EXCEPT !.binding = b])
    \/ Confirm(c) \/ Recheck(c) \/ Reread(c) \/ Create(c)
    \/ Prepare(c) \/ Execute(c) \/ Swap(c) \/ Complete(c)
    \/ \E of \in Calls : Recover(c, of)
    \/ Compare(c) \/ Mark(c) \/ Crash(c)

Spec == Init /\ [][Next]_vars

-----------------------------------------------------------------------------
Published(c) == \E i \in DOMAIN published : published[i].by = c /\ published[i].catalog = want[c]

\* An operation is marked completed, by its command or by a recovery, only if
\* exactly the catalog it proposed was published: by itself, or by another
\* command that proposed the same.  An answer that promises no change has made
\* none, and a command answers completed for its own swap only.
AnswersAreTrue ==
  \A c \in Calls :
    /\ op[c] = "completed" => \E i \in DOMAIN published : published[i].catalog = want[c]
    /\ answer[c] = "completed" =>
         IF kind[c] = "recover" THEN op[aim[c].call] = "completed" ELSE Published(c)
    /\ answer[c] \in {"refused", "cancelled", "changed", "unavailable"} /\ kind[c] # "recover" => ~Published(c)

\* What is published is the change a person confirmed, applied to the very
\* catalog that person was shown, and nobody's change is in between; so a
\* profile never names a binding that is gone.
PublishedAsConfirmed ==
  /\ \A i \in DOMAIN published :
       LET c == published[i].by IN
       i > 1 => /\ published[i].catalog = Proposed(published[i-1].catalog, c, kind[c], aim[c])
                /\ published[i-1].catalog = Content(base[c])
  /\ \A b \in Inputs(Content(Now)) : Content(Now).linked[b] # None
=============================================================================
