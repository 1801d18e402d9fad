---------------------------- MODULE AtomicJournal ----------------------------
(***************************************************************************)
(* What the deployment history promises its caller, the deploy engine: a   *)
(* start or a result takes effect at once or not at all, a call answers    *)
(* success only after its effect, and nothing is ever taken back except by *)
(* the retention limit.  It is the abstract specification that             *)
(* DeploymentHistory implements.                                           *)
(***************************************************************************)
EXTENDS JournalData

VARIABLES
  journal,   \* the journal's current value
  starts,    \* every start that took effect, in order
  phase      \* what each attempt has achieved and may rely on

journalVars == <<journal, starts, phase>>

Phases == {"new", "refused", "begun", "started", "finished", "unsaved"}

JournalInit ==
  /\ journal = EmptyJournal
  /\ starts = <<>>
  /\ phase = [d \in Deploys |-> "new"]

\* The start takes effect: begin has not returned yet.
Begin(d, k) ==
  /\ phase[d] = "new"
  /\ journal' = WithStart(journal, d, k)
  /\ starts' = Append(starts, d)
  /\ phase' = [phase EXCEPT ![d] = "begun"]

\* begin returns the receipt's id: only now may the provider be written.
Acknowledge(d) ==
  /\ phase[d] = "begun"
  /\ phase' = [phase EXCEPT ![d] = "started"]
  /\ UNCHANGED <<journal, starts>>

\* begin returns null.
Refuse(d) ==
  /\ phase[d] = "new"
  /\ phase' = [phase EXCEPT ![d] = "refused"]
  /\ UNCHANGED <<journal, starts>>

Finish(d, o) ==
  /\ phase[d] = "started"
  /\ HasOpenStart(journal, d)
  /\ journal' = WithResult(journal, d, o)
  /\ phase' = [phase EXCEPT ![d] = "finished"]
  /\ UNCHANGED starts

\* finish returns false: the start stays as it is, its result unknown.
LeaveUnknown(d) ==
  /\ phase[d] = "started"
  /\ phase' = [phase EXCEPT ![d] = "unsaved"]
  /\ UNCHANGED <<journal, starts>>

JournalNext ==
  \E d \in Deploys :
    \/ \E k \in Kinds : Begin(d, k)
    \/ Acknowledge(d)
    \/ Refuse(d)
    \/ \E o \in Outcomes : Finish(d, o)
    \/ LeaveUnknown(d)

JournalSpec == JournalInit /\ [][JournalNext]_journalVars
=============================================================================
