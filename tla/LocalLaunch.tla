----------------------------- MODULE LocalLaunch -----------------------------
(***************************************************************************)
(* The launch of a registered profile: applyLaunch, executeLaunch and      *)
(* launchOperationStatus of core/vnext/launch.ts, withUseLock,             *)
(* saveOperation and listLaunchOperations of core/vnext/files.ts.          *)
(*                                                                         *)
(* A launch claims the profile's use lock, gives up when an earlier launch *)
(* has no certain end, records its operation before the dialog, and hands  *)
(* off to the helper.  The handoff is here what LocalSession shows of it:  *)
(* it returns with a confirmed end only if no process is left, and calls   *)
(* back, once, when the application was started.                           *)
(*                                                                         *)
(* The lock is given back when the command ends, however the launch ended, *)
(* and a person may remove the lock of a command that died: what keeps a   *)
(* second application from starting is then the operation.                 *)
(***************************************************************************)
EXTENDS Integers

CONSTANTS
  Calls,      \* launches of one profile, each tried once
  MaxEdits,   \* bound: how often the basis of a launch changes
  None

ASSUME LaunchAssumption == MaxEdits \in Nat /\ None \notin Calls

VARIABLES
  lock,       \* whose use lock of the profile it is, or None
  stuck,      \* an operation's lock or temporary file was left behind
  basis,      \* version of usage basis, launch inputs and credentials
  op,         \* call -> its operation's file
  known,      \* call -> what it believes its operation's file says
  seen,       \* call -> the basis of its plan
  pc,         \* call -> its next step
  tree,       \* call -> its application's processes
  ended,      \* call -> how its handoff returned
  answer      \* call -> what it answered

vars == <<lock, stuck, basis, op, known, seen, pc, tree, ended, answer>>

NoOperation == [state |-> "none", effect |-> "none"]
Ended == {"exited", "failed", "expired", "cancelled", "changed"}
NoEnd == [status |-> "none", execution |-> "none", tree |-> "none"]

Init ==
  /\ lock = None
  /\ stuck = FALSE
  /\ basis = 0
  /\ op = [c \in Calls |-> NoOperation]
  /\ known = [c \in Calls |-> NoOperation]
  /\ seen = [c \in Calls |-> 0]
  /\ pc = [c \in Calls |-> "idle"]
  /\ tree = [c \in Calls |-> "none"]
  /\ ended = [c \in Calls |-> NoEnd]
  /\ answer = [c \in Calls |-> "none"]

Goto(c, step) == pc' = [pc EXCEPT ![c] = step]

\* The command answers, and withUseLock gives its lock back, or fails to.
Answer(c, said) ==
  /\ answer' = [answer EXCEPT ![c] = said]
  /\ lock' \in IF lock = c THEN {None, c} ELSE {lock}
  /\ Goto(c, "done")

\* A check that fails is always possible: presence, entitlement, approval age.
Current(c) == lock = c /\ basis = seen[c]

\* saveOperation: the file must be as the caller last saw it.  An error comes
\* before or after the rename, and may leave a lock or a temporary file.
Saved(c, new) ==
  /\ op[c] = known[c]
  /\ op' = [op EXCEPT ![c] = new]
  /\ known' = [known EXCEPT ![c] = new]
  /\ UNCHANGED stuck
NotSaved(c, new) ==
  /\ op' \in {op, IF op[c] = known[c] THEN [op EXCEPT ![c] = new] ELSE op}
  /\ stuck' \in {stuck, TRUE}
  /\ UNCHANGED known

-----------------------------------------------------------------------------
\* prepareLaunch lists the profile's operations, which one leftover prevents.
Prepare(c) ==
  /\ pc[c] = "idle"
  /\ seen' = [seen EXCEPT ![c] = basis]
  /\ IF stuck THEN Answer(c, "unavailable")
              ELSE Goto(c, "claim") /\ UNCHANGED <<lock, answer>>
  /\ UNCHANGED <<stuck, basis, op, known, tree, ended>>

Claim(c) ==
  /\ pc[c] = "claim"
  /\ IF lock = None THEN lock' = c /\ Goto(c, "list") /\ UNCHANGED answer
                    ELSE Answer(c, "recovery-required")
  /\ UNCHANGED <<stuck, basis, op, known, seen, tree, ended>>

\* Fault: only an application that is known to run is an obstacle.
PendingWhenRunning == \E d \in Calls : op[d].state = "running"

\* An operation without a certain end.
Pending == \E d \in Calls : op[d].state \notin Ended \cup {"none"}

List(c) ==
  /\ pc[c] = "list"
  /\ IF stuck THEN Answer(c, "unavailable")
     ELSE IF Pending THEN Answer(c, "recovery-required")
     ELSE Goto(c, "record") /\ UNCHANGED <<lock, answer>>
  /\ UNCHANGED <<stuck, basis, op, known, seen, tree, ended>>

\* The plan is made again, and the launch recorded before the dialog.
Record(c) ==
  /\ pc[c] = "record"
  /\ LET new == [state |-> "consent-needed", effect |-> "not-started"] IN
     \/ Current(c) /\ Saved(c, new) /\ Goto(c, "approve") /\ UNCHANGED <<lock, answer>>
     \/ NotSaved(c, new) /\ Answer(c, "unavailable")
     \/ Answer(c, "changed") /\ UNCHANGED <<op, known, stuck>>
  /\ UNCHANGED <<basis, seen, tree, ended>>

\* Declined, unavailable or overtaken; the operation ends, unless that fails.
Refuse(c) ==
  /\ pc[c] = "approve"
  /\ \E state \in {"cancelled", "changed"} :
       LET new == [op[c] EXCEPT !.state = state] IN
       \/ Saved(c, new) /\ Answer(c, state)
       \/ NotSaved(c, new) /\ Answer(c, "unknown")
  /\ UNCHANGED <<basis, seen, tree, ended>>

\* Approved; its effect is possible from here on, before anything starts.
Approve(c) ==
  /\ pc[c] = "approve" /\ Current(c)
  /\ LET new == [state |-> "prepared", effect |-> "possible"] IN
     \/ Saved(c, new) /\ Goto(c, "handoff") /\ UNCHANGED <<lock, answer>>
     \/ NotSaved(c, new) /\ Answer(c, "unknown")
  /\ UNCHANGED <<basis, seen, tree, ended>>

-----------------------------------------------------------------------------
(* The handoff, as LocalSession shows it. *)

\* The secret is sent, and the application created.
Create(c) ==
  /\ pc[c] = "handoff" /\ Current(c)
  /\ tree' = [tree EXCEPT ![c] = "running"]
  /\ Goto(c, "created")
  /\ UNCHANGED <<lock, stuck, basis, op, known, seen, ended, answer>>

\* The callback of a started application; when it throws, the handoff ends.
Launched(c) ==
  /\ pc[c] = "created"
  /\ LET new == [op[c] EXCEPT !.state = "running"] IN
     \/ Saved(c, new) /\ Goto(c, "running") /\ UNCHANGED <<tree, ended>>
     \/ /\ NotSaved(c, new)
        /\ tree' = [tree EXCEPT ![c] = "dying"]
        /\ ended' = [ended EXCEPT ![c] = [status |-> "unknown", execution |-> "possible", tree |-> "unknown"]]
        /\ Goto(c, "save")
  /\ UNCHANGED <<lock, basis, seen, answer>>

\* Nothing started, a confirmed end, or no certainty.
Return(c) ==
  /\ pc[c] \in {"handoff", "created", "running"}
  /\ \/ /\ pc[c] = "handoff"
        /\ \E status \in {"changed", "cancelled", "expired", "unknown"} :
             ended' = [ended EXCEPT ![c] = [status |-> status, execution |-> "not-started", tree |-> "not-needed"]]
        /\ UNCHANGED tree
     \/ /\ pc[c] # "handoff"
        /\ \E status \in IF pc[c] = "running" THEN Ended ELSE Ended \ {"exited", "failed"} :
             ended' = [ended EXCEPT ![c] = [status |-> status, execution |-> "possible", tree |-> "confirmed"]]
        /\ tree' = [tree EXCEPT ![c] = "dead"]
     \/ /\ pc[c] # "handoff"
        /\ ended' = [ended EXCEPT ![c] = [status |-> "unknown", execution |-> "possible", tree |-> "unknown"]]
        /\ tree' = [tree EXCEPT ![c] = "dying"]
  /\ Goto(c, "save")
  /\ UNCHANGED <<lock, stuck, basis, op, known, seen, answer>>

\* The operation's last state; when it cannot be saved, the answer is unknown.
Finish(c) ==
  /\ pc[c] = "save"
  /\ LET uncertain == ended[c].tree = "unknown" \/ ended[c].status = "unknown"
         new == IF uncertain THEN [state |-> "unknown", effect |-> "unknown"]
                             ELSE [state |-> ended[c].status, effect |-> "completed"]
     IN  \/ Saved(c, new) /\ Answer(c, new.state)
         \/ NotSaved(c, new) /\ Answer(c, "unknown")
  /\ UNCHANGED <<basis, seen, tree, ended>>

-----------------------------------------------------------------------------
\* The command dies; the helper sees it and stops the application.
Crash(c) ==
  /\ pc[c] \notin {"idle", "done", "dead"}
  /\ Goto(c, "dead")
  /\ tree' = [tree EXCEPT ![c] = IF @ = "running" THEN "dying" ELSE @]
  /\ stuck' \in {stuck, TRUE}
  /\ UNCHANGED <<lock, basis, op, known, seen, ended, answer>>

TreeDies(c) ==
  /\ tree[c] = "dying"
  /\ tree' = [tree EXCEPT ![c] = "dead"]
  /\ UNCHANGED <<lock, stuck, basis, op, known, seen, pc, ended, answer>>

Edit ==
  /\ basis < MaxEdits
  /\ basis' = basis + 1
  /\ UNCHANGED <<lock, stuck, op, known, seen, pc, tree, ended, answer>>

\* A person removes what a command that is gone left behind, whether or not its
\* application is gone too.
CleanUp(c) ==
  /\ lock = c \/ (stuck /\ lock = None)
  /\ lock = c => pc[c] \in {"done", "dead"}
  /\ lock' = None
  /\ stuck' = FALSE
  /\ UNCHANGED <<basis, op, known, seen, pc, tree, ended, answer>>

Next ==
  \/ \E c \in Calls :
       \/ Prepare(c) \/ Claim(c) \/ List(c) \/ Record(c) \/ Refuse(c) \/ Approve(c)
       \/ Create(c) \/ Launched(c) \/ Return(c) \/ Finish(c)
       \/ Crash(c) \/ TreeDies(c) \/ CleanUp(c)
  \/ Edit

Spec == Init /\ [][Next]_vars

-----------------------------------------------------------------------------
\* launchOperationStatus: what is told of an operation afterwards.
StatusOf(o) ==
  LET possible == o.effect # "not-started"
      confirmed == o.effect = "completed" /\ o.state \in Ended
  IN  [execution |-> IF possible THEN "possible" ELSE "not-started",
       tree |-> IF confirmed THEN "confirmed" ELSE IF possible THEN "unknown" ELSE "not-needed"]

Alive(c) == tree[c] \in {"running", "dying"}

\* A profile has at most one application at a time, whatever fails and whatever
\* locks a person removes; and the status of an operation never denies an
\* application that was started, nor confirms an end that has not come.
OneApplicationPerProfile ==
  /\ \A c, d \in Calls : Alive(c) /\ Alive(d) => c = d
  /\ \A c \in Calls : op[c].state # "none" =>
       /\ StatusOf(op[c]).execution = "not-started" => tree[c] = "none"
       /\ StatusOf(op[c]).tree = "confirmed" => ~Alive(c)
=============================================================================
