----------------------------- MODULE UseDelivery ------------------------------
(***************************************************************************)
(* The use of one binding at one target: applyUse of core/vnext/use.ts and *)
(* applyHostedUse of core/vnext/hosted-use.ts, with the handoff of         *)
(* core/deploy/handoff.ts and the directory lock of core/vnext/files.ts.   *)
(*                                                                         *)
(* Several processes apply the same use.  A call claims the use lock,      *)
(* looks for an unfinished operation in the journal, records its own,      *)
(* waits for a person's approval, writes a receipt that an effect is       *)
(* possible, hands the secret to the provider's command line tool, and     *)
(* writes the result.  Between any two of these the catalog, the project   *)
(* or the target may change, time passes, a person may remove a lock that  *)
(* looks abandoned, an access may throw, and the process may die while the *)
(* tool it started runs on.                                                *)
(*                                                                         *)
(* basis stands for everything the plan's fingerprint covers (binding,     *)
(* credential generation, target, project, files, tool): revisions only    *)
(* grow, so a basis never comes back.                                      *)
(***************************************************************************)
EXTENDS Naturals

CONSTANTS
  Procs,        \* processes that apply the use
  Ops,          \* operation identifiers
  Nobody,       \* no process, no operation
  Orphan,       \* the owner of a lock whose process died
  AgeLimit,     \* ticks an approval is good for (60 seconds)
  MaxChanges,   \* bound: changes of the basis
  MaxRemovals   \* bound: locks removed by a person

(* Settled operations let a new one begin; any other must be recovered by hand. *)
Settled == {"completed", "cancelled", "changed"}
OpStates == Settled \cup {"consent-needed", "executing", "incomplete", "unknown"}
Effects == {"not-started", "possible", "completed", "failed", "unknown"}
Operation == [state : OpStates, effect : Effects, basis : 0 .. MaxChanges]

ASSUME UseAssumption ==
  /\ Nobody \notin Procs \cup Ops \cup Operation /\ Orphan \notin Procs \cup {Nobody}
  /\ AgeLimit \in Nat /\ MaxChanges \in Nat /\ MaxRemovals \in Nat

VARIABLES
  basis,      \* the current basis
  lock,       \* whose directory the use lock is, or Nobody
  removals,   \* locks removed so far
  ops,        \* operation -> [state, effect, basis], or Nobody
  tool,       \* operation -> the provider's tool it started: none, running, ok, failed, killed
  pc,         \* process -> its next step
  plan,       \* process -> the basis its plan was made on
  held,       \* process -> the operation it recorded
  age,        \* process -> ticks since its approval
  result,     \* process -> what it is about to record
  received    \* operation -> the basis when the tool received the secret (history)

files == <<lock, removals, ops>>
local == <<plan, held, age, result>>
vars  == <<basis, files, tool, pc, local, received>>

Unreceived == MaxChanges + 1

(* Steps of a call that found no unfinished operation: before its receipt, and after. *)
Waiting == {"probe", "record", "ask", "declined", "approved", "reprobe"}
Handing == {"enter", "entered", "secret", "spawn", "wait", "closed", "finish"}

(* The effect recorded beside each result. *)
EffectOf == [completed |-> "completed", incomplete |-> "failed", unknown |-> "unknown",
             changed |-> "not-started", cancelled |-> "not-started", none |-> "not-started"]

Init ==
  /\ basis = 0
  /\ lock = Nobody
  /\ removals = 0
  /\ ops = [o \in Ops |-> Nobody]
  /\ tool = [o \in Ops |-> "none"]
  /\ pc = [p \in Procs |-> "idle"]
  /\ plan = [p \in Procs |-> 0]
  /\ held = [p \in Procs |-> Nobody]
  /\ age = [p \in Procs |-> 0]
  /\ result = [p \in Procs |-> "none"]
  /\ received = [o \in Ops |-> Unreceived]

-----------------------------------------------------------------------------
Goto(p, step) == pc' = [pc EXCEPT ![p] = step]

Owns(p) == lock = p

(* What every check reads after it awaited the secret's presence.  A check may
   also fail because the presence cannot be probed, or the journal read. *)
Current(p) == Owns(p) /\ basis = plan[p]

-----------------------------------------------------------------------------
(* Up to the approval. *)

(* Fault: a check does not look at the lock. *)
CurrentAndFreshUnlocked(p) == basis = plan[p] /\ age[p] <= AgeLimit

(* Current, while an approval is in force; age is 0 before there is one. *)
CurrentAndFresh(p) == Current(p) /\ age[p] <= AgeLimit

(* The plan a caller reviewed is the current one, or the call ends at once. *)
Apply(p) ==
  /\ pc[p] = "idle"
  /\ plan' = [plan EXCEPT ![p] = basis]
  /\ Goto(p, "claim")
  /\ UNCHANGED <<basis, files, tool, held, age, result, received>>

Claim(p) ==
  /\ pc[p] = "claim"
  /\ \/ lock = Nobody /\ lock' = p /\ Goto(p, "journal")
     \/ lock # Nobody /\ UNCHANGED lock /\ Goto(p, "idle")
  /\ UNCHANGED <<basis, removals, ops, tool, local, received>>

(* Fault: an operation whose outcome is unknown does not stop the next one. *)
PendingInProgress ==
  {o \in Ops : ops[o] # Nobody /\ ops[o].state \in {"consent-needed", "executing"}}

Pending == {o \in Ops : ops[o] # Nobody /\ ops[o].state \notin Settled}

(* Any unfinished operation of this binding and target ends the call. *)
Journal(p) ==
  /\ pc[p] = "journal"
  /\ Goto(p, IF Pending = {} THEN "probe" ELSE "release")
  /\ UNCHANGED <<basis, files, tool, local, received>>

(* The tool is probed, the plan made again, and the first check awaited. *)
CheckPlan(p) ==
  /\ pc[p] = "probe"
  /\ \/ Current(p) /\ Goto(p, "record")
     \/ Goto(p, "release")
  /\ UNCHANGED <<basis, files, tool, local, received>>

Record(p, o) ==
  /\ pc[p] = "record"
  /\ ops[o] = Nobody
  /\ ops' = [ops EXCEPT ![o] = 
       [state |-> "consent-needed", effect |-> "not-started", basis |-> plan[p]]]
  /\ held' = [held EXCEPT ![p] = o]
  /\ Goto(p, "ask")
  /\ UNCHANGED <<basis, lock, removals, tool, plan, age, result, received>>

(* The person answers the dialog, or it is unavailable. *)
Decide(p) ==
  /\ pc[p] = "ask"
  /\ \/ Goto(p, "approved") /\ UNCHANGED result
     \/ Goto(p, "declined") /\ result' = [result EXCEPT ![p] = "cancelled"]
     \/ Goto(p, "declined") /\ result' = [result EXCEPT ![p] = "changed"]
  /\ UNCHANGED <<basis, files, tool, plan, held, age, received>>

(* A check before the receipt ends the operation as changed, without an effect. *)
EndsChanged(p) ==
  /\ Goto(p, "finish")
  /\ result' = [result EXCEPT ![p] = "changed"]

(* A refusal is recorded as one only if the check after it still holds. *)
CheckDeclined(p) ==
  /\ pc[p] = "declined"
  /\ \/ Current(p) /\ Goto(p, "finish") /\ UNCHANGED result
     \/ EndsChanged(p)
  /\ UNCHANGED <<basis, files, tool, plan, held, age, received>>

CheckApproved(p) ==
  /\ pc[p] = "approved"
  /\ \/ CurrentAndFresh(p) /\ Goto(p, "enter") /\ UNCHANGED result      \* use.ts
     \/ CurrentAndFresh(p) /\ Goto(p, "reprobe") /\ UNCHANGED result    \* hosted-use.ts
     \/ EndsChanged(p)
  /\ UNCHANGED <<basis, files, tool, plan, held, age, received>>

(* Hosted tools are probed and everything is checked once more. *)
CheckReprobed(p) ==
  /\ pc[p] = "reprobe"
  /\ \/ CurrentAndFresh(p) /\ Goto(p, "enter") /\ UNCHANGED result
     \/ EndsChanged(p)
  /\ UNCHANGED <<basis, files, tool, plan, held, age, received>>

-----------------------------------------------------------------------------
(* The handoff. *)

(* The journal after operation o was saved again. *)
Saved(o, state, effect) ==
  [ops EXCEPT ![o] = [state |-> state, effect |-> effect, basis |-> ops[o].basis]]

(* The receipt that an effect is possible, before the secret is read. *)
Enter(p) ==
  /\ pc[p] = "enter"
  /\ ops' = Saved(held[p], "executing", "possible")
  /\ Goto(p, "entered")
  /\ UNCHANGED <<basis, lock, removals, tool, local, received>>

(* A check after the receipt leaves the operation unknown. *)
CheckEntered(p) ==
  /\ pc[p] = "entered"
  /\ \/ CurrentAndFresh(p) /\ Goto(p, "secret") /\ UNCHANGED result
     \/ Goto(p, "finish") /\ result' = [result EXCEPT ![p] = "unknown"]
  /\ UNCHANGED <<basis, files, tool, plan, held, age, received>>

(* Fault: reading the secret is not followed by another check. *)
CheckSecretBefore(p) ==
  /\ pc[p] = "secret"
  /\ Goto(p, "spawn")
  /\ UNCHANGED <<basis, files, tool, local, received>>

(* The secret was read, or is missing; one more check before the tool starts. *)
CheckSecret(p) ==
  /\ pc[p] = "secret"
  /\ \/ CurrentAndFresh(p) /\ Goto(p, "spawn") /\ UNCHANGED result
     \/ Goto(p, "finish") /\ result' = [result EXCEPT ![p] = "unknown"]
  /\ UNCHANGED <<basis, files, tool, plan, held, age, received>>

Spawn(p) ==
  LET o == held[p] IN
  /\ pc[p] = "spawn"
  /\ tool' = [tool EXCEPT ![o] = "running"]
  /\ received' = [received EXCEPT ![o] = basis]
  /\ Goto(p, "wait")
  /\ UNCHANGED <<basis, files, local>>

(* The tool ends by itself; nobody needs to be waiting. *)
ToolEnds(o) ==
  /\ tool[o] = "running"
  /\ \E end \in {"ok", "failed", "killed"} : tool' = [tool EXCEPT ![o] = end]
  /\ UNCHANGED <<basis, files, pc, local, received>>

(* Its end is heard, or the time is up and two seconds after the kill it still
   has not closed. *)
Hear(p) ==
  LET o == held[p] IN
  /\ pc[p] = "wait"
  /\ \/ /\ tool[o] = "running"
        /\ result' = [result EXCEPT ![p] = "unknown"]
        /\ Goto(p, "finish")
     \/ /\ tool[o] # "running"
        /\ result' = [result EXCEPT ![p] =
             CASE tool[o] = "ok" -> "completed" [] tool[o] = "failed" -> "incomplete"
               [] tool[o] = "killed" -> "unknown"]
        /\ Goto(p, "closed")
  /\ UNCHANGED <<basis, files, tool, plan, held, age, received>>

(* Fault: completion is not checked against the plan. *)
CloseUnchecked(p) ==
  /\ pc[p] = "closed"
  /\ Goto(p, "finish")
  /\ UNCHANGED <<basis, files, tool, local, received>>

(* Fault: a plan that is no longer current at completion ends as before the receipt. *)
CloseAsChanged(p) ==
  /\ pc[p] = "closed"
  /\ \/ Current(p) /\ UNCHANGED result
     \/ result' = [result EXCEPT ![p] = "changed"]
  /\ Goto(p, "finish")
  /\ UNCHANGED <<basis, files, tool, plan, held, age, received>>

(* Completion needs the plan to be current still; the approval may be old. *)
CheckClosed(p) ==
  /\ pc[p] = "closed"
  /\ \/ Current(p) /\ UNCHANGED result
     \/ result' = [result EXCEPT ![p] = "unknown"]
  /\ Goto(p, "finish")
  /\ UNCHANGED <<basis, files, tool, plan, held, age, received>>

Finish(p) ==
  /\ pc[p] = "finish"
  /\ ops' = Saved(held[p], result[p], EffectOf[result[p]])
  /\ Goto(p, "release")
  /\ UNCHANGED <<basis, lock, removals, tool, local, received>>

-----------------------------------------------------------------------------
(* The end of a call, and everything around it. *)

Ended(p) ==
  /\ Goto(p, "idle")
  /\ plan' = [plan EXCEPT ![p] = 0]
  /\ held' = [held EXCEPT ![p] = Nobody]
  /\ age' = [age EXCEPT ![p] = 0]
  /\ result' = [result EXCEPT ![p] = "none"]

(* The lock is looked at and removed if it is the directory that this call made;
   one made again between the look and the rmdir is RemoveLock's to remove. *)
Release(p) ==
  /\ pc[p] = "release"
  /\ lock' = IF Owns(p) THEN Nobody ELSE lock
  /\ Ended(p)
  /\ UNCHANGED <<basis, removals, ops, tool, received>>

(* Any access may throw, also after it took effect: the rest is skipped. *)
Throw(p) ==
  /\ pc[p] \notin {"idle", "claim", "release"}
  /\ Goto(p, "release")
  /\ UNCHANGED <<basis, files, tool, local, received>>

(* A process that dies leaves its lock, its operation and its tool. *)
Die(p) ==
  /\ pc[p] # "idle"
  /\ lock' = IF Owns(p) THEN Orphan ELSE lock
  /\ Ended(p)
  /\ UNCHANGED <<basis, removals, ops, tool, received>>

(* A person removes the lock, of a dead process or of a live one. *)
RemoveLock ==
  /\ lock # Nobody
  /\ removals < MaxRemovals
  /\ lock' = Nobody
  /\ removals' = removals + 1
  /\ UNCHANGED <<basis, ops, tool, pc, local, received>>

(* The catalog, the project, the target or the tool changes. *)
Change ==
  /\ basis < MaxChanges
  /\ basis' = basis + 1
  /\ UNCHANGED <<files, tool, pc, local, received>>

(* Time passes while an approved call awaits something. *)
Aging == {p \in Procs : pc[p] \in {"approved", "reprobe", "enter", "entered", "secret"}
                         /\ age[p] <= AgeLimit}
Tick ==
  /\ Aging # {}
  /\ age' = [p \in Procs |-> IF p \in Aging THEN age[p] + 1 ELSE age[p]]
  /\ UNCHANGED <<basis, files, tool, pc, plan, held, result, received>>

Step(p) ==
  \/ Apply(p) \/ Claim(p) \/ Journal(p) \/ CheckPlan(p)
  \/ \E o \in Ops : Record(p, o)
  \/ Decide(p) \/ CheckDeclined(p) \/ CheckApproved(p) \/ CheckReprobed(p)
  \/ Enter(p) \/ CheckEntered(p) \/ CheckSecret(p) \/ Spawn(p) \/ Hear(p)
  \/ CheckClosed(p) \/ Finish(p) \/ Release(p)

Next ==
  \/ \E p \in Procs : Step(p) \/ Throw(p) \/ Die(p)
  \/ \E o \in Ops : ToolEnds(o)
  \/ RemoveLock \/ Change \/ Tick

Spec == Init /\ [][Next]_vars
-----------------------------------------------------------------------------
(* What the journal and the provider may be relied on to say.               *)

TypeOK ==
  /\ basis \in 0 .. MaxChanges
  /\ lock \in Procs \cup {Nobody, Orphan}
  /\ removals \in 0 .. MaxRemovals
  /\ ops \in [Ops -> {Nobody} \cup Operation]
  /\ tool \in [Ops -> {"none", "running", "ok", "failed", "killed"}]
  /\ pc \in [Procs -> {"idle", "claim", "journal", "release"} \cup Waiting \cup Handing]
  /\ plan \in [Procs -> 0 .. MaxChanges]
  /\ held \in [Procs -> Ops \cup {Nobody}]
  /\ age \in [Procs -> 0 .. AgeLimit + 1]
  /\ result \in [Procs -> Settled \cup {"none", "incomplete", "unknown"}]
  /\ received \in [Ops -> 0 .. Unreceived]

(* An operation the tool received a secret for says so, in every state the
   journal can be found in: a status read by anyone, after any crash, never
   claims that nothing was placed (use.ts: "Durable unknown/possible receipt
   exists before the only value-bearing call"). *)
EffectHasReceipt ==
  \A o \in Ops : received[o] # Unreceived =>
    /\ ops[o] # Nobody
    /\ ops[o].effect # "not-started"
    /\ ops[o].state \in {"executing", "completed", "incomplete", "unknown"}

(* Completed is only said of a placement whose basis was, when the tool got the
   secret, still the one that was approved, although nothing locks the catalog
   between the last check and the tool. *)
CompletedWasCurrent ==
  \A o \in Ops : ops[o] # Nobody /\ ops[o].state = "completed" =>
    received[o] = ops[o].basis /\ tool[o] = "ok"

(* Where each step of a call leaves its operation. *)
HeldIsRecorded ==
  \A p \in Procs :
    /\ pc[p] \in {"idle", "claim", "journal", "probe", "record"} =>
         held[p] = Nobody /\ result[p] = "none"
    /\ held[p] # Nobody => ops[held[p]] # Nobody
    /\ \A q \in Procs : held[p] = held[q] /\ held[p] # Nobody => p = q
    /\ pc[p] \in (Waiting \cup Handing) \ {"probe", "record"} =>
         /\ held[p] # Nobody
         /\ ops[held[p]].basis = plan[p]
    /\ pc[p] \in {"ask", "declined", "approved", "reprobe", "enter"} =>
         ops[held[p]].state = "consent-needed"
    /\ pc[p] \in {"entered", "secret", "spawn", "wait", "closed"} =>
         ops[held[p]].state = "executing" /\ ops[held[p]].effect = "possible"
    /\ pc[p] \in {"ask", "approved", "reprobe", "enter", "entered", "secret", "spawn", "wait"} =>
         result[p] = "none"
    /\ pc[p] = "declined" => result[p] \in {"cancelled", "changed"}
    /\ pc[p] = "closed" => result[p] \in {"completed", "incomplete", "unknown"}

(* What a call that is about to record its result may record. *)
ResultIsKnown ==
  \A p \in Procs : pc[p] = "finish" =>
    \/ /\ result[p] \in {"cancelled", "changed"}
       /\ ops[held[p]].state = "consent-needed"
    \/ /\ result[p] \in {"completed", "incomplete", "unknown"}
       /\ ops[held[p]].state = "executing"

(* The tool starts after the receipt, once, and with the basis of that moment. *)
ToolsAreReceipted ==
  /\ \A o \in Ops :
       /\ tool[o] = "none" <=> received[o] = Unreceived
       /\ received[o] # Unreceived => ops[o] # Nobody /\ received[o] <= basis
       /\ ops[o] # Nobody => ops[o].basis <= basis
       /\ ops[o] # Nobody /\ ops[o].state = "consent-needed" => received[o] = Unreceived
  /\ \A p \in Procs :
       /\ plan[p] <= basis
       /\ pc[p] \in {"entered", "secret", "spawn"} => received[held[p]] = Unreceived
       /\ pc[p] \in {"wait", "closed"} => received[held[p]] # Unreceived
       /\ pc[p] \in {"wait", "closed"} => plan[p] <= received[held[p]]
       /\ pc[p] = "spawn" => age[p] <= AgeLimit
       /\ pc[p] = "closed" /\ result[p] = "completed" => tool[held[p]] = "ok"
       /\ pc[p] = "finish" /\ result[p] = "completed" =>
            tool[held[p]] = "ok" /\ received[held[p]] = plan[p]

(* A call that lost the lock before its receipt fails its next check. *)
Excluded(p) == ~Owns(p) /\ \/ pc[p] \in Waiting
                           \/ pc[p] = "finish" /\ result[p] \in {"cancelled", "changed"}

Active(p) == pc[p] \in Waiting \cup Handing

(* Of two calls past the journal one is excluded, and a call that is not has
   nothing before it that could still have an effect: the journal replaces the
   lock where the lock was removed. *)
OneMayHand ==
  \A p \in Procs : Active(p) /\ ~Excluded(p) =>
    /\ \A q \in Procs \ {p} : Active(q) => Excluded(q)
    /\ \A o \in Pending : o # held[p] => received[o] = Unreceived

IInv ==
  /\ TypeOK
  /\ HeldIsRecorded
  /\ ResultIsKnown
  /\ ToolsAreReceipted
  /\ OneMayHand
  /\ EffectHasReceipt
  /\ CompletedWasCurrent

(* No replay: a secret is handed over only when every earlier handover of this
   use is known to have completed.  Removed locks, dead processes and tools that
   outlive them do not lead to a second one (use.ts: replay "not-permitted"). *)
NoReplay ==
  [][\A o \in Ops : received'[o] # received[o] =>
       \A q \in Ops \ {o} : received[q] # Unreceived => ops[q].state = "completed"]_vars

(* A secret is not handed over on an approval that has expired while the call
   was waiting, nor for an operation nobody approved. *)
ApprovalIsFresh ==
  [][\A o \in Ops : received'[o] # received[o] =>
       \E p \in Procs : held[p] = o /\ result[p] = "none" /\ age[p] <= AgeLimit]_vars
=============================================================================
