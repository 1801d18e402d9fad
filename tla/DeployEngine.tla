----------------------------- MODULE DeployEngine ------------------------------
(***************************************************************************)
(* One run of the deploy engine (core/deploy/engine.ts) from its request   *)
(* to its answer, with the handoff of core/deploy/handoff.ts, the trust    *)
(* records of core/deploy/destination.ts and the forgetting of them        *)
(* (core/lifecycle.ts).                                                    *)
(*                                                                         *)
(* A deploy binds one destination, asks a person unless the operation is   *)
(* of the automatic class and the destination is trusted, writes a start   *)
(* to the deployment history, hands the secret to the provider's tool,     *)
(* records the result and, if a person was asked for an operation that may *)
(* repeat, the trust.  Several deploys of one project, target and          *)
(* environment run at once, and a person may have the destination          *)
(* forgotten meanwhile.  The history is the atomic journal that            *)
(* DeploymentHistory was shown to implement.                               *)
(*                                                                         *)
(* A request is [kind, automatic, forced]: legacy operations verify the    *)
(* execution snapshot alone; connections and preparations also their       *)
(* credential's revision and their own receipt in the journal.             *)
(***************************************************************************)
EXTENDS AtomicJournal

CONSTANTS
  Requests,    \* the requests a deploy may be made with
  Dests,       \* destination identities
  Forgets,     \* calls that forget a destination
  None,        \* no destination
  MaxChanges   \* bound: changes of the configuration and of the credential

Request == {r \in [kind : {"legacy", "connection", "preparation"}, automatic : BOOLEAN,
                   forced : BOOLEAN] :
              /\ r.automatic => ~r.forced /\ r.kind # "preparation"
              /\ r.forced => r.kind # "preparation"}

ASSUME EngineAssumption ==
  /\ Requests \subseteq Request
  /\ None \notin Dests /\ MaxChanges \in Nat

VARIABLES
  dest,        \* the destination the project's configuration names
  version,     \* of the files, tool and account the execution snapshot covers
  cred,        \* revision of the credential
  exact,       \* destinations with a trust record
  slot,        \* whether the project, target and environment has one
  pc,          \* deploy -> its next step
  request,     \* deploy -> its request
  bound,       \* deploy -> the destination, version and revision it is bound to
  human,       \* deploy -> whether a person is, or was, required
  outcome,     \* deploy -> none, completed, incomplete, unknown, changed or threw
  removed,     \* deploy -> whether its pre-step was started
  tool,        \* deploy -> the tool that got the secret: none, running, ok, failed
  told,        \* deploy -> its answer: none, nothing (was written), possible
  forget,      \* forgetting -> its step, its destination, and the records it saw
  placed,      \* deploy -> what the tool got the secret on: no, bound, other (history)
  confirmed,   \* destinations a person ever approved (history)
  distrusted,  \* destinations forgotten and not approved since (history)
  owed         \* deploy -> whether its destination was forgotten when it was called (history)

world   == <<dest, version, cred>>
trust   == <<exact, slot>>
effects == <<removed, tool, placed>>
deploys == <<pc, request, bound, human, outcome, effects, told, owed>>
people  == <<confirmed, distrusted>>
vars    == <<journalVars, world, trust, deploys, forget, people>>

Nowhere == [dest |-> None, version |-> 0, cred |-> 0]
Basis == [dest : Dests \cup {None}, version : 0 .. MaxChanges, cred : 0 .. MaxChanges]
Unasked == [at |-> "idle", dest |-> None, exact |-> FALSE, slot |-> FALSE]
Here == [dest |-> dest, version |-> version, cred |-> cred]

Init ==
  /\ JournalInit
  /\ dest \in Dests
  /\ version = 0
  /\ cred = 0
  /\ exact \in {{}} \cup {{d} : d \in Dests}
  /\ slot \in BOOLEAN
  /\ exact # {} => slot
  /\ pc = [d \in Deploys |-> "idle"]
  /\ request \in [Deploys -> Requests]
  /\ bound = [d \in Deploys |-> Nowhere]
  /\ human = [d \in Deploys |-> FALSE]
  /\ outcome = [d \in Deploys |-> "none"]
  /\ removed = [d \in Deploys |-> FALSE]
  /\ tool = [d \in Deploys |-> "none"]
  /\ told = [d \in Deploys |-> "none"]
  /\ forget = [f \in Forgets |-> Unasked]
  /\ placed = [d \in Deploys |-> "no"]
  /\ confirmed = exact
  /\ distrusted = {}
  /\ owed = [d \in Deploys |-> FALSE]

Goto(d, step) == pc' = [pc EXCEPT ![d] = step]
Legacy(d) == request[d].kind = "legacy"

-----------------------------------------------------------------------------
(* Up to the history's start.  Every early return says that nothing was written. *)

(* What a deploy held is not used after it ended. *)
Over(d) ==
  /\ outcome' = [outcome EXCEPT ![d] = "none"]
  /\ bound' = [bound EXCEPT ![d] = Nowhere]
  /\ human' = [human EXCEPT ![d] = FALSE]
  /\ owed' = [owed EXCEPT ![d] = FALSE]

EndsUntouched(d) ==
  /\ Goto(d, "done")
  /\ Over(d)
  /\ told' = [told EXCEPT ![d] = "nothing"]

Continues(d) == UNCHANGED <<told, outcome, bound, human, owed>>

(* The basis: of a legacy operation its execution snapshot, of any other also
   the credential's revision and, once it began, its own unfinished receipt. *)
Current(d) ==
  /\ version = bound[d].version
  /\ ~Legacy(d) => cred = bound[d].cred
  /\ ~Legacy(d) /\ phase[d] # "new" => HasOpenStart(journal, d)

(* The credential's revision is read, the tool probed, the destination bound; a
   change in between ends the call. *)
Call(d) ==
  /\ pc[d] = "idle"
  /\ \/ /\ bound' = [bound EXCEPT ![d] = Here]
        /\ owed' = [owed EXCEPT ![d] = dest \in distrusted]
        /\ human' = [human EXCEPT ![d] = ~request[d].automatic]
        /\ Goto(d, IF request[d].automatic THEN "trust" ELSE "verify")
        /\ UNCHANGED <<told, outcome>>
     \/ EndsUntouched(d)
  /\ UNCHANGED <<journalVars, world, trust, request, effects, forget, people>>

(* Fault: a destination that changed since it was confirmed counts as confirmed. *)
ReadTrustOfSlot(d) ==
  /\ pc[d] = "trust"
  /\ human' = [human EXCEPT ![d] = ~slot]
  /\ Goto(d, "verify")
  /\ UNCHANGED <<journalVars, world, trust, request, bound, outcome, effects, told, owed, forget, people>>

(* Only the exact record makes a person unnecessary; the slot tells "changed"
   from "unconfirmed", which the person is shown. *)
ReadTrust(d) ==
  /\ pc[d] = "trust"
  /\ \/ /\ human' = [human EXCEPT ![d] = bound[d].dest \notin exact]
        /\ Goto(d, "verify")
        /\ UNCHANGED <<told, outcome, bound, owed>>
     \/ EndsUntouched(d)
  /\ UNCHANGED <<journalVars, world, trust, request, effects, forget, people>>

(* Connections are verified before anyone is asked. *)
Verify(d) ==
  /\ pc[d] = "verify"
  /\ \/ /\ Legacy(d) \/ Current(d)
        /\ Goto(d, IF human[d] THEN "ask" ELSE "begin")
        /\ Continues(d)
     \/ ~Legacy(d) /\ EndsUntouched(d)
  /\ UNCHANGED <<journalVars, world, trust, request, effects, forget, people>>

(* The person approves, declines, or cannot be asked. *)
Ask(d) ==
  /\ pc[d] = "ask"
  /\ \/ /\ Goto(d, "approved")
        /\ confirmed' = confirmed \cup {bound[d].dest}
        /\ distrusted' = distrusted \ {bound[d].dest}
        /\ Continues(d)
     \/ EndsUntouched(d) /\ UNCHANGED people
  /\ UNCHANGED <<journalVars, world, trust, request, effects, forget>>

VerifyApproved(d) ==
  /\ pc[d] = "approved"
  /\ \/ Current(d) /\ Goto(d, "begin") /\ Continues(d)
     \/ EndsUntouched(d)
  /\ UNCHANGED <<journalVars, world, trust, request, effects, forget, people>>

ReceiptKind == [legacy |-> 1, connection |-> 2, preparation |-> 3]

(* The start takes effect in the journal. *)
BeginHistory(d) ==
  /\ pc[d] = "begin"
  /\ Begin(d, ReceiptKind[request[d].kind])
  /\ Goto(d, "begun")
  /\ UNCHANGED <<world, trust, request, bound, human, outcome, effects, told, owed, forget, people>>

HistoryBegan(d) ==
  /\ pc[d] = "begun"
  /\ Acknowledge(d)
  /\ Goto(d, IF request[d].forced THEN "handoff" ELSE "read")
  /\ UNCHANGED <<world, trust, request, bound, human, outcome, effects, told, owed, forget, people>>

(* Fault: the handoff does not need the history. *)
HistoryUnneeded(d) ==
  /\ pc[d] = "begin"
  /\ Refuse(d)
  /\ Goto(d, IF request[d].forced THEN "handoff" ELSE "read")
  /\ UNCHANGED <<world, trust, request, bound, human, outcome, effects, told, owed, forget, people>>

(* begin answered no receipt, before its start took effect or after. *)
HistoryUnavailable(d) ==
  /\ \/ pc[d] = "begin" /\ Refuse(d)
     \/ pc[d] = "begun" /\ UNCHANGED journalVars
  /\ EndsUntouched(d)
  /\ UNCHANGED <<world, trust, request, effects, forget, people>>

-----------------------------------------------------------------------------
(* The handoff. *)

(* The handoff is over: connections and preparations check once more. *)
Settle(d, o) ==
  /\ outcome' = [outcome EXCEPT ![d] = o]
  /\ Goto(d, IF Legacy(d) THEN "finish" ELSE "settled")

(* A check failed: nothing more is started, and what was is left as it is. *)
Blocked(d) == Settle(d, "changed")

(* A forced operation is checked before its pre-step. *)
CheckPrestep(d) ==
  /\ pc[d] = "handoff"
  /\ \/ Current(d) /\ Goto(d, "prestep") /\ UNCHANGED outcome
     \/ Blocked(d)
  /\ UNCHANGED <<journalVars, world, trust, request, bound, human, removed, tool, placed, told,
                 owed, forget, people>>

(* The provider's existing value is removed before the new one is added. *)
Prestep(d) ==
  /\ pc[d] = "prestep"
  /\ removed' = [removed EXCEPT ![d] = TRUE]
  /\ \/ Goto(d, "read") /\ UNCHANGED outcome
     \/ Settle(d, "incomplete")
     \/ Settle(d, "unknown")
  /\ UNCHANGED <<journalVars, world, trust, request, bound, human, tool, placed, told,
                 owed, forget, people>>

(* Fault: a check that fails before the secret is read answers like one before
   the history. *)
CheckReadUntouched(d) ==
  /\ pc[d] = "read"
  /\ \/ Current(d) /\ Goto(d, "spawn") /\ Continues(d)
     \/ EndsUntouched(d)
  /\ UNCHANGED <<journalVars, world, trust, request, effects, forget, people>>

(* The secret is read between two checks; after the second the tool starts. *)
CheckRead(d) ==
  /\ pc[d] = "read"
  /\ \/ Current(d) /\ Goto(d, "spawn") /\ UNCHANGED outcome
     \/ Blocked(d)
  /\ UNCHANGED <<journalVars, world, trust, request, bound, human, removed, tool, placed, told,
                 owed, forget, people>>

Spawn(d) ==
  /\ pc[d] = "spawn"
  /\ tool' = [tool EXCEPT ![d] = "running"]
  /\ placed' = [placed EXCEPT ![d] = IF bound[d] = Here THEN "bound" ELSE "other"]
  /\ Goto(d, "wait")
  /\ UNCHANGED <<journalVars, world, trust, request, bound, human, outcome, removed, told,
                 owed, forget, people>>

ToolEnds(d) ==
  /\ tool[d] = "running"
  /\ \E end \in {"ok", "failed"} : tool' = [tool EXCEPT ![d] = end]
  /\ UNCHANGED <<journalVars, world, trust, pc, request, bound, human, outcome, removed, placed,
                 told, owed, forget, people>>

(* Its exit is heard; or its time was up, its input broke or its output could
   not be read: then nothing is known of it, and it may still be running. *)
Hear(d) ==
  /\ pc[d] = "wait"
  /\ \/ tool[d] = "ok" /\ Settle(d, "completed")
     \/ tool[d] = "failed" /\ request[d].kind # "preparation" /\ Settle(d, "incomplete")
     \/ Settle(d, "unknown")
  /\ UNCHANGED <<journalVars, world, trust, request, bound, human, removed, tool, placed, told,
                 owed, forget, people>>

(* The secret is missing, or an access throws: what happened is unknown. *)
Throw(d) ==
  /\ pc[d] \in {"prestep", "read", "spawn", "wait"}
  /\ Settle(d, IF Legacy(d) THEN "threw" ELSE "unknown")
  /\ UNCHANGED <<journalVars, world, trust, request, bound, human, removed, tool, placed, told,
                 owed, forget, people>>

-----------------------------------------------------------------------------
(* The result, and what is remembered. *)

(* A person was asked for an operation that may repeat without one. *)
Remembers(d) ==
  human[d] /\ request[d].automatic /\ outcome[d] \notin {"changed", "threw"}

(* Fault: a connection's completion is not checked. *)
SettleUnchecked(d) ==
  /\ pc[d] = "settled"
  /\ Goto(d, IF Remembers(d) THEN "recordSlot" ELSE "finish")
  /\ UNCHANGED <<journalVars, world, trust, request, bound, human, outcome, effects, told,
                 owed, forget, people>>

CheckSettled(d) ==
  /\ pc[d] = "settled"
  /\ \/ /\ Current(d)
        /\ Goto(d, IF Remembers(d) THEN "recordSlot" ELSE "finish")
        /\ UNCHANGED outcome
     \/ outcome' = [outcome EXCEPT ![d] = "changed"] /\ Goto(d, "finish")
  /\ UNCHANGED <<journalVars, world, trust, request, bound, human, removed, tool, placed, told,
                 owed, forget, people>>

Answer(d) ==
  /\ Goto(d, "done")
  /\ Over(d)
  /\ told' = [told EXCEPT ![d] = "possible"]

(* A legacy operation remembers the destination last, a connection before its
   last check. *)
Remembered(d) ==
  IF Legacy(d) THEN Answer(d) ELSE Goto(d, "recorded") /\ Continues(d)

(* The slot is saved first, so that a failure leaves no exact record alone; a
   failed save may have taken effect. *)
RecordSlot(d) ==
  /\ pc[d] = "recordSlot"
  /\ \/ slot' = TRUE /\ Goto(d, "recordExact") /\ Continues(d)
     \/ slot' \in {slot, TRUE} /\ Remembered(d)
  /\ UNCHANGED <<journalVars, world, exact, request, effects, forget, people>>

(* Fault: the destination of the moment is recorded. *)
RecordExactHere(d) ==
  /\ pc[d] = "recordExact"
  /\ exact' = exact \cup {dest}
  /\ Remembered(d)
  /\ UNCHANGED <<journalVars, world, slot, request, effects, forget, people>>

RecordExact(d) ==
  /\ pc[d] = "recordExact"
  /\ exact' \in {exact, exact \cup {bound[d].dest}}
  /\ Remembered(d)
  /\ UNCHANGED <<journalVars, world, slot, request, effects, forget, people>>

CheckRecorded(d) ==
  /\ pc[d] = "recorded"
  /\ \/ Current(d) /\ UNCHANGED outcome
     \/ outcome' = [outcome EXCEPT ![d] = "changed"]
  /\ Goto(d, "finish")
  /\ UNCHANGED <<journalVars, world, trust, request, bound, human, removed, tool, placed, told,
                 owed, forget, people>>

(* A blocked legacy operation is known not to have started its tool. *)
Result(d) ==
  CASE outcome[d] = "changed" -> IF Legacy(d) THEN "incomplete" ELSE "unknown"
    [] outcome[d] = "threw" -> "unknown"
    [] OTHER -> outcome[d]

(* The result is saved, or its start stays unknown. *)
FinishHistory(d) ==
  /\ pc[d] = "finish"
  /\ Finish(d, Result(d)) \/ LeaveUnknown(d)
  /\ IF Legacy(d) /\ Remembers(d) THEN Goto(d, "recordSlot") /\ Continues(d) ELSE Answer(d)
  /\ UNCHANGED <<world, trust, request, effects, forget, people>>

(* A process that dies leaves its receipt, its tool and half a record. *)
Die(d) ==
  /\ pc[d] \notin {"idle", "done", "dead"}
  /\ Goto(d, "dead")
  /\ Over(d)
  /\ UNCHANGED <<journalVars, world, trust, request, effects, told, forget, people>>

-----------------------------------------------------------------------------
(* Forgetting a destination: a call that dies stays where it is. *)

Forgetting(f, at) == forget[f].at = at

ForgetEnds(f) == forget' = [forget EXCEPT ![f] = [Unasked EXCEPT !.at = "done"]]

(* The destination that a deploy would use now, if it can be resolved. *)
Resolve(f) ==
  /\ Forgetting(f, "idle")
  /\ \E d \in {dest, None} : forget' = [forget EXCEPT ![f].at = "readExact", ![f].dest = d]
  /\ UNCHANGED <<journalVars, world, trust, deploys, people>>

ReadExact(f) ==
  /\ Forgetting(f, "readExact")
  /\ forget' = [forget EXCEPT ![f].at = "readSlot", ![f].exact = forget[f].dest \in exact]
  /\ UNCHANGED <<journalVars, world, trust, deploys, people>>

(* Nobody is asked when there is nothing to forget. *)
ReadSlot(f) ==
  /\ Forgetting(f, "readSlot")
  /\ \/ /\ slot \/ forget[f].exact
        /\ forget' = [forget EXCEPT ![f].at = "ask", ![f].slot = slot]
     \/ ~slot /\ ~forget[f].exact /\ ForgetEnds(f)
  /\ UNCHANGED <<journalVars, world, trust, deploys, people>>

AskForget(f) ==
  /\ Forgetting(f, "ask")
  /\ \/ forget[f].dest # None /\ forget' = [forget EXCEPT ![f].at = "deleteExact"]
     \/ forget[f].dest = None /\ forget' = [forget EXCEPT ![f].at = "deleteSlot"]
     \/ ForgetEnds(f)
  /\ UNCHANGED <<journalVars, world, trust, deploys, people>>

(* The exact record is deleted first; a record that was seen must be confirmed
   as deleted, and a failed deletion may have taken effect. *)
DeleteExact(f) ==
  /\ Forgetting(f, "deleteExact")
  /\ \/ /\ forget[f].exact => forget[f].dest \in exact
        /\ exact' = exact \ {forget[f].dest}
        /\ forget' = [forget EXCEPT ![f].at = "deleteSlot"]
     \/ exact' \in {exact, exact \ {forget[f].dest}} /\ ForgetEnds(f)
  /\ UNCHANGED <<journalVars, world, slot, deploys, people>>

(* Forgotten is answered: the next deploy will ask again. *)
DeleteSlot(f) ==
  /\ Forgetting(f, "deleteSlot")
  /\ ForgetEnds(f)
  /\ \/ /\ forget[f].slot => slot
        /\ slot' = FALSE
        /\ distrusted' = distrusted \cup ({forget[f].dest} \ {None})
     \/ slot' \in {slot, FALSE} /\ UNCHANGED distrusted
  /\ UNCHANGED <<journalVars, world, exact, deploys, confirmed>>

-----------------------------------------------------------------------------
(* Files, tool or account change, perhaps to another destination; or the
   credential is replaced. *)
ChangeProject ==
  /\ version + cred < MaxChanges
  /\ version' = version + 1
  /\ dest' \in Dests
  /\ UNCHANGED <<journalVars, cred, trust, deploys, forget, people>>

ReplaceCredential ==
  /\ version + cred < MaxChanges
  /\ cred' = cred + 1
  /\ UNCHANGED <<journalVars, dest, version, trust, deploys, forget, people>>

Step(d) ==
  \/ Call(d) \/ ReadTrust(d) \/ Verify(d) \/ Ask(d) \/ VerifyApproved(d)
  \/ BeginHistory(d) \/ HistoryBegan(d) \/ HistoryUnavailable(d)
  \/ CheckPrestep(d) \/ Prestep(d) \/ CheckRead(d) \/ Spawn(d) \/ Hear(d)
  \/ Throw(d) \/ CheckSettled(d) \/ RecordSlot(d) \/ RecordExact(d) \/ CheckRecorded(d)
  \/ FinishHistory(d)

ForgetStep(f) ==
  Resolve(f) \/ ReadExact(f) \/ ReadSlot(f) \/ AskForget(f) \/ DeleteExact(f) \/ DeleteSlot(f)

Next ==
  \/ \E d \in Deploys : Step(d) \/ ToolEnds(d) \/ Die(d)
  \/ \E f \in Forgets : ForgetStep(f)
  \/ ChangeProject \/ ReplaceCredential

Spec == Init /\ [][Next]_vars
-----------------------------------------------------------------------------
(* What a deploy may do, and what its answer, the journal and the trust records
   may be relied on to say.                                                   *)

Before == {"idle", "trust", "verify", "ask", "approved", "begin", "begun"}
Handing == {"handoff", "prestep", "read", "spawn", "wait"}
After == {"settled", "recordSlot", "recordExact", "recorded", "finish"}

ForgetState ==
  [at : {"idle", "readExact", "readSlot", "ask", "deleteExact", "deleteSlot", "done"},
   dest : Dests \cup {None}, exact : BOOLEAN, slot : BOOLEAN]

TypeOK ==
  /\ journal \in Journal /\ phase \in [Deploys -> Phases] /\ starts \in Seq(Deploys)
  /\ dest \in Dests /\ {version, cred} \subseteq 0 .. MaxChanges
  /\ exact \subseteq Dests /\ slot \in BOOLEAN
  /\ pc \in [Deploys -> Before \cup Handing \cup After \cup {"done", "dead"}]
  /\ request \in [Deploys -> Requests]
  /\ bound \in [Deploys -> Basis] /\ placed \in [Deploys -> {"no", "bound", "other"}]
  /\ human \in [Deploys -> BOOLEAN] /\ removed \in [Deploys -> BOOLEAN]
  /\ outcome \in [Deploys -> Outcomes \cup {"none", "changed", "threw"}]
  /\ tool \in [Deploys -> {"none", "running", "ok", "failed"}]
  /\ told \in [Deploys -> {"none", "nothing", "possible"}]
  /\ forget \in [Forgets -> ForgetState]
  /\ confirmed \subseteq Dests /\ distrusted \subseteq Dests
  /\ owed \in [Deploys -> BOOLEAN]

(* A trust record stands for a person's approval of that destination. *)
TrustIsHuman == exact \subseteq confirmed

(* A deploy that got past the trust records and the person is entitled to go on. *)
Entitled(d) == bound[d].dest \in confirmed /\ (request[d].automatic \/ human[d])

EntitledGoOn ==
  \A d \in Deploys :
    /\ pc[d] \in {"approved", "begin", "begun"} \cup Handing \cup After => Entitled(d)
    /\ pc[d] = "verify" => Entitled(d) \/ human[d]
    /\ pc[d] \in {"verify", "ask", "approved"} /\ ~request[d].automatic => human[d]

(* No step of the provider's tool, removing or placing, without a start that
   took effect and was acknowledged: a crash never leaves a write that the
   journal did not announce, unless retention evicted it. *)
WritesAreJournaled ==
  \A d \in Deploys : removed[d] \/ tool[d] # "none" =>
    /\ phase[d] \in {"started", "finished", "unsaved"}
    /\ \E i \in DOMAIN starts : starts[i] = d

(* The answer that nothing was written is true, whatever failed, and stays so. *)
NothingIsNothing ==
  \A d \in Deploys : told[d] = "nothing" => ~removed[d] /\ tool[d] = "none"

(* What the journal says of a deploy: completed only if the tool succeeded, and
   for a connection on the very basis it was bound to; incomplete only if the
   tool did not succeed. *)
ResultIsHonest(d, receipt) ==
  /\ receipt.outcome = "completed" =>
       tool[d] = "ok" /\ (~Legacy(d) => placed[d] = "bound")
  /\ receipt.outcome = "incomplete" => tool[d] \in {"none", "failed"}

JournalIsHonest ==
  \A i \in DOMAIN journal.entries : ResultIsHonest(journal.entries[i].id, journal.entries[i])

(* A deploy is bound to what was there when it was called: it can only differ
   from what is there now by a later change. *)
BoundToThePast ==
  \A d \in Deploys : pc[d] \in (Before \ {"idle"}) \cup Handing \cup After =>
    /\ bound[d].dest \in Dests
    /\ bound[d].version <= version /\ bound[d].cred <= cred
    /\ bound[d].version = version => bound[d].dest = dest
    /\ placed[d] = "other" => bound[d].version < version \/ bound[d].cred < cred

(* What each step of a deploy has behind it. *)
StepsAreKnown ==
  \A d \in Deploys :
    /\ pc[d] \in Before \ {"begun"} => phase[d] = "new"
    /\ pc[d] = "begun" => phase[d] = "begun"
    /\ pc[d] \in Handing \cup {"settled", "recorded", "finish"} => phase[d] = "started"
    /\ pc[d] \in {"recordSlot", "recordExact"} =>
         IF Legacy(d) THEN phase[d] \in {"finished", "unsaved"} ELSE phase[d] = "started"
    /\ pc[d] \in {"settled", "recorded"} => ~Legacy(d)
    /\ pc[d] = "trust" => request[d].automatic
    /\ pc[d] \in Before \cup {"handoff"} => ~removed[d]
    /\ pc[d] \in Before \cup {"handoff", "prestep", "read", "spawn"} => tool[d] = "none"
    /\ tool[d] = "none" <=> placed[d] = "no"
    /\ told[d] # "none" => pc[d] = "done"
    /\ phase[d] \notin {"new", "refused"} => \E i \in DOMAIN starts : starts[i] = d

(* What a deploy that is about to record its result may record. *)
OutcomeIsKnown ==
  \A d \in Deploys : pc[d] \in After =>
    /\ outcome[d] # "none"
    /\ outcome[d] = "completed" => tool[d] = "ok"
    /\ outcome[d] = "incomplete" => tool[d] \in {"none", "failed"}
    /\ outcome[d] = "changed" /\ Legacy(d) => tool[d] = "none"
    /\ outcome[d] = "completed" /\ ~Legacy(d) /\ pc[d] # "settled" => placed[d] = "bound"

(* A receipt has a result only after its own finish. *)
ResultsAreFinished ==
  /\ Len(journal.entries) <= LIMIT
  /\ \A i \in DOMAIN journal.entries :
       LET receipt == journal.entries[i] IN
       /\ receipt.outcome # "unknown" => receipt.finished
       /\ receipt.finished => phase[receipt.id] = "finished"

IInv ==
  /\ TypeOK
  /\ BoundToThePast
  /\ StepsAreKnown
  /\ OutcomeIsKnown
  /\ ResultsAreFinished
  /\ TrustIsHuman
  /\ EntitledGoOn
  /\ WritesAreJournaled
  /\ NothingIsNothing
  /\ JournalIsHonest

(* A secret is placed at a destination that a person approved: in this very
   deploy, or before if the operation is of the class that may repeat.  A first
   or a changed destination is never placed at without a person. *)
PlacementIsConfirmed ==
  [][\A d \in Deploys : placed'[d] # placed[d] => Entitled(d)]_vars

(* Once forgetting was answered, a deploy called later places nothing at that
   destination until a person approved it again. *)
ForgottenAsksAgain ==
  [][\A d \in Deploys : placed'[d] # placed[d] =>
       ~(owed[d] /\ bound[d].dest \in distrusted)]_vars
=============================================================================
