--------------------------- MODULE ConnectionState ---------------------------
(***************************************************************************)
(* The connection metadata of one project: ConnectionStateStore of         *)
(* core/agent/connection-state.ts, with the credential command of          *)
(* core/agent/connection-credential.ts and its dialog.                     *)
(*                                                                         *)
(* The metadata are small files in one directory: the active selection     *)
(* (an intent), the archive of earlier ones, the registration record of a  *)
(* credential, and the journal of observations.  A change holds the        *)
(* directory "lock" and replaces a file by way of a temporary file; a      *)
(* credential command also holds the slot's own lock for as long as its    *)
(* dialog is open.  Nobody waits for a lock, and a lock or a temporary     *)
(* file that is left behind makes every later access fail.                 *)
(*                                                                         *)
(* Each command is a process of its own.  Between any two steps another    *)
(* command may run, a file operation may fail, or the process may die,     *)
(* while the helper that shows its dialog lives on.                        *)
(***************************************************************************)
EXTENDS Integers, FiniteSets

CONSTANTS
  Calls,        \* commands that are run, each once
  Envs,         \* environments an intent may select
  Routes,       \* "managed" and others
  Tracked,      \* the environment whose credential slot is modelled
  Clock,        \* what Date.now() may say: it may go back
  None

Files == {"intent", "history", "credential", "journal"}
Revision == Nat \ {0}
Intent == [env : Envs, route : Routes, rev : Revision]
Archive == [Envs -> Intent \cup {None}]
Registration == [by : Calls, rev : Revision, state : {"pending", "settled"}]
Unregistered == [by |-> None, rev |-> 0, state |-> "missing"]

ASSUME ConnectionAssumption ==
  /\ Tracked \in Envs /\ "managed" \in Routes
  /\ IsFiniteSet(Envs)
  /\ Clock \subseteq Nat
  /\ None \notin Calls /\ None \notin Intent \cup Registration \cup {Unregistered}

VARIABLES
  lock,       \* the call whose directory "lock" is, or None
  tmps,       \* files whose temporary file was left behind
  intent,     \* the active intent, or None
  history,    \* environment -> its archived intent, or None
  slot,       \* the call that holds the credential slot's lock, or None
  cred,       \* the slot's registration record
  stored,     \* the call whose value the operating system stores, or None
  kind,       \* call -> what it does
  pc,         \* call -> its next step
  then,       \* call -> its step after it gives the metadata lock back
  want,       \* call -> the selection it is to publish
  plan,       \* call -> what a resume read and showed
  dead,       \* calls whose process died
  latest      \* environment -> the last intent published for it (history)

disk  == <<lock, tmps, intent, history, slot, cred, stored>>
local == <<kind, then, want, plan>>
state == <<disk, pc, local, dead, latest>>

NoPlan == [current |-> None, past |-> [e \in Envs |-> None], selected |-> None]

Init ==
  /\ lock = None
  /\ tmps = {}
  /\ intent = None
  /\ history = [e \in Envs |-> None]
  /\ slot = None
  /\ cred = Unregistered
  /\ stored = None
  /\ kind = [c \in Calls |-> "none"]
  /\ pc = [c \in Calls |-> "idle"]
  /\ then = [c \in Calls |-> "done"]
  /\ want = [c \in Calls |-> None]
  /\ plan = [c \in Calls |-> NoPlan]
  /\ dead = {}
  /\ latest = [e \in Envs |-> None]

-----------------------------------------------------------------------------
At(c, step) == c \notin dead /\ pc[c] = step
Goto(c, step) == pc' = [pc EXCEPT ![c] = step]
Start(c, k) == kind' = [kind EXCEPT ![c] = k]
\* The metadata lock is given back, and then:
Leave(c, step) == then' = [then EXCEPT ![c] = step] /\ Goto(c, "unlock")

\* A reader finds neither the lock nor the file's temporary file.
Readable(file) == lock = None /\ file \notin tmps

\* A write that fails may also fail to remove its temporary file.
Spoils(file) == tmps' \in {tmps, tmps \cup {file}}

\* Later than what it replaces and than all of others, whatever the clock says.
NextRevision(previous, others, now) ==
  LET past == {r.rev + 1 : r \in ({previous} \cup others) \ {None}}
  IN  CHOOSE v \in past \cup {now + 1} : \A w \in past \cup {now + 1} : w <= v

-----------------------------------------------------------------------------
(* change: the metadata lock around every edit. *)

\* What a call does first under the lock, which file it replaces, and where it
\* goes when it does not get the lock.
Inside  == [select |-> "archive", apply |-> "recompute", begin |-> "invalidate", settle |-> "settled"]
Edits   == [select |-> "intent", apply |-> "intent", begin |-> "credential", settle |-> "credential"]
Refused == [select |-> "done", apply |-> "done", begin |-> "release", settle |-> "release"]

\* Fault: a directory that exists already passes for the lock.
TakeLockAnyway(c) ==
  /\ c \notin dead /\ pc[c] \in DOMAIN Inside
  /\ lock' = c
  /\ Goto(c, Inside[pc[c]])
  /\ UNCHANGED <<tmps, intent, history, slot, cred, stored, local, dead, latest>>

TakeLock(c) ==
  /\ c \notin dead /\ pc[c] \in DOMAIN Inside
  /\ lock = None
  /\ lock' = c
  /\ IF Edits[pc[c]] \in tmps THEN Leave(c, Refused[pc[c]])
                              ELSE Goto(c, Inside[pc[c]]) /\ UNCHANGED then
  /\ UNCHANGED <<tmps, intent, history, slot, cred, stored, kind, want, plan, dead, latest>>

\* The directory exists, or cannot be made.
NoLock(c) ==
  /\ c \notin dead /\ pc[c] \in DOMAIN Inside
  /\ Goto(c, Refused[pc[c]])
  /\ UNCHANGED <<disk, local, dead, latest>>

\* A failing rmdir leaves the lock behind, and is not reported.
Unlock(c) ==
  /\ At(c, "unlock")
  /\ lock' \in {None, lock}
  /\ Goto(c, then[c])
  /\ UNCHANGED <<tmps, intent, history, slot, cred, stored, local, dead, latest>>

-----------------------------------------------------------------------------
(* Selections: saveIntent, planIntentResume and applyIntentResume. *)

SameSelection(a, b) == a # None /\ b # None /\ a.env = b.env /\ a.route = b.route

Select(c, e, r) ==
  /\ At(c, "idle")
  /\ Start(c, "select")
  /\ want' = [want EXCEPT ![c] = [env |-> e, route |-> r]]
  /\ Goto(c, "select")
  /\ UNCHANGED <<disk, then, plan, dead, latest>>

\* A current selection wins over its older archive.
Remembered(current, past, e) ==
  IF current # None /\ current.env = e THEN current ELSE past[e]

\* The plan reads the active intent and then the archive, without the lock.
Plan(c, e) ==
  /\ At(c, "idle")
  /\ Start(c, "resume")
  /\ want' = [want EXCEPT ![c] = [env |-> e]]
  /\ IF Readable("intent")
     THEN plan' = [plan EXCEPT ![c].current = intent] /\ Goto(c, "archived")
     ELSE UNCHANGED plan /\ Goto(c, "done")
  /\ UNCHANGED <<disk, then, dead, latest>>

PlanArchived(c) ==
  /\ At(c, "archived")
  /\ LET selected == Remembered(plan[c].current, history, want[c].env)
     IN  IF "history" \in tmps \/ selected = None
         THEN UNCHANGED plan /\ Goto(c, "done")
         ELSE /\ plan' = [plan EXCEPT ![c] =
                   [current |-> plan[c].current, past |-> history, selected |-> selected]]
              /\ Goto(c, "apply")
  /\ UNCHANGED <<disk, kind, then, want, dead, latest>>

\* Fault: the plan that was shown is applied as it is.
ApplyShownPlan(c) ==
  /\ At(c, "recompute")
  /\ want' = [want EXCEPT ![c] = plan[c].selected]
  /\ Goto(c, "archive")
  /\ UNCHANGED <<disk, kind, then, plan, dead, latest>>

\* The plan is made again under the lock; its fingerprint covers all it read.
Recompute(c) ==
  /\ At(c, "recompute")
  /\ LET now == [current |-> intent, past |-> history,
                 selected |-> Remembered(intent, history, want[c].env)]
     IN  IF "history" \in tmps \/ now # plan[c] \/ SameSelection(now.selected, intent)
         THEN Leave(c, "done") /\ UNCHANGED want
         ELSE /\ want' = [want EXCEPT ![c] = now.selected]
              /\ Goto(c, "archive") /\ UNCHANGED then
  /\ UNCHANGED <<disk, kind, plan, dead, latest>>

\* Fault: the active intent is replaced before it is archived.
ArchiveNothing(c) ==
  /\ At(c, "archive")
  /\ Goto(c, "publish")
  /\ UNCHANGED <<disk, local, dead, latest>>

\* The active intent goes to the archive first, in a file of its own.
ArchiveActive(c) ==
  /\ At(c, "archive")
  /\ IF SameSelection(intent, want[c]) THEN Leave(c, "done") /\ UNCHANGED <<history, tmps>>
     ELSE \/ /\ "history" \notin tmps
             /\ history' = IF intent = None THEN history
                                            ELSE [history EXCEPT ![intent.env] = intent]
             /\ Goto(c, "publish") /\ UNCHANGED <<tmps, then>>
          \/ Spoils("history") /\ Leave(c, "done") /\ UNCHANGED history
  /\ UNCHANGED <<lock, intent, slot, cred, stored, kind, want, plan, dead, latest>>

Publish(c, now) ==
  /\ At(c, "publish")
  /\ \/ LET next == [env |-> want[c].env, route |-> want[c].route,
                     rev |-> NextRevision(intent, {history[e] : e \in Envs}, now)]
        IN  /\ intent' = next
            /\ latest' = [latest EXCEPT ![next.env] = next]
            /\ UNCHANGED tmps
     \/ Spoils("intent") /\ UNCHANGED <<intent, latest>>
  /\ Leave(c, "done")
  /\ UNCHANGED <<lock, history, slot, cred, stored, kind, want, plan, dead>>

-----------------------------------------------------------------------------
(* runConnectionCredential: "save" registers a value where there is none,
   "replace" is a save with force, "remove" deletes. *)

\* What the presence of a value in the slot makes of a command.
Applies(k) == IF k = "save" THEN stored = None ELSE k = "remove" => stored # None

Credential(c, k) ==
  /\ At(c, "idle")
  /\ Start(c, k)
  /\ Goto(c, IF Applies(k) THEN "slot" ELSE "done")
  /\ UNCHANGED <<disk, then, want, plan, dead, latest>>

TakeSlot(c) ==
  /\ At(c, "slot")
  /\ \/ slot = None /\ slot' = c /\ Goto(c, "begin")
     \/ UNCHANGED slot /\ Goto(c, "done")
  /\ UNCHANGED <<lock, tmps, intent, history, cred, stored, local, dead, latest>>

\* Fault: a settled record is left as it is until the command is done.
LeaveSettled(c, now) ==
  /\ At(c, "invalidate")
  /\ cred' = IF cred.state = "settled" THEN cred
             ELSE [by |-> c, rev |-> NextRevision(cred, {}, now), state |-> "pending"]
  /\ Leave(c, "ask")
  /\ UNCHANGED <<lock, tmps, intent, history, slot, stored, kind, want, plan, dead, latest>>

\* beginCredentialMutation: the record is pending before the store is touched.
Invalidate(c, now) ==
  /\ At(c, "invalidate")
  /\ \/ /\ cred' = [by |-> c, rev |-> NextRevision(cred, {}, now), state |-> "pending"]
        /\ UNCHANGED tmps /\ Leave(c, "ask")
     \/ UNCHANGED cred /\ Spoils("credential") /\ Leave(c, "release")
  /\ UNCHANGED <<lock, intent, history, slot, stored, kind, want, plan, dead, latest>>

\* The presence is read again under the slot's lock; then the dialog opens.
Ask(c) ==
  /\ At(c, "ask")
  /\ Goto(c, IF Applies(kind[c]) THEN "dialog" ELSE "release")
  /\ UNCHANGED <<disk, local, dead, latest>>

\* The helper stores the value that was entered, whether or not the process
\* that started it still lives.
HelperStores(c) ==
  /\ pc[c] = "dialog" /\ kind[c] \in {"save", "replace"}
  /\ stored' = c
  /\ Goto(c, "stored")
  /\ UNCHANGED <<lock, tmps, intent, history, slot, cred, local, dead, latest>>

\* The helper's answer arrives, or is lost ("unavailable").
HearStored(c) ==
  /\ At(c, "stored")
  /\ \/ stored # None /\ Goto(c, "settle")
     \/ Goto(c, "release")
  /\ UNCHANGED <<disk, local, dead, latest>>

\* Cancelled, declined or unavailable: nothing was done, and the record stays
\* pending.
Decline(c) ==
  /\ At(c, "dialog")
  /\ Goto(c, "release")
  /\ UNCHANGED <<disk, local, dead, latest>>

\* An approved removal deletes the value itself.
Delete(c) ==
  /\ At(c, "dialog") /\ kind[c] = "remove"
  /\ stored' = None
  /\ Goto(c, IF stored # None THEN "settle" ELSE "release")
  /\ UNCHANGED <<lock, tmps, intent, history, slot, cred, local, dead, latest>>

\* finishCredentialMutation of a completed operation.
Settle(c) ==
  /\ At(c, "settled")
  /\ \/ cred.by = c /\ cred.state = "pending" /\ cred' = [cred EXCEPT !.state = "settled"] /\ UNCHANGED tmps
     \/ UNCHANGED cred /\ Spoils("credential")
  /\ Leave(c, "release")
  /\ UNCHANGED <<lock, intent, history, slot, stored, kind, want, plan, dead, latest>>

ReleaseSlot(c) ==
  /\ At(c, "release")
  /\ slot' \in {None, slot}
  /\ Goto(c, "done")
  /\ UNCHANGED <<lock, tmps, intent, history, cred, stored, local, dead, latest>>

-----------------------------------------------------------------------------
\* The file a call may be writing when it dies.
Writing == [archive |-> {"history"}, publish |-> {"intent"},
            invalidate |-> {"credential"}, settled |-> {"credential"}]

Crash(c) ==
  /\ c \notin dead /\ pc[c] \notin {"idle", "done"}
  /\ dead' = dead \cup {c}
  /\ tmps' \in {tmps} \cup (IF pc[c] \in DOMAIN Writing THEN {tmps \cup Writing[pc[c]]} ELSE {})
  /\ UNCHANGED <<lock, intent, history, slot, cred, stored, pc, local, latest>>

SelectionStep(c) ==
  \/ \E e \in Envs : (\E r \in Routes : Select(c, e, r)) \/ Plan(c, e)
  \/ PlanArchived(c) \/ Recompute(c) \/ ArchiveActive(c)
  \/ \E now \in Clock : Publish(c, now)

CredentialStep(c) ==
  \/ \E k \in {"save", "replace", "remove"} : Credential(c, k)
  \/ TakeSlot(c) \/ Ask(c) \/ HelperStores(c) \/ HearStored(c)
  \/ \E now \in Clock : Invalidate(c, now)
  \/ Decline(c) \/ Delete(c) \/ Settle(c) \/ ReleaseSlot(c)

Step(c) == TakeLock(c) \/ NoLock(c) \/ Unlock(c) \/ SelectionStep(c) \/ CredentialStep(c) \/ Crash(c)

Next == \E c \in Calls : Step(c)

Spec == Init /\ [][Next]_state

-----------------------------------------------------------------------------
(* Properties. *)

\* The steps at which a call holds the slot's lock, and the metadata lock.
UnderSlot == {"begin", "invalidate", "ask", "dialog", "stored", "settle", "settled", "release"}
HoldsSlot(c) == pc[c] \in UnderSlot \/ (pc[c] = "unlock" /\ then[c] \in UnderSlot)

\* The steps at which a call holds the metadata lock, and its steps after it.
UnderLock == {"archive", "recompute", "publish", "invalidate", "settled", "opened", "recorded", "unlock"}
Afterwards == {"done", "release", "ask", "await", "record"}
Kinds == {"none", "select", "resume", "save", "replace", "remove", "check", "report"}
Shown == [current : Intent \cup {None}, past : Archive, selected : Intent \cup {None}]

TypeOK ==
  /\ lock \in Calls \cup {None} /\ slot \in Calls \cup {None} /\ stored \in Calls \cup {None}
  /\ tmps \subseteq Files /\ dead \subseteq Calls
  /\ intent \in Intent \cup {None} /\ history \in Archive /\ latest \in Archive
  /\ cred \in Registration \cup {Unregistered}
  /\ kind \in [Calls -> Kinds] /\ then \in [Calls -> Afterwards] /\ DOMAIN pc = Calls
  /\ DOMAIN want = Calls /\ plan \in [Calls -> Shown]

\* What was last selected for an environment can be returned to: it is the
\* active intent or it is archived, although the two are separate files and
\* either write may fail (saveIntent: the archive is written first).
NothingForgotten ==
  \A e \in Envs : latest[e] # None => intent = latest[e] \/ history[e] = latest[e]

\* What a registration stands for.
Value(r) == IF kind[r.by] = "remove" THEN None ELSE r.by

\* A settled registration stands for what the store holds: the value that very
\* command stored, or nothing after a removal (the record is pending for as
\* long as a dialog may still change the store).
SettledNamesTheValue == cred.state = "settled" => stored = Value(cred)

\* A resume publishes the selection that was shown, and only while it is still
\* the last one made for that environment (applyIntentResume plans again).
ResumeIsAsReviewed ==
  [][\A c \in Calls : pc[c] = "publish" /\ kind[c] = "resume" /\ intent' # intent =>
       SameSelection(plan[c].selected, intent') /\ plan[c].selected = latest[intent'.env]]_state
-----------------------------------------------------------------------------
(* What the properties rest on. *)

\* Who is at a step under a lock is whom the lock belongs to.
LocksAreHeld ==
  \A c \in Calls :
    /\ pc[c] \in UnderLock => lock = c
    /\ HoldsSlot(c) => slot = c

\* The two files hold what was selected last, each for its own environment.
FilesAreSo ==
  /\ intent # None => latest[intent.env] = intent
  /\ \A e \in Envs :
       /\ latest[e] # None => latest[e].env = e
       /\ history[e] # None => history[e].env = e /\ latest[e] # None

\* What a command is to publish, and for a resume that it is what was shown.
SelectionIsSo(c) ==
  /\ pc[c] = "select" => kind[c] = "select"
  /\ pc[c] \in {"archived", "apply", "recompute"} => kind[c] = "resume"
  /\ pc[c] \in {"select", "archived", "apply", "recompute", "archive", "publish"} => want[c].env \in Envs
  /\ pc[c] \in {"select", "archive", "publish"} => want[c].route \in Routes
  /\ kind[c] = "resume" /\ pc[c] \in {"apply", "recompute", "archive", "publish"} => plan[c].selected # None
  /\ kind[c] = "resume" /\ pc[c] \in {"archive", "publish"} =>
       want[c] = plan[c].selected /\ latest[want[c].env] = want[c]
  /\ pc[c] = "publish" /\ intent # None => history[intent.env] = intent

\* While a dialog may change the store, the record is the command's and pending.
CredentialIsSo(c) ==
  /\ pc[c] \in {"ask", "dialog", "stored", "settle", "settled"} \/ (pc[c] = "unlock" /\ then[c] = "ask") =>
       cred.by = c /\ cred.state = "pending"
  /\ pc[c] = "stored" => kind[c] # "remove" /\ stored = c
  /\ pc[c] \in {"settle", "settled"} => stored = Value(cred)
  /\ cred.by = c => pc[c] # "idle"

StateIsSo ==
  /\ LocksAreHeld /\ FilesAreSo /\ NothingForgotten /\ SettledNamesTheValue
  /\ \A c \in Calls : SelectionIsSo(c) /\ CredentialIsSo(c)
=============================================================================
