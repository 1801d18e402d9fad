----------------------------- MODULE Registration -----------------------------
(***************************************************************************)
(* How a credential enters the catalog: registerCredential of              *)
(* core/vnext/input.ts with the pure steps of core/vnext/registration.ts.  *)
(*                                                                         *)
(* A call records what it is about to do (an operation), asks a person for *)
(* the secret in a helper process, and publishes the stored generation in  *)
(* the catalog with a compare-and-swap.  Calls of several processes        *)
(* interleave at every access of the store, every one of those accesses    *)
(* may throw before or after it took effect, a process may die anywhere,   *)
(* and the helper outlives the process that opened it.  A later call of    *)
(* the same request finds the unfinished operation and reconciles it.      *)
(*                                                                         *)
(* The catalog is the compare-and-swap register that CatalogStore is shown *)
(* to implement, so equal revisions are equal catalogs and the fingerprint *)
(* of an operation is its expected revision.  A record of an operation is  *)
(* replaced under the same discipline: a save fails when anyone saved the  *)
(* record after the saver read it.                                         *)
(***************************************************************************)
EXTENDS Integers, FiniteSets

CONSTANTS
  Procs,        \* processes that call registerCredential
  Ops,          \* operation identifiers; each carries one new generation
  Titles,       \* labels of credentials, but for the case of their letters
  Forms,        \* the case of a label's letters, and the classification
  None,         \* null
  MaxRevision   \* bound: revisions of the catalog

Final == {"committed", "cancelled", "conflict"}
States == Final \cup {"prepared", "stored-uncommitted", "unresolved"}

(* A record of an operation; a credential is identified by the operation that
   first registered it. *)
Creds == Ops
Labels == [title : Titles, form : Forms]
Operation == [cred : Creds, label : Labels, previous : Ops \cup {None},
              expected : 0 .. MaxRevision, state : States]

ASSUME RegistrationAssumption ==
  /\ None \notin Ops \cup Labels \cup Operation
  /\ MaxRevision \in Nat

VARIABLES
  catalog,    \* [revision, active]: credential -> published generation
  ops,        \* operation -> its record, or None
  slots,      \* generations whose secret the operating system stores
  helper,     \* operation -> what became of its input dialog
  published,  \* generations that were ever active (history)
  pc,         \* process -> the access it makes next
  req,        \* process -> its request
  names,      \* process -> the records its directory listing saw
  snap,       \* process -> the catalog it read
  held,       \* process -> the operation it holds: state, and is it the latest
  told        \* operation -> outcomes that its callers were told (history)

records == <<catalog, ops, slots, published>>
locals  == <<req, names, snap>>
vars    == <<records, helper, pc, locals, held, told>>

NoCatalog == [revision |-> -1, active |-> [c \in Creds |-> None]]
NoHold    == [op |-> None, state |-> "none", fresh |-> FALSE]
NoRequest == [label |-> None, replace |-> None]

(* What a caller may ask for: a new label, or a replacement; or to resume an
   operation it names, whose label and credential it may repeat. *)
Requests == [label : Labels, replace : Creds \cup {None}]
Resumptions == [label : Labels \cup {None}, replace : Creds \cup {None}]

(* An outcome as a caller hears it, and whether the operation is what the caller
   asked for. *)
Answers == [status : Final, fits : BOOLEAN]

Init ==
  /\ catalog = NoCatalog
  /\ ops = [o \in Ops |-> None]
  /\ slots = {}
  /\ helper = [o \in Ops |-> "none"]
  /\ published = {}
  /\ pc = [p \in Procs |-> "idle"]
  /\ req = [p \in Procs |-> NoRequest]
  /\ names = [p \in Procs |-> {}]
  /\ snap = [p \in Procs |-> NoCatalog]
  /\ held = [p \in Procs |-> NoHold]
  /\ told = [o \in Ops |-> {}]

-----------------------------------------------------------------------------
(* A call that ends forgets everything it read. *)
Forget(p) ==
  /\ pc' = [pc EXCEPT ![p] = "idle"]
  /\ req' = [req EXCEPT ![p] = NoRequest]
  /\ names' = [names EXCEPT ![p] = {}]
  /\ snap' = [snap EXCEPT ![p] = NoCatalog]

(* Return an outcome, or a status that claims none: selection-required,
   unavailable, recovery-required or unknown. *)
Heard(state) == {[status |-> s, fits |-> TRUE] : s \in {state} \cap Final}
Tell(o, state) == told' = [told EXCEPT ![o] = @ \cup Heard(state)]
Return(p) ==
  /\ Forget(p)
  /\ held' = [held EXCEPT ![p] = NoHold]
  /\ UNCHANGED told

Goto(p, step) == pc' = [pc EXCEPT ![p] = step]

(* Fault: the record in memory is trusted to be the latest. *)
CanSaveOldVersion(p, state) ==
  held[p].state \in Final => state = held[p].state

(* A record is replaced only by one who holds its latest version, and a final
   state is never left. *)
CanSave(p, state) ==
  /\ held[p].fresh
  /\ held[p].state \in Final => state = held[p].state

(* Every other holder of the record now holds an old version. *)
Save(p, state) ==
  LET o == held[p].op IN
  /\ CanSave(p, state)
  /\ ops' = [ops EXCEPT ![o].state = state]
  /\ held' = [q \in Procs |->
       IF q = p THEN [held[p] EXCEPT !.state = state]
       ELSE IF held[q].op = o THEN [held[q] EXCEPT !.fresh = FALSE] ELSE held[q]]

(* Save the record and return it. *)
SaveAndReturn(p, state) ==
  LET o == held[p].op IN
  /\ CanSave(p, state)
  /\ ops' = [ops EXCEPT ![o].state = state]
  /\ Forget(p)
  /\ held' = [q \in Procs |->
       IF q = p THEN NoHold
       ELSE IF held[q].op = o THEN [held[q] EXCEPT !.fresh = FALSE] ELSE held[q]]
  /\ Tell(o, state)

(* Fault: a probe that could not answer is taken for a stored secret. *)
ReconciledUnseen(o, cat, presence) ==
  LET active == cat.active[ops[o].cred] = o /\ cat.revision > ops[o].expected IN
  CASE presence = "absent"                              -> "unresolved"
    [] presence # "absent" /\ active                    -> "committed"
    [] presence # "absent" /\ ~active
         /\ cat.revision = ops[o].expected               -> "stored-uncommitted"
    [] presence # "absent" /\ ~active
         /\ cat.revision # ops[o].expected               -> "conflict"

(* What pure reconciliation makes of an operation that is not final.  The states
   unknown and recovery-required differ only in what they tell a reader: both are
   unresolved here. *)
Reconciled(o, cat, presence) ==
  LET active == cat.active[ops[o].cred] = o /\ cat.revision > ops[o].expected IN
  CASE presence # "present"                      -> "unresolved"
    [] presence = "present" /\ active             -> "committed"
    [] presence = "present" /\ ~active
         /\ cat.revision = ops[o].expected        -> "stored-uncommitted"
    [] presence = "present" /\ ~active
         /\ cat.revision # ops[o].expected        -> "conflict"

TitlesOf(cat) == {ops[cat.active[c]].label.title : c \in {d \in Creds : cat.active[d] # None}}

(* Recorded operations that a request must settle before it may ask again. *)
Unfinished(r, seen) ==
  {o \in seen : /\ ops[o].state \notin {"committed", "cancelled"}
                /\ IF r.replace # None THEN ops[o].cred = r.replace
                   ELSE ops[o].previous = None /\ ops[o].label.title = r.label.title}

(* What a presence probe may answer about a generation. *)
Presences(o) == {"unavailable", IF o \in slots THEN "present" ELSE "absent"}

-----------------------------------------------------------------------------
(* Finding the operation of a request. *)

(* A request for a label or a replacement first lists the recorded operations.
   Identifiers are random: a caller only names a credential it has heard of. *)
Call(p, r) ==
  /\ pc[p] = "idle"
  /\ r.replace # None => ops[r.replace] # None
  /\ req' = [req EXCEPT ![p] = r]
  /\ names' = [names EXCEPT ![p] = {o \in Ops : ops[o] # None}]
  /\ Goto(p, "search")
  /\ UNCHANGED <<records, helper, snap, held, told>>

Search(p) ==
  LET found == Unfinished(req[p], names[p]) IN
  /\ pc[p] = "search"
  /\ \/ /\ Cardinality(found) > 1
        /\ Return(p)
     \/ /\ Cardinality(found) = 1
        /\ held' = [held EXCEPT ![p].op = CHOOSE o \in found : TRUE]
        /\ Goto(p, "recall")
        /\ names' = [names EXCEPT ![p] = {}]
        /\ UNCHANGED <<req, snap, told>>
     \/ /\ found = {}
        /\ Goto(p, "catalog")
        /\ names' = [names EXCEPT ![p] = {}]
        /\ UNCHANGED <<req, snap, held, told>>
  /\ UNCHANGED <<records, helper>>

(* Hold a record that was read: an outcome is returned, anything else is only
   ever recovered. *)
Hold(p, o) ==
  \/ /\ ops[o].state \in Final
     /\ Forget(p)
     /\ held' = [held EXCEPT ![p] = NoHold]
     /\ Tell(o, ops[o].state)
  \/ /\ ops[o].state \notin Final
     /\ held' = [held EXCEPT ![p] = [op |-> o, state |-> ops[o].state, fresh |-> TRUE]]
     /\ Goto(p, "recover")
     /\ req' = [req EXCEPT ![p] = NoRequest]
     /\ UNCHANGED <<names, snap, told>>

(* An operation that is not the one asked for is answered with the status
   "conflict" and its name, in whatever state it is: recorded, it may yet commit. *)
Refuse(p, o) ==
  /\ Forget(p)
  /\ held' = [held EXCEPT ![p] = NoHold]
  /\ told' = [told EXCEPT ![o] = @ \cup {[status |-> "conflict", fits |-> FALSE]}]

(* The one unfinished operation is read again.  It was found by its title or its
   credential alone; its whole label must be the request's. *)
Recall(p) ==
  LET o == held[p].op IN
  /\ pc[p] = "recall"
  /\ \/ ops[o].label # req[p].label /\ Refuse(p, o)
     \/ ops[o].label = req[p].label /\ Hold(p, o)
  /\ UNCHANGED <<records, helper>>

(* A request that names a recorded operation: what it repeats must be so. *)
Fits(o, r) == r.label \in {None, ops[o].label} /\ r.replace \in {None, ops[o].cred}
Resume(p, o, r) ==
  /\ pc[p] = "idle"
  /\ ops[o] # None
  /\ \/ ~Fits(o, r) /\ Refuse(p, o)
     \/ Fits(o, r) /\ Hold(p, o)
  /\ UNCHANGED <<records, helper>>

-----------------------------------------------------------------------------
(* A new operation. *)

(* The checks on the catalog a new operation is based on. *)
Based(p, cat) ==
  LET r == req[p] IN
  \/ /\ r.replace # None /\ cat.active[r.replace] = None
     /\ Return(p)
  \/ /\ r.replace = None /\ r.label.title \in TitlesOf(cat)
     /\ Return(p)
  \/ /\ IF r.replace = None THEN r.label.title \notin TitlesOf(cat) ELSE cat.active[r.replace] # None
     /\ snap' = [snap EXCEPT ![p] = cat]
     /\ Goto(p, IF r.replace = None THEN "prepare" ELSE "check")
     /\ UNCHANGED <<req, names, held, told>>

ReadCatalog(p) ==
  /\ pc[p] = "catalog"
  /\ \/ catalog # NoCatalog /\ Based(p, catalog)
     \/ catalog = NoCatalog /\ Goto(p, "create") /\ UNCHANGED <<locals, held, told>>
  /\ UNCHANGED <<records, helper>>

CreateCatalog(p) ==
  /\ pc[p] = "create"
  /\ catalog = NoCatalog
  /\ catalog' = [NoCatalog EXCEPT !.revision = 0]
  /\ Based(p, catalog')
  /\ UNCHANGED <<ops, slots, published, helper>>

(* A generation is replaced only while its secret can be seen. *)
CheckPrevious(p) ==
  /\ pc[p] = "check"
  /\ \E presence \in Presences(snap[p].active[req[p].replace]) :
       IF presence = "present"
       THEN Goto(p, "prepare") /\ UNCHANGED <<locals, held, told>>
       ELSE Return(p)
  /\ UNCHANGED <<records, helper>>

Prepare(p, o) ==
  LET r == req[p] IN
  /\ pc[p] = "prepare"
  /\ ops[o] = None
  /\ ops' = [ops EXCEPT ![o] =
       [cred     |-> IF r.replace = None THEN o ELSE r.replace,
        label    |-> r.label,
        previous |-> IF r.replace = None THEN None ELSE snap[p].active[r.replace],
        expected |-> snap[p].revision,
        state    |-> "prepared"]]
  /\ held' = [held EXCEPT ![p] = [op |-> o, state |-> "prepared", fresh |-> TRUE]]
  /\ Goto(p, "ask")
  /\ req' = [req EXCEPT ![p] = NoRequest]
  /\ snap' = [snap EXCEPT ![p] = NoCatalog]
  /\ UNCHANGED <<catalog, slots, published, helper, names, told>>

Ask(p) ==
  /\ pc[p] = "ask"
  /\ helper' = [helper EXCEPT ![held[p].op] = "open"]
  /\ Goto(p, "asking")
  /\ UNCHANGED <<records, locals, held, told>>

(* The person and the helper; neither needs the process that opened it. *)
HumanSaves(o) ==
  /\ helper[o] = "open"
  /\ helper' = [helper EXCEPT ![o] = "saved"]
  /\ slots' = slots \cup {o}
  /\ UNCHANGED <<catalog, ops, published, pc, locals, held, told>>

HumanDeclines(o) ==
  /\ helper[o] = "open"
  /\ \E end \in {"cancelled", "failed"} : helper' = [helper EXCEPT ![o] = end]
  /\ UNCHANGED <<records, pc, locals, held, told>>

(* Fault: a lost exit code is taken for a refusal. *)
HearsNothing(p) == helper[held[p].op] # "open"

(* Only a helper that ended with "cancelled" lets the operation be cancelled. *)
HearsCancelled(p) == helper[held[p].op] = "cancelled"

Hear(p) ==
  /\ pc[p] = "asking"
  /\ helper[held[p].op] # "open"
  /\ \/ HearsCancelled(p) /\ Goto(p, "cancel")
     \/ Goto(p, "recover")                      \* saved, failed, or a lost exit code
  /\ UNCHANGED <<records, helper, locals, held, told>>

Cancel(p) ==
  /\ pc[p] = "cancel"
  /\ SaveAndReturn(p, "cancelled")
  /\ UNCHANGED <<catalog, slots, published, helper>>

-----------------------------------------------------------------------------
(* Recovery: also the second half of a call whose helper answered. *)

Recover(p) ==
  /\ pc[p] = "recover"
  /\ snap' = [snap EXCEPT ![p] = catalog]
  /\ Goto(p, "probe")
  /\ UNCHANGED <<records, helper, req, names, held, told>>

(* Awaits the presence of the slot, and stages what follows from it. *)
Probe(p) ==
  /\ pc[p] = "probe"
  /\ \E presence \in Presences(held[p].op) :
       Goto(p, Reconciled(held[p].op, snap[p], presence))
  /\ UNCHANGED <<records, helper, locals, held, told>>

Stage(p) ==
  /\ pc[p] \in States
  /\ \/ /\ pc[p] = "stored-uncommitted"
        /\ Save(p, pc[p])
        /\ Goto(p, "commit")
        /\ UNCHANGED <<locals, told>>
     \/ /\ pc[p] # "stored-uncommitted"
        /\ SaveAndReturn(p, pc[p])
  /\ UNCHANGED <<catalog, slots, published, helper>>

(* Fault: the catalog is swapped without comparing it. *)
CommitOverChange(p) ==
  LET o == held[p].op IN
  /\ pc[p] = "commit"
  /\ catalog.revision < MaxRevision
  /\ catalog' = [revision |-> catalog.revision + 1,
                 active   |-> [catalog.active EXCEPT ![ops[o].cred] = o]]
  /\ published' = published \cup {o}
  /\ Goto(p, "close")
  /\ snap' = [snap EXCEPT ![p] = NoCatalog]
  /\ UNCHANGED <<ops, slots, helper, req, names, held, told>>

(* Fault: a swap that found another catalog is not noticed. *)
CommitUnnoticed(p) ==
  LET o == held[p].op IN
  /\ pc[p] = "commit"
  /\ catalog.revision < MaxRevision
  /\ \/ /\ catalog = snap[p]
        /\ catalog' = [revision |-> catalog.revision + 1,
                       active   |-> [catalog.active EXCEPT ![ops[o].cred] = o]]
        /\ published' = published \cup {o}
     \/ catalog # snap[p] /\ UNCHANGED <<catalog, published>>
  /\ Goto(p, "close")
  /\ snap' = [snap EXCEPT ![p] = NoCatalog]
  /\ UNCHANGED <<ops, slots, helper, req, names, held, told>>

(* The catalog is swapped only if it is still the one the operation was staged on. *)
Commit(p) ==
  LET o == held[p].op IN
  /\ pc[p] = "commit"
  /\ catalog = snap[p]
  /\ catalog.revision < MaxRevision
  /\ catalog' = [revision |-> catalog.revision + 1,
                 active   |-> [catalog.active EXCEPT ![ops[o].cred] = o]]
  /\ published' = published \cup {o}
  /\ Goto(p, "close")
  /\ snap' = [snap EXCEPT ![p] = NoCatalog]
  /\ UNCHANGED <<ops, slots, helper, req, names, held, told>>

Close(p) ==
  /\ pc[p] = "close"
  /\ SaveAndReturn(p, "committed")
  /\ UNCHANGED <<catalog, slots, published, helper>>

(* Any access may throw, or the process dies; with the action just taken this
   is also an access that took effect and was reported as failed. *)
Throw(p) ==
  /\ pc[p] # "idle"
  /\ Return(p)
  /\ UNCHANGED <<records, helper>>

(* Bindings, projects and targets change under the same compare-and-swap. *)
OtherChange ==
  /\ catalog # NoCatalog
  /\ catalog.revision < MaxRevision
  /\ catalog' = [catalog EXCEPT !.revision = @ + 1]
  /\ UNCHANGED <<ops, slots, published, helper, pc, locals, held, told>>

Next ==
  \/ \E p \in Procs :
       \/ \E r \in Requests : Call(p, r)
       \/ Search(p) \/ Recall(p)
       \/ \E o \in Ops, r \in Resumptions : Resume(p, o, r)
       \/ ReadCatalog(p) \/ CreateCatalog(p) \/ CheckPrevious(p)
       \/ \E o \in Ops : Prepare(p, o)
       \/ Ask(p) \/ Hear(p) \/ Cancel(p)
       \/ Recover(p) \/ Probe(p) \/ Stage(p) \/ Commit(p) \/ Close(p)
       \/ Throw(p)
  \/ \E o \in Ops : HumanSaves(o) \/ HumanDeclines(o)
  \/ OtherChange

Spec == Init /\ [][Next]_vars
-----------------------------------------------------------------------------
(* What the records, the store and the catalog say of each other.           *)

Catalogs == [revision : -1 .. MaxRevision, active : [Creds -> Ops \cup {None}]]
Steps == {"idle", "search", "recall", "catalog", "create", "check", "prepare",
          "ask", "asking", "cancel", "recover", "probe", "commit", "close"}

TypeOK ==
  /\ catalog \in Catalogs
  /\ ops \in [Ops -> {None} \cup Operation]
  /\ slots \subseteq Ops /\ published \subseteq Ops
  /\ helper \in [Ops -> {"none", "open", "saved", "cancelled", "failed"}]
  /\ pc \in [Procs -> Steps \cup States]
  /\ req \in [Procs -> Requests \cup {NoRequest}]
  /\ names \in [Procs -> SUBSET Ops]
  /\ snap \in [Procs -> Catalogs]
  /\ held \in [Procs -> [op : Ops \cup {None}, state : States \cup {"none"}, fresh : BOOLEAN]]
  /\ told \in [Ops -> SUBSET Answers]

(* No stored secret is forgotten: its generation has a record that is not
   cancelled, whatever call asked for it, died, or was overtaken; and after a
   cancellation no helper is left that could still store one
   (input.ts: "Even an unavailable helper may have saved"). *)
NoSecretIsForgotten ==
  \A o \in Ops :
    /\ o \in slots => ops[o] # None
    /\ ops[o] # None /\ ops[o].state = "cancelled" => o \notin slots /\ helper[o] # "open"

(* The catalog only names generations whose secret is stored and whose
   operation was recorded first, and a record that says committed is about a
   generation that was in the catalog. *)
CatalogIsBacked ==
  \A o \in Ops :
    /\ o \in published => o \in slots /\ ops[o] # None
    /\ ops[o] # None /\ ops[o].state = "committed" => o \in published
    /\ \A c \in Creds : catalog.active[c] = o => o \in published /\ ops[o].cred = c

(* Where a call is before it holds a record, and before it asked for one. *)
Searching == {"idle", "search", "catalog", "create", "check", "prepare"}
Requesting == {"search", "recall", "catalog", "create", "check", "prepare"}

(* What a process holds, by where it is. *)
Holds(p) ==
  /\ held[p].op = None <=> pc[p] \in Searching
  /\ held[p].state = "none" <=> pc[p] \in Searching \cup {"recall"}
  /\ held[p].op # None => ops[held[p].op] # None
  /\ held[p].fresh => held[p].state # "none" /\ held[p].state = ops[held[p].op].state
  /\ pc[p] \in {"ask", "asking", "cancel"} => held[p].state = "prepared"
  /\ pc[p] \in Requesting => req[p] \in Requests
  /\ req[p].replace # None => ops[req[p].replace] # None
  /\ \A o \in names[p] : ops[o] # None

(* A call about to record an operation read a catalog that allows it. *)
MayPrepare(p) ==
  pc[p] \in {"check", "prepare"} =>
    /\ snap[p].revision >= 0
    /\ IF req[p].replace = None THEN req[p].label.title \notin TitlesOf(snap[p])
       ELSE snap[p].active[req[p].replace] # None

(* The first generation of a credential is the one that names it. *)
NamesCredential(o) ==
  ops[o] # None =>
    /\ ops[ops[o].cred] # None
    /\ ops[o].previous = None <=> ops[o].cred = o

(* The helper is opened once, after the record; what it stored is in the slots,
   and a record is cancelled only when the helper said so. *)
HelperIsRecorded(o) ==
  /\ helper[o] = "saved" <=> o \in slots
  /\ helper[o] # "none" => ops[o] # None
  /\ ops[o] # None /\ ops[o].state = "cancelled" => helper[o] = "cancelled"

OpensHelper(p) ==
  /\ pc[p] = "ask" => helper[held[p].op] = "none"
  /\ pc[p] = "cancel" => helper[held[p].op] = "cancelled"

OnlyOneAsks(p, q) ==
  pc[p] = "ask" /\ pc[q] = "ask" /\ held[p].op = held[q].op => p = q

(* A catalog at the revision an operation expects is the one it was prepared on. *)
BasedOn(cat) ==
  \A o \in Ops : ops[o] # None /\ cat.revision = ops[o].expected =>
    /\ cat.active[ops[o].cred] = ops[o].previous
    /\ ops[o].previous = None => ops[o].label.title \notin TitlesOf(cat)

(* A catalog as it is or was: it names what was published of each credential. *)
Genuine(cat) ==
  /\ cat.revision = -1 => cat = NoCatalog
  /\ BasedOn(cat)
  /\ \A c \in Creds : cat.active[c] # None =>
       cat.active[c] \in published /\ ops[cat.active[c]].cred = c

IsPast(cat) ==
  /\ cat.revision <= catalog.revision
  /\ cat.revision = catalog.revision => cat = catalog

(* What a process is about to save or publish is so. *)
StagedIsSo(p) ==
  /\ pc[p] \in {"committed", "close"} => held[p].op \in published
  /\ pc[p] \in {"stored-uncommitted", "commit"} =>
       /\ held[p].op \in slots
       /\ snap[p].revision = ops[held[p].op].expected
  /\ pc[p] = "conflict" => held[p].op \in slots
  /\ pc[p] \notin {"prepared", "cancelled"}

(* A caller who asked for an operation was told an outcome only if it is the
   recorded one; another caller hears a conflict, whatever is recorded. *)
ToldIsRecorded(o) ==
  \A a \in told[o] : ops[o] # None /\ a.status = IF a.fits THEN ops[o].state ELSE "conflict"

CallsAreSo ==
  \A p \in Procs :
    Holds(p) /\ MayPrepare(p) /\ OpensHelper(p) /\ Genuine(snap[p]) /\ IsPast(snap[p]) /\ StagedIsSo(p)

PairsAgree ==
  \A p, q \in Procs :
    OnlyOneAsks(p, q) /\ (snap[p].revision = snap[q].revision => snap[p] = snap[q])

RecordsAreSo ==
  /\ \A o \in Ops :
       /\ NamesCredential(o) /\ HelperIsRecorded(o) /\ ToldIsRecorded(o)
       /\ ops[o] # None => ops[o].expected <= catalog.revision
  /\ Genuine(catalog)

IInv == TypeOK /\ CallsAreSo /\ PairsAgree /\ RecordsAreSo /\ NoSecretIsForgotten /\ CatalogIsBacked

(* What a caller was told of an operation stays so: committed was published,
   cancelled never is and never stored anything; and all who asked for that very
   operation hear one outcome, a conflict only if it is recorded.  Who asked for
   something else also hears "conflict", of an operation that may commit later. *)
AnswersAreTruthful ==
  \A o \in Ops : \A a \in told[o] :
    /\ a.status = "committed" => o \in published
    /\ a.status = "cancelled" => o \notin slots \cup published /\ helper[o] # "open"
    /\ a.status = "conflict" /\ a.fits => ops[o].state = "conflict"
    /\ \A b \in told[o] : a.fits /\ b.fits => a.status = b.status

(* A generation only ever replaces the one it was prepared to replace: no
   rotation silently undoes another one, however many are in progress. *)
RotationsFollowTheirPrevious ==
  [][\A c \in Creds : catalog'.active[c] # catalog.active[c] =>
       LET o == catalog'.active[c] IN ops[o].cred = c /\ ops[o].previous = catalog.active[c]]_vars

(* A new credential only appears beside labels it differs from in more than case,
   although the labels were read before the person was asked. *)
NewLabelsDiffer ==
  [][\A c \in Creds : catalog.active[c] = None /\ catalog'.active[c] # None =>
       ops[c].label.title \notin TitlesOf(catalog)]_vars

(* A recorded outcome is never revised, although calls that read the record
   before are still running. *)
OutcomesStay ==
  [][\A o \in Ops : ops[o] # None /\ ops[o].state \in Final => ops'[o] = ops[o]]_vars

(* A published generation is never recorded as a conflict: the next call
   reconciles the exact candidate (input.ts, commitStored). *)
PublishedIsNeverConflict ==
  \A o \in published : ops[o].state # "conflict"
=============================================================================
