-------------------------- MODULE DeploymentHistory --------------------------
(***************************************************************************)
(* The file protocol of packages/core/deploy/history.ts.  Processes that   *)
(* deploy share one journal directory holding history.json, history.tmp    *)
(* and a lock directory.  A deploy persists a start, writes to the         *)
(* provider, then persists the result; `history` commands read without     *)
(* taking the lock.  Every file system call is a step of its own, may fail *)
(* and may be the last one of its process.                                 *)
(***************************************************************************)
EXTENDS JournalData, FiniteSets

CONSTANTS
  Readers,   \* processes that run one inspection each
  KindsUsed, \* kinds of attempts that are made
  Observed,  \* outcomes that are observed at the provider
  Free       \* the lock directory does not exist

ASSUME UsedAssumption == KindsUsed \subseteq Kinds /\ Observed \subseteq Outcomes
ASSUME FreeAssumption == Free \notin Deploys

VARIABLES
  lock,      \* who created the lock directory (no process can tell), or Free
  tmp,       \* history.tmp: "absent", "torn" while being written, "whole"
  tmpJournal,\* the journal a whole history.tmp holds
  file,      \* the journal in history.json; EmptyJournal while it is missing
  replaced,  \* renames onto history.json: its inode; 0 while it is missing
  pc,        \* where each deploy is
  op,        \* the call it makes of change: "begin" or "finish"
  kind,      \* the kind of its receipt
  outcome,   \* the outcome it observed at the provider
  edited,    \* the journal it computed from what it read; empty when out of scope
  result,    \* what change will return: "none" until decided
  dead,      \* deploys whose process has died
  starts     \* history variable: starts that took effect, in order

VARIABLES
  rpc,       \* where each reader is
  rinode,    \* the inode it saw with lstat
  rstatus,   \* "none" until it answers, then the status it reports
  seen,      \* the journal it reports
  acked      \* history variable: starts acknowledged before it looked

storage == <<lock, tmp, tmpJournal, file, replaced>>
calls == <<pc, op, kind, outcome, edited, result, dead>>
reads == <<rpc, rinode, rstatus, seen, acked>>
vars == <<storage, calls, starts, reads>>

Busy == {"mkdir", "load", "open", "write", "rename", "unlink", "rmdir"}
Resting == {"idle", "started", "stopped", "done"}

TypeOK ==
  /\ lock \in Deploys \cup {Free}
  /\ tmp \in {"absent", "torn", "whole"}
  /\ tmpJournal \in Journal
  /\ file \in Journal
  /\ replaced \in Nat
  /\ pc \in [Deploys -> Busy \cup Resting]
  /\ op \in [Deploys -> {"begin", "finish"}]
  /\ kind \in [Deploys -> Kinds]
  /\ outcome \in [Deploys -> Outcomes]
  /\ edited \in [Deploys -> Journal]
  /\ result \in [Deploys -> {"none", "ok", "failed"}]
  /\ dead \subseteq Deploys
  /\ starts \in Seq(Deploys)

ReadersTypeOK ==
  /\ rpc \in [Readers -> {"lock", "tmp", "stat", "open", "done"}]
  /\ rinode \in [Readers -> Nat]
  /\ rstatus \in [Readers -> {"none", "available", "missing", "unavailable"}]
  /\ seen \in [Readers -> Journal]
  /\ acked \in [Readers -> SUBSET Deploys]

Init ==
  /\ lock = Free
  /\ tmp = "absent"
  /\ tmpJournal = EmptyJournal
  /\ file = EmptyJournal
  /\ replaced = 0
  /\ pc = [d \in Deploys |-> "idle"]
  /\ op = [d \in Deploys |-> "begin"]
  /\ kind \in [Deploys -> KindsUsed]
  /\ outcome = [d \in Deploys |-> "unknown"]
  /\ edited = [d \in Deploys |-> EmptyJournal]
  /\ result = [d \in Deploys |-> "none"]
  /\ dead = {}
  /\ starts = <<>>
  /\ rpc = [r \in Readers |-> "lock"]
  /\ rinode = [r \in Readers |-> 0]
  /\ rstatus = [r \in Readers |-> "none"]
  /\ seen = [r \in Readers |-> EmptyJournal]
  /\ acked = [r \in Readers |-> {}]

-----------------------------------------------------------------------------
(* The deploy's two calls. *)

At(d, label) == d \notin dead /\ pc[d] = label
Go(d, label) == pc' = [pc EXCEPT ![d] = label]
Fails(d) == result' = [result EXCEPT ![d] = "failed"]

CallBegin(d) ==
  /\ At(d, "idle")
  /\ Go(d, "mkdir")
  /\ UNCHANGED <<storage, op, kind, outcome, edited, result, dead, starts, reads>>

\* The id was returned, the provider was written: its outcome is recorded.
CallFinish(d, o) ==
  /\ At(d, "started")
  /\ Go(d, "mkdir")
  /\ op' = [op EXCEPT ![d] = "finish"]
  /\ outcome' = [outcome EXCEPT ![d] = o]
  /\ result' = [result EXCEPT ![d] = "none"]
  /\ UNCHANGED <<storage, kind, edited, dead, starts, reads>>

\* Where a call of change leaves its caller.
Returned(d, ok) ==
  IF op[d] = "finish" THEN "done" ELSE IF ok THEN "started" ELSE "stopped"

-----------------------------------------------------------------------------
(* change: one file system call at a time. *)

\* Fault: a mkdir that succeeds when the directory exists (recursive).
TakeLockAnyway(d) ==
  /\ At(d, "mkdir")
  /\ lock' = d
  /\ Go(d, "load")
  /\ UNCHANGED <<tmp, tmpJournal, file, replaced, op, kind, outcome, edited,
                 result, dead, starts, reads>>

\* mkdir(lock) succeeds, or change returns false at once: EEXIST or an error.
TakeLock(d) ==
  /\ At(d, "mkdir")
  /\ lock = Free
  /\ lock' = d
  /\ Go(d, "load")
  /\ UNCHANGED <<tmp, tmpJournal, file, replaced, op, kind, outcome, edited,
                 result, dead, starts, reads>>

\* Fault: contention is waited out.
LockIsAwaited(d) ==
  /\ At(d, "mkdir")
  /\ UNCHANGED vars

\* Fault: a call that could not take the lock answers like one that did.
LockFailureIgnored(d) ==
  /\ At(d, "mkdir")
  /\ result' = [result EXCEPT ![d] = "ok"]
  /\ Go(d, Returned(d, TRUE))
  /\ UNCHANGED <<storage, op, kind, outcome, edited, dead, starts, reads>>

LockFails(d) ==
  /\ At(d, "mkdir")
  /\ Fails(d)
  /\ Go(d, Returned(d, FALSE))
  /\ UNCHANGED <<storage, op, kind, outcome, edited, dead, starts, reads>>

Edit(d, journal) ==
  IF op[d] = "begin" THEN WithStart(journal, d, kind[d])
                     ELSE WithResult(journal, d, outcome[d])

\* history.tmp must be absent; history.json is read, edited and validated.
Load(d) ==
  /\ At(d, "load")
  /\ tmp = "absent"
  /\ op[d] = "finish" => HasOpenStart(file, d)
  /\ edited' = [edited EXCEPT ![d] = Edit(d, file)]
  /\ Go(d, "open")
  /\ UNCHANGED <<storage, op, kind, outcome, result, dead, starts, reads>>

\* open(history.tmp, "wx")
OpenTemporary(d) ==
  /\ At(d, "open")
  /\ tmp = "absent"
  /\ tmp' = "torn"
  /\ Go(d, "write")
  /\ UNCHANGED <<lock, tmpJournal, file, replaced, op, kind, outcome, edited,
                 result, dead, starts, reads>>

\* writeFile and fsync
WriteTemporary(d) ==
  /\ At(d, "write")
  /\ tmp' = "whole"
  /\ tmpJournal' = edited[d]
  /\ Go(d, "rename")
  /\ UNCHANGED <<lock, file, replaced, op, kind, outcome, edited, result, dead,
                 starts, reads>>

Rename(d) ==
  /\ At(d, "rename")
  /\ file' = tmpJournal
  /\ replaced' = replaced + 1
  /\ tmp' = "absent"
  /\ tmpJournal' = EmptyJournal
  /\ result' = [result EXCEPT ![d] = "ok"]
  /\ starts' = IF op[d] = "begin" THEN Append(starts, d) ELSE starts
  /\ Go(d, "rmdir")
  /\ edited' = [edited EXCEPT ![d] = EmptyJournal]
  /\ UNCHANGED <<lock, op, kind, outcome, dead, reads>>

\* A call fails, or finds what it must refuse: a temporary file, a missing or
\* finished start, a journal beyond MAX_BYTES.  The temporary file is removed
\* if this call created it.
ChangeFails(d) ==
  /\ \/ (At(d, "load") \/ At(d, "open")) /\ Go(d, "rmdir")
     \/ (At(d, "write") \/ At(d, "rename")) /\ Go(d, "unlink")
  /\ Fails(d)
  /\ edited' = [edited EXCEPT ![d] = EmptyJournal]
  /\ UNCHANGED <<storage, op, kind, outcome, dead, starts, reads>>

\* Fault: the cleaning up of a failed call repeats the rename.
RenameAgain(d) ==
  /\ At(d, "unlink")
  /\ tmp' = "absent"
  /\ tmpJournal' = EmptyJournal
  /\ file' = IF tmp = "whole" THEN tmpJournal ELSE file
  /\ Go(d, "rmdir")
  /\ UNCHANGED <<lock, replaced, op, kind, outcome, edited,
                 result, dead, starts, reads>>

\* A failing unlink leaves the temporary file behind.
UnlinkTemporary(d) ==
  /\ At(d, "unlink")
  /\ \/ tmp' = "absent" /\ tmpJournal' = EmptyJournal
     \/ UNCHANGED <<tmp, tmpJournal>>
  /\ Go(d, "rmdir")
  /\ UNCHANGED <<lock, file, replaced, op, kind, outcome, edited,
                 result, dead, starts, reads>>

\* Fault: the call answers success once its cleaning up is over.
ReleaseLockAndSucceed(d) ==
  /\ At(d, "rmdir")
  /\ lock' \in {lock, Free}
  /\ Go(d, Returned(d, TRUE))
  /\ UNCHANGED <<tmp, tmpJournal, file, replaced, op, kind, outcome, edited,
                 result, dead, starts, reads>>

\* A failing rmdir leaves the lock behind and is not reported.
ReleaseLock(d) ==
  /\ At(d, "rmdir")
  /\ lock' \in {lock, Free}
  /\ Go(d, Returned(d, result[d] = "ok"))
  /\ UNCHANGED <<tmp, tmpJournal, file, replaced, op, kind, outcome, edited,
                 result, dead, starts, reads>>

-----------------------------------------------------------------------------
(* A process dies; a person clears what it left. *)

Crash(d) ==
  /\ d \notin dead
  /\ pc[d] \in Busy \cup {"started"}
  /\ dead' = dead \cup {d}
  /\ UNCHANGED <<storage, pc, op, kind, outcome, edited, result, starts, reads>>

\* Only after confirming that no deploy is running.
ReviewStorage ==
  /\ \A d \in Deploys : d \in dead \/ pc[d] \in {"idle", "stopped", "done"}
  /\ lock # Free \/ tmp # "absent"
  /\ lock' = Free
  /\ tmp' = "absent"
  /\ tmpJournal' = EmptyJournal
  /\ UNCHANGED <<file, replaced, calls, starts, reads>>

-----------------------------------------------------------------------------
(* read: no lock is taken. *)

Acknowledged == {d \in Deploys : op[d] = "finish" \/ pc[d] = "started"}

Answer(r, status) ==
  /\ rpc' = [rpc EXCEPT ![r] = "done"]
  /\ rstatus' = [rstatus EXCEPT ![r] = status]

RGo(r, label) == rpc' = [rpc EXCEPT ![r] = label] /\ UNCHANGED rstatus

ReadLock(r) ==
  /\ rpc[r] = "lock"
  /\ acked' = [acked EXCEPT ![r] = Acknowledged]
  /\ IF lock = Free THEN RGo(r, "tmp") ELSE Answer(r, "unavailable")
  /\ UNCHANGED <<storage, calls, starts, rinode, seen>>

ReadTemporary(r) ==
  /\ rpc[r] = "tmp"
  /\ IF tmp = "absent" THEN RGo(r, "stat") ELSE Answer(r, "unavailable")
  /\ UNCHANGED <<storage, calls, starts, rinode, seen, acked>>

ReadStat(r) ==
  /\ rpc[r] = "stat"
  /\ rinode' = [rinode EXCEPT ![r] = replaced]
  /\ IF replaced = 0 THEN Answer(r, "missing") ELSE RGo(r, "open")
  /\ UNCHANGED <<storage, calls, starts, seen, acked>>

\* Fault: a complete temporary file is taken for the newest journal.
ReadNewest(r) ==
  /\ rpc[r] = "open"
  /\ seen' = [seen EXCEPT ![r] = IF tmp = "whole" THEN tmpJournal ELSE file]
  /\ Answer(r, "available")
  /\ UNCHANGED <<storage, calls, starts, rinode, acked>>

\* The opened file must be the one lstat saw.
ReadOpen(r) ==
  /\ rpc[r] = "open"
  /\ IF rinode[r] = replaced
     THEN seen' = [seen EXCEPT ![r] = file] /\ Answer(r, "available")
     ELSE UNCHANGED seen /\ Answer(r, "unavailable")
  /\ UNCHANGED <<storage, calls, starts, rinode, acked>>

-----------------------------------------------------------------------------
ChangeStep(d) ==
  \/ TakeLock(d) \/ LockFails(d)
  \/ Load(d) \/ OpenTemporary(d) \/ WriteTemporary(d) \/ Rename(d)
  \/ ChangeFails(d) \/ UnlinkTemporary(d) \/ ReleaseLock(d)

ReadStep(r) == ReadLock(r) \/ ReadTemporary(r) \/ ReadStat(r) \/ ReadOpen(r)

Next ==
  \/ \E d \in Deploys :
       \/ CallBegin(d)
       \/ \E o \in Observed : CallFinish(d, o)
       \/ ChangeStep(d)
       \/ Crash(d)
  \/ ReviewStorage
  \/ \E r \in Readers : ReadStep(r)

Spec == Init /\ [][Next]_vars

\* A call of change is synchronous code: its process runs it to the end
\* unless it dies.
FairSpec == Spec /\ \A d \in Deploys : WF_vars(ChangeStep(d))

-----------------------------------------------------------------------------
(* Properties *)

\* What an attempt has achieved, as its caller knows it.
Phase(d) ==
  CASE op[d] = "begin" /\ pc[d] = "started"  -> "started"
    [] op[d] = "begin" /\ pc[d] = "stopped"  -> "refused"
    [] op[d] = "begin" /\ pc[d] \notin {"started", "stopped"} ->
         IF result[d] = "ok" THEN "begun" ELSE "new"
    [] op[d] = "finish" /\ result[d] = "ok"  -> "finished"
    [] op[d] = "finish" /\ result[d] # "ok"  ->
         IF pc[d] = "done" THEN "unsaved" ELSE "started"

Abstract == INSTANCE AtomicJournal WITH
  journal <- file, phase <- [d \in Deploys |-> Phase(d)]

\* The protocol of lock, temporary file and rename implements the journal
\* whose calls take effect at once.
ImplementsAtomicJournal == Abstract!JournalSpec

\* No start that took effect is lost to another writer: the journal holds
\* exactly the last LIMIT of them, in order, and every start that a deploy was
\* told about took effect (finish and begin of concurrent deploys, crashes
\* between any two file system calls).
RetainedStarts == Ids(file) = Retain(starts)
AcknowledgedTookEffect == \A d \in Acknowledged : \E i \in DOMAIN starts : starts[i] = d
NoStartLost == RetainedStarts /\ AcknowledgedTookEffect
\* The finish of d took effect.
Saved(d) == op[d] = "finish" /\ result[d] = "ok"

HonestReceipt(receipt) ==
  /\ receipt.finished <=> Saved(receipt.id)
  /\ receipt.outcome = IF Saved(receipt.id) THEN outcome[receipt.id] ELSE "unknown"

\* A receipt shows a result exactly when its own finish wrote it, and shows
\* the outcome observed at the provider: never a result invented by recovery,
\* by another deploy or by a call that reported failure.
ResultsAreHonest == \A i \in DOMAIN file.entries : HonestReceipt(file.entries[i])

\* A result once written stays until its receipt is evicted, and the schema
\* never goes back, even after the receipts that needed it are evicted.
JournalOnlyGrows ==
  [][/\ file'.schemaVersion >= file.schemaVersion
     /\ \A i \in DOMAIN file.entries, j \in DOMAIN file'.entries :
          /\ file.entries[i].finished
          /\ file.entries[i].id = file'.entries[j].id
          => file'.entries[j] = file.entries[i]]_file

\* A reader that takes no lock still reports a whole committed journal that
\* includes every start acknowledged before it looked; "missing" proves that
\* none was.
Took(n) == {starts[i] : i \in 1..n}
ReadersSeeAcknowledgedStarts ==
  \A r \in Readers :
    /\ rstatus[r] = "available" =>
         \E n \in 0..Len(starts) :
            /\ Ids(seen[r]) = Retain(SubSeq(starts, 1, n))
            /\ acked[r] \subseteq Took(n)
    /\ rstatus[r] = "missing" => acked[r] = {}

\* No call waits: lock contention, a leftover lock or a leftover temporary file
\* makes it fail, so a deploy is never stuck behind a dead process.
ChangeReturns ==
  \A d \in Deploys : (pc[d] \in Busy) ~> (pc[d] \notin Busy \/ d \in dead)

-----------------------------------------------------------------------------
(* The inductive invariant. *)

Critical == Busy \ {"mkdir"}

\* At most one live process is between mkdir and rmdir of the lock.
LockIsExclusive ==
  \A d \in Deploys : d \notin dead /\ pc[d] \in Critical => lock = d

\* What a live writer is about to publish is its edit of the journal as it is.
EditIsCurrent ==
  \A d \in Deploys \ dead :
    /\ pc[d] \in {"open", "write", "rename"} =>
         /\ edited[d] = Edit(d, file)
         /\ op[d] = "finish" => HasOpenStart(file, d)
    /\ pc[d] = "rename" => tmpJournal = edited[d]

\* A call's result is decided by its rename or its failure, and not before.
ResultIsDecided ==
  \A d \in Deploys :
    /\ pc[d] \in {"mkdir", "load", "open", "write", "rename"} => result[d] = "none"
    /\ pc[d] = "unlink" => result[d] = "failed"
    /\ pc[d] = "rmdir" => result[d] # "none"
    /\ pc[d] = "idle" => op[d] = "begin" /\ result[d] = "none"
    /\ pc[d] = "started" => op[d] = "begin" /\ result[d] = "ok"
    /\ pc[d] = "stopped" => op[d] = "begin" /\ result[d] = "failed"
    /\ pc[d] = "done" => op[d] = "finish" /\ result[d] # "none"

\* A start took effect exactly when begin's rename happened.
StartsAreRenames ==
  \A d \in Deploys :
    (\E i \in DOMAIN starts : starts[i] = d) <=> (op[d] = "finish" \/ result[d] = "ok")

\* An attempt starts at most once.
StartsAreDistinct ==
  \A i, j \in DOMAIN starts : starts[i] = starts[j] => i = j

\* A reader relies on starts that took effect, and answers once.
ReadersRely ==
  /\ ReadersTypeOK
  /\ replaced = 0 => starts = <<>>
  /\ \A r \in Readers :
       /\ rpc[r] # "done" => rstatus[r] = "none"
       /\ rpc[r] # "lock" => acked[r] \subseteq Took(Len(starts))
  /\ ReadersSeeAcknowledgedStarts

IInv ==
  /\ TypeOK
  /\ LockIsExclusive
  /\ EditIsCurrent
  /\ ResultIsDecided
  /\ StartsAreRenames
  /\ StartsAreDistinct
  /\ RetainedStarts
  /\ ReadersRely
=============================================================================
