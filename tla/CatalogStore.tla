----------------------------- MODULE CatalogStore -----------------------------
(***************************************************************************)
(* The file protocol of packages/core/vnext/files.ts: readCatalog and      *)
(* compareAndSwap over catalog.json, catalog.json.tmp and a lock           *)
(* directory; saveOperation runs the same claim and replace on the file of *)
(* one operation.                                                          *)
(*                                                                         *)
(* The files are metadata of a person who may remove a lock believed to be *)
(* left over, even while its owner is alive.  A file is identified by the  *)
(* rename that put it there (its inode, birth time and change time), so    *)
(* catalog.json is the last element of versions and Len(versions) is its   *)
(* identity.                                                               *)
(***************************************************************************)
EXTENDS Integers, Sequences, FiniteSets

CONSTANTS
  Procs,        \* processes that use the store
  MaxVersions,  \* bound on the number of swaps
  MaxRemovals,  \* bound on the locks a person removes under a live owner
  Nobody        \* no lock directory, no temporary file

ASSUME BoundsAssumption == MaxVersions \in Nat /\ MaxRemovals \in Nat
ASSUME NobodyAssumption == Nobody \notin Procs

VARIABLES
  versions,   \* every catalog renamed onto catalog.json, in order
  lock,       \* whose mkdir made the lock directory, or Nobody
  tmp,        \* whose open made catalog.json.tmp, or Nobody
  removals,   \* locks removed under a live owner so far
  stage,      \* where each process is in readCatalog or compareAndSwap
  snapshot,   \* the CatalogSnapshot it holds: whose content, whose file
  outcome,    \* what its last compareAndSwap answered
  dead        \* processes that have died

storeVars == <<versions, lock, tmp, removals, stage, snapshot, outcome, dead>>
files == <<versions, lock, tmp, removals>>

Current == Len(versions)
Catalog == [author : Procs, basis : Nat]
Snapshot == [catalog : Nat, file : Nat]

Reading == {"read", "recheck"}
Holding == {"check", "open", "write", "verify", "rename", "readback", "release", "remove"}
Swapping == {"claim"} \cup Holding

StoreTypeOK ==
  /\ versions \in Seq(Catalog)
  /\ lock \in Procs \cup {Nobody}
  /\ tmp \in Procs \cup {Nobody}
  /\ removals \in Nat
  /\ stage \in [Procs -> {"idle"} \cup Reading \cup Swapping]
  /\ snapshot \in [Procs -> Snapshot]
  /\ outcome \in [Procs -> {"none", "swapped", "failed"}]
  /\ dead \subseteq Procs

StoreInit ==
  /\ versions = <<>>
  /\ lock = Nobody
  /\ tmp = Nobody
  /\ removals = 0
  /\ stage = [p \in Procs |-> "idle"]
  /\ snapshot = [p \in Procs |-> [catalog |-> 0, file |-> 0]]
  /\ outcome = [p \in Procs |-> "none"]
  /\ dead = {}

At(p, label) == p \notin dead /\ stage[p] = label
Go(p, label) == stage' = [stage EXCEPT ![p] = label]

-----------------------------------------------------------------------------
(* readCatalog: clear, read the file, clear again. *)

Clear == lock = Nobody /\ tmp = Nobody

BeginRead(p) ==
  /\ At(p, "idle")
  /\ Clear
  /\ Go(p, "read")
  /\ UNCHANGED <<files, snapshot, outcome, dead>>

\* readMetadataFile returns the whole content of one committed file.
ReadFile(p) ==
  /\ At(p, "read")
  /\ snapshot' = [snapshot EXCEPT ![p] = [catalog |-> Current, file |-> Current]]
  /\ Go(p, IF Current = 0 THEN "idle" ELSE "recheck")
  /\ UNCHANGED <<files, outcome, dead>>

EndRead(p) ==
  /\ At(p, "recheck")
  /\ Clear
  /\ Go(p, "idle")
  /\ UNCHANGED <<files, snapshot, outcome, dead>>

\* A lock, a temporary file or a changing file: the caller gets no snapshot.
ReadFails(p) ==
  /\ At(p, "read") \/ At(p, "recheck")
  /\ snapshot' = [snapshot EXCEPT ![p] = [catalog |-> 0, file |-> 0]]
  /\ Go(p, "idle")
  /\ UNCHANGED <<files, outcome, dead>>

-----------------------------------------------------------------------------
(* compareAndSwap: claim the lock, replace the file, read it back. *)

\* The snapshot must be of one file: a content and an identity read on both
\* sides of another process's rename are refused.  The new revision follows
\* the snapshot's.
CallSwap(p) ==
  /\ At(p, "idle")
  /\ snapshot[p].catalog = snapshot[p].file
  /\ Current < MaxVersions
  /\ Go(p, "claim")
  /\ outcome' = [outcome EXCEPT ![p] = "none"]
  /\ UNCHANGED <<files, snapshot, dead>>

Claim(p) ==
  /\ At(p, "claim")
  /\ lock = Nobody
  /\ lock' = p
  /\ Go(p, "check")
  /\ UNCHANGED <<versions, tmp, removals, snapshot, outcome, dead>>

\* Fault: the claim itself is inside the block whose end removes the lock.
ClaimFailsAndRemoves(p) ==
  /\ At(p, "claim")
  /\ lock' = Nobody
  /\ Go(p, "idle")
  /\ outcome' = [outcome EXCEPT ![p] = "failed"]
  /\ UNCHANGED <<versions, tmp, removals, snapshot, dead>>

\* The lock exists or cannot be made; or it was made but then not confirmed,
\* and is left behind.
ClaimFails(p) ==
  /\ At(p, "claim")
  /\ \/ UNCHANGED lock
     \/ lock = Nobody /\ lock' = p
  /\ Go(p, "idle")
  /\ outcome' = [outcome EXCEPT ![p] = "failed"]
  /\ UNCHANGED <<versions, tmp, removals, snapshot, dead>>

\* sameFile(expected, readMetadataFile(path))
ExpectedIsCurrent(p) == snapshot[p].file = Current

CheckBefore(p) ==
  /\ At(p, "check")
  /\ tmp = Nobody
  /\ ExpectedIsCurrent(p)
  /\ Go(p, "open")
  /\ UNCHANGED <<files, snapshot, outcome, dead>>

\* Fault: opened without O_EXCL.
OpenTemporaryAnyway(p) ==
  /\ At(p, "open")
  /\ tmp' = p
  /\ Go(p, "write")
  /\ UNCHANGED <<versions, lock, removals, snapshot, outcome, dead>>

\* O_CREAT | O_EXCL
OpenTemporary(p) ==
  /\ At(p, "open")
  /\ tmp = Nobody
  /\ tmp' = p
  /\ Go(p, "write")
  /\ UNCHANGED <<versions, lock, removals, snapshot, outcome, dead>>

WriteTemporary(p) ==
  /\ At(p, "write")
  /\ Go(p, "verify")
  /\ UNCHANGED <<files, snapshot, outcome, dead>>

\* Fault: only the temporary file is read back.
VerifyTemporaryOnly(p) ==
  /\ At(p, "verify")
  /\ tmp = p
  /\ Go(p, "rename")
  /\ UNCHANGED <<files, snapshot, outcome, dead>>

\* The temporary file is read back, and the expected file compared again.
VerifyBefore(p) ==
  /\ At(p, "verify")
  /\ tmp = p
  /\ ExpectedIsCurrent(p)
  /\ Go(p, "rename")
  /\ UNCHANGED <<files, snapshot, outcome, dead>>

Rename(p) ==
  /\ At(p, "rename")
  /\ versions' = Append(versions, [author |-> p, basis |-> snapshot[p].catalog])
  /\ tmp' = Nobody
  /\ Go(p, "readback")
  /\ UNCHANGED <<lock, removals, snapshot, outcome, dead>>

\* The catalog that was written, whose revision follows the expected one, is
\* paired with the file that is there now.
ReadBack(p) ==
  /\ At(p, "readback")
  /\ snapshot' = [snapshot EXCEPT ![p] = [catalog |-> snapshot[p].catalog + 1, file |-> Current]]
  /\ outcome' = [outcome EXCEPT ![p] = "swapped"]
  /\ Go(p, "release")
  /\ UNCHANGED <<files, dead>>

\* Fault: a conflict is swallowed.
SwapThrowsSilently(p) ==
  /\ \E label \in {"check", "open", "write", "verify", "rename", "readback"} : At(p, label)
  /\ outcome' = [outcome EXCEPT ![p] = "swapped"]
  /\ Go(p, "release")
  /\ UNCHANGED <<files, snapshot, dead>>

\* Any call on the way throws, or finds what it refuses.  The temporary file is
\* left behind: only the rename removes it.  A failure after the rename (the
\* directory sync, the reading back) is reported like one before it, and the
\* caller still holds the snapshot it expected.
SwapThrows(p) ==
  /\ \E label \in {"check", "open", "write", "verify", "rename", "readback"} : At(p, label)
  /\ outcome' = [outcome EXCEPT ![p] = "failed"]
  /\ Go(p, "release")
  /\ UNCHANGED <<files, snapshot, dead>>

\* The lock is looked at, and removed only if it is the directory that this call
\* made.  A failing look turns the answer into a failure.
Release(p) ==
  /\ At(p, "release")
  /\ \/ lock = p /\ Go(p, "remove") /\ UNCHANGED outcome
     \/ lock # p /\ Go(p, "idle") /\ UNCHANGED outcome
     \/ Go(p, "idle") /\ outcome' = [outcome EXCEPT ![p] = "failed"]
  /\ UNCHANGED <<files, snapshot, dead>>

\* rmdir goes by the path: the directory there may by now be another call's.  A
\* failing rmdir, or directory sync after it, turns the answer into a failure.
RemoveOwnLock(p) ==
  /\ At(p, "remove")
  /\ \/ /\ lock # Nobody
        /\ lock' = Nobody
        /\ outcome' \in {outcome, [outcome EXCEPT ![p] = "failed"]}
     \/ /\ outcome' = [outcome EXCEPT ![p] = "failed"]
        /\ UNCHANGED lock
  /\ Go(p, "idle")
  /\ UNCHANGED <<versions, tmp, removals, snapshot, dead>>

-----------------------------------------------------------------------------
(* Deaths and the person at the machine. *)

Die(p) ==
  /\ p \notin dead
  /\ stage[p] \in Swapping
  /\ dead' = dead \cup {p}
  /\ UNCHANGED <<files, stage, snapshot, outcome>>

\* A lock is removed although its owner may still be at work.
RemoveLock ==
  /\ lock # Nobody
  /\ removals < MaxRemovals
  /\ removals' = removals + 1
  /\ lock' = Nobody
  /\ UNCHANGED <<versions, tmp, stage, snapshot, outcome, dead>>

\* Once no process is at work, everything left over is removed.
CleanUp ==
  /\ \A p \in Procs : p \in dead \/ stage[p] \notin Swapping
  /\ ~Clear
  /\ lock' = Nobody
  /\ tmp' = Nobody
  /\ UNCHANGED <<versions, removals, stage, snapshot, outcome, dead>>

ReadStep(p) == BeginRead(p) \/ ReadFile(p) \/ EndRead(p) \/ ReadFails(p)
SwapStep(p) ==
  \/ Claim(p) \/ ClaimFails(p)
  \/ CheckBefore(p) \/ OpenTemporary(p) \/ WriteTemporary(p) \/ VerifyBefore(p)
  \/ Rename(p) \/ ReadBack(p) \/ SwapThrows(p)
  \/ Release(p) \/ RemoveOwnLock(p)

StoreNext ==
  \/ \E p \in Procs : ReadStep(p) \/ CallSwap(p) \/ SwapStep(p) \/ Die(p)
  \/ RemoveLock
  \/ CleanUp

StoreSpec == StoreInit /\ [][StoreNext]_storeVars

-----------------------------------------------------------------------------
(* Properties *)

\* What a process would name as expected: nothing while it is publishing.
Known == [p \in Procs |-> snapshot[p].file]
Abstract == INSTANCE AtomicCatalog WITH known <- Known

\* The file protocol implements a compare-and-swap register, even when locks
\* are removed under live owners and processes die at any point.
ImplementsAtomicCatalog == Abstract!CatalogSpec

\* No published change is overwritten by a writer that had not seen it.
NoLostChange == Abstract!NoLostChange

\* compareAndSwap answers with a snapshot only if its own catalog was published,
\* exactly where the snapshot says, and from the basis its caller named.  The
\* file of that snapshot may already be a later writer's, never an earlier one.
AnswersAreTruthful ==
  \A p \in Procs :
    stage[p] \in {"release", "remove"} /\ outcome[p] = "swapped" =>
      /\ snapshot[p].catalog \in DOMAIN versions
      /\ versions[snapshot[p].catalog].author = p
      /\ snapshot[p].file >= snapshot[p].catalog

\* Live processes between their claim and their return whose lock is gone.
Robbed == {p \in Procs : p \notin dead /\ stage[p] \in Holding /\ lock # p}

\* Only a person makes the lock admit one process more: whatever claims, failures
\* and releases race, as many are at work without their lock as locks were removed
\* by hand, at most.  A call that removes its successor's lock, which replaced
\* its own between the look and the rmdir, leaves that one unlocked in its own stead.
RobbedByHand == IsFiniteSet(Robbed) /\ Cardinality(Robbed) <= removals

-----------------------------------------------------------------------------
(* The inductive invariant: the temporary file is the true mutex. *)

TemporaryIsMine ==
  \A p \in Procs : p \notin dead /\ stage[p] \in {"write", "verify", "rename"} => tmp = p

PublishesFromCurrent ==
  \A p \in Procs :
    /\ p \notin dead /\ stage[p] \in {"claim", "check", "open", "write", "verify", "rename", "readback"} =>
         snapshot[p].catalog = snapshot[p].file
    /\ p \notin dead /\ stage[p] = "rename" => snapshot[p].file = Current

SnapshotsArePast ==
  \A p \in Procs :
    /\ snapshot[p].file \in 0..Current
    /\ snapshot[p].catalog \in 0..Current
    /\ stage[p] = "readback" => snapshot[p].catalog < Current

StoreIInv ==
  /\ StoreTypeOK
  /\ TemporaryIsMine
  /\ PublishesFromCurrent
  /\ SnapshotsArePast
  /\ NoLostChange
  /\ RobbedByHand
=============================================================================
