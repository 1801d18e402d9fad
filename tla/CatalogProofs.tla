---------------------------- MODULE CatalogProofs ----------------------------
(***************************************************************************)
(* What the catalog promises, of its file and of the changes people make   *)
(* through it.                                                             *)
(*                                                                         *)
(* The store is a compare-and-swap register for any number of processes,   *)
(* although its locks may be removed under their live owners: the          *)
(* temporary file, created exclusively, is what excludes.                  *)
(*                                                                         *)
(* What is published is what a person confirmed, and the answers are true, *)
(* for any number of commands, bindings and credentials.  A command's      *)
(* proposal is a function of the catalog it was planned from.  The         *)
(* invariant carries that plan through confirmation, second plan and       *)
(* operation to the swap, which requires the very file the plan was made   *)
(* from: so the catalogs that were published form a chain, each the        *)
(* confirmed change of the one before.                                     *)
(***************************************************************************)
EXTENDS CatalogStore, CatalogChanges, FiniteSetTheorems, SequenceTheorems, TLAPS

-----------------------------------------------------------------------------
(* The store: CatalogStore. *)

\* What a process publishes is its own, at the index its snapshot names.
OwnChange ==
  \A p \in Procs :
    /\ stage[p] = "readback" => versions[snapshot[p].catalog + 1].author = p
    /\ stage[p] \in {"release", "remove"} /\ outcome[p] = "swapped" =>
         /\ snapshot[p].catalog \in 1..Current
         /\ snapshot[p].file >= snapshot[p].catalog
         /\ versions[snapshot[p].catalog].author = p

\* The domain and the length of the history before and after a publication.
LEMMA AppendVersion ==
  ASSUME versions \in Seq(Catalog), NEW c \in Catalog, versions' = Append(versions, c)
  PROVE  /\ versions' \in Seq(Catalog)
         /\ Current \in Nat /\ Current' = Current + 1
         /\ DOMAIN versions = 1..Current /\ DOMAIN versions' = 1..(Current + 1)
         /\ \A i \in 1..Current : versions'[i] = versions[i]
         /\ versions'[Current + 1] = c
  BY AppendProperties, LenProperties DEF Current

\* Every step keeps the types.
LEMMA StoreTypeOKStep ==
  ASSUME StoreTypeOK, [StoreNext]_storeVars
  PROVE  StoreTypeOK'
<1> USE DEF StoreTypeOK, Reading, Swapping, Holding
<1>1. ASSUME NEW p \in Procs, BeginRead(p)
      PROVE  StoreTypeOK'
  BY <1>1 DEF BeginRead, At, Go, files
<1>2. ASSUME NEW p \in Procs, ReadFile(p)
      PROVE  StoreTypeOK'
  <2>0. Current \in Nat
    BY LenProperties DEF Current
  <2> QED BY <1>2, <2>0 DEF ReadFile, At, Go, files, Snapshot
<1>3. ASSUME NEW p \in Procs, EndRead(p)
      PROVE  StoreTypeOK'
  BY <1>3 DEF EndRead, At, Go, files
<1>4. ASSUME NEW p \in Procs, ReadFails(p)
      PROVE  StoreTypeOK'
  BY <1>4 DEF ReadFails, At, Go, files, Snapshot
<1>5. ASSUME NEW p \in Procs, CallSwap(p)
      PROVE  StoreTypeOK'
  BY <1>5 DEF CallSwap, At, Go, files
<1>6. ASSUME NEW p \in Procs, Claim(p)
      PROVE  StoreTypeOK'
  BY <1>6 DEF Claim, At, Go, files
<1>7. ASSUME NEW p \in Procs, ClaimFails(p)
      PROVE  StoreTypeOK'
  BY <1>7 DEF ClaimFails, At, Go, files
<1>8. ASSUME NEW p \in Procs, CheckBefore(p)
      PROVE  StoreTypeOK'
  BY <1>8 DEF CheckBefore, At, Go, files
<1>9. ASSUME NEW p \in Procs, OpenTemporary(p)
      PROVE  StoreTypeOK'
  BY <1>9 DEF OpenTemporary, At, Go, files
<1>10. ASSUME NEW p \in Procs, WriteTemporary(p)
      PROVE  StoreTypeOK'
  BY <1>10 DEF WriteTemporary, At, Go, files
<1>11. ASSUME NEW p \in Procs, VerifyBefore(p)
      PROVE  StoreTypeOK'
  BY <1>11 DEF VerifyBefore, At, Go, files
<1>12. ASSUME NEW p \in Procs, Rename(p)
      PROVE  StoreTypeOK'
  <2>1. [author |-> p, basis |-> snapshot[p].catalog] \in Catalog
    BY <1>12 DEF Catalog, Snapshot
  <2>2. versions' \in Seq(Catalog)
    BY <1>12, <2>1, AppendProperties DEF Rename
  <2> QED BY <1>12, <2>2 DEF Rename, At, Go
<1>13. ASSUME NEW p \in Procs, ReadBack(p)
      PROVE  StoreTypeOK'
  <2>0. Current \in Nat
    BY LenProperties DEF Current
  <2> QED BY <1>13, <2>0 DEF ReadBack, At, Go, files, Snapshot
<1>14. ASSUME NEW p \in Procs, SwapThrows(p)
      PROVE  StoreTypeOK'
  BY <1>14 DEF SwapThrows, At, Go, files
<1>15. ASSUME NEW p \in Procs, Release(p) \/ RemoveOwnLock(p)
      PROVE  StoreTypeOK'
  BY <1>15 DEF Release, RemoveOwnLock, At, Go, files
<1>16. ASSUME NEW p \in Procs, Die(p)
      PROVE  StoreTypeOK'
  BY <1>16 DEF Die, At, Go, files
<1>17. CASE RemoveLock
  BY <1>17 DEF RemoveLock, At, Go, files
<1>18. CASE CleanUp
  BY <1>18 DEF CleanUp, Clear
<1>19. CASE UNCHANGED storeVars
  BY <1>19 DEF storeVars, files
<1> QED
  BY <1>1, <1>2, <1>3, <1>4, <1>5, <1>6, <1>7, <1>8, <1>9, <1>10, <1>11, <1>12, <1>13, <1>14, <1>15, <1>16, <1>17, <1>18, <1>19 DEF StoreNext, ReadStep, SwapStep

\* The temporary file is created by one process, and removed only by its rename.
LEMMA TemporaryIsMineStep ==
  ASSUME StoreIInv, [StoreNext]_storeVars
  PROVE  TemporaryIsMine'
<1> USE NobodyAssumption DEF StoreIInv, StoreTypeOK, TemporaryIsMine, Swapping, Holding
<1>1. ASSUME NEW p \in Procs, BeginRead(p)
      PROVE  TemporaryIsMine'
  BY <1>1 DEF BeginRead, At, Go, files
<1>2. ASSUME NEW p \in Procs, ReadFile(p)
      PROVE  TemporaryIsMine'
  BY <1>2 DEF ReadFile, At, Go, files
<1>3. ASSUME NEW p \in Procs, EndRead(p)
      PROVE  TemporaryIsMine'
  BY <1>3 DEF EndRead, At, Go, files
<1>4. ASSUME NEW p \in Procs, ReadFails(p)
      PROVE  TemporaryIsMine'
  BY <1>4 DEF ReadFails, At, Go, files
<1>5. ASSUME NEW p \in Procs, CallSwap(p)
      PROVE  TemporaryIsMine'
  BY <1>5 DEF CallSwap, At, Go, files
<1>6. ASSUME NEW p \in Procs, Claim(p)
      PROVE  TemporaryIsMine'
  BY <1>6 DEF Claim, At, Go, files
<1>7. ASSUME NEW p \in Procs, ClaimFails(p)
      PROVE  TemporaryIsMine'
  BY <1>7 DEF ClaimFails, At, Go, files
<1>8. ASSUME NEW p \in Procs, CheckBefore(p)
      PROVE  TemporaryIsMine'
  BY <1>8 DEF CheckBefore, At, Go, files
<1>9. ASSUME NEW p \in Procs, OpenTemporary(p)
      PROVE  TemporaryIsMine'
  BY <1>9 DEF OpenTemporary, At, Go, files
<1>10. ASSUME NEW p \in Procs, WriteTemporary(p)
      PROVE  TemporaryIsMine'
  BY <1>10 DEF WriteTemporary, At, Go, files
<1>11. ASSUME NEW p \in Procs, VerifyBefore(p)
      PROVE  TemporaryIsMine'
  BY <1>11 DEF VerifyBefore, At, Go, files
<1>12. ASSUME NEW p \in Procs, Rename(p)
      PROVE  TemporaryIsMine'
  BY <1>12 DEF Rename, At, Go, files
<1>13. ASSUME NEW p \in Procs, ReadBack(p)
      PROVE  TemporaryIsMine'
  BY <1>13 DEF ReadBack, At, Go, files
<1>14. ASSUME NEW p \in Procs, SwapThrows(p)
      PROVE  TemporaryIsMine'
  BY <1>14 DEF SwapThrows, At, Go, files
<1>15. ASSUME NEW p \in Procs, Release(p) \/ RemoveOwnLock(p)
      PROVE  TemporaryIsMine'
  BY <1>15 DEF Release, RemoveOwnLock, At, Go, files
<1>16. ASSUME NEW p \in Procs, Die(p)
      PROVE  TemporaryIsMine'
  BY <1>16 DEF Die, At, Go, files
<1>17. CASE RemoveLock
  BY <1>17 DEF RemoveLock, At, Go, files
<1>18. CASE CleanUp
  BY <1>18 DEF CleanUp, Clear
<1>19. CASE UNCHANGED storeVars
  BY <1>19 DEF storeVars, files
<1> QED
  BY <1>1, <1>2, <1>3, <1>4, <1>5, <1>6, <1>7, <1>8, <1>9, <1>10, <1>11, <1>12, <1>13, <1>14, <1>15, <1>16, <1>17, <1>18, <1>19 DEF StoreNext, ReadStep, SwapStep

\* While a process owns the temporary file, no other process publishes.
LEMMA PublishesFromCurrentStep ==
  ASSUME StoreIInv, [StoreNext]_storeVars
  PROVE  PublishesFromCurrent'
<1> USE DEF StoreIInv, StoreTypeOK, PublishesFromCurrent, Swapping, Holding, Reading
<1>1. ASSUME NEW p \in Procs, BeginRead(p)
      PROVE  PublishesFromCurrent'
  BY <1>1 DEF BeginRead, At, Go, files, Current, ExpectedIsCurrent
<1>2. ASSUME NEW p \in Procs, ReadFile(p)
      PROVE  PublishesFromCurrent'
  BY <1>2 DEF ReadFile, At, Go, files, Current, ExpectedIsCurrent
<1>3. ASSUME NEW p \in Procs, EndRead(p)
      PROVE  PublishesFromCurrent'
  BY <1>3 DEF EndRead, At, Go, files, Current, ExpectedIsCurrent
<1>4. ASSUME NEW p \in Procs, ReadFails(p)
      PROVE  PublishesFromCurrent'
  BY <1>4 DEF ReadFails, At, Go, files, Current, ExpectedIsCurrent
<1>5. ASSUME NEW p \in Procs, CallSwap(p)
      PROVE  PublishesFromCurrent'
  BY <1>5 DEF CallSwap, At, Go, files, Current, ExpectedIsCurrent
<1>6. ASSUME NEW p \in Procs, Claim(p)
      PROVE  PublishesFromCurrent'
  BY <1>6 DEF Claim, At, Go, files, Current, ExpectedIsCurrent
<1>7. ASSUME NEW p \in Procs, ClaimFails(p)
      PROVE  PublishesFromCurrent'
  BY <1>7 DEF ClaimFails, At, Go, files, Current, ExpectedIsCurrent
<1>8. ASSUME NEW p \in Procs, CheckBefore(p)
      PROVE  PublishesFromCurrent'
  BY <1>8 DEF CheckBefore, At, Go, files, Current, ExpectedIsCurrent
<1>9. ASSUME NEW p \in Procs, OpenTemporary(p)
      PROVE  PublishesFromCurrent'
  BY <1>9 DEF OpenTemporary, At, Go, files, Current, ExpectedIsCurrent
<1>10. ASSUME NEW p \in Procs, WriteTemporary(p)
      PROVE  PublishesFromCurrent'
  BY <1>10 DEF WriteTemporary, At, Go, files, Current, ExpectedIsCurrent
<1>11. ASSUME NEW p \in Procs, VerifyBefore(p)
      PROVE  PublishesFromCurrent'
  BY <1>11 DEF VerifyBefore, At, Go, files, Current, ExpectedIsCurrent
<1>12. ASSUME NEW p \in Procs, Rename(p)
      PROVE  PublishesFromCurrent'
  <2>1. [author |-> p, basis |-> snapshot[p].catalog] \in Catalog
    BY <1>12 DEF StoreIInv, StoreTypeOK, Catalog, Snapshot
  <2>2. Current' = Current + 1 /\ Current \in Nat
    BY <1>12, <2>1, AppendVersion DEF StoreIInv, StoreTypeOK, Rename
  <2>3. \A q \in Procs : q \notin dead /\ stage[q] \in {"write", "verify", "rename"} => q = p
    BY <1>12 DEF Rename, At, TemporaryIsMine
  <2> QED BY <1>12, <2>2, <2>3 DEF Rename, At, Go
<1>13. ASSUME NEW p \in Procs, ReadBack(p)
      PROVE  PublishesFromCurrent'
  BY <1>13 DEF ReadBack, At, Go, files, Current, ExpectedIsCurrent
<1>14. ASSUME NEW p \in Procs, SwapThrows(p)
      PROVE  PublishesFromCurrent'
  BY <1>14 DEF SwapThrows, At, Go, files, Current, ExpectedIsCurrent
<1>15. ASSUME NEW p \in Procs, Release(p) \/ RemoveOwnLock(p)
      PROVE  PublishesFromCurrent'
  BY <1>15 DEF Release, RemoveOwnLock, At, Go, files, Current, ExpectedIsCurrent
<1>16. ASSUME NEW p \in Procs, Die(p)
      PROVE  PublishesFromCurrent'
  BY <1>16 DEF Die, At, Go, files, Current, ExpectedIsCurrent
<1>17. CASE RemoveLock
  BY <1>17 DEF RemoveLock, At, Go, files, Current, ExpectedIsCurrent
<1>18. CASE CleanUp
  BY <1>18 DEF CleanUp, Clear, Current, ExpectedIsCurrent
<1>19. CASE UNCHANGED storeVars
  BY <1>19 DEF storeVars, files, Current, ExpectedIsCurrent
<1> QED
  BY <1>1, <1>2, <1>3, <1>4, <1>5, <1>6, <1>7, <1>8, <1>9, <1>10, <1>11, <1>12, <1>13, <1>14, <1>15, <1>16, <1>17, <1>18, <1>19 DEF StoreNext, ReadStep, SwapStep

\* A snapshot names a catalog and a file that were published.
LEMMA SnapshotsArePastStep ==
  ASSUME StoreIInv, [StoreNext]_storeVars
  PROVE  SnapshotsArePast'
<1> USE DEF StoreIInv, StoreTypeOK, SnapshotsArePast, Snapshot
<1>1. ASSUME NEW p \in Procs, BeginRead(p)
      PROVE  SnapshotsArePast'
  BY <1>1 DEF BeginRead, At, Go, files, Current
<1>2. ASSUME NEW p \in Procs, ReadFile(p)
      PROVE  SnapshotsArePast'
  <2>0. Current \in Nat
    BY LenProperties DEF StoreIInv, StoreTypeOK, Current
  <2> QED BY <1>2, <2>0 DEF ReadFile, At, Go, files, Current
<1>3. ASSUME NEW p \in Procs, EndRead(p)
      PROVE  SnapshotsArePast'
  BY <1>3 DEF EndRead, At, Go, files, Current
<1>4. ASSUME NEW p \in Procs, ReadFails(p)
      PROVE  SnapshotsArePast'
  <2>0. Current \in Nat
    BY LenProperties DEF StoreIInv, StoreTypeOK, Current
  <2> QED BY <1>4, <2>0 DEF ReadFails, At, Go, files, Current
<1>5. ASSUME NEW p \in Procs, CallSwap(p)
      PROVE  SnapshotsArePast'
  BY <1>5 DEF CallSwap, At, Go, files, Current
<1>6. ASSUME NEW p \in Procs, Claim(p)
      PROVE  SnapshotsArePast'
  BY <1>6 DEF Claim, At, Go, files, Current
<1>7. ASSUME NEW p \in Procs, ClaimFails(p)
      PROVE  SnapshotsArePast'
  BY <1>7 DEF ClaimFails, At, Go, files, Current
<1>8. ASSUME NEW p \in Procs, CheckBefore(p)
      PROVE  SnapshotsArePast'
  BY <1>8 DEF CheckBefore, At, Go, files, Current
<1>9. ASSUME NEW p \in Procs, OpenTemporary(p)
      PROVE  SnapshotsArePast'
  BY <1>9 DEF OpenTemporary, At, Go, files, Current
<1>10. ASSUME NEW p \in Procs, WriteTemporary(p)
      PROVE  SnapshotsArePast'
  BY <1>10 DEF WriteTemporary, At, Go, files, Current
<1>11. ASSUME NEW p \in Procs, VerifyBefore(p)
      PROVE  SnapshotsArePast'
  BY <1>11 DEF VerifyBefore, At, Go, files, Current
<1>12. ASSUME NEW p \in Procs, Rename(p)
      PROVE  SnapshotsArePast'
  <2>1. [author |-> p, basis |-> snapshot[p].catalog] \in Catalog
    BY <1>12 DEF StoreIInv, StoreTypeOK, Catalog, Snapshot
  <2>2. Current' = Current + 1 /\ Current \in Nat
    BY <1>12, <2>1, AppendVersion DEF StoreIInv, StoreTypeOK, Rename
  <2>3. snapshot' = snapshot /\ stage' = [stage EXCEPT ![p] = "readback"] /\ snapshot[p].catalog = Current
    BY <1>12 DEF Rename, At, Go, PublishesFromCurrent
  <2> QED BY <2>2, <2>3
<1>13. ASSUME NEW p \in Procs, ReadBack(p)
      PROVE  SnapshotsArePast'
  <2>0. Current \in Nat
    BY LenProperties DEF StoreIInv, StoreTypeOK, Current
  <2> QED BY <1>13, <2>0 DEF ReadBack, At, Go, files, Current
<1>14. ASSUME NEW p \in Procs, SwapThrows(p)
      PROVE  SnapshotsArePast'
  BY <1>14 DEF SwapThrows, At, Go, files, Current
<1>15. ASSUME NEW p \in Procs, Release(p) \/ RemoveOwnLock(p)
      PROVE  SnapshotsArePast'
  BY <1>15 DEF Release, RemoveOwnLock, At, Go, files, Current
<1>16. ASSUME NEW p \in Procs, Die(p)
      PROVE  SnapshotsArePast'
  BY <1>16 DEF Die, At, Go, files, Current
<1>17. CASE RemoveLock
  BY <1>17 DEF RemoveLock, At, Go, files, Current
<1>18. CASE CleanUp
  BY <1>18 DEF CleanUp, Clear, Current
<1>19. CASE UNCHANGED storeVars
  BY <1>19 DEF storeVars, files, Current
<1> QED
  BY <1>1, <1>2, <1>3, <1>4, <1>5, <1>6, <1>7, <1>8, <1>9, <1>10, <1>11, <1>12, <1>13, <1>14, <1>15, <1>16, <1>17, <1>18, <1>19 DEF StoreNext, ReadStep, SwapStep

\* Each publication is based on the one before it.
LEMMA NoLostChangeStep ==
  ASSUME StoreIInv, [StoreNext]_storeVars
  PROVE  NoLostChange'
<1>1. ASSUME NEW p \in Procs, Rename(p)
      PROVE  NoLostChange'
  <2>1. [author |-> p, basis |-> snapshot[p].catalog] \in Catalog /\ snapshot[p].catalog = Current
    BY <1>1 DEF StoreIInv, StoreTypeOK, Catalog, Snapshot, Rename, At, PublishesFromCurrent
  <2>2. /\ Current \in Nat /\ DOMAIN versions = 1..Current /\ DOMAIN versions' = 1..(Current + 1)
        /\ \A i \in 1..Current : versions'[i] = versions[i]
        /\ versions'[Current + 1] = [author |-> p, basis |-> snapshot[p].catalog]
    BY <1>1, <2>1, AppendVersion DEF StoreIInv, StoreTypeOK, Rename
  <2> QED BY <2>1, <2>2 DEF StoreIInv, NoLostChange, Abstract!NoLostChange
<1>2. CASE versions' = versions
  BY <1>2 DEF StoreIInv, NoLostChange, Abstract!NoLostChange
<1>3. versions' = versions \/ \E p \in Procs : Rename(p)
  BY DEF StoreNext, ReadStep, SwapStep, BeginRead, ReadFile, EndRead, ReadFails, CallSwap, Claim,
     ClaimFails, CheckBefore, OpenTemporary, WriteTemporary, VerifyBefore, ReadBack,
     SwapThrows, Release, RemoveOwnLock, Die, RemoveLock, CleanUp, files, storeVars
<1> QED BY <1>1, <1>2, <1>3

\* A lock that disappears under its live owner was removed by a person, or by a
\* process at work without its own, which thereby leaves.
LEMMA RobbedByHandStep ==
  ASSUME StoreIInv, [StoreNext]_storeVars
  PROVE  RobbedByHand'
<1> DEFINE N == Cardinality(Robbed)
<1>0. /\ StoreTypeOK /\ IsFiniteSet(Robbed) /\ N \in Nat /\ N <= removals /\ removals \in Nat
      /\ stage \in [Procs -> {"idle"} \cup Reading \cup Swapping]
  BY FS_CardinalityType DEF StoreIInv, StoreTypeOK, RobbedByHand
<1>1. ASSUME Robbed' \subseteq Robbed, removals' = removals PROVE RobbedByHand'
  <2>1. IsFiniteSet(Robbed') /\ Cardinality(Robbed') <= N
    BY <1>0, <1>1, FS_Subset
  <2>2. Cardinality(Robbed') \in Nat
    BY <2>1, FS_CardinalityType
  <2> QED BY <1>0, <1>1, <2>1, <2>2 DEF RobbedByHand
<1>2. ASSUME NEW p \in Procs, Claim(p) \/ ClaimFails(p) PROVE RobbedByHand'
  <2>1. Robbed' \subseteq Robbed /\ removals' = removals
    BY <1>0, <1>2, NobodyAssumption DEF Claim, ClaimFails, At, Go, Robbed, Holding
  <2> QED BY <1>1, <2>1
<1>3. ASSUME NEW p \in Procs,
             \/ CheckBefore(p) \/ OpenTemporary(p) \/ WriteTemporary(p) \/ VerifyBefore(p)
             \/ Rename(p) \/ ReadBack(p) \/ SwapThrows(p) \/ Release(p)
      PROVE  RobbedByHand'
  <2>1. /\ lock' = lock /\ dead' = dead /\ removals' = removals /\ p \notin dead /\ stage[p] \in Holding
        /\ \A q \in Procs : q # p => stage'[q] = stage[q]
    BY <1>0, <1>3 DEF CheckBefore, OpenTemporary, WriteTemporary, VerifyBefore, Rename, ReadBack,
       SwapThrows, Release, At, Go, Holding, files
  <2>2. Robbed' \subseteq Robbed
    BY <2>1 DEF Robbed
  <2> QED BY <1>1, <2>1, <2>2
<1>4. ASSUME NEW p \in Procs, RemoveOwnLock(p) PROVE RobbedByHand'
  <2>1. /\ removals' = removals /\ dead' = dead /\ p \notin dead /\ stage[p] \in Holding
        /\ stage'[p] = "idle" /\ \A q \in Procs : q # p => stage'[q] = stage[q]
        /\ lock' = lock \/ (lock # Nobody /\ lock' = Nobody)
    BY <1>0, <1>4 DEF RemoveOwnLock, At, Go, Holding
  <2>2. p \notin Robbed'
    BY <2>1 DEF Robbed, Holding
  <2>3. Robbed' \subseteq (Robbed \ {p}) \cup {lock}
    BY <2>1, <2>2 DEF Robbed
  <2>4. CASE lock' = lock \/ lock = p
    <3>1. Robbed' \subseteq Robbed
      BY <2>1, <2>2, <2>3, <2>4 DEF Robbed
    <3> QED BY <1>1, <2>1, <3>1
  <2>5. CASE lock # p
    <3>1. p \in Robbed
      BY <2>1, <2>5 DEF Robbed
    <3>2. IsFiniteSet(Robbed \ {p}) /\ Cardinality(Robbed \ {p}) = N - 1
      BY <1>0, <3>1, FS_RemoveElement
    <3>3. /\ IsFiniteSet((Robbed \ {p}) \cup {lock})
          /\ Cardinality((Robbed \ {p}) \cup {lock}) \in {N - 1, (N - 1) + 1}
      <4> DEFINE others == Robbed \ {p}
      <4>1. /\ IsFiniteSet(others \cup {lock})
            /\ Cardinality(others \cup {lock})
                 = IF lock \in others THEN Cardinality(others) ELSE Cardinality(others) + 1
        <5> HIDE DEF others
        <5> QED BY <3>2, FS_AddElement DEF others
      <4> QED BY <3>2, <4>1
    <3>4. IsFiniteSet(Robbed') /\ Cardinality(Robbed') <= Cardinality((Robbed \ {p}) \cup {lock})
      BY <2>3, <3>3, FS_Subset
    <3>5. Cardinality(Robbed') \in Nat
      BY <3>4, FS_CardinalityType
    <3> QED BY <1>0, <2>1, <3>3, <3>4, <3>5 DEF RobbedByHand
  <2> QED BY <2>4, <2>5
<1>5. CASE RemoveLock
  <2>1. Robbed' \subseteq Robbed \cup {lock} /\ removals' = removals + 1
    BY <1>5 DEF RemoveLock, Robbed
  <2>2. IsFiniteSet(Robbed \cup {lock}) /\ Cardinality(Robbed \cup {lock}) \in {N, N + 1}
    BY <1>0, FS_AddElement
  <2>3. IsFiniteSet(Robbed') /\ Cardinality(Robbed') <= Cardinality(Robbed \cup {lock})
    BY <2>1, <2>2, FS_Subset
  <2>4. Cardinality(Robbed') \in Nat
    BY <2>3, FS_CardinalityType
  <2> QED BY <1>0, <2>1, <2>2, <2>3, <2>4 DEF RobbedByHand
<1>6. CASE CleanUp
  <2>1. Robbed' \subseteq Robbed /\ removals' = removals
    BY <1>6 DEF CleanUp, Robbed, Swapping
  <2> QED BY <1>1, <2>1
<1>7. ASSUME NEW p \in Procs, ReadStep(p) \/ CallSwap(p) \/ Die(p) PROVE RobbedByHand'
  <2>1. Robbed' \subseteq Robbed /\ removals' = removals
    BY <1>0, <1>7 DEF ReadStep, BeginRead, ReadFile, EndRead, ReadFails, CallSwap, Die, At, Go,
       files, Robbed, Holding
  <2> QED BY <1>1, <2>1
<1>8. CASE UNCHANGED storeVars
  <2>1. Robbed' \subseteq Robbed /\ removals' = removals
    BY <1>8 DEF storeVars, Robbed
  <2> QED BY <1>1, <2>1
<1> QED BY <1>2, <1>3, <1>4, <1>5, <1>6, <1>7, <1>8 DEF StoreNext, SwapStep

LEMMA StoreInitIInv ==
  ASSUME StoreInit
  PROVE  StoreIInv /\ OwnChange
<1>1. <<>> \in Seq(Catalog) /\ Len(<<>>) = 0 /\ DOMAIN versions = {}
  BY EmptySeq DEF StoreInit
<1>2. Robbed = {} /\ RobbedByHand
  <2>1. Robbed = {}
    BY DEF StoreInit, Robbed, Holding
  <2> QED BY <2>1, FS_EmptySet DEF StoreInit, RobbedByHand
<1> QED BY <1>1, <1>2 DEF StoreInit, StoreIInv, StoreTypeOK, Snapshot, TemporaryIsMine, PublishesFromCurrent,
              SnapshotsArePast, NoLostChange, Abstract!NoLostChange, OwnChange, Current

LEMMA StoreIInvStep == StoreIInv /\ [StoreNext]_storeVars => StoreIInv'
  BY StoreTypeOKStep, TemporaryIsMineStep, PublishesFromCurrentStep, SnapshotsArePastStep,
     NoLostChangeStep, RobbedByHandStep DEF StoreIInv

\* The temporary file excludes, snapshots are of the past, and every catalog
\* was computed from the one it replaced.
THEOREM StoreInvariant == StoreSpec => []StoreIInv
  BY StoreInitIInv, StoreIInvStep, PTL DEF StoreSpec

\* No published change is overwritten by a writer that had not seen it, even
\* when locks are removed under live owners.
THEOREM NoChangeIsLost == StoreSpec => []NoLostChange
<1>1. StoreIInv => NoLostChange
  BY DEF StoreIInv
<1> QED BY StoreInvariant, <1>1, PTL

-----------------------------------------------------------------------------
\* Nobody publishes between a process's rename and its outcome in its place.
LEMMA OwnChangeStep ==
  ASSUME StoreIInv, OwnChange, [StoreNext]_storeVars
  PROVE  OwnChange'
<1> USE DEF StoreIInv, StoreTypeOK, OwnChange
<1>0. Current \in Nat
  BY LenProperties DEF Current
<1>1. ASSUME NEW p \in Procs, Rename(p)
      PROVE  OwnChange'
  <2>1. [author |-> p, basis |-> snapshot[p].catalog] \in Catalog /\ snapshot[p].catalog = Current
    BY <1>1 DEF Catalog, Snapshot, Rename, At, PublishesFromCurrent
  <2>2. /\ Current' = Current + 1
        /\ \A i \in 1..Current : versions'[i] = versions[i]
        /\ versions'[Current + 1] = [author |-> p, basis |-> snapshot[p].catalog]
    BY <1>1, <2>1, AppendVersion DEF Rename
  <2>3. snapshot' = snapshot /\ outcome' = outcome /\ stage' = [stage EXCEPT ![p] = "readback"]
    BY <1>1 DEF Rename, Go
  <2>4. ASSUME NEW q \in Procs, stage'[q] = "readback"
        PROVE  versions'[snapshot'[q].catalog + 1].author = q
    <3>1. CASE q = p
      BY <2>1, <2>2, <2>3, <3>1
    <3>2. CASE q # p
      <4>1. stage[q] = "readback" /\ snapshot[q].catalog + 1 \in 1..Current
        BY <1>0, <2>3, <2>4, <3>2 DEF SnapshotsArePast, Snapshot
      <4> QED BY <2>2, <2>3, <4>1
    <3> QED BY <3>1, <3>2
  <2>5. ASSUME NEW q \in Procs, stage'[q] \in {"release", "remove"}, outcome'[q] = "swapped"
        PROVE  /\ snapshot'[q].catalog \in 1..Current'
               /\ snapshot'[q].file >= snapshot'[q].catalog
               /\ versions'[snapshot'[q].catalog].author = q
    <3>1. stage[q] \in {"release", "remove"} /\ snapshot[q].catalog \in 1..Current
      BY <2>3, <2>5
    <3> QED BY <1>0, <2>2, <2>3, <2>5, <3>1
  <2> QED BY <2>4, <2>5
<1>2. ASSUME NEW p \in Procs, ReadBack(p)
      PROVE  OwnChange'
  <2>1. /\ snapshot[p].catalog \in Nat /\ snapshot[p].catalog < Current
        /\ versions[snapshot[p].catalog + 1].author = p
    BY <1>2 DEF ReadBack, At, SnapshotsArePast, Snapshot
  <2> QED BY <1>0, <1>2, <2>1 DEF ReadBack, At, Go, files, Current, Snapshot
<1>3. ASSUME NEW p \in Procs, ReadStep(p) \/ CallSwap(p) \/ Die(p)
      PROVE  OwnChange'
  BY <1>3 DEF ReadStep, BeginRead, ReadFile, EndRead, ReadFails, CallSwap, Die, At, Go, files,
              Current
<1>4. ASSUME NEW p \in Procs, Claim(p) \/ ClaimFails(p) \/ CheckBefore(p) \/ OpenTemporary(p)
                            \/ WriteTemporary(p) \/ VerifyBefore(p)
      PROVE  OwnChange'
  BY <1>4 DEF Claim, ClaimFails, CheckBefore, OpenTemporary, WriteTemporary, VerifyBefore, At,
              Go, files, Current
<1>5. ASSUME NEW p \in Procs, SwapThrows(p) \/ Release(p) \/ RemoveOwnLock(p)
      PROVE  OwnChange'
  BY <1>5 DEF SwapThrows, Release, RemoveOwnLock, At, Go, files, Current
<1>6. CASE RemoveLock \/ CleanUp \/ UNCHANGED storeVars
  BY <1>6 DEF RemoveLock, CleanUp, files, storeVars, Current
<1> QED BY <1>1, <1>2, <1>3, <1>4, <1>5, <1>6 DEF StoreNext, SwapStep

\* A process that was answered "swapped" published, where its snapshot says.
THEOREM SwapsAreTruthful == StoreSpec => []AnswersAreTruthful
<1>1. StoreIInv /\ OwnChange => AnswersAreTruthful
  <2> SUFFICES ASSUME StoreIInv, OwnChange
               PROVE  AnswersAreTruthful
    OBVIOUS
  <2>1. DOMAIN versions = 1..Current
    BY LenProperties DEF StoreIInv, StoreTypeOK, Current
  <2> QED BY <2>1 DEF OwnChange, AnswersAreTruthful
<1>2. StoreIInv /\ OwnChange /\ [StoreNext]_storeVars => OwnChange'
  BY OwnChangeStep
<1> QED BY StoreInitIInv, StoreInvariant, <1>1, <1>2, PTL DEF StoreSpec

\* Whatever claims, failures and releases race, as many live processes are at work
\* without their lock as a person removed locks, at most (files.ts, claim).
THEOREM RobbedOnlyByHand == StoreSpec => []RobbedByHand
<1>1. StoreIInv => RobbedByHand
  BY DEF StoreIInv
<1> QED BY StoreInvariant, <1>1, PTL

-----------------------------------------------------------------------------
\* The bound of the exploration, checked as a swap is called, still holds when it
\* publishes: its expected file is the current one.
WithinBound ==
  \A p \in Procs :
    stage[p] \in {"claim", "check", "open", "write", "verify", "rename"} => snapshot[p].file < MaxVersions

LEMMA WithinBoundStep ==
  ASSUME StoreIInv, WithinBound, [StoreNext]_storeVars
  PROVE  WithinBound'
<1> USE DEF StoreIInv, StoreTypeOK, WithinBound
<1>1. ASSUME NEW p \in Procs, CallSwap(p)
      PROVE  WithinBound'
  <2>1. snapshot[p].file < MaxVersions
    BY <1>1, BoundsAssumption, LenProperties DEF CallSwap, SnapshotsArePast, Current, Snapshot
  <2> QED BY <1>1, <2>1 DEF CallSwap, At, Go
<1>2. ASSUME NEW p \in Procs, ReadStep(p) \/ Die(p) \/ Release(p) \/ RemoveOwnLock(p) \/ SwapThrows(p)
      PROVE  WithinBound'
  BY <1>2 DEF ReadStep, BeginRead, ReadFile, EndRead, ReadFails, Die, Release, RemoveOwnLock, SwapThrows, At, Go
<1>3. ASSUME NEW p \in Procs, Claim(p) \/ ClaimFails(p) \/ CheckBefore(p) \/ OpenTemporary(p)
      PROVE  WithinBound'
  BY <1>3 DEF Claim, ClaimFails, CheckBefore, OpenTemporary, At, Go
<1>4. ASSUME NEW p \in Procs, WriteTemporary(p) \/ VerifyBefore(p) \/ Rename(p) \/ ReadBack(p)
      PROVE  WithinBound'
  BY <1>4 DEF WriteTemporary, VerifyBefore, Rename, ReadBack, At, Go
<1>5. CASE RemoveLock \/ CleanUp \/ UNCHANGED storeVars
  BY <1>5 DEF RemoveLock, CleanUp, storeVars
<1> QED BY <1>1, <1>2, <1>3, <1>4, <1>5 DEF StoreNext, SwapStep

\* The file protocol implements the compare-and-swap register: only a rename
\* changes the register, and only from the version its author named.
THEOREM StoreImplementsAtomicCatalog == StoreSpec => ImplementsAtomicCatalog
<1>1. StoreInit => Abstract!CatalogInit /\ WithinBound
  BY DEF StoreInit, Known, WithinBound, Abstract!CatalogInit
<1>2. ASSUME StoreIInv, WithinBound, [StoreNext]_storeVars
      PROVE  [Abstract!CatalogNext]_(Abstract!catalogVars)
  <2>0. Current \in Nat
    BY <1>2, LenProperties DEF StoreIInv, StoreTypeOK, Current
  <2>1. ASSUME NEW p \in Procs, Rename(p)
        PROVE  Abstract!Swap(p)
    <3>1. snapshot[p].file = Current /\ snapshot[p].catalog = snapshot[p].file
      BY <1>2, <2>1 DEF StoreIInv, PublishesFromCurrent, Rename, At
    <3>2. Current < MaxVersions
      BY <1>2, <2>1, <3>1 DEF WithinBound, Rename, At
    <3>3. Known' = Known
      BY <2>1 DEF Rename, Known
    <3> QED BY <2>1, <3>1, <3>2, <3>3 DEF Abstract!Swap, Abstract!Current, Current, Rename, Known
  <2>2. ASSUME NEW p \in Procs, versions' = versions, NEW n \in 0..Current,
               snapshot'[p].file = n,
               \A q \in Procs : q # p => snapshot'[q] = snapshot[q]
        PROVE  Abstract!Learn(p)
    <3>1. Known' = [Known EXCEPT ![p] = n]
      BY <2>2 DEF Known
    <3> QED BY <2>2, <3>1 DEF Abstract!Learn, Abstract!Current, Current
  <2>3. ASSUME NEW p \in Procs, ReadFile(p) \/ ReadFails(p) \/ ReadBack(p)
        PROVE  Abstract!Learn(p)
    <3>1. /\ versions' = versions
          /\ snapshot'[p].file \in 0..Current
          /\ \A q \in Procs : q # p => snapshot'[q] = snapshot[q]
      BY <1>2, <2>0, <2>3 DEF StoreIInv, StoreTypeOK, ReadFile, ReadFails, ReadBack, files
    <3> QED BY <2>2, <3>1
  <2>4. ASSUME UNCHANGED <<versions, snapshot>>
        PROVE  UNCHANGED Abstract!catalogVars
    BY <2>4 DEF Abstract!catalogVars, Known
  <2>5. \/ UNCHANGED <<versions, snapshot>>
        \/ \E p \in Procs : Rename(p) \/ ReadFile(p) \/ ReadFails(p) \/ ReadBack(p)
    BY <1>2 DEF StoreNext, ReadStep, SwapStep, BeginRead, EndRead, CallSwap, Claim, ClaimFails,
       CheckBefore, OpenTemporary, WriteTemporary, VerifyBefore, SwapThrows, Release, RemoveOwnLock, Die,
       RemoveLock, CleanUp, files, storeVars
  <2> QED BY <2>1, <2>3, <2>4, <2>5 DEF Abstract!CatalogNext
<1>3. StoreIInv /\ WithinBound /\ [StoreNext]_storeVars => WithinBound'
  BY WithinBoundStep
<1>4. StoreIInv /\ WithinBound /\ [StoreNext]_storeVars => [Abstract!CatalogNext]_(Abstract!catalogVars)
  BY <1>2
<1> QED
  BY StoreInvariant, <1>1, <1>3, <1>4, PTL
     DEF StoreSpec, ImplementsAtomicCatalog, Abstract!CatalogSpec

-----------------------------------------------------------------------------
(* The changes: CatalogChanges. *)

Changes == {"bind", "unlink", "classify", "relink", "profile"}
Going == {"confirm", "recheck", "reread", "create", "prepare", "execute", "swap"}
Denials == {"cancelled", "changed", "unavailable"}
Steps == {"idle", "complete", "compare", "mark", "done", "dead"} \cup Going

Association == [credential : Credentials, id : Calls]
Profiles == [uses : SUBSET Bindings, by : Calls]
Catalogs == [rev : Nat, linked : [Bindings -> Association \cup {None}],
             risk : {"unknown", "production"}, place : {"first", "second"}, profile : Profiles \cup {None}]
Aims == [binding : Bindings \cup {None}, credential : Credentials \cup {None}, call : Calls \cup {None}]
Entries == [catalog : Catalogs, by : Calls]

TypeOK ==
  /\ published \in Seq(Entries)
  /\ op \in [Calls -> {"none", "prepared", "executing", "completed"}]
  /\ kind \in [Calls -> {"none", "recover"} \cup Changes]
  /\ aim \in [Calls -> Aims]
  /\ base \in [Calls -> 0..Now]
  /\ snap \in [Calls -> 0..Now]
  /\ want \in [Calls -> Catalogs \cup {None}]
  /\ seen \in [Calls -> {"none", "prepared", "executing", "completed"}]
  /\ pc \in [Calls -> Steps]
  /\ answer \in [Calls -> {"none", "refused", "recovery-required", "completed"} \cup Denials]

\* No profile names a binding that is gone.
Consistent(k) == \A b \in Inputs(k) : b \in Bindings /\ k.linked[b] # None

InHistory(k) == \E i \in DOMAIN published : published[i].catalog = k

\* A command that goes on proposes the change it was asked for, of the catalog
\* it was planned from, and has published nothing but an empty catalog.
Proposing(c) ==
  pc[c] \in Going \cup {"complete"} =>
    /\ kind[c] \in Changes
    /\ want[c] \in Catalogs /\ want[c].rev > 0 /\ Consistent(want[c])
    /\ want[c] = Proposed(Content(base[c]), c, kind[c], aim[c])
    /\ pc[c] \in Going => \A i \in DOMAIN published : published[i].by = c => published[i].catalog.rev = 0
    /\ pc[c] \in {"prepare", "execute", "swap"} => Content(snap[c]) = Content(base[c])
    /\ pc[c] = "create" => base[c] = 0
    /\ pc[c] = "complete" => Published(c)

\* A recovery is of a change that was planned, and marks one that was published.
Recovering(c) ==
  pc[c] \in {"compare", "mark"} =>
    /\ kind[c] = "recover" /\ aim[c].call \in Calls /\ kind[aim[c].call] \in Changes
    /\ seen[c] # "completed"
    /\ pc[c] = "mark" => InHistory(want[aim[c].call])

\* What a command that has begun remembers, and what it answered.
Answered(c) ==
  /\ kind[c] = "none" => pc[c] = "idle"
  /\ pc[c] = "idle" =>
       kind[c] = "none" /\ answer[c] = "none" /\ \A i \in DOMAIN published : published[i].by # c
  /\ answer[c] = "completed" /\ kind[c] # "recover" => Published(c)
  /\ answer[c] \in {"refused"} \cup Denials /\ kind[c] # "recover" => ~Published(c)
  /\ answer[c] # "none" => pc[c] \notin Going \cup {"complete", "compare", "mark"}

Story(c) == Proposing(c) /\ Recovering(c) /\ Answered(c)

\* Operations that are marked completed, and recoveries that said so.
Marked ==
  /\ \A c \in Calls : op[c] = "completed" => InHistory(want[c]) /\ kind[c] # "none"
  /\ \A c \in Calls : answer[c] = "completed" /\ kind[c] = "recover" =>
       aim[c].call \in Calls /\ op[aim[c].call] = "completed"

\* Each catalog is its author's proposal, made of the one before.
Chain ==
  /\ \A i \in DOMAIN published : Consistent(published[i].catalog)
  /\ \A i \in DOMAIN published : i > 1 =>
       LET c == published[i].by IN
       /\ published[i].catalog = Proposed(published[i-1].catalog, c, kind[c], aim[c])
       /\ published[i-1].catalog = Content(base[c])

IInv == TypeOK /\ (\A c \in Calls : Story(c)) /\ Marked /\ Chain

-----------------------------------------------------------------------------
(* Proposals. *)

LEMMA EmptyIsConsistent == Empty \in Catalogs /\ Empty.rev = 0 /\ Consistent(Empty)
BY DEF Empty, Catalogs, Consistent, Inputs

\* A proposal is the next revision of a consistent catalog, and consistent.
LEMMA ProposalsAreConsistent ==
  ASSUME NEW k \in Catalogs, Consistent(k), NEW c \in Calls, NEW action \in Changes,
         NEW a \in Aims, a.binding \in Bindings, action = "bind" => a.credential \in Credentials,
         Proposed(k, c, action, a) # None
  PROVE  /\ Proposed(k, c, action, a) \in Catalogs
         /\ Proposed(k, c, action, a).rev = k.rev + 1
         /\ Consistent(Proposed(k, c, action, a))
<1>1. CASE action = "bind"
  <2> DEFINE old == k.linked[a.binding]
             new == [credential |-> a.credential, id |-> IF old = None THEN c ELSE old.id]
             next == [rev |-> k.rev + 1, linked |-> [k.linked EXCEPT ![a.binding] = new],
                      risk |-> k.risk, place |-> k.place, profile |-> k.profile]
  <2>1. old \in Association \cup {None}
    BY DEF Catalogs
  <2>2. new \in Association /\ new # None
    BY <1>1, <2>1, ChangesAssumption DEF Association
  <2>3. Proposed(k, c, action, a) = next
    BY <1>1 DEF Proposed, Bound, Catalogs
  <2> HIDE DEF new, old
  <2>4. next \in Catalogs
    BY <2>2 DEF Catalogs
  <2>5. Consistent(next)
    BY <2>2 DEF Consistent, Inputs, Catalogs
  <2> QED BY <2>3, <2>4, <2>5
<1>2. CASE action = "unlink"
  <2> DEFINE next == [rev |-> k.rev + 1, linked |-> [k.linked EXCEPT ![a.binding] = None],
                      risk |-> k.risk, place |-> k.place, profile |-> k.profile]
  <2>1. Proposed(k, c, action, a) = next /\ a.binding \notin Inputs(k)
    BY <1>2 DEF Proposed, Unlinked, Catalogs
  <2>2. next \in Catalogs
    BY DEF Catalogs
  <2>3. Consistent(next)
    BY <2>1 DEF Consistent, Inputs, Catalogs
  <2> QED BY <2>1, <2>2, <2>3
<1>3. CASE action = "classify"
  <2> DEFINE next == [rev |-> k.rev + 1, linked |-> k.linked, risk |-> "production",
                      place |-> k.place, profile |-> k.profile]
  <2>1. Proposed(k, c, action, a) = next
    BY <1>3 DEF Proposed, Classified, Catalogs
  <2>2. next \in Catalogs /\ Consistent(next)
    BY DEF Catalogs, Consistent, Inputs
  <2> QED BY <2>1, <2>2
<1>4. CASE action = "profile"
  <2> DEFINE new == [uses |-> {a.binding}, by |-> c]
             next == [rev |-> k.rev + 1, linked |-> k.linked, risk |-> k.risk,
                      place |-> k.place, profile |-> new]
  <2>1. Proposed(k, c, action, a) = next /\ k.linked[a.binding] # None
    BY <1>4 DEF Proposed, Profiled, Catalogs
  <2>2. next \in Catalogs
    BY DEF Catalogs, Profiles
  <2>3. Consistent(next)
    BY <2>1 DEF Consistent, Inputs
  <2> QED BY <2>1, <2>2, <2>3
<1>5. CASE action = "relink"
  <2> DEFINE next == [rev |-> k.rev + 1, linked |-> k.linked, risk |-> k.risk,
                      place |-> "second", profile |-> k.profile]
  <2>1. Proposed(k, c, action, a) = next
    BY <1>5 DEF Proposed, Relinked, Catalogs
  <2>2. next \in Catalogs /\ Consistent(next)
    BY DEF Catalogs, Consistent, Inputs
  <2> QED BY <2>1, <2>2
<1> QED BY <1>1, <1>2, <1>3, <1>4, <1>5 DEF Changes

-----------------------------------------------------------------------------
(* What one command leaves alone. *)

\* A call publishes at most one catalog in a step.
Publishes(c) ==
  \/ published' = published
  \/ \E k \in Catalogs : published' = Append(published, [catalog |-> k, by |-> c])

\* What is the same of every other call, and of a call that has begun.
Frame(c) ==
  /\ \A d \in Calls : d # c =>
       /\ pc'[d] = pc[d] /\ kind'[d] = kind[d] /\ aim'[d] = aim[d] /\ base'[d] = base[d]
       /\ snap'[d] = snap[d] /\ want'[d] = want[d] /\ seen'[d] = seen[d] /\ answer'[d] = answer[d]
  /\ kind[c] # "none" => kind'[c] = kind[c] /\ aim'[c] = aim[c] /\ base'[c] = base[c] /\ want'[c] = want[c]

\* The catalogs that were published stay what and where they are.
LEMMA HistoryGrows ==
  ASSUME TypeOK, NEW c \in Calls, Publishes(c)
  PROVE  /\ Now \in Nat /\ Now' \in {Now, Now + 1} /\ published' \in Seq(Entries)
         /\ DOMAIN published = 1..Now /\ DOMAIN published' = 1..Now'
         /\ \A i \in 1..Now : published'[i] = published[i]
         /\ \A i \in DOMAIN published' : i \notin 1..Now => i = Now + 1 /\ published'[i].by = c
         /\ \A i \in 0..Now : Content(i)' = Content(i)
<1>1. /\ published \in Seq(Entries) /\ Now \in Nat /\ DOMAIN published = 1..Now
  BY LenProperties DEF TypeOK, Now
<1>2. CASE published' = published
  BY <1>1, <1>2 DEF Now, Content
<1>3. CASE \E k \in Catalogs : published' = Append(published, [catalog |-> k, by |-> c])
  <2>1. PICK k \in Catalogs : published' = Append(published, [catalog |-> k, by |-> c])
    BY <1>3
  <2>2. [catalog |-> k, by |-> c] \in Entries
    BY DEF Entries
  <2>3. /\ published' \in Seq(Entries) /\ Len(published') = Len(published) + 1
        /\ \A i \in 1..Len(published) : published'[i] = published[i]
        /\ published'[Len(published) + 1] = [catalog |-> k, by |-> c]
    BY <1>1, <2>1, <2>2, AppendProperties
  <2>4. DOMAIN published' = 1..Len(published')
    BY <2>3, LenProperties
  <2> QED BY <1>1, <2>3, <2>4 DEF Now, Content
<1> QED BY <1>2, <1>3 DEF Publishes

\* An entry of the history, or the empty catalog that precedes it.
LEMMA ContentIsCatalog ==
  ASSUME TypeOK, Chain, NEW i \in 0..Now
  PROVE  Content(i) \in Catalogs /\ Consistent(Content(i))
<1>1. CASE i = 0
  BY <1>1, EmptyIsConsistent DEF Content
<1>2. CASE i # 0
  <2>1. i \in 1..Len(published) /\ i \in DOMAIN published
    BY <1>2, LenProperties DEF TypeOK, Now
  <2>2. published[i] \in Entries
    BY <2>1, ElementOfSeq DEF TypeOK
  <2> QED BY <1>2, <2>1, <2>2 DEF Content, Chain, Entries
<1> QED BY <1>1, <1>2

\* What holds of the other calls still does.
LEMMA OthersKept ==
  ASSUME IInv, NEW c \in Calls, Publishes(c), Frame(c), NEW d \in Calls, d # c
  PROVE  Story(d)'
<1> USE DEF IInv
<1>1. /\ Now \in Nat /\ DOMAIN published = 1..Now /\ DOMAIN published' = 1..Now' /\ Now' \in {Now, Now + 1}
      /\ \A i \in 1..Now : published'[i] = published[i]
      /\ \A i \in DOMAIN published' : i \notin 1..Now => published'[i].by = c
      /\ \A i \in 0..Now : Content(i)' = Content(i)
  BY HistoryGrows
<1>2. /\ pc'[d] = pc[d] /\ kind'[d] = kind[d] /\ aim'[d] = aim[d] /\ base'[d] = base[d]
      /\ snap'[d] = snap[d] /\ want'[d] = want[d] /\ seen'[d] = seen[d] /\ answer'[d] = answer[d]
  BY DEF Frame
<1>3. Published(d)' = Published(d)
  BY <1>1, <1>2 DEF Published
<1>4. Content(base[d])' = Content(base[d]) /\ Content(snap[d])' = Content(snap[d])
  BY <1>1, <1>2 DEF TypeOK
<1>5. Proposing(d)'
  BY <1>1, <1>2, <1>3, <1>4 DEF Story, Proposing
<1>6. Recovering(d)'
  <2>1. CASE pc[d] \in {"compare", "mark"}
    <3>1. /\ aim[d].call \in Calls /\ kind[aim[d].call] \in Changes
          /\ kind[d] = "recover" /\ seen[d] # "completed"
          /\ pc[d] = "mark" => InHistory(want[aim[d].call])
      BY <2>1 DEF Story, Recovering
    <3>2. kind'[aim[d].call] = kind[aim[d].call] /\ want'[aim[d].call] = want[aim[d].call]
      BY <3>1 DEF Frame, Changes
    <3> QED BY <1>1, <1>2, <3>1, <3>2 DEF Recovering, InHistory
  <2> QED BY <1>2, <2>1 DEF Recovering
<1>7. Answered(d)'
  BY <1>1, <1>2, <1>3 DEF Story, Answered
<1> QED BY <1>5, <1>6, <1>7 DEF Story

\* A step that publishes nothing keeps the chain.
LEMMA ChainKept ==
  ASSUME IInv, NEW c \in Calls, published' = published, Frame(c)
  PROVE  Chain'
<1> USE DEF IInv
<1>1. /\ DOMAIN published = 1..Now /\ Now \in Nat /\ \A i \in 0..Now : Content(i)' = Content(i)
  BY HistoryGrows DEF Publishes
<1>2. ASSUME NEW i \in DOMAIN published, i > 1, NEW d, d = published[i].by
      PROVE  /\ published[i].catalog = Proposed(published[i-1].catalog, d, kind'[d], aim'[d])
             /\ published[i-1].catalog = Content(base[d])'
  <2>1. d \in Calls
    <3>1. published[i] \in Entries
      BY ElementOfSeq, LenProperties DEF TypeOK
    <3> QED BY <1>2, <3>1 DEF Entries
  <2>2. kind[d] # "none"
    BY <1>2, <2>1 DEF Story, Answered
  <2>3. kind'[d] = kind[d] /\ aim'[d] = aim[d] /\ base'[d] = base[d]
    BY <2>1, <2>2 DEF Frame
  <2>4. Content(base[d])' = Content(base[d])
    BY <2>3 DEF Content
  <2> QED BY <1>2, <2>3, <2>4 DEF Chain
<1> QED BY <1>2 DEF Chain, Consistent

\* A step of one command keeps the invariant if it does so for that command and
\* for the history.
LEMMA StepKeeps ==
  ASSUME IInv, TypeOK', NEW c \in Calls, Publishes(c), Frame(c), Story(c)', Marked', Chain'
  PROVE  IInv'
BY OthersKept DEF IInv

\* An operation is marked only when its proposal was published, and for good.
LEMMA MarkedKept ==
  ASSUME IInv, NEW c \in Calls, Publishes(c), Frame(c),
         \A d \in Calls : op[d] = "completed" => op'[d] = "completed",
         \A d \in Calls : op'[d] = "completed" /\ op[d] # "completed" => InHistory(want[d]) /\ kind[d] # "none",
         answer'[c] = "completed" /\ kind'[c] = "recover" =>
           aim'[c].call \in Calls /\ op'[aim'[c].call] = "completed"
  PROVE  Marked'
<1> USE DEF IInv
<1>1. /\ Now \in Nat /\ DOMAIN published = 1..Now /\ DOMAIN published' = 1..Now' /\ Now' \in {Now, Now + 1}
      /\ \A i \in 1..Now : published'[i] = published[i]
  BY HistoryGrows
<1>2. ASSUME NEW d \in Calls, op'[d] = "completed"
      PROVE  InHistory(want[d])' /\ kind'[d] # "none"
  <2>1. InHistory(want[d]) /\ kind[d] # "none"
    BY <1>2 DEF Marked
  <2>2. want'[d] = want[d] /\ kind'[d] = kind[d]
    BY <2>1 DEF Frame
  <2> QED BY <1>1, <2>1, <2>2 DEF InHistory
<1>3. ASSUME NEW d \in Calls, answer'[d] = "completed", kind'[d] = "recover"
      PROVE  aim'[d].call \in Calls /\ op'[aim'[d].call] = "completed"
  <2>1. CASE d = c
    BY <1>3, <2>1
  <2>2. CASE d # c
    BY <1>3, <2>2 DEF Marked, Frame
  <2> QED BY <2>1, <2>2
<1> QED BY <1>2, <1>3 DEF Marked

-----------------------------------------------------------------------------
(* A change. *)

LEMMA PlanKeeps ==
  ASSUME IInv, NEW c \in Calls, NEW action \in Changes, NEW a \in Aims, a.binding \in Bindings,
         action = "bind" => a.credential \in Credentials, Plan(c, action, a)
  PROVE  IInv'
<1> USE DEF IInv, Plan
<1> DEFINE new == Proposed(Content(Now), c, action, a)
<1>1. /\ kind[c] = "none" /\ answer[c] = "none" /\ published' = published /\ op' = op
      /\ \A i \in DOMAIN published : published[i].by # c
  BY DEF Story, Answered
<1>2. Now \in Nat /\ Now' = Now /\ Content(Now) \in Catalogs /\ Consistent(Content(Now))
  <2>1. Now \in Nat
    BY LenProperties DEF TypeOK, Now
  <2> QED BY <1>1, <2>1, ContentIsCatalog DEF Now
<1>3. new # None => new \in Catalogs /\ new.rev > 0 /\ Consistent(new)
  <2>1. new # None => new \in Catalogs /\ new.rev = Content(Now).rev + 1 /\ Consistent(new)
    BY <1>2, ProposalsAreConsistent
  <2> QED BY <1>2, <2>1 DEF Catalogs
<1> HIDE DEF new
<1>4. /\ kind' = [kind EXCEPT ![c] = action] /\ aim' = [aim EXCEPT ![c] = a]
      /\ base' = [base EXCEPT ![c] = Now] /\ want' = [want EXCEPT ![c] = new]
      /\ \/ pc' = [pc EXCEPT ![c] = "done"] /\ answer' = [answer EXCEPT ![c] = "refused"]
         \/ pc' = [pc EXCEPT ![c] = "confirm"] /\ answer' = answer /\ new # None
      /\ UNCHANGED <<published, op, snap, seen>>
  BY DEF Goto, Answer, new, TypeOK
<1>5. TypeOK'
  <2>1. published' \in Seq(Entries) /\ Now \in 0..Now'
    BY <1>1, <1>2 DEF TypeOK
  <2>2. /\ op' \in [Calls -> {"none", "prepared", "executing", "completed"}]
        /\ seen' \in [Calls -> {"none", "prepared", "executing", "completed"}]
    BY <1>4 DEF TypeOK
  <2>3. kind' \in [Calls -> {"none", "recover"} \cup Changes] /\ aim' \in [Calls -> Aims]
    BY <1>4 DEF TypeOK
  <2>4. base' \in [Calls -> 0..Now'] /\ snap' \in [Calls -> 0..Now']
    BY <1>2, <1>4, <2>1 DEF TypeOK
  <2>5. want' \in [Calls -> Catalogs \cup {None}]
    BY <1>3, <1>4 DEF TypeOK
  <2>6. /\ pc' \in [Calls -> Steps]
        /\ answer' \in [Calls -> {"none", "refused", "recovery-required", "completed"} \cup Denials]
    BY <1>4 DEF TypeOK, Steps, Going
  <2> QED BY <2>1, <2>2, <2>3, <2>4, <2>5, <2>6 DEF TypeOK
<1>6. Frame(c) /\ Publishes(c)
  BY <1>1, <1>4 DEF Frame, Publishes, TypeOK
<1>7. Story(c)'
  <2>1. /\ kind'[c] = action /\ aim'[c] = a /\ base'[c] = Now /\ want'[c] = new
        /\ \/ pc'[c] = "done" /\ answer'[c] = "refused"
           \/ pc'[c] = "confirm" /\ answer'[c] = "none" /\ new # None
    BY <1>1, <1>4 DEF TypeOK
  <2>2. Content(base[c])' = Content(Now)
    BY <1>1, <2>1 DEF Content
  <2>3. Proposing(c)'
    BY <1>1, <1>3, <2>1, <2>2 DEF Proposing, Going, new
  <2>4. Recovering(c)' /\ Answered(c)'
    BY <1>1, <2>1 DEF Recovering, Answered, Published, Going, Changes, Denials
  <2> QED BY <2>3, <2>4 DEF Story
<1>8. Marked'
  BY <1>1, <1>4, <1>6, MarkedKept DEF TypeOK, Changes
<1>9. Chain'
  BY <1>1, <1>6, ChainKept
<1> QED BY <1>5, <1>6, <1>7, <1>8, <1>9, StepKeeps

\* A command goes on without publishing anything, or ends.
Goes(c, step, position) ==
  /\ pc[c] \in Going \cup {"complete"} /\ step \in Going \cup {"done", "dead"} /\ position \in 0..Now
  /\ UNCHANGED <<published, plan, seen>>
  /\ pc' = [pc EXCEPT ![c] = step] /\ snap' = [snap EXCEPT ![c] = position]
  /\ \/ answer' = answer
     \/ /\ step = "done"
        /\ \/ answer' = [answer EXCEPT ![c] = "recovery-required"]
           \/ pc[c] = "complete" /\ answer' = [answer EXCEPT ![c] = "completed"]
           \/ pc[c] \in Going /\ \E said \in Denials : answer' = [answer EXCEPT ![c] = said]
  /\ \/ op' = op
     \/ \E state \in {"prepared", "executing"} : op[c] # "completed" /\ op' = [op EXCEPT ![c] = state]
     \/ pc[c] = "complete" /\ op' = [op EXCEPT ![c] = "completed"]
  /\ step \in Going => pc[c] \in Going
  /\ step \in {"prepare", "execute", "swap"} => Content(position) = Content(base[c])
  /\ step = "create" => base[c] = 0

LEMMA GoingKeeps ==
  ASSUME IInv, NEW c \in Calls, NEW step, NEW position, Goes(c, step, position)
  PROVE  IInv'
<1> USE DEF IInv, plan, Goes
<1>1. /\ kind[c] \in Changes /\ answer[c] = "none" /\ seen'[c] = seen[c]
      /\ want[c] \in Catalogs /\ want[c].rev > 0
      /\ pc[c] = "complete" => Published(c)
      /\ pc[c] \in Going => ~Published(c)
  <2>1. /\ kind[c] \in Changes /\ answer[c] = "none"
        /\ want[c] \in Catalogs /\ want[c].rev > 0 /\ want[c].rev # 0
        /\ pc[c] = "complete" => Published(c)
        /\ pc[c] \in Going => \A i \in DOMAIN published : published[i].by = c => published[i].catalog.rev = 0
    BY DEF Story, Proposing, Answered, Catalogs
  <2> QED BY <2>1 DEF Published
<1>2. Frame(c) /\ Publishes(c)
  BY DEF Frame, Publishes, TypeOK
<1>3. TypeOK'
  <2>1. Now' = Now
    BY DEF Now
  <2> QED BY <2>1 DEF TypeOK, Steps, Denials
<1>4. Story(c)'
  <2>1. /\ pc'[c] = step /\ snap'[c] = position
        /\ \/ answer'[c] = "none"
           \/ step = "done" /\ answer'[c] = "recovery-required"
           \/ step = "done" /\ answer'[c] = "completed" /\ Published(c)
           \/ step = "done" /\ answer'[c] \in Denials /\ ~Published(c)
    BY <1>1 DEF TypeOK
  <2>2. /\ Published(c)' = Published(c) /\ Content(base[c])' = Content(base[c])
        /\ Content(snap[c])' = Content(position)
    BY <2>1 DEF Published, Content
  <2>3. Proposing(c)'
    BY <2>1, <2>2 DEF Story, Proposing, Going
  <2>4. Recovering(c)'
    BY <2>1 DEF Recovering, Going
  <2>5. Answered(c)'
    BY <1>1, <2>1, <2>2 DEF Answered, Going, Changes, Denials
  <2> QED BY <2>3, <2>4, <2>5 DEF Story
<1>5. Marked'
  <2>1. pc[c] = "complete" => InHistory(want[c])
    BY <1>1 DEF Published, InHistory
  <2>2. \A d \in Calls : op[d] = "completed" => op'[d] = "completed"
    BY DEF TypeOK
  <2>3. \A d \in Calls : op'[d] = "completed" /\ op[d] # "completed" => InHistory(want[d]) /\ kind[d] # "none"
    BY <1>1, <2>1 DEF TypeOK, Changes
  <2>4. kind'[c] # "recover"
    BY <1>1 DEF Changes
  <2> QED BY <1>2, <2>2, <2>3, <2>4, MarkedKept
<1>6. Chain'
  BY <1>2, ChainKept
<1> QED BY <1>2, <1>3, <1>4, <1>5, <1>6, StepKeeps

LEMMA ConfirmKeeps == ASSUME IInv, NEW c \in Calls, Confirm(c) PROVE IInv'
<1>1. /\ pc[c] = "confirm" /\ UNCHANGED <<published, plan, seen, op>> /\ snap[c] \in 0..Now
      /\ snap' = [snap EXCEPT ![c] = snap[c]]
      /\ \/ pc' = [pc EXCEPT ![c] = "recheck"] /\ answer' = answer
         \/ pc' = [pc EXCEPT ![c] = "done"] /\ answer' = [answer EXCEPT ![c] = "cancelled"]
  BY DEF Confirm, Goto, Answer, IInv, TypeOK
<1>2. Goes(c, "recheck", snap[c]) \/ Goes(c, "done", snap[c])
  BY <1>1 DEF Goes, Going, Denials
<1> QED BY <1>2, GoingKeeps

LEMMA RecheckKeeps == ASSUME IInv, NEW c \in Calls, Recheck(c) PROVE IInv'
<1> DEFINE next == IF base[c] = 0 THEN "create"
                   ELSE IF kind[c] \in {"unlink", "classify", "relink"} THEN "reread" ELSE "prepare"
<1>1. /\ pc[c] = "recheck" /\ UNCHANGED <<published, plan, seen, op>>
      /\ snap[c] \in 0..Now /\ base[c] \in 0..Now
  BY DEF Recheck, IInv, TypeOK
<1>2. CASE Answer(c, "changed") /\ UNCHANGED snap
  <2>1. /\ snap' = [snap EXCEPT ![c] = snap[c]] /\ pc' = [pc EXCEPT ![c] = "done"]
        /\ answer' = [answer EXCEPT ![c] = "changed"]
    BY <1>2 DEF Goto, Answer, IInv, TypeOK
  <2>2. Goes(c, "done", snap[c])
    BY <1>1, <2>1 DEF Goes, Going, Denials
  <2> QED BY <2>2, GoingKeeps
<1>3. CASE ~(Answer(c, "changed") /\ UNCHANGED snap)
  <2>1. snap' = [snap EXCEPT ![c] = base[c]] /\ pc' = [pc EXCEPT ![c] = next] /\ answer' = answer
    BY <1>3 DEF Recheck, Goto
  <2>2. next \in {"create", "reread", "prepare"} /\ (next = "create" => base[c] = 0)
    OBVIOUS
  <2> HIDE DEF next
  <2>3. Goes(c, next, base[c])
    BY <1>1, <2>1, <2>2 DEF Goes, Going
  <2> QED BY <2>3, GoingKeeps
<1> QED BY <1>2, <1>3

LEMMA RereadKeeps == ASSUME IInv, NEW c \in Calls, Reread(c) PROVE IInv'
<1>1. /\ pc[c] = "reread" /\ UNCHANGED <<published, plan, seen, op>>
      /\ snap[c] \in 0..Now /\ Now \in 0..Now
  BY LenProperties DEF Reread, IInv, TypeOK, Now
<1>2. CASE ~Unchanged(c)
  <2>1. /\ snap' = [snap EXCEPT ![c] = snap[c]] /\ pc' = [pc EXCEPT ![c] = "done"]
        /\ answer' = [answer EXCEPT ![c] = "changed"]
    BY <1>2 DEF Reread, Goto, Answer, IInv, TypeOK
  <2>2. Goes(c, "done", snap[c])
    BY <1>1, <2>1 DEF Goes, Going, Denials
  <2> QED BY <2>2, GoingKeeps
<1>3. CASE Unchanged(c)
  <2>1. /\ snap' = [snap EXCEPT ![c] = Now] /\ pc' = [pc EXCEPT ![c] = "prepare"] /\ answer' = answer
        /\ Content(Now) = Content(base[c])
    BY <1>3 DEF Reread, Goto, Unchanged
  <2>2. Goes(c, "prepare", Now)
    BY <1>1, <2>1 DEF Goes, Going
  <2> QED BY <2>2, GoingKeeps
<1> QED BY <1>2, <1>3

\* Writing the operation's file, before the swap.
LEMMA RecordKeeps ==
  ASSUME IInv, NEW c \in Calls, Prepare(c) \/ Execute(c)
  PROVE  IInv'
<1>1. ASSUME NEW step \in {"prepare", "execute"}, NEW old \in {"none", "prepared"},
             NEW new \in {"prepared", "executing"}, NEW next \in {"execute", "swap"},
             Record(c, step, old, new, next)
      PROVE  IInv'
  <2>1. /\ pc[c] \in {"prepare", "execute"} /\ UNCHANGED <<published, plan, seen>> /\ snap[c] \in 0..Now
        /\ snap' = [snap EXCEPT ![c] = snap[c]]
        /\ Content(snap[c]) = Content(base[c])
    BY <1>1 DEF Record, IInv, TypeOK, Story, Proposing, Going
  <2>2. /\ \/ op' = op
           \/ op[c] # "completed" /\ op' = [op EXCEPT ![c] = new]
        /\ \/ pc' = [pc EXCEPT ![c] = next] /\ answer' = answer
           \/ pc' = [pc EXCEPT ![c] = "done"] /\ answer' = [answer EXCEPT ![c] = "recovery-required"]
    BY <1>1 DEF Record, Save, Goto, Answer
  <2>3. Goes(c, next, snap[c]) \/ Goes(c, "done", snap[c])
    BY <2>1, <2>2 DEF Goes, Going
  <2> QED BY <2>3, GoingKeeps
<1> QED BY <1>1 DEF Prepare, Execute

LEMMA CompleteKeeps == ASSUME IInv, NEW c \in Calls, Complete(c) PROVE IInv'
<1>1. /\ pc[c] = "complete" /\ UNCHANGED <<published, plan, seen>> /\ snap[c] \in 0..Now
      /\ snap' = [snap EXCEPT ![c] = snap[c]]
      /\ op' = op \/ op' = [op EXCEPT ![c] = "completed"]
      /\ pc' = [pc EXCEPT ![c] = "done"]
      /\ \/ answer' = [answer EXCEPT ![c] = "recovery-required"]
         \/ answer' = [answer EXCEPT ![c] = "completed"]
  BY DEF Complete, Save, Answer, Goto, IInv, TypeOK
<1>2. Goes(c, "done", snap[c])
  BY <1>1 DEF Goes, Going
<1> QED BY <1>2, GoingKeeps

-----------------------------------------------------------------------------
(* A catalog is published. *)

LEMMA ChainGrows ==
  ASSUME IInv, NEW c \in Calls, NEW k \in Catalogs, Consistent(k), Frame(c), kind[c] # "none",
         published' = Append(published, [catalog |-> k, by |-> c]),
         Now > 0 => k = Proposed(Content(Now), c, kind[c], aim[c]) /\ Content(Now) = Content(base[c])
  PROVE  Chain'
<1> USE DEF IInv
<1>1. Publishes(c)
  BY DEF Publishes
<1>2. /\ Now \in Nat /\ Now' = Now + 1 /\ DOMAIN published = 1..Now /\ DOMAIN published' = 1..Now'
      /\ \A i \in 1..Now : published'[i] = published[i]
      /\ \A i \in 0..Now : Content(i)' = Content(i)
      /\ published'[Now + 1] = [catalog |-> k, by |-> c]
  <2>1. [catalog |-> k, by |-> c] \in Entries
    BY DEF Entries
  <2>2. Len(published') = Len(published) + 1 /\ published'[Len(published) + 1] = [catalog |-> k, by |-> c]
    BY <2>1, AppendProperties DEF TypeOK
  <2> QED BY <1>1, <2>2, HistoryGrows DEF Now
<1>3. ASSUME NEW i \in DOMAIN published' PROVE Consistent(published'[i].catalog)
  BY <1>2 DEF Chain, Consistent
<1>4. ASSUME NEW i \in DOMAIN published', i > 1, NEW d, d = published'[i].by
      PROVE  /\ published'[i].catalog = Proposed(published'[i-1].catalog, d, kind'[d], aim'[d])
             /\ published'[i-1].catalog = Content(base[d])'
  <2>1. CASE i \in 1..Now
    <3>1. published[i] \in Entries /\ published'[i] = published[i] /\ published'[i-1] = published[i-1]
      BY <1>2, <1>4, <2>1, ElementOfSeq DEF TypeOK, Now
    <3>2. d \in Calls /\ kind[d] # "none"
      BY <1>2, <1>4, <2>1, <3>1 DEF Entries, Story, Answered
    <3>3. kind'[d] = kind[d] /\ aim'[d] = aim[d] /\ base'[d] = base[d] /\ base[d] \in 0..Now
      BY <3>2 DEF Frame, TypeOK
    <3>4. Content(base[d])' = Content(base[d])
      BY <1>2, <3>3
    <3>5. /\ published[i].catalog = Proposed(published[i-1].catalog, d, kind[d], aim[d])
          /\ published[i-1].catalog = Content(base[d])
      BY <1>2, <1>4, <2>1, <3>1 DEF Chain
    <3> QED BY <3>1, <3>3, <3>4, <3>5
  <2>2. CASE i = Now + 1
    <3>1. d = c /\ published'[i].catalog = k /\ Now > 0
      BY <1>2, <1>4, <2>2
    <3>2. published'[i-1] = published[Now] /\ Content(Now) = published[Now].catalog
      BY <1>2, <2>2, <3>1 DEF Content
    <3>3. kind'[c] = kind[c] /\ aim'[c] = aim[c] /\ base'[c] = base[c] /\ base[c] \in 0..Now
      BY DEF Frame, TypeOK
    <3>4. Content(base[c])' = Content(base[c])
      BY <1>2, <3>3
    <3> QED BY <3>1, <3>2, <3>3, <3>4
  <2>3. i \in 1..Now \/ i = Now + 1
    BY <1>2
  <2> QED BY <2>1, <2>2, <2>3
<1> QED BY <1>3, <1>4 DEF Chain, Consistent

\* The first binding makes an empty catalog; a swap publishes the proposal.
Puts(c, k, step, position) ==
  /\ pc[c] \in {"create", "swap"} /\ k \in Catalogs /\ Consistent(k)
  /\ step \in {"prepare", "complete", "done"} /\ position \in 0..(Now + 1)
  /\ published' = Append(published, [catalog |-> k, by |-> c])
  /\ UNCHANGED <<op, plan, seen>>
  /\ pc' = [pc EXCEPT ![c] = step] /\ snap' = [snap EXCEPT ![c] = position]
  /\ \/ answer' = answer
     \/ step = "done" /\ answer' = [answer EXCEPT ![c] = "recovery-required"]
     \/ step = "done" /\ k.rev = 0 /\ answer' = [answer EXCEPT ![c] = "unavailable"]
  /\ Now > 0 => k = Proposed(Content(Now), c, kind[c], aim[c]) /\ Content(Now) = Content(base[c])
  /\ step = "prepare" => k.rev = 0 /\ Content(position)' = Content(base[c])
  /\ step = "complete" => k = want[c]

LEMMA PublishKeeps ==
  ASSUME IInv, NEW c \in Calls, NEW k, NEW step, NEW position, Puts(c, k, step, position)
  PROVE  IInv'
<1> USE DEF IInv, plan, Puts
<1>1. /\ kind[c] \in Changes /\ answer[c] = "none"
      /\ want[c] \in Catalogs /\ want[c].rev > 0 /\ want[c].rev # 0 /\ Consistent(want[c])
      /\ want[c] = Proposed(Content(base[c]), c, kind[c], aim[c])
      /\ \A i \in DOMAIN published : published[i].by = c => published[i].catalog.rev = 0
      /\ base[c] \in 0..Now
  BY DEF Story, Proposing, Answered, Going, Catalogs, TypeOK
<1>2. Frame(c) /\ Publishes(c)
  BY DEF Frame, Publishes, TypeOK
<1>3. /\ Now \in Nat /\ Now' = Now + 1 /\ published' \in Seq(Entries)
      /\ DOMAIN published = 1..Now /\ DOMAIN published' = 1..Now'
      /\ \A i \in 1..Now : published'[i] = published[i]
      /\ \A i \in 0..Now : Content(i)' = Content(i)
      /\ published'[Now + 1] = [catalog |-> k, by |-> c]
  <2>1. [catalog |-> k, by |-> c] \in Entries
    BY DEF Entries
  <2>2. Len(published') = Len(published) + 1 /\ published'[Len(published) + 1] = [catalog |-> k, by |-> c]
    BY <2>1, AppendProperties DEF TypeOK
  <2> QED BY <1>2, <2>2, HistoryGrows DEF Now
<1>4. TypeOK'
  <2>1. base' \in [Calls -> 0..Now'] /\ snap' \in [Calls -> 0..Now']
    BY <1>3 DEF TypeOK
  <2>2. /\ pc' \in [Calls -> Steps]
        /\ answer' \in [Calls -> {"none", "refused", "recovery-required", "completed"} \cup Denials]
    BY DEF TypeOK, Steps, Going, Denials
  <2> QED BY <1>3, <2>1, <2>2 DEF TypeOK
<1>5. Story(c)'
  <2>1. /\ pc'[c] = step /\ snap'[c] = position
        /\ kind'[c] = kind[c] /\ want'[c] = want[c] /\ base'[c] = base[c] /\ aim'[c] = aim[c]
        /\ \/ answer'[c] = "none"
           \/ step = "done" /\ answer'[c] = "recovery-required"
           \/ step = "done" /\ k.rev = 0 /\ answer'[c] = "unavailable"
    BY <1>1 DEF TypeOK
  <2>2. Content(base[c])' = Content(base[c])
    BY <1>1, <1>3, <2>1
  <2>3. Content(snap[c])' = Content(position)'
    BY <2>1
  <2>4. k.rev = 0 => \A i \in DOMAIN published' : published'[i].by = c => published'[i].catalog.rev = 0
    BY <1>1, <1>3
  <2>5. k = want[c] => Published(c)'
    BY <1>3, <2>1 DEF Published
  <2>6. k.rev = 0 => ~Published(c)'
    BY <1>1, <2>1, <2>4 DEF Published
  <2>7. Proposing(c)'
    BY <1>1, <2>1, <2>2, <2>3, <2>4, <2>5 DEF Proposing, Going
  <2>8. Recovering(c)'
    BY <2>1 DEF Recovering
  <2>9. Answered(c)'
    BY <1>1, <2>1, <2>6 DEF Answered, Going, Changes, Denials
  <2> QED BY <2>7, <2>8, <2>9 DEF Story
<1>6. Marked'
  <2>1. kind'[c] # "recover"
    BY <1>1 DEF Changes
  <2> QED BY <1>2, <2>1, MarkedKept
<1>7. Chain'
  BY <1>1, <1>2, ChainGrows DEF Changes
<1> QED BY <1>2, <1>4, <1>5, <1>6, <1>7, StepKeeps

LEMMA CreateKeeps == ASSUME IInv, NEW c \in Calls, Create(c) PROVE IInv'
<1>1. /\ pc[c] = "create" /\ UNCHANGED <<op, plan, seen>> /\ base[c] = 0
      /\ snap[c] \in 0..Now /\ Now \in Nat
  BY LenProperties DEF Create, IInv, TypeOK, Story, Proposing, Going, Now
<1>2. CASE published' = published
  <2>1. ~(Now = 0 /\ published' = <<[catalog |-> Empty, by |-> c]>>)
    BY <1>2 DEF Now
  <2>2. /\ pc' = [pc EXCEPT ![c] = "done"] /\ answer' = [answer EXCEPT ![c] = "unavailable"]
        /\ snap' = [snap EXCEPT ![c] = snap[c]]
    BY <2>1 DEF Create, Goto, Answer, IInv, TypeOK
  <2>3. Goes(c, "done", snap[c])
    BY <1>1, <1>2, <2>2 DEF Goes, Going, Denials
  <2> QED BY <2>3, GoingKeeps
<1>3. CASE published' # published
  <2>1. /\ Now = 0 /\ published' = <<[catalog |-> Empty, by |-> c]>>
        /\ \/ /\ snap' = [snap EXCEPT ![c] = 1] /\ pc' = [pc EXCEPT ![c] = "prepare"]
              /\ answer' = answer
           \/ /\ pc' = [pc EXCEPT ![c] = "done"] /\ answer' = [answer EXCEPT ![c] = "unavailable"]
              /\ snap' = [snap EXCEPT ![c] = snap[c]]
    BY <1>3 DEF Create, Goto, Answer, IInv, TypeOK
  <2>2. published = <<>>
    BY <2>1, EmptySeq DEF IInv, TypeOK, Now
  <2>3. published' = Append(published, [catalog |-> Empty, by |-> c]) /\ Now = 0 /\ 1 \in 0..(Now + 1)
    BY <2>1, <2>2
  <2>4. Content(1)' = Content(base[c])
    BY <1>1, <2>1 DEF Content
  <2>5. CASE pc' = [pc EXCEPT ![c] = "prepare"] /\ snap' = [snap EXCEPT ![c] = 1] /\ answer' = answer
    <3>1. Puts(c, Empty, "prepare", 1)
      BY <1>1, <2>3, <2>4, <2>5, EmptyIsConsistent DEF Puts
    <3> QED BY <3>1, PublishKeeps
  <2>6. CASE /\ pc' = [pc EXCEPT ![c] = "done"] /\ snap' = [snap EXCEPT ![c] = snap[c]]
             /\ answer' = [answer EXCEPT ![c] = "unavailable"]
    <3>1. Puts(c, Empty, "done", snap[c])
      BY <1>1, <2>3, <2>6, EmptyIsConsistent DEF Puts
    <3> QED BY <3>1, PublishKeeps
  <2> QED BY <2>1, <2>5, <2>6
<1> QED BY <1>2, <1>3

LEMMA SwapKeeps == ASSUME IInv, NEW c \in Calls, Swap(c) PROVE IInv'
<1>1. /\ pc[c] = "swap" /\ UNCHANGED <<op, plan, seen>> /\ snap[c] \in 0..Now /\ Now \in Nat
      /\ want[c] \in Catalogs /\ Consistent(want[c])
      /\ want[c] = Proposed(Content(base[c]), c, kind[c], aim[c])
      /\ Content(snap[c]) = Content(base[c])
      /\ snap' = [snap EXCEPT ![c] = snap[c]]
  BY LenProperties DEF Swap, IInv, TypeOK, Story, Proposing, Going, Now
<1>2. \/ /\ published' = published /\ pc' = [pc EXCEPT ![c] = "done"]
         /\ answer' = [answer EXCEPT ![c] = "recovery-required"]
      \/ /\ snap[c] = Now /\ published' = Append(published, [catalog |-> want[c], by |-> c])
         /\ \/ pc' = [pc EXCEPT ![c] = "complete"] /\ answer' = answer
            \/ /\ pc' = [pc EXCEPT ![c] = "done"]
               /\ answer' = [answer EXCEPT ![c] = "recovery-required"]
  BY DEF Swap, Expected, Goto, Answer
<1>3. CASE published' = published
  <2>1. published # Append(published, [catalog |-> want[c], by |-> c])
    <3>1. [catalog |-> want[c], by |-> c] \in Entries /\ published \in Seq(Entries)
      BY <1>1 DEF Entries, IInv, TypeOK
    <3> QED BY <1>1, <3>1, AppendProperties DEF Now
  <2>2. Goes(c, "done", snap[c])
    BY <1>1, <1>2, <1>3, <2>1 DEF Goes, Going
  <2> QED BY <2>2, GoingKeeps
<1>4. CASE published' # published
  <2>1. Puts(c, want[c], "complete", snap[c]) \/ Puts(c, want[c], "done", snap[c])
    BY <1>1, <1>2, <1>4 DEF Puts
  <2> QED BY <2>1, PublishKeeps
<1> QED BY <1>3, <1>4

-----------------------------------------------------------------------------
(* A recovery. *)

LEMMA RecoverKeeps == ASSUME IInv, NEW c \in Calls, NEW of \in Calls, Recover(c, of) PROVE IInv'
<1> USE DEF IInv
<1>1. /\ pc[c] = "idle" /\ kind[c] = "none" /\ answer[c] = "none" /\ kind[of] \in Changes /\ of # c
      /\ \A i \in DOMAIN published : published[i].by # c
      /\ UNCHANGED <<published, op, base, snap, want>>
      /\ kind' = [kind EXCEPT ![c] = "recover"] /\ aim' = [aim EXCEPT ![c].call = of]
      /\ seen' = [seen EXCEPT ![c] = op[of]]
      /\ \/ /\ pc' = [pc EXCEPT ![c] = "done"]
            /\ \/ answer' = [answer EXCEPT ![c] = "unavailable"]
               \/ op[of] = "completed" /\ answer' = [answer EXCEPT ![c] = "completed"]
         \/ op[of] # "completed" /\ pc' = [pc EXCEPT ![c] = "compare"] /\ answer' = answer
  BY DEF Recover, Goto, Answer, Story, Answered, TypeOK
<1>2. /\ aim'[c].call = of /\ aim' \in [Calls -> Aims] /\ kind'[c] = "recover" /\ seen'[c] = op[of]
      /\ \A d \in Calls : d # c => aim'[d] = aim[d]
      /\ \/ /\ pc'[c] = "done"
            /\ answer'[c] = "unavailable" \/ (op[of] = "completed" /\ answer'[c] = "completed")
         \/ op[of] # "completed" /\ pc'[c] = "compare" /\ answer'[c] = "none"
  <2>1. [aim[c] EXCEPT !.call = of] \in Aims /\ [aim[c] EXCEPT !.call = of].call = of
    BY DEF TypeOK, Aims
  <2>2. aim' = [aim EXCEPT ![c] = [aim[c] EXCEPT !.call = of]] /\ aim \in [Calls -> Aims]
    BY <1>1 DEF TypeOK
  <2>3. aim'[c] = [aim[c] EXCEPT !.call = of]
    BY <2>2
  <2>4. kind'[c] = "recover" /\ seen'[c] = op[of]
    BY <1>1 DEF TypeOK
  <2>5. \/ /\ pc'[c] = "done"
           /\ answer'[c] = "unavailable" \/ (op[of] = "completed" /\ answer'[c] = "completed")
        \/ op[of] # "completed" /\ pc'[c] = "compare" /\ answer'[c] = "none"
    BY <1>1 DEF TypeOK
  <2> QED BY <2>1, <2>2, <2>3, <2>4, <2>5
<1>3. TypeOK'
  <2>1. Now' = Now
    BY <1>1 DEF Now
  <2>2. /\ pc' \in [Calls -> Steps]
        /\ answer' \in [Calls -> {"none", "refused", "recovery-required", "completed"} \cup Denials]
    BY <1>1 DEF TypeOK, Steps, Denials
  <2>3. /\ kind' \in [Calls -> {"none", "recover"} \cup Changes]
        /\ seen' \in [Calls -> {"none", "prepared", "executing", "completed"}]
    BY <1>1 DEF TypeOK
  <2> QED BY <1>1, <1>2, <2>1, <2>2, <2>3 DEF TypeOK
<1>4. Frame(c) /\ Publishes(c)
  BY <1>1, <1>2 DEF Frame, Publishes, TypeOK
<1>5. Story(c)'
  <2>1. kind'[of] = kind[of]
    BY <1>1 DEF TypeOK
  <2> QED BY <1>1, <1>2, <2>1 DEF Story, Proposing, Recovering, Answered, Going, Denials
<1>6. Marked'
  BY <1>1, <1>2, <1>4, MarkedKept
<1>7. Chain'
  BY <1>1, <1>4, ChainKept
<1> QED BY <1>3, <1>4, <1>5, <1>6, <1>7, StepKeeps

\* A recovery goes on, marks the operation or ends.
LEMMA RecoveryKeeps ==
  ASSUME IInv, NEW c \in Calls, Compare(c) \/ Mark(c) \/ (pc[c] \in {"compare", "mark"} /\ Crash(c))
  PROVE  IInv'
<1> USE DEF IInv
<1>1. PICK of \in Calls :
      /\ aim[c].call = of
      /\ pc[c] \in {"compare", "mark"} /\ kind[c] = "recover" /\ kind[of] \in Changes
      /\ answer[c] = "none" /\ (pc[c] = "mark" => InHistory(want[of]))
      /\ UNCHANGED <<published, plan, snap, seen>>
  BY DEF Compare, Mark, Crash, Story, Recovering, Answered
<1>2. /\ \/ pc' = [pc EXCEPT ![c] = "mark"] /\ answer' = answer /\ InHistory(want[of])
         \/ pc' = [pc EXCEPT ![c] = "dead"] /\ answer' = answer
         \/ /\ pc' = [pc EXCEPT ![c] = "done"]
            /\ \/ \E said \in {"recovery-required", "unavailable"} : answer' = [answer EXCEPT ![c] = said]
               \/ op' = [op EXCEPT ![of] = "completed"] /\ answer' = [answer EXCEPT ![c] = "completed"]
      /\ op' = op \/ (pc[c] = "mark" /\ op' = [op EXCEPT ![of] = "completed"])
  <2>1. CASE Compare(c)
    <3>1. TookEffect(c) => InHistory(want[of])
      <4>1. Now > 0 => Now \in DOMAIN published /\ Content(Now) = published[Now].catalog
        BY LenProperties DEF TypeOK, Now, Content
      <4> QED BY <1>1, <4>1 DEF TookEffect, InHistory
    <3> QED BY <2>1, <3>1 DEF Compare, Goto, Answer
  <2>2. CASE Mark(c)
    BY <1>1, <2>2 DEF Mark, Save, Goto, Answer
  <2>3. CASE Crash(c)
    BY <2>3 DEF Crash, Goto
  <2> QED BY <2>1, <2>2, <2>3
<1>3. Frame(c) /\ Publishes(c)
  BY <1>1, <1>2 DEF Frame, Publishes, TypeOK, plan
<1>4. TypeOK'
  <2>1. Now' = Now
    BY <1>1 DEF Now
  <2>2. op' \in [Calls -> {"none", "prepared", "executing", "completed"}]
    BY <1>1, <1>2 DEF TypeOK
  <2>3. pc' \in [Calls -> Steps]
    BY <1>2 DEF TypeOK, Steps
  <2>4. answer' \in [Calls -> {"none", "refused", "recovery-required", "completed"} \cup Denials]
    BY <1>2 DEF TypeOK, Denials
  <2> QED BY <1>1, <2>1, <2>2, <2>3, <2>4 DEF TypeOK, plan
<1>5. Story(c)'
  <2>1. /\ kind'[c] = "recover" /\ aim'[c].call = of /\ kind'[of] = kind[of] /\ want'[of] = want[of]
        /\ seen'[c] = seen[c] /\ seen[c] # "completed"
    BY <1>1 DEF plan, Story, Recovering
  <2>2. \/ pc'[c] = "mark" /\ answer'[c] = "none" /\ InHistory(want[of])
        \/ pc'[c] \in {"dead", "done"}
    BY <1>1, <1>2 DEF TypeOK
  <2>3. InHistory(want[of])' = InHistory(want[of])
    BY <1>1, <2>1 DEF InHistory
  <2> QED BY <1>1, <2>1, <2>2, <2>3 DEF Story, Proposing, Recovering, Answered, Going
<1>6. Marked'
  <2>1. \A d \in Calls : op[d] = "completed" => op'[d] = "completed"
    BY <1>1, <1>2 DEF TypeOK
  <2>2. \A d \in Calls : op'[d] = "completed" /\ op[d] # "completed" => InHistory(want[d]) /\ kind[d] # "none"
    BY <1>1, <1>2 DEF TypeOK, Changes
  <2>3. answer'[c] = "completed" => op'[of] = "completed"
    BY <1>1, <1>2 DEF TypeOK
  <2>4. aim'[c].call = of
    BY <1>1 DEF plan
  <2> QED BY <1>1, <1>3, <2>1, <2>2, <2>3, <2>4, MarkedKept
<1>7. Chain'
  BY <1>1, <1>3, ChainKept
<1> QED BY <1>3, <1>4, <1>5, <1>6, <1>7, StepKeeps

LEMMA CrashKeeps == ASSUME IInv, NEW c \in Calls, Crash(c) PROVE IInv'
<1>1. CASE pc[c] \in {"compare", "mark"}
  BY <1>1, RecoveryKeeps
<1>2. CASE pc[c] \notin {"compare", "mark"}
  <2>1. /\ pc[c] \in Going \cup {"complete"} /\ pc' = [pc EXCEPT ![c] = "dead"]
        /\ snap[c] \in 0..Now /\ snap' = [snap EXCEPT ![c] = snap[c]]
        /\ UNCHANGED <<published, op, plan, seen, answer>>
    BY <1>2 DEF Crash, Goto, IInv, TypeOK, Steps
  <2>2. Goes(c, "dead", snap[c])
    BY <2>1 DEF Goes, Going
  <2> QED BY <2>2, GoingKeeps
<1> QED BY <1>1, <1>2

-----------------------------------------------------------------------------
LEMMA InitIInv == Init => IInv
<1> SUFFICES ASSUME Init PROVE IInv
  OBVIOUS
<1> USE DEF Init
<1>1. Now = 0 /\ DOMAIN published = {} /\ published \in Seq(Entries)
  BY DEF Now
<1>2. TypeOK
  <2>1. NoAim \in Aims
    BY DEF NoAim, Aims
  <2> QED BY <1>1, <2>1 DEF TypeOK, Steps
<1>3. ASSUME NEW c \in Calls PROVE Story(c)
  BY <1>1 DEF Story, Proposing, Recovering, Answered, Going, Denials
<1> QED BY <1>1, <1>2, <1>3 DEF IInv, Marked, Chain

LEMMA StutterKeeps == IInv /\ UNCHANGED vars => IInv'
<1> SUFFICES ASSUME IInv, UNCHANGED vars PROVE IInv'
  OBVIOUS
<1>1. UNCHANGED <<published, op, kind, aim, base, want, snap, seen, pc, answer>>
  BY DEF vars, plan
<1>2. TypeOK'
  BY <1>1 DEF IInv, TypeOK, Now
<1>3. ASSUME NEW c \in Calls PROVE Story(c)'
  <2>1. Content(base[c])' = Content(base[c]) /\ Content(snap[c])' = Content(snap[c])
    BY <1>1 DEF Content
  <2> QED BY <1>1, <2>1 DEF IInv, Story, Proposing, Recovering, Answered, Published, InHistory
<1>4. Marked' /\ Chain'
  <2>1. \A i : Content(i)' = Content(i)
    BY <1>1 DEF Content
  <2> QED BY <1>1, <2>1 DEF IInv, Marked, Chain, InHistory
<1> QED BY <1>2, <1>3, <1>4 DEF IInv

LEMMA NextKeeps == IInv /\ Next => IInv'
<1> SUFFICES ASSUME IInv, Next PROVE IInv'
  OBVIOUS
<1>1. PICK c \in Calls :
        \/ \E b \in Bindings :
             \/ \E k \in Credentials : Plan(c, "bind", [NoAim EXCEPT !.binding = b, !.credential = k])
             \/ \E action \in {"unlink", "classify", "relink", "profile"} : Plan(c, action, [NoAim EXCEPT !.binding = b])
        \/ Confirm(c) \/ Recheck(c) \/ Reread(c) \/ Create(c)
        \/ Prepare(c) \/ Execute(c) \/ Swap(c) \/ Complete(c)
        \/ \E of \in Calls : Recover(c, of)
        \/ Compare(c) \/ Mark(c) \/ Crash(c)
  BY DEF Next
<1>2. ASSUME NEW b \in Bindings, NEW k \in Credentials,
             Plan(c, "bind", [NoAim EXCEPT !.binding = b, !.credential = k])
      PROVE  IInv'
  <2>1. /\ [NoAim EXCEPT !.binding = b, !.credential = k] \in Aims
        /\ [NoAim EXCEPT !.binding = b, !.credential = k].binding \in Bindings
        /\ [NoAim EXCEPT !.binding = b, !.credential = k].credential \in Credentials
    BY DEF NoAim, Aims
  <2> QED BY <1>2, <2>1, PlanKeeps DEF Changes
<1>3. ASSUME NEW b \in Bindings, NEW action \in {"unlink", "classify", "relink", "profile"},
             Plan(c, action, [NoAim EXCEPT !.binding = b])
      PROVE  IInv'
  <2>1. [NoAim EXCEPT !.binding = b] \in Aims /\ [NoAim EXCEPT !.binding = b].binding \in Bindings
    BY DEF NoAim, Aims
  <2> QED BY <1>3, <2>1, PlanKeeps DEF Changes
<1> QED BY <1>1, <1>2, <1>3, ConfirmKeeps, RecheckKeeps, RereadKeeps, CreateKeeps, RecordKeeps, SwapKeeps,
           CompleteKeeps, RecoverKeeps, RecoveryKeeps, CrashKeeps

LEMMA Inductive == Spec => []IInv
<1>1. IInv /\ [Next]_vars => IInv'
  BY NextKeeps, StutterKeeps
<1> QED BY InitIInv, <1>1, PTL DEF Spec

-----------------------------------------------------------------------------
\* Whatever commands run, fail, die and are recovered: every catalog that is
\* published is the change its author's person confirmed, applied to the very
\* catalog that person was shown, and no profile names a binding that is gone
\* (applyBinding, applyManagement, registerProfile and compareAndSwap).
THEOREM ChangesArePublishedAsConfirmed == Spec => []PublishedAsConfirmed
<1>1. IInv => PublishedAsConfirmed
  <2> SUFFICES ASSUME IInv PROVE PublishedAsConfirmed
    OBVIOUS
  <2>1. Now \in 0..Now
    BY LenProperties DEF IInv, TypeOK, Now
  <2>2. Consistent(Content(Now))
    BY <2>1, ContentIsCatalog DEF IInv
  <2> QED BY <2>2 DEF IInv, Chain, PublishedAsConfirmed, Consistent
<1> QED BY Inductive, <1>1, PTL

\* An operation is marked completed, by its command or by a recovery, only when
\* the catalog it proposed was published; a command that answers completed has
\* published its proposal, and one that answers that nothing changed has not.
THEOREM ChangesAnswerTruly == Spec => []AnswersAreTrue
<1>1. IInv => AnswersAreTrue
  BY DEF IInv, Marked, Story, Answered, AnswersAreTrue, InHistory, Denials
<1> QED BY Inductive, <1>1, PTL
=============================================================================
