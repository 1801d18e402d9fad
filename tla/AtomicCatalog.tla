---------------------------- MODULE AtomicCatalog ----------------------------
(***************************************************************************)
(* What the metadata store promises its callers: a register that changes   *)
(* only by compare-and-swap.  A catalog is identified by its position in   *)
(* the history of the register; 0 stands for the missing file.             *)
(***************************************************************************)
EXTENDS Integers, Sequences

CONSTANTS
  Procs,        \* processes that use the store
  MaxVersions   \* bound on the number of swaps that are explored

VARIABLES
  versions,   \* every catalog ever published; the last one is the register
  known       \* the version a process will name as the expected one

catalogVars == <<versions, known>>

Current == Len(versions)

\* A catalog and the version its author started from.
Catalog == [author : Procs, basis : Nat]

CatalogInit ==
  /\ versions = <<>>
  /\ known = [p \in Procs |-> 0]

\* What a process knows may be out of date by the time it uses it.
Learn(p) ==
  /\ \E n \in 0..Current : known' = [known EXCEPT ![p] = n]
  /\ UNCHANGED versions

Swap(p) ==
  /\ Current < MaxVersions
  /\ known[p] = Current
  /\ versions' = Append(versions, [author |-> p, basis |-> known[p]])
  /\ UNCHANGED known

CatalogNext == \E p \in Procs : Learn(p) \/ Swap(p)

CatalogSpec == CatalogInit /\ [][CatalogNext]_catalogVars

\* Every catalog was computed from the one it replaced: no published change is
\* ever overwritten by a writer that had not seen it.
NoLostChange == \A i \in DOMAIN versions : versions[i].basis = i - 1
=============================================================================
