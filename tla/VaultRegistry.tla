---------------------------- MODULE VaultRegistry ----------------------------
(***************************************************************************)
(* The OS secret store and the index file beside it: saveSecret and        *)
(* removeSecret of core/vault/index.ts, the index of core/vault/           *)
(* registry.ts, and runRemoveSecret of core/lifecycle.ts.                  *)
(*                                                                         *)
(* A save stores the value and then reads the index, gives the name's row  *)
(* a new revision and writes the file in place; a removal asks a person,   *)
(* deletes the value and drops the row.  The index has no lock, and a file *)
(* that is being written reads as corrupt, which counts as empty.  Each    *)
(* call is a process of its own that may fail or die at any step.          *)
(***************************************************************************)
EXTENDS Integers

CONSTANTS
  Calls,      \* saves and removals, each tried once
  Names,      \* secrets of one scope and project
  LastTick,   \* bound: how far the clock goes
  None

VARIABLES
  stored,     \* name -> the save whose value the store holds, or None
  index,      \* name -> revision in its row, or None; None while it is written
  clock,      \* Date.now()
  name,       \* call -> the secret it is about, or None
  pc,         \* call -> its next step
  rows,       \* call -> the rows it read, with its change
  given,      \* save -> the revision its row was to get, or None
  answer      \* call -> what it answered

vars == <<stored, index, clock, name, pc, rows, given, answer>>

Empty == [n \in Names |-> None]

Init ==
  /\ stored = Empty
  /\ index = Empty
  /\ clock = 0
  /\ name = [c \in Calls |-> None]
  /\ pc = [c \in Calls |-> "idle"]
  /\ rows = [c \in Calls |-> Empty]
  /\ given = [c \in Calls |-> None]
  /\ answer = [c \in Calls |-> "none"]

Goto(c, step) == pc' = [pc EXCEPT ![c] = step]
Answer(c, said) == Goto(c, "done") /\ answer' = [answer EXCEPT ![c] = said]

\* readRegistry: a corrupt index is treated as empty.
Read == IF index = None THEN Empty ELSE index

Begin(c, n, step) ==
  /\ pc[c] = "idle"
  /\ name' = [name EXCEPT ![c] = n]
  /\ Goto(c, step)
  /\ UNCHANGED <<stored, index, clock, rows, given, answer>>

-----------------------------------------------------------------------------
(* A save. *)

\* A save that may overwrite.  The store may fail, before or after the value is
\* in it.
Store(c) ==
  /\ pc[c] = "store"
  /\ \/ stored' = [stored EXCEPT ![name[c]] = c] /\ Goto(c, "upsert") /\ UNCHANGED answer
     \/ stored' = [stored EXCEPT ![name[c]] = c] /\ Answer(c, "failed")
     \/ Answer(c, "failed") /\ UNCHANGED stored
  /\ UNCHANGED <<index, clock, name, rows, given>>

NextRevision(old) == IF old # None /\ clock <= old THEN old + 1 ELSE clock

\* upsertRegistryEntry reads; an error of the index is told as such.
Upsert(c) ==
  /\ pc[c] = "upsert"
  /\ \/ LET new == NextRevision(Read[name[c]]) IN
        /\ rows' = [rows EXCEPT ![c] = [Read EXCEPT ![name[c]] = new]]
        /\ given' = [given EXCEPT ![c] = new]
        /\ Goto(c, "save.open") /\ UNCHANGED answer
     \/ Answer(c, "index-failed") /\ UNCHANGED <<rows, given>>
  /\ UNCHANGED <<stored, index, clock, name>>

\* writeRegistry: the file is emptied when it is opened, and then written.
Open(c) ==
  /\ \/ pc[c] = "save.open" /\ Goto(c, "save.write")
     \/ pc[c] = "remove.open" /\ Goto(c, "remove.write")
     \/ pc[c] = "prune.open" /\ Goto(c, "prune.write")
  /\ index' = None
  /\ UNCHANGED <<stored, clock, name, rows, given, answer>>

Write(c) ==
  /\ \/ pc[c] = "save.write" /\ Answer(c, "saved")
     \/ pc[c] = "remove.write" /\ Answer(c, "removed")
     \/ pc[c] = "prune.write" /\ Answer(c, "index-pruned")
  /\ index' = rows[c]
  /\ UNCHANGED <<stored, clock, name, rows, given>>

WriteFails(c) ==
  /\ \/ pc[c] \in {"save.open", "save.write"} /\ Answer(c, "index-failed")
     \/ pc[c] \in {"remove.open", "remove.write"} /\ Answer(c, "delete-failed")
     \/ pc[c] \in {"prune.open", "prune.write"} /\ Answer(c, "failed")
  /\ UNCHANGED <<stored, index, clock, name, rows, given>>

-----------------------------------------------------------------------------
(* A removal. *)

\* Where the store has no value only the row is dropped, and nobody is asked.
Probe(c) ==
  /\ pc[c] = "probe"
  /\ \/ stored[name[c]] # None /\ Goto(c, "ask") /\ UNCHANGED answer
     \/ stored[name[c]] = None /\ Goto(c, "look") /\ UNCHANGED answer
     \/ Answer(c, "read-failed")
  /\ UNCHANGED <<stored, index, clock, name, rows, given>>

Look(c) ==
  /\ pc[c] = "look"
  /\ IF Read[name[c]] = None THEN Answer(c, "not-registered")
                             ELSE Goto(c, "prune") /\ UNCHANGED answer
  /\ UNCHANGED <<stored, index, clock, name, rows, given>>

\* A dialog takes longer than a tick of the clock.
Ask(c) ==
  /\ pc[c] = "ask" /\ clock < LastTick
  /\ clock' = clock + 1
  /\ \/ Goto(c, "delete") /\ UNCHANGED answer
     \/ Answer(c, "declined")
  /\ UNCHANGED <<stored, index, name, rows, given>>

\* An unconfirmed deletion leaves the index alone.
Delete(c) ==
  /\ pc[c] = "delete"
  /\ \/ /\ stored[name[c]] # None
        /\ stored' = [stored EXCEPT ![name[c]] = None]
        /\ \/ Goto(c, "remove") /\ UNCHANGED answer
           \/ Answer(c, "delete-failed")
     \/ Answer(c, "delete-failed") /\ UNCHANGED stored
  /\ UNCHANGED <<index, clock, name, rows, given>>

Drop(c) ==
  /\ \/ pc[c] = "remove" /\ Goto(c, "remove.open")
     \/ pc[c] = "prune" /\ Goto(c, "prune.open")
  /\ rows' = [rows EXCEPT ![c] = [Read EXCEPT ![name[c]] = None]]
  /\ UNCHANGED <<stored, index, clock, name, given, answer>>

-----------------------------------------------------------------------------
Crash(c) ==
  /\ pc[c] \notin {"idle", "done", "dead"}
  /\ Goto(c, "dead")
  /\ UNCHANGED <<stored, index, clock, name, rows, given, answer>>

Tick ==
  /\ clock < LastTick
  /\ clock' = clock + 1
  /\ UNCHANGED <<stored, index, name, pc, rows, given, answer>>

Next ==
  \/ \E c \in Calls :
       \/ \E n \in Names : Begin(c, n, "store") \/ Begin(c, n, "probe")
       \/ Store(c) \/ Upsert(c) \/ Open(c) \/ Write(c) \/ WriteFails(c)
       \/ Probe(c) \/ Look(c) \/ Ask(c) \/ Delete(c) \/ Drop(c) \/ Crash(c)
  \/ Tick

Spec == Init /\ [][Next]_vars

-----------------------------------------------------------------------------
\* Two saves of one secret that both reached the index have different revisions,
\* also when they happen in one tick of the clock: an observation of the value
\* before never passes for one of the value after (upsertRegistryEntry).
RevisionsAreUnique ==
  \A c, d \in Calls :
    c # d /\ name[c] = name[d] /\ answer[c] = "saved" /\ answer[d] = "saved" => given[c] # given[d]
=============================================================================
