----------------------------- MODULE JournalData -----------------------------
(***************************************************************************)
(* The value kept in deployment-history/<project>/history.json and the two *)
(* edits that DeploymentHistory (packages/core/deploy/history.ts) applies  *)
(* to it.  A receipt is reduced to what the protocol tells apart: whose    *)
(* attempt it is, the schema version its shape needs, and its outcome.     *)
(***************************************************************************)
EXTENDS Integers, Sequences

CONSTANTS
  Deploys,   \* deployment attempts; an attempt's identity is its receipt id
  LIMIT      \* receipts retained in the journal (200 in the code)

ASSUME LimitAssumption == LIMIT \in Nat \ {0}

\* The schema a receipt needs: 1 legacy key, 2 connection identity, 3 Worker
\* version preparation, 4 registered Cloudflare target.
Kinds == 1..4
Outcomes == {"completed", "incomplete", "unknown"}

Receipt == [id : Deploys, kind : Kinds, finished : BOOLEAN, outcome : Outcomes]
Journal == [schemaVersion : Kinds, entries : Seq(Receipt)]

EmptyJournal == [schemaVersion |-> 1, entries |-> <<>>]

\* entries.slice(-LIMIT)
Retain(s) ==
  IF Len(s) <= LIMIT THEN s
  ELSE [i \in 1..LIMIT |-> s[i + (Len(s) - LIMIT)]]

\* Fault: the schema is computed from the retained receipts alone.
SchemaOfRetained(journal, entries) ==
  LET needed == {1} \cup {entries[i].kind : i \in DOMAIN entries}
  IN  CHOOSE v \in needed : \A k \in needed : k <= v

\* Upgraded when a receipt that needs it is retained, never downgraded.
SchemaFor(journal, entries) ==
  LET needed == {journal.schemaVersion} \cup {entries[i].kind : i \in DOMAIN entries}
  IN  CHOOSE v \in needed : \A k \in needed : k <= v

Rewrite(journal, edited) ==
  LET entries == Retain(edited)
  IN  [schemaVersion |-> SchemaFor(journal, entries), entries |-> entries]

NewReceipt(d, k) ==
  [id |-> d, kind |-> k, finished |-> FALSE, outcome |-> "unknown"]

\* begin, beginConnection, beginClerkPreparation
WithStart(journal, d, k) == Rewrite(journal, Append(journal.entries, NewReceipt(d, k)))

\* finish and finishClerkPreparation refuse an attempt that was cleared or
\* evicted, and one that already has its result.
HasOpenStart(journal, d) ==
  \E i \in DOMAIN journal.entries :
     journal.entries[i].id = d /\ ~journal.entries[i].finished

Closed(receipt, o) == [receipt EXCEPT !.finished = TRUE, !.outcome = o]

WithResult(journal, d, o) ==
  Rewrite(journal,
    [i \in DOMAIN journal.entries |->
       IF journal.entries[i].id = d
       THEN Closed(journal.entries[i], o)
       ELSE journal.entries[i]])

Ids(journal) == [i \in DOMAIN journal.entries |-> journal.entries[i].id]
=============================================================================
