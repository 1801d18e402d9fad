----------------------- MODULE DeploymentHistoryProofs -----------------------
(***************************************************************************)
(* The inductive invariant of DeploymentHistory, for any number of deploys *)
(* and readers and any retention limit, and what follows from it.          *)
(***************************************************************************)
EXTENDS DeploymentHistory, SequenceTheorems, TLAPS

-----------------------------------------------------------------------------
\* The journal's value: what the retention limit keeps, and that both edits of
\* the journal yield a journal again.

\* The first n elements of a function that is given for each index make a
\* sequence (the form in which the provers accept it).
LEMMA SeqOfFunction ==
  ASSUME NEW S, NEW n \in Nat, NEW f \in [1..n -> S]
  PROVE  f \in Seq(S) /\ Len(f) = n /\ DOMAIN f = 1..n
  BY SeqDef

\* Retain keeps the last LIMIT elements.
LEMMA RetainProperties ==
  ASSUME NEW S, NEW s \in Seq(S)
  PROVE  /\ Retain(s) \in Seq(S)
         /\ Len(Retain(s)) = IF Len(s) <= LIMIT THEN Len(s) ELSE LIMIT
         /\ \A i \in 1..Len(Retain(s)) : Retain(s)[i] = s[i + (Len(s) - Len(Retain(s)))]
<1> USE LimitAssumption, LenProperties
<1>1. CASE Len(s) <= LIMIT
  BY <1>1 DEF Retain
<1>2. CASE ~(Len(s) <= LIMIT)
  <2> DEFINE f == [i \in 1..LIMIT |-> s[i + (Len(s) - LIMIT)]]
  <2>1. Retain(s) = f
    BY <1>2 DEF Retain
  <2>2. f \in [1..LIMIT -> S]
    <3>1. \A i \in 1..LIMIT : i + (Len(s) - LIMIT) \in 1..Len(s)
      BY <1>2
    <3> QED BY <3>1, ElementOfSeq
  <2>3. f \in Seq(S) /\ Len(f) = LIMIT
    BY <2>2, SeqOfFunction
  <2> QED BY <1>2, <2>1, <2>3
<1> QED BY <1>1, <1>2

\* What was dropped before would be dropped after the next start as well, so
\* that the journal never has to remember more than it retains.
LEMMA RetainAppend ==
  ASSUME NEW S, NEW s \in Seq(S), NEW x \in S
  PROVE  Retain(Append(Retain(s), x)) = Retain(Append(s, x))
<1> USE LimitAssumption
<1> DEFINE r == Retain(s)
           a == Append(r, x)
           b == Append(s, x)
<1>1. /\ r \in Seq(S)
      /\ Len(r) = IF Len(s) <= LIMIT THEN Len(s) ELSE LIMIT
      /\ \A i \in 1..Len(r) : r[i] = s[i + (Len(s) - Len(r))]
  BY RetainProperties
<1>2. /\ Len(s) \in Nat
      /\ b \in Seq(S) /\ Len(b) = Len(s) + 1
      /\ \A i \in 1..Len(s) : b[i] = s[i]
      /\ b[Len(s) + 1] = x
  BY AppendProperties, LenProperties
<1>3. /\ Len(r) \in Nat
      /\ a \in Seq(S) /\ Len(a) = Len(r) + 1
      /\ \A i \in 1..Len(r) : a[i] = r[i]
      /\ a[Len(r) + 1] = x
  BY <1>1, AppendProperties, LenProperties
<1> HIDE DEF r, a, b
<1>4. /\ Retain(a) \in Seq(S)
      /\ Len(Retain(a)) = IF Len(a) <= LIMIT THEN Len(a) ELSE LIMIT
      /\ \A i \in 1..Len(Retain(a)) : Retain(a)[i] = a[i + (Len(a) - Len(Retain(a)))]
  BY <1>3, RetainProperties
<1>5. /\ Retain(b) \in Seq(S)
      /\ Len(Retain(b)) = IF Len(b) <= LIMIT THEN Len(b) ELSE LIMIT
      /\ \A i \in 1..Len(Retain(b)) : Retain(b)[i] = b[i + (Len(b) - Len(Retain(b)))]
  BY <1>2, RetainProperties
<1>6. Len(Retain(a)) = Len(Retain(b))
  BY <1>1, <1>2, <1>3, <1>4, <1>5
<1>7. ASSUME NEW i \in 1..Len(Retain(a))
      PROVE  Retain(a)[i] = Retain(b)[i]
  <2> DEFINE j == i + (Len(a) - Len(Retain(a)))
             k == i + (Len(b) - Len(Retain(b)))
  <2>0. Len(Retain(a)) \in Nat /\ Len(Retain(b)) = Len(Retain(a)) /\ i \in Nat
    BY <1>4, <1>6, LenProperties
  <2>1. Retain(a)[i] = a[j] /\ Retain(b)[i] = b[k]
    BY <1>4, <1>5, <1>6, <1>7
  <2>2. i <= Len(Retain(a)) /\ 1 <= i
    BY <1>7, <2>0
  <2>3. Len(Retain(a)) <= Len(a)
    BY <1>3, <1>4
  <2>4. j \in 1..Len(a)
    BY <1>3, <2>0, <2>2, <2>3
  <2>5. k = j + (Len(s) - Len(r))
    BY <1>2, <1>3, <2>0
  <2> HIDE DEF j, k
  <2>6. CASE j = Len(r) + 1
    BY <2>1, <2>5, <2>6, <1>2, <1>3
  <2>7. CASE j \in 1..Len(r)
    <3>1. a[j] = s[k]
      BY <2>5, <2>7, <1>1, <1>3
    <3>2. k \in 1..Len(s)
      BY <2>5, <2>7, <1>1, <1>2, <1>3
    <3> QED BY <3>1, <3>2, <2>1, <1>2
  <2> QED BY <2>4, <2>6, <2>7, <1>3
<1>8. Retain(a) = Retain(b)
  BY <1>4, <1>5, <1>6, <1>7, SeqEqual
<1> QED BY <1>8 DEF a, b, r

\* The schema of a rewritten journal is a schema, is at least what it was, and
\* is at least what each receipt needs.
LEMMA SchemaForProperties ==
  ASSUME NEW journal \in Journal, NEW entries \in Seq(Receipt)
  PROVE  /\ SchemaFor(journal, entries) \in Kinds
         /\ journal.schemaVersion <= SchemaFor(journal, entries)
         /\ \A i \in DOMAIN entries : entries[i].kind <= SchemaFor(journal, entries)
<1> DEFINE needed == {journal.schemaVersion} \cup {entries[i].kind : i \in DOMAIN entries}
<1>1. needed \subseteq Kinds /\ needed # {}
  <2>1. journal.schemaVersion \in Kinds
    BY DEF Journal
  <2>2. ASSUME NEW i \in DOMAIN entries
        PROVE  entries[i].kind \in Kinds
    <3>1. i \in 1..Len(entries)
      BY LenProperties
    <3>2. entries[i] \in Receipt
      BY <3>1, ElementOfSeq
    <3> QED BY <3>2 DEF Receipt
  <2> QED BY <2>1, <2>2
<1>2. journal.schemaVersion \in needed
  OBVIOUS
<1>7. ASSUME NEW i \in DOMAIN entries
       PROVE  entries[i].kind \in needed
  OBVIOUS
<1> HIDE DEF needed
<1>3. \E v \in needed : \A k \in needed : k <= v
  <2>1. needed \subseteq {1, 2, 3, 4}
    BY <1>1 DEF Kinds
  <2>2. CASE 4 \in needed
    BY <2>1, <2>2
  <2>3. CASE 4 \notin needed /\ 3 \in needed
    BY <2>1, <2>3
  <2>4. CASE 4 \notin needed /\ 3 \notin needed /\ 2 \in needed
    BY <2>1, <2>4
  <2>5. CASE 4 \notin needed /\ 3 \notin needed /\ 2 \notin needed
    <3>1. needed = {1}
      BY <1>1, <2>1, <2>5
    <3> QED BY <3>1
  <2> QED BY <2>2, <2>3, <2>4, <2>5
<1>4. SchemaFor(journal, entries) = CHOOSE v \in needed : \A k \in needed : k <= v
  BY DEF SchemaFor, needed
<1>5. SchemaFor(journal, entries) \in needed /\ \A k \in needed : k <= SchemaFor(journal, entries)
  BY <1>3, <1>4
<1>6. ASSUME NEW i \in DOMAIN entries
      PROVE  entries[i].kind <= SchemaFor(journal, entries)
  BY <1>7, <1>5
<1> QED BY <1>1, <1>2, <1>5, <1>6

\* A rewritten journal is a journal; it holds what Retain keeps of the edit.
LEMMA RewriteProperties ==
  ASSUME NEW journal \in Journal, NEW receipts \in Seq(Receipt)
  PROVE  /\ Rewrite(journal, receipts) \in Journal
         /\ Rewrite(journal, receipts).entries = Retain(receipts)
         /\ journal.schemaVersion <= Rewrite(journal, receipts).schemaVersion
<1>1. Retain(receipts) \in Seq(Receipt)
  BY RetainProperties
<1>2. /\ SchemaFor(journal, Retain(receipts)) \in Kinds
      /\ journal.schemaVersion <= SchemaFor(journal, Retain(receipts))
  BY <1>1, SchemaForProperties
<1> QED BY <1>1, <1>2 DEF Rewrite, Journal

\* The identities of a journal's receipts make a sequence.
LEMMA IdsProperties ==
  ASSUME NEW journal \in Journal
  PROVE  /\ Ids(journal) \in Seq(Deploys)
         /\ Len(Ids(journal)) = Len(journal.entries)
         /\ \A i \in 1..Len(journal.entries) : Ids(journal)[i] = journal.entries[i].id
<1>1. journal.entries \in Seq(Receipt)
  BY DEF Journal
<1>2. /\ Len(journal.entries) \in Nat
      /\ DOMAIN journal.entries = 1..Len(journal.entries)
      /\ \A i \in 1..Len(journal.entries) : journal.entries[i] \in Receipt
  BY <1>1, LenProperties, ElementOfSeq
<1>3. Ids(journal) \in [1..Len(journal.entries) -> Deploys]
  BY <1>2 DEF Ids, Receipt
<1> QED BY <1>2, <1>3, SeqOfFunction DEF Ids

\* The start of an attempt is appended to the identities that are retained.
LEMMA WithStartProperties ==
  ASSUME NEW journal \in Journal, NEW d \in Deploys, NEW k \in Kinds
  PROVE  /\ WithStart(journal, d, k) \in Journal
         /\ WithStart(journal, d, k).entries = Retain(Append(journal.entries, NewReceipt(d, k)))
         /\ Ids(WithStart(journal, d, k)) = Retain(Append(Ids(journal), d))
         /\ journal.schemaVersion <= WithStart(journal, d, k).schemaVersion
<1> DEFINE entries == Append(journal.entries, NewReceipt(d, k))
           ids == Append(Ids(journal), d)
           new == WithStart(journal, d, k)
<1>1. journal.entries \in Seq(Receipt) /\ NewReceipt(d, k) \in Receipt
  BY DEF Journal, NewReceipt, Receipt, Outcomes
<1>2. /\ entries \in Seq(Receipt)
      /\ Len(entries) = Len(journal.entries) + 1
      /\ \A i \in 1..Len(journal.entries) : entries[i] = journal.entries[i]
      /\ entries[Len(journal.entries) + 1] = NewReceipt(d, k)
  BY <1>1, AppendProperties
<1>3. /\ new \in Journal
      /\ new.entries = Retain(entries)
      /\ journal.schemaVersion <= new.schemaVersion
  BY <1>2, RewriteProperties DEF WithStart
<1>4. /\ Ids(journal) \in Seq(Deploys)
      /\ Len(Ids(journal)) = Len(journal.entries)
      /\ \A i \in 1..Len(journal.entries) : Ids(journal)[i] = journal.entries[i].id
  BY IdsProperties
<1>5. /\ ids \in Seq(Deploys)
      /\ Len(ids) = Len(Ids(journal)) + 1
      /\ \A i \in 1..Len(Ids(journal)) : ids[i] = Ids(journal)[i]
      /\ ids[Len(Ids(journal)) + 1] = d
  BY <1>4, AppendProperties
<1>6. Len(journal.entries) \in Nat
  BY <1>1, LenProperties
<1>7. Len(ids) = Len(entries) /\ \A i \in 1..Len(entries) : ids[i] = entries[i].id
  <2>1. \A i \in 1..Len(journal.entries) : ids[i] = entries[i].id
    BY <1>2, <1>4, <1>5
  <2>2. ids[Len(journal.entries) + 1] = entries[Len(journal.entries) + 1].id
    BY <1>2, <1>4, <1>5 DEF NewReceipt
  <2> QED BY <1>2, <1>4, <1>5, <1>6, <2>1, <2>2
<1> HIDE DEF entries, ids, new
<1>8. Ids(new) = Retain(ids)
  <2>1. /\ Retain(ids) \in Seq(Deploys)
        /\ Len(Retain(ids)) = IF Len(ids) <= LIMIT THEN Len(ids) ELSE LIMIT
        /\ \A i \in 1..Len(Retain(ids)) : Retain(ids)[i] = ids[i + (Len(ids) - Len(Retain(ids)))]
    BY <1>5, RetainProperties
  <2>2. /\ Retain(entries) \in Seq(Receipt)
        /\ Len(Retain(entries)) = IF Len(entries) <= LIMIT THEN Len(entries) ELSE LIMIT
        /\ \A i \in 1..Len(Retain(entries)) :
              Retain(entries)[i] = entries[i + (Len(entries) - Len(Retain(entries)))]
    BY <1>2, RetainProperties
  <2>3. /\ Ids(new) \in Seq(Deploys)
        /\ Len(Ids(new)) = Len(Retain(entries))
        /\ \A i \in 1..Len(Retain(entries)) : Ids(new)[i] = Retain(entries)[i].id
    BY <1>3, IdsProperties
  <2>4. Len(Ids(new)) = Len(Retain(ids))
    BY <1>7, <2>1, <2>2, <2>3
  <2>5. ASSUME NEW i \in 1..Len(Retain(ids))
        PROVE  Ids(new)[i] = Retain(ids)[i]
    <3> DEFINE j == i + (Len(entries) - Len(Retain(entries)))
    <3>1. Len(entries) \in Nat /\ Len(Retain(entries)) \in Nat
      BY <1>2, <2>2, LenProperties
    <3>2. Len(Retain(entries)) <= Len(entries) /\ i <= Len(Retain(entries)) /\ 1 <= i /\ i \in Nat
      BY <2>2, <2>3, <2>4, <2>5, <3>1, LimitAssumption
    <3>3. j \in 1..Len(entries)
      BY <3>1, <3>2
    <3>4. Ids(new)[i] = entries[j].id
      BY <2>2, <2>3, <2>4, <2>5
    <3>5. Retain(ids)[i] = ids[j]
      BY <1>7, <2>1, <2>3, <2>4, <2>5
    <3> QED BY <1>7, <3>3, <3>4, <3>5
  <2> QED BY <2>1, <2>3, <2>4, <2>5, SeqEqual
<1> QED BY <1>3, <1>8 DEF new, entries, ids

\* A result changes neither the number of receipts nor whose they are: a
\* journal within its limit keeps all of them, in place.
LEMMA WithResultProperties ==
  ASSUME NEW journal \in Journal, NEW d \in Deploys, NEW o \in Outcomes,
         Len(journal.entries) <= LIMIT
  PROVE  /\ WithResult(journal, d, o) \in Journal
         /\ DOMAIN WithResult(journal, d, o).entries = DOMAIN journal.entries
         /\ \A i \in DOMAIN journal.entries :
              WithResult(journal, d, o).entries[i] =
                IF journal.entries[i].id = d
                THEN Closed(journal.entries[i], o)
                ELSE journal.entries[i]
         /\ Ids(WithResult(journal, d, o)) = Ids(journal)
         /\ journal.schemaVersion <= WithResult(journal, d, o).schemaVersion
<1> DEFINE receipts == [i \in DOMAIN journal.entries |->
                        IF journal.entries[i].id = d
                        THEN Closed(journal.entries[i], o)
                        ELSE journal.entries[i]]
<1>1. /\ Len(journal.entries) \in Nat
      /\ DOMAIN journal.entries = 1..Len(journal.entries)
      /\ \A i \in DOMAIN journal.entries : journal.entries[i] \in Receipt
  BY LenProperties, ElementOfSeq DEF Journal
<1>2. receipts \in [1..Len(journal.entries) -> Receipt]
  BY <1>1 DEF Receipt, Closed
<1>3. receipts \in Seq(Receipt) /\ Len(receipts) = Len(journal.entries)
  BY <1>1, <1>2, SeqOfFunction
<1>4. Retain(receipts) = receipts
  BY <1>3 DEF Retain
<1>5. WithResult(journal, d, o) = Rewrite(journal, receipts)
  BY DEF WithResult
<1>6. \A i \in DOMAIN journal.entries : receipts[i].id = journal.entries[i].id
  BY <1>1 DEF Receipt, Closed
<1>7. DOMAIN receipts = DOMAIN journal.entries
  OBVIOUS
<1>8. \A i \in DOMAIN journal.entries :
        receipts[i] = IF journal.entries[i].id = d
                    THEN Closed(journal.entries[i], o)
                    ELSE journal.entries[i]
  OBVIOUS
<1> HIDE DEF receipts
<1>9. /\ WithResult(journal, d, o) \in Journal
      /\ WithResult(journal, d, o).entries = receipts
      /\ journal.schemaVersion <= WithResult(journal, d, o).schemaVersion
  BY <1>3, <1>4, <1>5, RewriteProperties
<1>10. Ids(WithResult(journal, d, o)) = Ids(journal)
  BY <1>6, <1>7, <1>9 DEF Ids
<1> QED BY <1>7, <1>8, <1>9, <1>10

\* After a start, each receipt is the new one or one of those there were.
LEMMA WithStartReceipts ==
  ASSUME NEW journal \in Journal, NEW d \in Deploys, NEW k \in Kinds,
         NEW i \in DOMAIN WithStart(journal, d, k).entries
  PROVE  \/ WithStart(journal, d, k).entries[i] = NewReceipt(d, k)
         \/ \E j \in DOMAIN journal.entries :
               WithStart(journal, d, k).entries[i] = journal.entries[j]
<1> DEFINE entries == Append(journal.entries, NewReceipt(d, k))
           kept == Retain(entries)
<1>1. journal.entries \in Seq(Receipt) /\ NewReceipt(d, k) \in Receipt
  BY DEF Journal, NewReceipt, Receipt, Outcomes
<1>2. /\ entries \in Seq(Receipt)
      /\ Len(entries) = Len(journal.entries) + 1
      /\ \A j \in 1..Len(journal.entries) : entries[j] = journal.entries[j]
      /\ entries[Len(journal.entries) + 1] = NewReceipt(d, k)
      /\ Len(journal.entries) \in Nat
      /\ DOMAIN journal.entries = 1..Len(journal.entries)
  BY <1>1, AppendProperties, LenProperties
<1>3. WithStart(journal, d, k).entries = kept
  BY WithStartProperties
<1> HIDE DEF entries
<1>4. /\ kept \in Seq(Receipt)
      /\ Len(kept) = IF Len(entries) <= LIMIT THEN Len(entries) ELSE LIMIT
      /\ \A j \in 1..Len(kept) : kept[j] = entries[j + (Len(entries) - Len(kept))]
  BY <1>2, RetainProperties
<1> HIDE DEF kept
<1>5. Len(kept) \in Nat /\ i \in 1..Len(kept)
  BY <1>3, <1>4, LenProperties
<1> DEFINE j == i + (Len(entries) - Len(kept))
<1>6. kept[i] = entries[j]
  BY <1>4, <1>5
<1>7. j \in 1..(Len(journal.entries) + 1)
  <2>1. Len(entries) \in Nat /\ Len(kept) <= Len(entries)
    BY <1>2, <1>4, <1>5, LimitAssumption
  <2> QED BY <1>2, <1>5, <2>1
<1> HIDE DEF j
<1>8. CASE j = Len(journal.entries) + 1
  BY <1>2, <1>3, <1>6, <1>8
<1>9. CASE j \in 1..Len(journal.entries)
  BY <1>2, <1>3, <1>6, <1>9
<1> QED BY <1>2, <1>7, <1>8, <1>9

-----------------------------------------------------------------------------
\* The state of the history.

\* A journal that holds what is retained of the starts is within the limit.
LEMMA JournalFits ==
  ASSUME TypeOK, RetainedStarts
  PROVE  Len(file.entries) \in Nat /\ Len(file.entries) <= LIMIT
<1>1. file \in Journal /\ starts \in Seq(Deploys)
  BY DEF TypeOK
<1>2. Len(file.entries) \in Nat
  BY <1>1, LenProperties DEF Journal
<1>3. Len(Ids(file)) = Len(file.entries)
  BY <1>1, IdsProperties
<1>4. Len(Retain(starts)) <= LIMIT
  BY <1>1, RetainProperties, LimitAssumption, LenProperties
<1> QED BY <1>2, <1>3, <1>4 DEF RetainedStarts

\* Both edits of change turn a journal into a journal.
LEMMA EditIsAJournal ==
  ASSUME TypeOK, RetainedStarts, NEW d \in Deploys
  PROVE  Edit(d, file) \in Journal
<1>1. file \in Journal /\ kind[d] \in Kinds /\ outcome[d] \in Outcomes
  BY DEF TypeOK
<1>2. WithStart(file, d, kind[d]) \in Journal
  BY <1>1, WithStartProperties
<1>3. WithResult(file, d, outcome[d]) \in Journal
  BY <1>1, JournalFits, WithResultProperties
<1> QED BY <1>2, <1>3 DEF Edit

LEMMA EmptyIsAJournal == EmptyJournal \in Journal /\ Ids(EmptyJournal) = <<>>
<1>1. <<>> \in Seq(Receipt)
  BY EmptySeq
<1>2. EmptyJournal \in Journal
  BY <1>1 DEF EmptyJournal, Journal, Kinds
<1>3. DOMAIN EmptyJournal.entries = {}
  BY DEF EmptyJournal
<1>4. Len(Ids(EmptyJournal)) = 0 /\ Ids(EmptyJournal) \in Seq(Deploys)
  BY <1>2, IdsProperties, EmptySeq DEF EmptyJournal
<1> QED BY <1>2, <1>4, EmptySeq

\* Every step keeps the types.
LEMMA TypeOKStep ==
  ASSUME IInv, [Next]_vars
  PROVE  TypeOK'
<1> USE DEF IInv, TypeOK
<1>1. ASSUME NEW d \in Deploys, CallBegin(d)
      PROVE  TypeOK'
  BY <1>1 DEF CallBegin, At, Go, storage, calls, reads, Busy, Resting
<1>2. ASSUME NEW d \in Deploys, NEW o \in Observed, CallFinish(d, o)
      PROVE  TypeOK'
  BY <1>2, UsedAssumption DEF CallFinish, At, Go, Busy, storage, reads
<1>3. ASSUME NEW d \in Deploys, TakeLock(d)
      PROVE  TypeOK'
  BY <1>3 DEF TakeLock, At, Go, storage, calls, reads, Busy, Resting
<1>4. ASSUME NEW d \in Deploys, LockFails(d)
      PROVE  TypeOK'
  BY <1>4 DEF LockFails, Fails, Returned, At, Go, Resting, storage, reads
<1>5. ASSUME NEW d \in Deploys, Load(d)
      PROVE  TypeOK'
  <2>1. Edit(d, file) \in Journal
    BY EditIsAJournal
  <2> QED BY <1>5, <2>1 DEF Load, At, Go, Busy, storage, reads
<1>6. ASSUME NEW d \in Deploys, OpenTemporary(d)
      PROVE  TypeOK'
  BY <1>6 DEF OpenTemporary, At, Go, storage, calls, reads, Busy, Resting
<1>7. ASSUME NEW d \in Deploys, WriteTemporary(d)
      PROVE  TypeOK'
  BY <1>7 DEF WriteTemporary, At, Go, storage, calls, reads, Busy, Resting
<1>8. ASSUME NEW d \in Deploys, Rename(d)
      PROVE  TypeOK'
  <2>1. Append(starts, d) \in Seq(Deploys)
    BY AppendProperties
  <2> QED BY <1>8, <2>1, EmptyIsAJournal DEF Rename, At, Go, Busy, Resting, reads
<1>9. ASSUME NEW d \in Deploys, ChangeFails(d)
      PROVE  TypeOK'
  BY <1>9, EmptyIsAJournal DEF ChangeFails, Fails, At, Go, Busy, storage, reads
<1>10. ASSUME NEW d \in Deploys, UnlinkTemporary(d)
      PROVE  TypeOK'
  BY <1>10, EmptyIsAJournal DEF UnlinkTemporary, At, Go, Busy, reads
<1>11. ASSUME NEW d \in Deploys, ReleaseLock(d)
      PROVE  TypeOK'
  BY <1>11 DEF ReleaseLock, Returned, At, Go, Resting, reads
<1>12. ASSUME NEW d \in Deploys, Crash(d)
      PROVE  TypeOK'
  BY <1>12 DEF Crash, At, Go, storage, calls, reads, Busy, Resting
<1>13. CASE ReviewStorage
  BY <1>13, EmptyIsAJournal DEF ReviewStorage, calls, reads
<1>14. ASSUME NEW r \in Readers, ReadStep(r)
      PROVE  TypeOK'
  BY <1>14 DEF ReadStep, ReadLock, ReadTemporary, ReadStat, ReadOpen, Answer, RGo, storage, calls, reads, Busy, Resting
<1>15. CASE UNCHANGED vars
  BY <1>15 DEF vars, storage, calls, reads, Busy, Resting
<1> QED
  BY <1>1, <1>2, <1>3, <1>4, <1>5, <1>6, <1>7, <1>8, <1>9, <1>10, <1>11, <1>12, <1>13, <1>14, <1>15 DEF Next, ChangeStep

\* Only the holder of the lock removes it, or a person once nobody is at work.
LEMMA LockIsExclusiveStep ==
  ASSUME IInv, [Next]_vars
  PROVE  LockIsExclusive'
<1> USE FreeAssumption DEF IInv, TypeOK, LockIsExclusive, Critical, Busy
<1>1. ASSUME NEW d \in Deploys, CallBegin(d)
      PROVE  LockIsExclusive'
  BY <1>1 DEF CallBegin, At, Go, storage, calls, reads, Returned
<1>2. ASSUME NEW d \in Deploys, NEW o \in Observed, CallFinish(d, o)
      PROVE  LockIsExclusive'
  BY <1>2 DEF CallFinish, At, Go, storage, calls, reads, Returned
<1>3. ASSUME NEW d \in Deploys, TakeLock(d)
      PROVE  LockIsExclusive'
  BY <1>3 DEF TakeLock, At, Go, storage, calls, reads, Returned
<1>4. ASSUME NEW d \in Deploys, LockFails(d)
      PROVE  LockIsExclusive'
  BY <1>4 DEF LockFails, At, Go, storage, calls, reads, Returned
<1>5. ASSUME NEW d \in Deploys, Load(d)
      PROVE  LockIsExclusive'
  BY <1>5 DEF Load, At, Go, storage, calls, reads, Returned
<1>6. ASSUME NEW d \in Deploys, OpenTemporary(d)
      PROVE  LockIsExclusive'
  BY <1>6 DEF OpenTemporary, At, Go, storage, calls, reads, Returned
<1>7. ASSUME NEW d \in Deploys, WriteTemporary(d)
      PROVE  LockIsExclusive'
  BY <1>7 DEF WriteTemporary, At, Go, storage, calls, reads, Returned
<1>8. ASSUME NEW d \in Deploys, Rename(d)
      PROVE  LockIsExclusive'
  BY <1>8 DEF Rename, At, Go, storage, calls, reads, Returned
<1>9. ASSUME NEW d \in Deploys, ChangeFails(d)
      PROVE  LockIsExclusive'
  BY <1>9 DEF ChangeFails, At, Go, storage, calls, reads, Returned
<1>10. ASSUME NEW d \in Deploys, UnlinkTemporary(d)
      PROVE  LockIsExclusive'
  BY <1>10 DEF UnlinkTemporary, At, Go, storage, calls, reads, Returned
<1>11. ASSUME NEW d \in Deploys, ReleaseLock(d)
      PROVE  LockIsExclusive'
  BY <1>11 DEF ReleaseLock, At, Go, storage, calls, reads, Returned
<1>12. ASSUME NEW d \in Deploys, Crash(d)
      PROVE  LockIsExclusive'
  BY <1>12 DEF Crash, At, Go, storage, calls, reads, Returned
<1>13. CASE ReviewStorage
  BY <1>13 DEF ReviewStorage, At, Go, storage, calls, reads, Returned
<1>14. ASSUME NEW r \in Readers, ReadStep(r)
      PROVE  LockIsExclusive'
  BY <1>14 DEF ReadStep, ReadLock, ReadTemporary, ReadStat, ReadOpen, Answer, RGo, storage, calls, reads, Returned
<1>15. CASE UNCHANGED vars
  BY <1>15 DEF vars, storage, calls, reads, Returned
<1> QED
  BY <1>1, <1>2, <1>3, <1>4, <1>5, <1>6, <1>7, <1>8, <1>9, <1>10, <1>11, <1>12, <1>13, <1>14, <1>15 DEF Next, ChangeStep

\* The journal is only replaced by the holder of the lock, so that no other
\* writer's edit goes out of date.
LEMMA EditIsCurrentStep ==
  ASSUME IInv, [Next]_vars
  PROVE  EditIsCurrent'
<1> USE DEF IInv, TypeOK, LockIsExclusive, EditIsCurrent, Edit, Critical, Busy
<1>1. ASSUME NEW d \in Deploys, CallBegin(d)
      PROVE  EditIsCurrent'
  BY <1>1 DEF CallBegin, At, Go, storage, calls, reads, Returned
<1>2. ASSUME NEW d \in Deploys, NEW o \in Observed, CallFinish(d, o)
      PROVE  EditIsCurrent'
  BY <1>2 DEF CallFinish, At, Go, storage, calls, reads, Returned
<1>3. ASSUME NEW d \in Deploys, TakeLock(d)
      PROVE  EditIsCurrent'
  BY <1>3 DEF TakeLock, At, Go, storage, calls, reads, Returned
<1>4. ASSUME NEW d \in Deploys, LockFails(d)
      PROVE  EditIsCurrent'
  BY <1>4 DEF LockFails, At, Go, storage, calls, reads, Returned
<1>5. ASSUME NEW d \in Deploys, Load(d)
      PROVE  EditIsCurrent'
  BY <1>5 DEF Load, At, Go, storage, calls, reads, Returned
<1>6. ASSUME NEW d \in Deploys, OpenTemporary(d)
      PROVE  EditIsCurrent'
  BY <1>6 DEF OpenTemporary, At, Go, storage, calls, reads, Returned
<1>7. ASSUME NEW d \in Deploys, WriteTemporary(d)
      PROVE  EditIsCurrent'
  BY <1>7 DEF WriteTemporary, At, Go, storage, calls, reads, Returned
<1>8. ASSUME NEW d \in Deploys, Rename(d)
      PROVE  EditIsCurrent'
  BY <1>8 DEF Rename, At, Go, storage, calls, reads, Returned
<1>9. ASSUME NEW d \in Deploys, ChangeFails(d)
      PROVE  EditIsCurrent'
  BY <1>9 DEF ChangeFails, At, Go, storage, calls, reads, Returned
<1>10. ASSUME NEW d \in Deploys, UnlinkTemporary(d)
      PROVE  EditIsCurrent'
  BY <1>10 DEF UnlinkTemporary, At, Go, storage, calls, reads, Returned
<1>11. ASSUME NEW d \in Deploys, ReleaseLock(d)
      PROVE  EditIsCurrent'
  BY <1>11 DEF ReleaseLock, At, Go, storage, calls, reads, Returned
<1>12. ASSUME NEW d \in Deploys, Crash(d)
      PROVE  EditIsCurrent'
  BY <1>12 DEF Crash, At, Go, storage, calls, reads, Returned
<1>13. CASE ReviewStorage
  BY <1>13 DEF ReviewStorage, At, Go, storage, calls, reads, Returned
<1>14. ASSUME NEW r \in Readers, ReadStep(r)
      PROVE  EditIsCurrent'
  BY <1>14 DEF ReadStep, ReadLock, ReadTemporary, ReadStat, ReadOpen, Answer, RGo, storage, calls, reads, Returned
<1>15. CASE UNCHANGED vars
  BY <1>15 DEF vars, storage, calls, reads, Returned
<1> QED
  BY <1>1, <1>2, <1>3, <1>4, <1>5, <1>6, <1>7, <1>8, <1>9, <1>10, <1>11, <1>12, <1>13, <1>14, <1>15 DEF Next, ChangeStep

\* A call's result follows its position.
LEMMA ResultIsDecidedStep ==
  ASSUME IInv, [Next]_vars
  PROVE  ResultIsDecided'
<1> USE DEF IInv, TypeOK, ResultIsDecided, Busy
<1>1. ASSUME NEW d \in Deploys, CallBegin(d)
      PROVE  ResultIsDecided'
  BY <1>1 DEF CallBegin, At, Go, storage, calls, reads, Returned, Fails
<1>2. ASSUME NEW d \in Deploys, NEW o \in Observed, CallFinish(d, o)
      PROVE  ResultIsDecided'
  BY <1>2 DEF CallFinish, At, Go, storage, calls, reads, Returned, Fails
<1>3. ASSUME NEW d \in Deploys, TakeLock(d)
      PROVE  ResultIsDecided'
  BY <1>3 DEF TakeLock, At, Go, storage, calls, reads, Returned, Fails
<1>4. ASSUME NEW d \in Deploys, LockFails(d)
      PROVE  ResultIsDecided'
  BY <1>4 DEF LockFails, At, Go, storage, calls, reads, Returned, Fails
<1>5. ASSUME NEW d \in Deploys, Load(d)
      PROVE  ResultIsDecided'
  BY <1>5 DEF Load, At, Go, storage, calls, reads, Returned, Fails
<1>6. ASSUME NEW d \in Deploys, OpenTemporary(d)
      PROVE  ResultIsDecided'
  BY <1>6 DEF OpenTemporary, At, Go, storage, calls, reads, Returned, Fails
<1>7. ASSUME NEW d \in Deploys, WriteTemporary(d)
      PROVE  ResultIsDecided'
  BY <1>7 DEF WriteTemporary, At, Go, storage, calls, reads, Returned, Fails
<1>8. ASSUME NEW d \in Deploys, Rename(d)
      PROVE  ResultIsDecided'
  BY <1>8 DEF Rename, At, Go, storage, calls, reads, Returned, Fails
<1>9. ASSUME NEW d \in Deploys, ChangeFails(d)
      PROVE  ResultIsDecided'
  BY <1>9 DEF ChangeFails, At, Go, storage, calls, reads, Returned, Fails
<1>10. ASSUME NEW d \in Deploys, UnlinkTemporary(d)
      PROVE  ResultIsDecided'
  BY <1>10 DEF UnlinkTemporary, At, Go, storage, calls, reads, Returned, Fails
<1>11. ASSUME NEW d \in Deploys, ReleaseLock(d)
      PROVE  ResultIsDecided'
  BY <1>11 DEF ReleaseLock, At, Go, storage, calls, reads, Returned, Fails
<1>12. ASSUME NEW d \in Deploys, Crash(d)
      PROVE  ResultIsDecided'
  BY <1>12 DEF Crash, At, Go, storage, calls, reads, Returned, Fails
<1>13. CASE ReviewStorage
  BY <1>13 DEF ReviewStorage, At, Go, storage, calls, reads, Returned, Fails
<1>14. ASSUME NEW r \in Readers, ReadStep(r)
      PROVE  ResultIsDecided'
  BY <1>14 DEF ReadStep, ReadLock, ReadTemporary, ReadStat, ReadOpen, Answer, RGo, storage, calls, reads, Returned, Fails
<1>15. CASE UNCHANGED vars
  BY <1>15 DEF vars, storage, calls, reads, Returned, Fails
<1> QED
  BY <1>1, <1>2, <1>3, <1>4, <1>5, <1>6, <1>7, <1>8, <1>9, <1>10, <1>11, <1>12, <1>13, <1>14, <1>15 DEF Next, ChangeStep

\* A start is recorded by the rename of its own begin and by nothing else.
LEMMA StartsAreRenamesStep ==
  ASSUME IInv, [Next]_vars
  PROVE  StartsAreRenames'
<1> USE DEF IInv, TypeOK, StartsAreRenames, ResultIsDecided, Busy
<1>1. ASSUME NEW d \in Deploys, CallBegin(d)
      PROVE  StartsAreRenames'
  BY <1>1 DEF CallBegin, At, Go, storage, calls, reads, Returned, Fails
<1>2. ASSUME NEW d \in Deploys, NEW o \in Observed, CallFinish(d, o)
      PROVE  StartsAreRenames'
  BY <1>2 DEF CallFinish, At, Go, storage, calls, reads, Returned, Fails
<1>3. ASSUME NEW d \in Deploys, TakeLock(d)
      PROVE  StartsAreRenames'
  BY <1>3 DEF TakeLock, At, Go, storage, calls, reads, Returned, Fails
<1>4. ASSUME NEW d \in Deploys, LockFails(d)
      PROVE  StartsAreRenames'
  BY <1>4 DEF LockFails, At, Go, storage, calls, reads, Returned, Fails
<1>5. ASSUME NEW d \in Deploys, Load(d)
      PROVE  StartsAreRenames'
  BY <1>5 DEF Load, At, Go, storage, calls, reads, Returned, Fails
<1>6. ASSUME NEW d \in Deploys, OpenTemporary(d)
      PROVE  StartsAreRenames'
  BY <1>6 DEF OpenTemporary, At, Go, storage, calls, reads, Returned, Fails
<1>7. ASSUME NEW d \in Deploys, WriteTemporary(d)
      PROVE  StartsAreRenames'
  BY <1>7 DEF WriteTemporary, At, Go, storage, calls, reads, Returned, Fails
<1>8. ASSUME NEW d \in Deploys, Rename(d)
      PROVE  StartsAreRenames'
  <2> DEFINE Started(e) == \E i \in DOMAIN starts : starts[i] = e
  <2>1. ASSUME NEW e \in Deploys, op[d] = "begin"
        PROVE  (\E i \in DOMAIN starts' : starts'[i] = e) <=> (Started(e) \/ e = d)
    <3>1. starts' = Append(starts, d) /\ starts \in Seq(Deploys)
      BY <1>8, <2>1 DEF Rename
    <3>2. /\ DOMAIN starts = 1..Len(starts) /\ Len(starts) \in Nat
          /\ DOMAIN starts' = 1..(Len(starts) + 1)
          /\ \A i \in 1..Len(starts) : starts'[i] = starts[i]
          /\ starts'[Len(starts) + 1] = d
      BY <3>1, AppendProperties, LenProperties
    <3> QED BY <3>2
  <2>2. ASSUME NEW e \in Deploys, op[d] # "begin"
        PROVE  (\E i \in DOMAIN starts' : starts'[i] = e) <=> Started(e)
    BY <1>8, <2>2 DEF Rename
  <2>3. op' = op /\ result' = [result EXCEPT ![d] = "ok"] /\ op[d] \in {"begin", "finish"}
    BY <1>8 DEF Rename, calls
  <2> QED BY <2>1, <2>2, <2>3
<1>9. ASSUME NEW d \in Deploys, ChangeFails(d)
      PROVE  StartsAreRenames'
  BY <1>9 DEF ChangeFails, At, Go, storage, calls, reads, Returned, Fails
<1>10. ASSUME NEW d \in Deploys, UnlinkTemporary(d)
      PROVE  StartsAreRenames'
  BY <1>10 DEF UnlinkTemporary, At, Go, storage, calls, reads, Returned, Fails
<1>11. ASSUME NEW d \in Deploys, ReleaseLock(d)
      PROVE  StartsAreRenames'
  BY <1>11 DEF ReleaseLock, At, Go, storage, calls, reads, Returned, Fails
<1>12. ASSUME NEW d \in Deploys, Crash(d)
      PROVE  StartsAreRenames'
  BY <1>12 DEF Crash, At, Go, storage, calls, reads, Returned, Fails
<1>13. CASE ReviewStorage
  BY <1>13 DEF ReviewStorage, At, Go, storage, calls, reads, Returned, Fails
<1>14. ASSUME NEW r \in Readers, ReadStep(r)
      PROVE  StartsAreRenames'
  BY <1>14 DEF ReadStep, ReadLock, ReadTemporary, ReadStat, ReadOpen, Answer, RGo, storage, calls, reads, Returned, Fails
<1>15. CASE UNCHANGED vars
  BY <1>15 DEF vars, storage, calls, reads, Returned, Fails
<1> QED
  BY <1>1, <1>2, <1>3, <1>4, <1>5, <1>6, <1>7, <1>8, <1>9, <1>10, <1>11, <1>12, <1>13, <1>14, <1>15 DEF Next, ChangeStep

\* The journal holds what is retained of the starts.
LEMMA RetainedStartsStep ==
  ASSUME IInv, [Next]_vars
  PROVE  RetainedStarts'
<1> USE DEF IInv, RetainedStarts
<1>1. ASSUME NEW d \in Deploys, CallBegin(d)
      PROVE  RetainedStarts'
  BY <1>1 DEF CallBegin, At, Go, storage, calls, reads
<1>2. ASSUME NEW d \in Deploys, NEW o \in Observed, CallFinish(d, o)
      PROVE  RetainedStarts'
  BY <1>2 DEF CallFinish, At, Go, storage, calls, reads
<1>3. ASSUME NEW d \in Deploys, TakeLock(d)
      PROVE  RetainedStarts'
  BY <1>3 DEF TakeLock, At, Go, storage, calls, reads
<1>4. ASSUME NEW d \in Deploys, LockFails(d)
      PROVE  RetainedStarts'
  BY <1>4 DEF LockFails, At, Go, storage, calls, reads
<1>5. ASSUME NEW d \in Deploys, Load(d)
      PROVE  RetainedStarts'
  BY <1>5 DEF Load, At, Go, storage, calls, reads
<1>6. ASSUME NEW d \in Deploys, OpenTemporary(d)
      PROVE  RetainedStarts'
  BY <1>6 DEF OpenTemporary, At, Go, storage, calls, reads
<1>7. ASSUME NEW d \in Deploys, WriteTemporary(d)
      PROVE  RetainedStarts'
  BY <1>7 DEF WriteTemporary, At, Go, storage, calls, reads
<1>8. ASSUME NEW d \in Deploys, Rename(d)
      PROVE  RetainedStarts'
  <2>1. /\ file \in Journal /\ starts \in Seq(Deploys)
        /\ kind[d] \in Kinds /\ outcome[d] \in Outcomes
        /\ d \notin dead /\ pc[d] = "rename" /\ op[d] \in {"begin", "finish"}
    BY <1>8 DEF TypeOK, Rename, At
  <2>2. file' = Edit(d, file)
    BY <1>8, <2>1 DEF Rename, EditIsCurrent
  <2>3. CASE op[d] = "begin"
    <3>1. Ids(file') = Retain(Append(Retain(starts), d))
      BY <2>1, <2>2, <2>3, WithStartProperties DEF Edit
    <3>2. starts' = Append(starts, d)
      BY <1>8, <2>3 DEF Rename
    <3> QED BY <2>1, <3>1, <3>2, RetainAppend
  <2>4. CASE op[d] = "finish"
    <3>0. Len(file.entries) <= LIMIT
      BY JournalFits
    <3>1. Ids(file') = Ids(file)
      <4>1. file' = WithResult(file, d, outcome[d])
        BY <2>2, <2>4 DEF Edit
      <4>2. Ids(WithResult(file, d, outcome[d])) = Ids(file)
        BY <2>1, <3>0, WithResultProperties
      <4> QED BY <4>1, <4>2
    <3>2. starts' = starts
      BY <1>8, <2>4 DEF Rename
    <3> QED BY <3>1, <3>2
  <2> QED BY <2>1, <2>3, <2>4
<1>9. ASSUME NEW d \in Deploys, ChangeFails(d)
      PROVE  RetainedStarts'
  BY <1>9 DEF ChangeFails, At, Go, storage, calls, reads
<1>10. ASSUME NEW d \in Deploys, UnlinkTemporary(d)
      PROVE  RetainedStarts'
  BY <1>10 DEF UnlinkTemporary, At, Go, storage, calls, reads
<1>11. ASSUME NEW d \in Deploys, ReleaseLock(d)
      PROVE  RetainedStarts'
  BY <1>11 DEF ReleaseLock, At, Go, storage, calls, reads
<1>12. ASSUME NEW d \in Deploys, Crash(d)
      PROVE  RetainedStarts'
  BY <1>12 DEF Crash, At, Go, storage, calls, reads
<1>13. CASE ReviewStorage
  BY <1>13 DEF ReviewStorage, At, Go, storage, calls, reads
<1>14. ASSUME NEW r \in Readers, ReadStep(r)
      PROVE  RetainedStarts'
  BY <1>14 DEF ReadStep, ReadLock, ReadTemporary, ReadStat, ReadOpen, Answer, RGo, storage, calls, reads
<1>15. CASE UNCHANGED vars
  BY <1>15 DEF vars, storage, calls, reads
<1> QED
  BY <1>1, <1>2, <1>3, <1>4, <1>5, <1>6, <1>7, <1>8, <1>9, <1>10, <1>11, <1>12, <1>13, <1>14, <1>15 DEF Next, ChangeStep

\* An attempt that was recorded as started cannot start again.
LEMMA StartsAreDistinctStep ==
  ASSUME IInv, [Next]_vars
  PROVE  StartsAreDistinct'
<1>1. ASSUME NEW d \in Deploys, Rename(d), op[d] = "begin"
      PROVE  StartsAreDistinct'
  <2>1. ~\E i \in DOMAIN starts : starts[i] = d
    BY <1>1 DEF IInv, TypeOK, ResultIsDecided, StartsAreRenames, Rename, At
  <2>2. starts' = Append(starts, d) /\ starts \in Seq(Deploys)
    BY <1>1 DEF Rename, IInv, TypeOK
  <2>3. /\ DOMAIN starts = 1..Len(starts) /\ Len(starts) \in Nat
        /\ DOMAIN starts' = 1..(Len(starts) + 1)
        /\ \A i \in 1..Len(starts) : starts'[i] = starts[i]
        /\ starts'[Len(starts) + 1] = d
    BY <2>2, AppendProperties, LenProperties
  <2> QED BY <2>1, <2>3 DEF IInv, StartsAreDistinct
<1>2. CASE starts' = starts
  BY <1>2 DEF IInv, StartsAreDistinct
<1>3. starts' = starts \/ \E d \in Deploys : Rename(d) /\ op[d] = "begin"
  BY DEF Next, ChangeStep, ReadStep, CallBegin, CallFinish, TakeLock, LockFails, Load,
     OpenTemporary, WriteTemporary, Rename, ChangeFails, UnlinkTemporary, ReleaseLock, Crash,
     ReviewStorage, ReadLock, ReadTemporary, ReadStat, ReadOpen, vars
<1> QED BY <1>1, <1>2, <1>3

\* A start that is appended changes no earlier part of the sequence.
LEMMA PrefixStays ==
  ASSUME NEW S, NEW s \in Seq(S), NEW x \in S, NEW n \in 0..Len(s)
  PROVE  SubSeq(Append(s, x), 1, n) = SubSeq(s, 1, n)
<1> DEFINE t == Append(s, x)
<1>1. /\ Len(s) \in Nat /\ t \in Seq(S) /\ Len(t) = Len(s) + 1
      /\ \A i \in 1..Len(s) : t[i] = s[i] /\ s[i] \in S
  BY AppendProperties, LenProperties, ElementOfSeq
<1> HIDE DEF t
<1>2. /\ SubSeq(s, 1, n) \in Seq(S) /\ Len(SubSeq(s, 1, n)) = n
      /\ \A i \in 1..n : SubSeq(s, 1, n)[i] = s[i]
  BY <1>1, SubSeqProperties
<1>3. /\ SubSeq(t, 1, n) \in Seq(S) /\ Len(SubSeq(t, 1, n)) = n
      /\ \A i \in 1..n : SubSeq(t, 1, n)[i] = t[i]
  <2>1. \A i \in 1..n : t[i] \in S
    BY <1>1
  <2> QED BY <2>1, <1>1, SubSeqProperties
<1>4. \A i \in 1..n : SubSeq(t, 1, n)[i] = SubSeq(s, 1, n)[i]
  BY <1>1, <1>2, <1>3
<1>5. SubSeq(t, 1, n) = SubSeq(s, 1, n)
  BY <1>2, <1>3, <1>4, SeqEqual
<1> QED BY <1>5 DEF t

\* What a reader was told, or relies on, outlasts every other step.
LEMMA ReadersKeep ==
  ASSUME IInv, UNCHANGED reads, replaced' = 0 => replaced = 0,
         \/ UNCHANGED starts
         \/ replaced' # 0 /\ \E d \in Deploys : starts' = Append(starts, d)
  PROVE  ReadersRely'
<1>1. starts \in Seq(Deploys) /\ ReadersRely /\ Len(starts) \in Nat
  BY LenProperties DEF IInv, TypeOK
<1>2. CASE UNCHANGED starts
  BY <1>1, <1>2 DEF reads, ReadersRely, ReadersTypeOK, ReadersSeeAcknowledgedStarts, Took
<1>3. ASSUME NEW d \in Deploys, starts' = Append(starts, d), replaced' # 0
      PROVE  ReadersRely'
  <2>1. /\ Len(starts') = Len(starts) + 1
        /\ \A i \in 1..Len(starts) : starts'[i] = starts[i]
    BY <1>1, <1>3, AppendProperties
  <2>2. \A n \in 0..Len(starts) : n \in 0..Len(starts') /\ SubSeq(starts', 1, n) = SubSeq(starts, 1, n)
    BY <1>1, <1>3, <2>1, PrefixStays
  <2>3. \A n \in 0..Len(starts) : Took(n)' = Took(n)
    BY <1>1, <2>1 DEF Took
  <2>4. Took(Len(starts)) \subseteq Took(Len(starts))'
    BY <1>1, <2>1 DEF Took
  <2>5. ReadersTypeOK' /\ \A r \in Readers : rpc'[r] # "done" => rstatus'[r] = "none"
    BY <1>1, <1>3 DEF reads, ReadersRely, ReadersTypeOK
  <2>6. \A r \in Readers : rpc'[r] # "lock" => acked'[r] \subseteq Took(Len(starts))'
    BY <1>1, <2>4 DEF reads, ReadersRely
  <2>7. ASSUME NEW r \in Readers
        PROVE  /\ rstatus'[r] = "available" =>
                    \E n \in 0..Len(starts') :
                       /\ Ids(seen'[r]) = Retain(SubSeq(starts', 1, n))
                       /\ acked'[r] \subseteq {starts'[i] : i \in 1..n}
               /\ rstatus'[r] = "missing" => acked'[r] = {}
    <3>1. CASE rstatus[r] = "available"
      <4>1. PICK n \in 0..Len(starts) :
              Ids(seen[r]) = Retain(SubSeq(starts, 1, n)) /\ acked[r] \subseteq Took(n)
        BY <1>1, <3>1 DEF ReadersRely, ReadersSeeAcknowledgedStarts
      <4>2. Took(n) = {starts'[i] : i \in 1..n}
        BY <2>3 DEF Took
      <4> QED BY <2>2, <3>1, <4>1, <4>2 DEF reads
    <3>2. CASE rstatus[r] # "available"
      BY <1>1, <3>2 DEF reads, ReadersRely, ReadersSeeAcknowledgedStarts
    <3> QED BY <3>1, <3>2
  <2>8. ReadersSeeAcknowledgedStarts'
    BY <2>7 DEF ReadersSeeAcknowledgedStarts, Took
  <2> QED BY <1>3, <2>5, <2>6, <2>8 DEF ReadersRely
<1> QED BY <1>2, <1>3

\* A reader's own steps: it notes what was acknowledged, and answers with the
\* journal as it is, which holds all of it.
LEMMA ReadStepRelies ==
  ASSUME IInv, NEW r \in Readers, ReadStep(r)
  PROVE  ReadersRely'
<1>1. /\ TypeOK /\ ReadersRely /\ ReadersTypeOK /\ starts \in Seq(Deploys) /\ Len(starts) \in Nat
      /\ Ids(file) = Retain(starts)
  BY LenProperties DEF IInv, TypeOK, ReadersRely, RetainedStarts
<1>2. UNCHANGED <<storage, calls, starts>> /\ rpc[r] # "done" /\ rstatus[r] = "none"
  BY <1>1 DEF ReadStep, ReadLock, ReadTemporary, ReadStat, ReadOpen, ReadersRely
<1>3. /\ \A q \in Readers : q # r =>
           rpc'[q] = rpc[q] /\ rstatus'[q] = rstatus[q] /\ seen'[q] = seen[q] /\ acked'[q] = acked[q]
      /\ ReadersTypeOK'
  <2>1. file \in Journal /\ replaced \in Nat
    BY <1>1 DEF TypeOK
  <2>2. Acknowledged \subseteq Deploys
    BY DEF Acknowledged
  <2> QED BY <1>1, <2>1, <2>2 DEF ReadStep, ReadLock, ReadTemporary, ReadStat, ReadOpen, Answer, RGo, ReadersTypeOK
<1>4. Acknowledged \subseteq Took(Len(starts))
  <2>1. ASSUME NEW d \in Acknowledged PROVE \E i \in 1..Len(starts) : starts[i] = d
    <3>1. \E i \in DOMAIN starts : starts[i] = d
      BY <2>1 DEF Acknowledged, IInv, StartsAreRenames, ResultIsDecided
    <3> QED BY <1>1, <3>1, LenProperties
  <2> QED BY <2>1 DEF Took
<1>5. acked'[r] \subseteq Took(Len(starts))
  BY <1>1, <1>2, <1>4 DEF ReadStep, ReadLock, ReadTemporary, ReadStat, ReadOpen, ReadersRely, ReadersTypeOK
<1>6. rpc'[r] # "done" => rstatus'[r] = "none"
  BY <1>1, <1>2 DEF ReadStep, ReadLock, ReadTemporary, ReadStat, ReadOpen, Answer, RGo, ReadersTypeOK
<1>7. rstatus'[r] = "available" =>
        Ids(seen'[r]) = Retain(SubSeq(starts, 1, Len(starts)))
  <2>1. SubSeq(starts, 1, Len(starts)) = starts
    BY <1>1, SubSeqFull
  <2>2. rstatus'[r] = "available" => seen'[r] = file
    BY <1>1, <1>2 DEF ReadStep, ReadLock, ReadTemporary, ReadStat, ReadOpen, Answer, RGo, ReadersTypeOK
  <2> QED BY <1>1, <2>1, <2>2
<1>8. rstatus'[r] = "missing" => acked'[r] = {}
  <2>1. rstatus'[r] = "missing" => replaced = 0
    BY <1>1, <1>2 DEF ReadStep, ReadLock, ReadTemporary, ReadStat, ReadOpen, Answer, RGo, ReadersTypeOK
  <2>2. starts = <<>> => Took(Len(starts)) = {}
    BY DEF Took
  <2> QED BY <1>1, <1>5, <2>1, <2>2 DEF ReadersRely
<1>9. /\ replaced' = 0 => starts' = <<>>
      /\ Took(Len(starts))' = Took(Len(starts)) /\ \A n : Took(n)' = Took(n)
  BY <1>1, <1>2 DEF ReadersRely, storage, Took
<1>10. ASSUME NEW q \in Readers
       PROVE  /\ rstatus'[q] = "available" =>
                   \E n \in 0..Len(starts) :
                      Ids(seen'[q]) = Retain(SubSeq(starts, 1, n)) /\ acked'[q] \subseteq Took(n)
              /\ rstatus'[q] = "missing" => acked'[q] = {}
  <2>1. CASE q = r
    BY <1>1, <1>5, <1>7, <1>8, <2>1
  <2>2. CASE q # r
    BY <1>1, <1>3, <2>2 DEF ReadersRely, ReadersSeeAcknowledgedStarts
  <2> QED BY <2>1, <2>2
<1>11. ReadersSeeAcknowledgedStarts'
  BY <1>2, <1>10 DEF ReadersSeeAcknowledgedStarts, Took
<1>12. \A q \in Readers :
         /\ rpc'[q] # "done" => rstatus'[q] = "none"
         /\ rpc'[q] # "lock" => acked'[q] \subseteq Took(Len(starts))'
  BY <1>1, <1>3, <1>5, <1>6, <1>9 DEF ReadersRely
<1> QED BY <1>3, <1>9, <1>11, <1>12 DEF ReadersRely

\* Every step keeps what readers rely on: only renames append starts.
LEMMA ReadersRelyStep ==
  ASSUME IInv, [Next]_vars
  PROVE  ReadersRely'
<1>1. replaced \in Nat
  BY DEF IInv, TypeOK
<1>2. CASE \E r \in Readers : ReadStep(r)
  BY <1>2, ReadStepRelies
<1>3. ASSUME NEW d \in Deploys, Rename(d)
      PROVE  ReadersRely'
  <2>1. /\ UNCHANGED reads /\ replaced' = replaced + 1
        /\ UNCHANGED starts \/ starts' = Append(starts, d)
    BY <1>3 DEF Rename
  <2> QED BY <1>1, <2>1, ReadersKeep
<1>4. \/ \E r \in Readers : ReadStep(r)
      \/ \E d \in Deploys : Rename(d)
      \/ UNCHANGED <<reads, starts, replaced>>
  BY DEF Next, ChangeStep, CallBegin, CallFinish, TakeLock, LockFails, Load, OpenTemporary,
     WriteTemporary, ChangeFails, UnlinkTemporary, ReleaseLock, Crash, ReviewStorage, vars, storage
<1> QED BY <1>2, <1>3, <1>4, ReadersKeep

\* The initial states satisfy the inductive invariant.
LEMMA InitIInv ==
  ASSUME Init
  PROVE  IInv
<1>1. EmptyJournal \in Journal /\ Ids(EmptyJournal) = <<>>
  BY EmptyIsAJournal
<1>2. <<>> \in Seq(Deploys) /\ Len(<<>>) = 0
  BY EmptySeq
<1>3. TypeOK
  BY <1>1, <1>2, UsedAssumption DEF Init, TypeOK, Busy, Resting, Outcomes
<1>4. LockIsExclusive /\ EditIsCurrent /\ ResultIsDecided
  BY DEF Init, LockIsExclusive, EditIsCurrent, ResultIsDecided, Critical, Busy
<1>5. StartsAreRenames /\ StartsAreDistinct
  <2>1. starts = <<>> /\ DOMAIN starts = {}
    BY DEF Init
  <2> QED BY <2>1 DEF Init, StartsAreRenames, StartsAreDistinct
<1>6. RetainedStarts
  <2>1. Retain(<<>>) = <<>>
    BY <1>2, LimitAssumption DEF Retain
  <2> QED BY <1>1, <2>1 DEF Init, RetainedStarts
<1>7. ReadersRely
  BY <1>1 DEF Init, ReadersRely, ReadersTypeOK, ReadersSeeAcknowledgedStarts
<1> QED BY <1>3, <1>4, <1>5, <1>6, <1>7 DEF IInv

\* Types, the exclusive lock, the writers' current edits, the results' history,
\* the journal's contents and what readers were told hold together in every
\* reachable state.
THEOREM InductiveInvariant == Spec => []IInv
<1>1. IInv /\ [Next]_vars => IInv'
  BY TypeOKStep, LockIsExclusiveStep, EditIsCurrentStep, ResultIsDecidedStep,
     StartsAreRenamesStep, StartsAreDistinctStep, RetainedStartsStep, ReadersRelyStep DEF IInv
<1> QED BY InitIInv, <1>1, PTL DEF Spec

\* No start that took effect is lost to another writer, and every start that a
\* deploy was told about took effect.
THEOREM JournalKeepsStarts == Spec => []NoStartLost
<1>1. IInv => NoStartLost
  BY DEF IInv, TypeOK, NoStartLost, AcknowledgedTookEffect, Acknowledged, StartsAreRenames,
     ResultIsDecided
<1> QED BY InductiveInvariant, <1>1, PTL

\* A reader that takes no lock still reports a whole committed journal with every
\* start acknowledged before it looked; "missing" proves that none was (read).
THEOREM ReadersSeeStarts == Spec => []ReadersSeeAcknowledgedStarts
<1>1. IInv => ReadersSeeAcknowledgedStarts
  BY DEF IInv, ReadersRely
<1> QED BY InductiveInvariant, <1>1, PTL

\* Two live processes are never both between taking and releasing the lock.
THEOREM OneWriter ==
  Spec => []\A d, e \in Deploys \ dead : pc[d] \in Critical /\ pc[e] \in Critical => d = e
<1>1. IInv => \A d, e \in Deploys \ dead : pc[d] \in Critical /\ pc[e] \in Critical => d = e
  BY DEF IInv, LockIsExclusive
<1> QED BY InductiveInvariant, <1>1, PTL

-----------------------------------------------------------------------------
\* A receipt belongs to an attempt that started.
LEMMA ReceiptsAreOfStarts ==
  ASSUME IInv, NEW i \in DOMAIN file.entries
  PROVE  /\ file.entries[i].id \in Deploys
         /\ \E k \in DOMAIN starts : starts[k] = file.entries[i].id
<1>1. /\ file \in Journal /\ starts \in Seq(Deploys)
      /\ file.entries \in Seq(Receipt)
      /\ Ids(file) = Retain(starts)
  BY DEF IInv, TypeOK, Journal, RetainedStarts
<1>2. /\ Len(file.entries) \in Nat /\ i \in 1..Len(file.entries)
      /\ Len(starts) \in Nat /\ DOMAIN starts = 1..Len(starts)
  BY <1>1, LenProperties
<1>3. file.entries[i].id \in Deploys
  <2>1. file.entries[i] \in Receipt
    BY <1>1, <1>2, ElementOfSeq
  <2> QED BY <2>1 DEF Receipt
<1>4. Len(Ids(file)) = Len(file.entries) /\ Ids(file)[i] = file.entries[i].id
  BY <1>1, <1>2, IdsProperties
<1>5. /\ Len(Retain(starts)) = IF Len(starts) <= LIMIT THEN Len(starts) ELSE LIMIT
      /\ Retain(starts)[i] = starts[i + (Len(starts) - Len(Retain(starts)))]
  BY <1>1, <1>2, <1>4, RetainProperties
<1>6. i + (Len(starts) - Len(Retain(starts))) \in 1..Len(starts)
  BY <1>1, <1>2, <1>4, <1>5, LimitAssumption
<1> QED BY <1>1, <1>2, <1>3, <1>4, <1>5, <1>6

\* An attempt has one receipt at most.
LEMMA ReceiptsAreDistinct ==
  ASSUME IInv, NEW i \in DOMAIN file.entries, NEW j \in DOMAIN file.entries,
         file.entries[i].id = file.entries[j].id
  PROVE  i = j
<1>1. /\ file \in Journal /\ starts \in Seq(Deploys)
      /\ file.entries \in Seq(Receipt)
      /\ Ids(file) = Retain(starts)
  BY DEF IInv, TypeOK, Journal, RetainedStarts
<1>2. /\ Len(file.entries) \in Nat /\ i \in 1..Len(file.entries) /\ j \in 1..Len(file.entries)
      /\ Len(starts) \in Nat /\ DOMAIN starts = 1..Len(starts)
  BY <1>1, LenProperties
<1>3. Len(Ids(file)) = Len(file.entries) /\ Ids(file)[i] = Ids(file)[j]
  BY <1>1, <1>2, IdsProperties
<1> DEFINE shift == Len(starts) - Len(Retain(starts))
<1>4. /\ Len(Retain(starts)) = IF Len(starts) <= LIMIT THEN Len(starts) ELSE LIMIT
      /\ Retain(starts)[i] = starts[i + shift] /\ Retain(starts)[j] = starts[j + shift]
  BY <1>1, <1>2, <1>3, RetainProperties
<1>5. i + shift \in DOMAIN starts /\ j + shift \in DOMAIN starts /\ shift \in Int
  BY <1>1, <1>2, <1>3, <1>4, LimitAssumption
<1>6. starts[i + shift] = starts[j + shift]
  BY <1>1, <1>3, <1>4
<1>7. i + shift = j + shift
  BY <1>5, <1>6 DEF IInv, StartsAreDistinct
<1> QED BY <1>2, <1>5, <1>7

\* A step either leaves the journal alone, or is a rename that publishes its
\* author's start, or its author's result on its open start.
LEMMA JournalSteps ==
  ASSUME IInv, [Next]_vars
  PROVE  \/ UNCHANGED <<file, starts>>
         \/ \E d \in Deploys :
              /\ Rename(d)
              /\ \/ /\ op[d] = "begin"
                    /\ file' = WithStart(file, d, kind[d])
                 \/ /\ op[d] = "finish"
                    /\ HasOpenStart(file, d)
                    /\ file' = WithResult(file, d, outcome[d])
<1>1. UNCHANGED <<file, starts>> \/ \E d \in Deploys : Rename(d)
  BY DEF Next, ChangeStep, ReadStep, CallBegin, CallFinish, TakeLock, LockFails, Load,
     OpenTemporary, WriteTemporary, ChangeFails, UnlinkTemporary, ReleaseLock, Crash,
     ReviewStorage, ReadLock, ReadTemporary, ReadStat, ReadOpen, vars, storage
<1>2. ASSUME NEW d \in Deploys, Rename(d)
      PROVE  \/ op[d] = "begin" /\ file' = WithStart(file, d, kind[d])
             \/ /\ op[d] = "finish" /\ HasOpenStart(file, d)
                /\ file' = WithResult(file, d, outcome[d])
  BY <1>2 DEF Rename, At, IInv, TypeOK, EditIsCurrent, Edit
<1> QED BY <1>1, <1>2

\* A result once written stays until its receipt is evicted, and the schema
\* never goes back.
LEMMA JournalGrows ==
  ASSUME IInv, [Next]_vars
  PROVE  /\ file'.schemaVersion >= file.schemaVersion
         /\ \A i \in DOMAIN file.entries, j \in DOMAIN file'.entries :
              /\ file.entries[i].finished
              /\ file.entries[i].id = file'.entries[j].id
              => file'.entries[j] = file.entries[i]
<1> DEFINE Keeps == \A i \in DOMAIN file.entries, j \in DOMAIN file'.entries :
              /\ file.entries[i].finished
              /\ file.entries[i].id = file'.entries[j].id
              => file'.entries[j] = file.entries[i]
<1>1. /\ file \in Journal /\ file.schemaVersion \in Nat
      /\ kind \in [Deploys -> Kinds] /\ outcome \in [Deploys -> Outcomes]
  BY DEF IInv, TypeOK, Journal, Kinds
<1>2. CASE UNCHANGED <<file, starts>>
  BY <1>1, <1>2, ReceiptsAreDistinct
<1>3. ASSUME NEW d \in Deploys, Rename(d), op[d] = "begin",
             file' = WithStart(file, d, kind[d])
      PROVE  file'.schemaVersion >= file.schemaVersion /\ Keeps
  <2>1. file' \in Journal /\ file.schemaVersion <= file'.schemaVersion
    BY <1>1, <1>3, WithStartProperties
  <2>2. ASSUME NEW i \in DOMAIN file.entries, NEW j \in DOMAIN file'.entries,
               file.entries[i].id = file'.entries[j].id
        PROVE  file'.entries[j] = file.entries[i]
    <3>1. file.entries[i].id # d
      BY <1>3, ReceiptsAreOfStarts
         DEF IInv, TypeOK, ResultIsDecided, StartsAreRenames, Rename, At
    <3>2. \/ file'.entries[j] = NewReceipt(d, kind[d])
          \/ \E k \in DOMAIN file.entries : file'.entries[j] = file.entries[k]
      <4>1. kind[d] \in Kinds /\ j \in DOMAIN WithStart(file, d, kind[d]).entries
        BY <1>1, <1>3, <2>2
      <4> QED BY <1>1, <1>3, <4>1, WithStartReceipts
    <3>3. NewReceipt(d, kind[d]).id = d
      BY DEF NewReceipt
    <3>4. PICK k \in DOMAIN file.entries : file'.entries[j] = file.entries[k]
      BY <2>2, <3>1, <3>2, <3>3
    <3> QED BY <2>2, <3>4, ReceiptsAreDistinct
  <2>3. file'.schemaVersion \in Nat
    BY <2>1 DEF Journal, Kinds
  <2> QED BY <1>1, <2>1, <2>2, <2>3
<1>4. ASSUME NEW d \in Deploys, Rename(d), op[d] = "finish", HasOpenStart(file, d),
             file' = WithResult(file, d, outcome[d])
      PROVE  file'.schemaVersion >= file.schemaVersion /\ Keeps
  <2>1. Len(file.entries) <= LIMIT
    BY JournalFits DEF IInv
  <2>0. outcome[d] \in Outcomes /\ d \in Deploys
    BY <1>1
  <2>2. /\ file' \in Journal /\ file.schemaVersion <= file'.schemaVersion
        /\ DOMAIN file'.entries = DOMAIN file.entries
        /\ \A i \in DOMAIN file.entries :
              file'.entries[i] =
                IF file.entries[i].id = d
                THEN Closed(file.entries[i], outcome[d])
                ELSE file.entries[i]
    <3>1. /\ WithResult(file, d, outcome[d]) \in Journal
          /\ file.schemaVersion <= WithResult(file, d, outcome[d]).schemaVersion
      BY <1>1, <2>0, <2>1, WithResultProperties
    <3>2. DOMAIN WithResult(file, d, outcome[d]).entries = DOMAIN file.entries
      BY <1>1, <2>0, <2>1, WithResultProperties
    <3>3. \A i \in DOMAIN file.entries :
            WithResult(file, d, outcome[d]).entries[i] =
              IF file.entries[i].id = d
              THEN Closed(file.entries[i], outcome[d])
              ELSE file.entries[i]
      BY <1>1, <2>0, <2>1, WithResultProperties
    <3> QED BY <1>4, <3>1, <3>2, <3>3
  <2>3. ASSUME NEW i \in DOMAIN file.entries, NEW j \in DOMAIN file'.entries,
               file.entries[i].finished, file.entries[i].id = file'.entries[j].id
        PROVE  file'.entries[j] = file.entries[i]
    <3>1. file.entries[j].id = file'.entries[j].id
      <4>1. j \in DOMAIN file.entries
        BY <2>2, <2>3
      <4>2. file.entries[j] \in Receipt
        <5>1. file.entries \in Seq(Receipt)
          BY <1>1 DEF Journal
        <5> QED BY <4>1, <5>1, LenProperties, ElementOfSeq
      <4>3. file'.entries[j] = IF file.entries[j].id = d
              THEN Closed(file.entries[j], outcome[d])
              ELSE file.entries[j]
        BY <2>2, <4>1
      <4> QED BY <4>2, <4>3 DEF Receipt, Closed
    <3>2. i = j
      BY <2>2, <2>3, <3>1, ReceiptsAreDistinct
    <3>3. file.entries[i].id # d
      <4>1. PICK k \in DOMAIN file.entries : file.entries[k].id = d /\ ~file.entries[k].finished
        BY <1>4 DEF HasOpenStart
      <4> QED BY <2>3, <4>1, ReceiptsAreDistinct
    <3> QED BY <2>2, <3>2, <3>3
  <2>4. file'.schemaVersion \in Nat
    <3>1. file' \in Journal
      BY <2>2
    <3> QED BY <3>1 DEF Journal, Kinds
  <2> QED BY <1>1, <2>2, <2>3, <2>4
<1> QED BY <1>2, <1>3, <1>4, JournalSteps

\* The action property of the run, for every step of every behaviour.
THEOREM JournalNeverTakesBack == Spec => JournalOnlyGrows
<1>1. IInv /\ [Next]_vars =>
        [/\ file'.schemaVersion >= file.schemaVersion
         /\ \A i \in DOMAIN file.entries, j \in DOMAIN file'.entries :
              /\ file.entries[i].finished
              /\ file.entries[i].id = file'.entries[j].id
              => file'.entries[j] = file.entries[i]]_file
  BY JournalGrows
<1> QED BY InductiveInvariant, <1>1, PTL DEF Spec, JournalOnlyGrows

-----------------------------------------------------------------------------
\* Only the rename of its own finish turns an attempt into a saved one, and its
\* outcome stays as it was saved.
LEMMA SavedByRename ==
  ASSUME IInv, [Next]_vars, NEW e \in Deploys
  PROVE  /\ Saved(e)' <=> (Saved(e) \/ (Rename(e) /\ op[e] = "finish"))
         /\ Saved(e)' => outcome'[e] = outcome[e]
<1> USE DEF IInv, TypeOK, ResultIsDecided, Saved
<1>1. ASSUME NEW d \in Deploys, CallBegin(d) \/ CallFinish(d, outcome'[d])
      PROVE  /\ Saved(e)' <=> Saved(e)
             /\ ~Rename(e)
             /\ Saved(e)' => outcome'[e] = outcome[e]
  BY <1>1 DEF CallBegin, CallFinish, Rename, At, Go
<1>2. ASSUME NEW d \in Deploys, TakeLock(d) \/ LockFails(d) \/ Load(d) \/ OpenTemporary(d)
                              \/ WriteTemporary(d) \/ ChangeFails(d)
      PROVE  (Saved(e)' <=> Saved(e)) /\ ~Rename(e) /\ outcome' = outcome
  BY <1>2 DEF TakeLock, LockFails, Load, OpenTemporary, WriteTemporary, ChangeFails, Rename,
              Fails, At, Go, storage
<1>3. ASSUME NEW d \in Deploys, UnlinkTemporary(d) \/ ReleaseLock(d) \/ Crash(d)
      PROVE  (Saved(e)' <=> Saved(e)) /\ ~Rename(e) /\ outcome' = outcome
  BY <1>3 DEF UnlinkTemporary, ReleaseLock, Crash, Rename, At, Go, storage
<1>4. ASSUME NEW d \in Deploys, Rename(d)
      PROVE  /\ Saved(e)' <=> (Saved(e) \/ (Rename(e) /\ op[e] = "finish"))
             /\ outcome' = outcome
  BY <1>4 DEF Rename, At, Go
<1>5. CASE ReviewStorage \/ (\E r \in Readers : ReadStep(r)) \/ UNCHANGED vars
  <2>1. UNCHANGED calls /\ ~Rename(e)
    BY <1>5 DEF ReviewStorage, ReadStep, ReadLock, ReadTemporary, ReadStat, ReadOpen, Rename,
                vars, storage, calls, Go
  <2> QED BY <2>1 DEF calls
<1>6. ASSUME NEW d \in Deploys, NEW o \in Observed, CallFinish(d, o)
      PROVE  CallFinish(d, outcome'[d])
  BY <1>6 DEF CallFinish
<1> QED BY <1>1, <1>2, <1>3, <1>4, <1>5, <1>6 DEF Next, ChangeStep

LEMMA ResultsAreHonestStep ==
  ASSUME IInv, ResultsAreHonest, [Next]_vars
  PROVE  ResultsAreHonest'
<1>1. /\ file \in Journal /\ file.entries \in Seq(Receipt)
      /\ kind \in [Deploys -> Kinds] /\ outcome \in [Deploys -> Outcomes]
  BY DEF IInv, TypeOK, Journal
<1>2. \A i \in DOMAIN file.entries : file.entries[i] \in Receipt /\ file.entries[i].id \in Deploys
  <2>1. ASSUME NEW i \in DOMAIN file.entries
        PROVE  file.entries[i] \in Receipt
    BY <1>1, LenProperties, ElementOfSeq
  <2> QED BY <2>1, ReceiptsAreOfStarts
<1>3. ASSUME UNCHANGED <<file, starts>>, NEW i \in DOMAIN file.entries
      PROVE  HonestReceipt(file.entries[i])'
  <2>0. PICK e \in Deploys : e = file.entries[i].id
    BY <1>2
  <2>1. e \in Deploys /\ HonestReceipt(file.entries[i])
    BY <2>0 DEF ResultsAreHonest
  <2>2. ~(Rename(e) /\ op[e] = "finish")
    <3>1. ASSUME Rename(e), op[e] = "finish"
          PROVE  FALSE
      <4>1. file' = WithResult(file, e, outcome[e]) /\ HasOpenStart(file, e)
        BY <2>1, <3>1 DEF Rename, At, IInv, TypeOK, EditIsCurrent, Edit
      <4>2. PICK k \in DOMAIN file.entries : file.entries[k].id = e /\ ~file.entries[k].finished
        BY <4>1, <2>0 DEF HasOpenStart
      <4>3. Len(file.entries) <= LIMIT
        BY JournalFits DEF IInv
      <4>4. file'.entries[k] = Closed(file.entries[k], outcome[e])
        BY <1>1, <2>1, <4>1, <4>2, <4>3, WithResultProperties
      <4>5. file'.entries[k].finished
        BY <1>2, <4>2, <4>4 DEF Closed, Receipt
      <4> QED BY <1>3, <4>2, <4>5
    <3> QED BY <3>1
  <2>3. /\ Saved(e)' <=> Saved(e)
        /\ Saved(e)' => outcome'[e] = outcome[e]
    BY <2>1, <2>2, SavedByRename DEF Saved
  <2> QED BY <1>3, <2>0, <2>1, <2>3 DEF HonestReceipt, Saved
<1>4. ASSUME NEW d \in Deploys, Rename(d), op[d] = "begin", file' = WithStart(file, d, kind[d]),
             NEW i \in DOMAIN file'.entries
      PROVE  HonestReceipt(file.entries[i])'
  <2>1. \A e \in Deploys : (Saved(e)' <=> Saved(e)) /\ outcome'[e] = outcome[e]
    <3>1. \A e \in Deploys : ~(Rename(e) /\ op[e] = "finish")
      BY <1>4 DEF Rename, At, IInv, TypeOK, LockIsExclusive, Critical, Busy
    <3>2. outcome' = outcome
      BY <1>4 DEF Rename
    <3> QED BY <3>1, <3>2, SavedByRename DEF Saved
  <2>2. \/ file'.entries[i] = NewReceipt(d, kind[d])
        \/ \E k \in DOMAIN file.entries : file'.entries[i] = file.entries[k]
    <3>1. kind[d] \in Kinds /\ i \in DOMAIN WithStart(file, d, kind[d]).entries
      BY <1>1, <1>4
    <3> QED BY <1>1, <1>4, <3>1, WithStartReceipts
  <2>3. CASE file'.entries[i] = NewReceipt(d, kind[d])
    BY <1>4, <2>1, <2>3 DEF NewReceipt, HonestReceipt, Saved
  <2>4. ASSUME NEW k \in DOMAIN file.entries, file'.entries[i] = file.entries[k]
        PROVE  HonestReceipt(file.entries[i])'
    BY <1>2, <2>1, <2>4 DEF ResultsAreHonest, HonestReceipt, Saved
  <2> QED BY <2>2, <2>3, <2>4
<1>5. ASSUME NEW d \in Deploys, Rename(d), op[d] = "finish", HasOpenStart(file, d),
             file' = WithResult(file, d, outcome[d]), NEW i \in DOMAIN file'.entries
      PROVE  HonestReceipt(file.entries[i])'
  <2>1. outcome' = outcome /\ Saved(d)'
    <3>1. outcome' = outcome
      BY <1>5 DEF Rename
    <3> QED BY <1>5, <3>1, SavedByRename DEF Saved
  <2>2. \A e \in Deploys : e # d => (Saved(e)' <=> Saved(e))
    <3>1. \A e \in Deploys : e # d => ~Rename(e)
      BY <1>5 DEF Rename, At, IInv, TypeOK, LockIsExclusive, Critical, Busy
    <3> QED BY <3>1, SavedByRename DEF Saved
  <2>3. Len(file.entries) <= LIMIT
    BY JournalFits DEF IInv
  <2>4. DOMAIN file'.entries = DOMAIN file.entries
    BY <1>1, <1>5, <2>3, WithResultProperties
  <2>5. file'.entries[i] = IF file.entries[i].id = d THEN Closed(file.entries[i], outcome[d])
                           ELSE file.entries[i]
    BY <1>1, <1>5, <2>3, <2>4, WithResultProperties
  <2>6. CASE file.entries[i].id = d
    <3>1. file.entries[i] \in Receipt
      BY <1>2, <1>5, <2>4
    <3>2. /\ file'.entries[i].id = d /\ file'.entries[i].finished = TRUE
          /\ file'.entries[i].outcome = outcome[d]
      BY <2>5, <2>6, <3>1 DEF Closed, Receipt
    <3> QED BY <2>1, <3>2 DEF HonestReceipt, Saved
  <2>7. CASE file.entries[i].id # d
    <3>1. file.entries[i].id \in Deploys /\ HonestReceipt(file.entries[i])
      BY <1>2, <1>5, <2>4 DEF ResultsAreHonest
    <3>2. file'.entries[i] = file.entries[i]
      BY <2>5, <2>7
    <3> QED BY <2>1, <2>2, <2>7, <3>1, <3>2 DEF HonestReceipt, Saved
  <2> QED BY <2>6, <2>7
<1> QED BY <1>3, <1>4, <1>5, JournalSteps DEF ResultsAreHonest

\* A receipt shows a result exactly when its own finish wrote it, and shows the
\* outcome that was observed.
THEOREM ReceiptsAreHonest == Spec => []ResultsAreHonest
<1>1. Init => ResultsAreHonest
  <2>1. EmptyJournal.entries = <<>> /\ DOMAIN EmptyJournal.entries = {}
    BY DEF EmptyJournal
  <2> QED BY <2>1 DEF Init, ResultsAreHonest
<1>2. IInv /\ ResultsAreHonest /\ [Next]_vars => ResultsAreHonest'
  BY ResultsAreHonestStep
<1> QED BY InductiveInvariant, <1>1, <1>2, PTL DEF Spec

-----------------------------------------------------------------------------
(* The refinement of the atomic journal. *)

Phases == [d \in Deploys |-> Phase(d)]

\* The abstract journal is edited by the same operators.
LEMMA SameEdits ==
  ASSUME NEW j, NEW d, NEW k, NEW o
  PROVE  /\ Abstract!EmptyJournal = EmptyJournal
         /\ Abstract!WithStart(j, d, k) = WithStart(j, d, k)
         /\ Abstract!WithResult(j, d, o) = WithResult(j, d, o)
         /\ Abstract!HasOpenStart(j, d) <=> HasOpenStart(j, d)
<1>1. Abstract!EmptyJournal = EmptyJournal
  BY DEF EmptyJournal, Abstract!EmptyJournal
<1>2. Abstract!WithStart(j, d, k) = WithStart(j, d, k)
  BY DEF WithStart, Abstract!WithStart, Rewrite, Abstract!Rewrite, Retain, Abstract!Retain,
         SchemaFor, Abstract!SchemaFor, NewReceipt, Abstract!NewReceipt
<1>3. Abstract!WithResult(j, d, o) = WithResult(j, d, o)
  BY DEF WithResult, Abstract!WithResult, Rewrite, Abstract!Rewrite, Retain, Abstract!Retain,
         SchemaFor, Abstract!SchemaFor, Closed, Abstract!Closed
<1>4. Abstract!HasOpenStart(j, d) <=> HasOpenStart(j, d)
  BY DEF HasOpenStart, Abstract!HasOpenStart
<1> QED BY <1>1, <1>2, <1>3, <1>4

\* What a step does to the phases of the attempts.
LEMMA PhaseSteps ==
  ASSUME IInv, [Next]_vars
  PROVE  \/ Phases' = Phases /\ ~\E d \in Deploys : Rename(d)
         \/ \E d \in Deploys :
              /\ Rename(d)
              /\ op[d] = "begin"
              /\ Phase(d) = "new" /\ Phases' = [Phases EXCEPT ![d] = "begun"]
         \/ \E d \in Deploys :
              /\ Rename(d)
              /\ op[d] = "finish"
              /\ Phase(d) = "started" /\ Phases' = [Phases EXCEPT ![d] = "finished"]
         \/ \E d \in Deploys :
              /\ UNCHANGED <<file, starts>>
              /\ \/ Phase(d) = "begun" /\ Phases' = [Phases EXCEPT ![d] = "started"]
                 \/ Phase(d) = "new" /\ Phases' = [Phases EXCEPT ![d] = "refused"]
                 \/ Phase(d) = "started" /\ Phases' = [Phases EXCEPT ![d] = "unsaved"]
<1> USE DEF IInv, TypeOK, ResultIsDecided, Phase, Phases, Busy
<1>1. ASSUME NEW d \in Deploys, CallBegin(d) \/ TakeLock(d) \/ Load(d) \/ OpenTemporary(d)
                              \/ WriteTemporary(d)
      PROVE  Phases' = Phases /\ ~\E e \in Deploys : Rename(e)
  BY <1>1 DEF CallBegin, TakeLock, Load, OpenTemporary, WriteTemporary, Rename, At, Go, storage
<1>2. ASSUME NEW d \in Deploys, NEW o \in Observed, CallFinish(d, o)
      PROVE  Phases' = Phases /\ ~\E e \in Deploys : Rename(e)
  BY <1>2 DEF CallFinish, Rename, At, Go, storage
<1>3. ASSUME NEW d \in Deploys, ChangeFails(d) \/ UnlinkTemporary(d) \/ Crash(d)
      PROVE  Phases' = Phases /\ ~\E e \in Deploys : Rename(e)
  BY <1>3 DEF ChangeFails, UnlinkTemporary, Crash, Fails, Rename, At, Go, storage
<1>4. ASSUME NEW d \in Deploys, LockFails(d)
      PROVE  /\ UNCHANGED <<file, starts>>
             /\ \/ Phase(d) = "new" /\ Phases' = [Phases EXCEPT ![d] = "refused"]
                \/ Phase(d) = "started" /\ Phases' = [Phases EXCEPT ![d] = "unsaved"]
  BY <1>4 DEF LockFails, Fails, Returned, At, Go, storage
<1>5. ASSUME NEW d \in Deploys, Rename(d)
      PROVE  \/ /\ op[d] = "begin"
                /\ Phase(d) = "new" /\ Phases' = [Phases EXCEPT ![d] = "begun"]
             \/ /\ op[d] = "finish"
                /\ Phase(d) = "started" /\ Phases' = [Phases EXCEPT ![d] = "finished"]
  BY <1>5 DEF Rename, At, Go
<1>6. ASSUME NEW d \in Deploys, ReleaseLock(d)
      PROVE  /\ UNCHANGED <<file, starts>>
             /\ ~\E e \in Deploys : Rename(e)
             /\ \/ Phases' = Phases
                \/ Phase(d) = "begun" /\ Phases' = [Phases EXCEPT ![d] = "started"]
                \/ Phase(d) = "new" /\ Phases' = [Phases EXCEPT ![d] = "refused"]
                \/ Phase(d) = "started" /\ Phases' = [Phases EXCEPT ![d] = "unsaved"]
  BY <1>6 DEF ReleaseLock, Returned, Rename, At, Go
<1>7. CASE ReviewStorage \/ (\E r \in Readers : ReadStep(r)) \/ UNCHANGED vars
  <2>1. UNCHANGED calls /\ ~\E e \in Deploys : Rename(e)
    BY <1>7 DEF ReviewStorage, ReadStep, ReadLock, ReadTemporary, ReadStat, ReadOpen, Rename,
                vars, storage, calls, Go
  <2> QED BY <2>1 DEF calls
<1> QED BY <1>1, <1>2, <1>3, <1>4, <1>5, <1>6, <1>7 DEF Next, ChangeStep

\* The protocol of lock, temporary file and rename implements the journal whose
\* calls take effect at once.
THEOREM HistoryImplementsAtomicJournal == Spec => ImplementsAtomicJournal
<1>1. Init => Abstract!JournalInit
  <2>1. ASSUME Init
        PROVE  Phases = [d \in Deploys |-> "new"]
    BY <2>1 DEF Init, Phases, Phase
  <2> QED BY <2>1, SameEdits DEF Init, Phases, Abstract!JournalInit
<1>2. IInv /\ [Next]_vars => [Abstract!JournalNext]_(Abstract!journalVars)
  <2> SUFFICES ASSUME IInv, [Next]_vars
               PROVE  [Abstract!JournalNext]_(Abstract!journalVars)
    OBVIOUS
  <2>0. kind \in [Deploys -> Kinds] /\ outcome \in [Deploys -> Outcomes]
    BY DEF IInv, TypeOK
  <2>1. CASE Phases' = Phases /\ ~\E d \in Deploys : Rename(d)
    <3>1. UNCHANGED <<file, starts>>
      BY <2>1, JournalSteps
    <3> QED BY <2>1, <3>1 DEF Abstract!journalVars, Phases
  <2>2. ASSUME NEW d \in Deploys, Rename(d), op[d] = "begin", Phase(d) = "new",
               Phases' = [Phases EXCEPT ![d] = "begun"]
        PROVE  Abstract!Begin(d, kind[d])
    <3>1. file' = WithStart(file, d, kind[d]) /\ starts' = Append(starts, d)
      BY <2>2 DEF Rename, At, IInv, TypeOK, EditIsCurrent, Edit
    <3> QED BY <2>2, <3>1, SameEdits DEF Abstract!Begin, Phases
  <2>3. ASSUME NEW d \in Deploys, Rename(d), op[d] = "finish", Phase(d) = "started",
               Phases' = [Phases EXCEPT ![d] = "finished"]
        PROVE  Abstract!Finish(d, outcome[d])
    <3>1. /\ file' = WithResult(file, d, outcome[d])
          /\ HasOpenStart(file, d)
          /\ starts' = starts
      BY <2>3 DEF Rename, At, IInv, TypeOK, EditIsCurrent, Edit
    <3> QED BY <2>3, <3>1, SameEdits DEF Abstract!Finish, Phases
  <2>4. ASSUME NEW d \in Deploys, UNCHANGED <<file, starts>>,
               \/ Phase(d) = "begun" /\ Phases' = [Phases EXCEPT ![d] = "started"]
               \/ Phase(d) = "new" /\ Phases' = [Phases EXCEPT ![d] = "refused"]
               \/ Phase(d) = "started" /\ Phases' = [Phases EXCEPT ![d] = "unsaved"]
        PROVE  Abstract!Acknowledge(d) \/ Abstract!Refuse(d) \/ Abstract!LeaveUnknown(d)
    BY <2>4 DEF Abstract!Acknowledge, Abstract!Refuse, Abstract!LeaveUnknown, Phases
  <2>5. Abstract!Kinds = Kinds /\ Abstract!Outcomes = Outcomes
    BY DEF Kinds, Outcomes, Abstract!Kinds, Abstract!Outcomes
  <2> QED
    BY <2>0, <2>1, <2>2, <2>3, <2>4, <2>5, PhaseSteps DEF Abstract!JournalNext
<1> QED BY InductiveInvariant, <1>1, <1>2, PTL
        DEF Spec, ImplementsAtomicJournal, Abstract!JournalSpec
=============================================================================
