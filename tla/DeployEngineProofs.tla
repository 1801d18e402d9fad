------------------------- MODULE DeployEngineProofs ---------------------------
(***************************************************************************)
(* The inductive invariant of DeployEngine, for any number of deploys,     *)
(* forgettings, destinations and changes and any retention limit, and what *)
(* follows from it.                                                        *)
(***************************************************************************)
EXTENDS DeployEngine, SequenceTheorems, TLAPS

-----------------------------------------------------------------------------
\* What the engine relies on of the journal's value.

\* A sequence given for each index.
LEMMA SeqOfFunction ==
  ASSUME NEW S, NEW n \in Nat, NEW f \in [1..n -> S]
  PROVE  f \in Seq(S) /\ Len(f) = n /\ DOMAIN f = 1..n
  BY SeqDef

\* Retention leaves a sequence within the limit, of elements that were there; it
\* leaves one within the limit as it is.
LEMMA RetainKeeps ==
  ASSUME NEW S, NEW s \in Seq(S)
  PROVE  /\ Retain(s) \in Seq(S) /\ Len(Retain(s)) \in Nat /\ Len(Retain(s)) <= LIMIT
         /\ Len(s) <= LIMIT => Retain(s) = s
         /\ \A i \in DOMAIN Retain(s) : \E j \in DOMAIN s : Retain(s)[i] = s[j]
<1> USE LimitAssumption, LenProperties
<1>1. CASE Len(s) <= LIMIT
  BY <1>1 DEF Retain
<1>2. CASE ~(Len(s) <= LIMIT)
  <2> DEFINE f == [i \in 1..LIMIT |-> s[i + (Len(s) - LIMIT)]]
  <2>1. Retain(s) = f
    BY <1>2 DEF Retain
  <2>2. \A i \in 1..LIMIT : i + (Len(s) - LIMIT) \in 1..Len(s)
    BY <1>2
  <2>3. f \in [1..LIMIT -> S]
    BY <2>2, ElementOfSeq
  <2>4. f \in Seq(S) /\ Len(f) = LIMIT
    BY <2>3, SeqOfFunction
  <2>5. \A i \in DOMAIN f : \E j \in DOMAIN s : f[i] = s[j]
    BY <2>2
  <2> QED BY <1>2, <2>1, <2>4, <2>5
<1> QED BY <1>1, <1>2

\* The schema of a rewritten journal is one of the four.
LEMMA SchemaIsAKind ==
  ASSUME NEW j \in Journal, NEW entries \in Seq(Receipt)
  PROVE  SchemaFor(j, entries) \in Kinds
<1> DEFINE needed == {j.schemaVersion} \cup {entries[i].kind : i \in DOMAIN entries}
<1>1. needed \subseteq Kinds /\ needed \subseteq {1, 2, 3, 4} /\ needed # {}
  <2>1. ASSUME NEW i \in DOMAIN entries PROVE entries[i].kind \in Kinds
    <3>1. i \in 1..Len(entries)
      BY LenProperties
    <3>2. entries[i] \in Receipt
      BY <3>1, ElementOfSeq
    <3> QED BY <3>2 DEF Receipt
  <2> QED BY <2>1 DEF Journal, Kinds
<1>2. SchemaFor(j, entries) = CHOOSE v \in needed : \A k \in needed : k <= v
  BY DEF SchemaFor
<1> HIDE DEF needed
<1>3. \E v \in needed : \A k \in needed : k <= v
  <2>1. CASE 4 \in needed
    BY <1>1, <2>1
  <2>2. CASE 4 \notin needed /\ 3 \in needed
    BY <1>1, <2>2
  <2>3. CASE 4 \notin needed /\ 3 \notin needed /\ 2 \in needed
    BY <1>1, <2>3
  <2>4. CASE 4 \notin needed /\ 3 \notin needed /\ 2 \notin needed
    <3>1. needed = {1}
      BY <1>1, <2>4
    <3> QED BY <3>1
  <2> QED BY <2>1, <2>2, <2>3, <2>4
<1>4. SchemaFor(j, entries) \in needed
  BY <1>2, <1>3
<1> QED BY <1>1, <1>4

\* A rewritten journal is a journal and holds what retention keeps.
LEMMA RewriteKeeps ==
  ASSUME NEW j \in Journal, NEW edited \in Seq(Receipt)
  PROVE  Rewrite(j, edited) \in Journal /\ Rewrite(j, edited).entries = Retain(edited)
<1>1. Retain(edited) \in Seq(Receipt)
  BY RetainKeeps
<1> QED BY <1>1, SchemaIsAKind DEF Rewrite, Journal

\* After a start the journal is within its limit, and each of its receipts is the
\* new one or one of those there were.
LEMMA WithStartKeeps ==
  ASSUME NEW j \in Journal, NEW d \in Deploys, NEW k \in Kinds
  PROVE  /\ WithStart(j, d, k) \in Journal /\ Len(WithStart(j, d, k).entries) <= LIMIT
         /\ \A i \in DOMAIN WithStart(j, d, k).entries :
              \/ WithStart(j, d, k).entries[i] = NewReceipt(d, k)
              \/ \E e \in DOMAIN j.entries : WithStart(j, d, k).entries[i] = j.entries[e]
<1> DEFINE edited == Append(j.entries, NewReceipt(d, k))
<1>1. j.entries \in Seq(Receipt) /\ NewReceipt(d, k) \in Receipt
  BY DEF Journal, NewReceipt, Receipt, Outcomes
<1>2. /\ edited \in Seq(Receipt) /\ Len(edited) = Len(j.entries) + 1
      /\ \A e \in 1..Len(j.entries) : edited[e] = j.entries[e]
      /\ edited[Len(j.entries) + 1] = NewReceipt(d, k)
      /\ DOMAIN edited = 1..Len(edited) /\ DOMAIN j.entries = 1..Len(j.entries) /\ Len(j.entries) \in Nat
  BY <1>1, AppendProperties, LenProperties
<1>3. WithStart(j, d, k) = Rewrite(j, edited)
  BY DEF WithStart
<1> HIDE DEF edited
<1>4. WithStart(j, d, k) \in Journal /\ WithStart(j, d, k).entries = Retain(edited)
  BY <1>2, <1>3, RewriteKeeps
<1>5. Len(Retain(edited)) <= LIMIT /\ \A i \in DOMAIN Retain(edited) : \E e \in DOMAIN edited : Retain(edited)[i] = edited[e]
  BY <1>2, RetainKeeps
<1>6. \A e \in DOMAIN edited : edited[e] = NewReceipt(d, k) \/ \E x \in DOMAIN j.entries : edited[e] = j.entries[x]
  BY <1>2
<1> QED BY <1>4, <1>5, <1>6

\* A result changes the receipts of its attempt alone, in place.
LEMMA WithResultKeeps ==
  ASSUME NEW j \in Journal, NEW d \in Deploys, NEW o \in Outcomes, Len(j.entries) <= LIMIT
  PROVE  /\ WithResult(j, d, o) \in Journal
         /\ DOMAIN WithResult(j, d, o).entries = DOMAIN j.entries
         /\ \A i \in DOMAIN j.entries :
              WithResult(j, d, o).entries[i] =
                IF j.entries[i].id = d THEN Closed(j.entries[i], o) ELSE j.entries[i]
<1> DEFINE edited == [i \in DOMAIN j.entries |->
                        IF j.entries[i].id = d THEN Closed(j.entries[i], o) ELSE j.entries[i]]
<1>1. /\ Len(j.entries) \in Nat /\ DOMAIN j.entries = 1..Len(j.entries)
      /\ \A i \in DOMAIN j.entries : j.entries[i] \in Receipt
  BY LenProperties, ElementOfSeq DEF Journal
<1>2. edited \in [1..Len(j.entries) -> Receipt]
  BY <1>1 DEF Receipt, Closed
<1>3. edited \in Seq(Receipt) /\ Len(edited) = Len(j.entries)
  BY <1>1, <1>2, SeqOfFunction
<1>4. WithResult(j, d, o) = Rewrite(j, edited)
  BY DEF WithResult
<1>5. /\ DOMAIN edited = DOMAIN j.entries
      /\ \A i \in DOMAIN j.entries :
           edited[i] = IF j.entries[i].id = d THEN Closed(j.entries[i], o) ELSE j.entries[i]
  OBVIOUS
<1> HIDE DEF edited
<1>6. Retain(edited) = edited
  BY <1>3, RetainKeeps
<1> QED BY <1>3, <1>4, <1>5, <1>6, RewriteKeeps

-----------------------------------------------------------------------------
\* The state of the engine.

\* A step of a running deploy that leaves what it is bound to, and the world.
LEMMA BoundKept ==
  ASSUME IInv, NEW d \in Deploys,
         pc[d] \in (Before \ {"idle"}) \cup Handing \cup After,
         \A e \in Deploys : e # d => pc'[e] = pc[e],
         UNCHANGED <<bound, placed, dest, version, cred>>
  PROVE  BoundToThePast'
BY DEF IInv, BoundToThePast

\* A deploy that ends.
LEMMA BoundEnds ==
  ASSUME IInv, NEW d \in Deploys,
         pc'[d] \in {"done", "dead"},
         \A e \in Deploys : e # d => pc'[e] = pc[e] /\ bound'[e] = bound[e],
         UNCHANGED <<placed, dest, version, cred>>
  PROVE  BoundToThePast'
BY DEF IInv, BoundToThePast, Before, Handing, After

\* Forgettings and changes of the world leave the deploys and the journal.
LEMMA OthersLeave ==
  ASSUME [Next]_vars
  PROVE  (\E d \in Deploys : Step(d) \/ ToolEnds(d) \/ Die(d)) \/ UNCHANGED <<journalVars, deploys>>
BY DEF Next, vars, ForgetStep, Resolve, ReadExact, ReadSlot, AskForget, DeleteExact, DeleteSlot,
   ChangeProject, ReplaceCredential

\* Of a deploy that ended nothing is asked but that it told the truth.
LEMMA KnownEnds ==
  ASSUME IInv, NEW d \in Deploys,
         pc'[d] = "done",
         \A e \in Deploys : e # d => pc'[e] = pc[e] /\ told'[e] = told[e],
         UNCHANGED <<starts, phase, request, removed, tool, placed>>
  PROVE  StepsAreKnown'
BY DEF IInv, StepsAreKnown, Before, Handing, After, Legacy

LEMMA OutcomeEnds ==
  ASSUME IInv, NEW d \in Deploys,
         pc'[d] = "done",
         \A e \in Deploys : e # d => pc'[e] = pc[e] /\ outcome'[e] = outcome[e],
         UNCHANGED <<request, tool, placed>>
  PROVE  OutcomeIsKnown'
BY DEF IInv, OutcomeIsKnown, Before, Handing, After, Legacy

\* A deploy keeps what it was bound to; only changes make it differ.
LEMMA BoundToThePastStep ==
  ASSUME IInv, [Next]_vars
  PROVE  BoundToThePast'
<1>a. /\ pc \in [Deploys -> Before \cup Handing \cup After \cup {"done", "dead"}]
      /\ bound \in [Deploys -> Basis]
  BY DEF IInv, TypeOK
<1>1. ASSUME NEW d \in Deploys, Call(d)
      PROVE  BoundToThePast'
  <2>1. CASE EndsUntouched(d)
    BY <1>1, <2>1, <1>a, BoundEnds DEF Call, EndsUntouched, Over, Goto, world, effects
  <2>2. CASE ~EndsUntouched(d)
    <3>1. /\ bound' = [bound EXCEPT ![d] = Here]
          /\ \A e \in Deploys : e # d => pc'[e] = pc[e]
          /\ UNCHANGED <<placed, dest, version, cred>>
      BY <1>1, <2>2, <1>a DEF Call, Goto, world, effects
    <3>2. placed[d] = "no"
      BY <1>1 DEF Call, IInv, StepsAreKnown, Before
    <3>3. dest \in Dests /\ version \in Int /\ cred \in Int
      BY EngineAssumption DEF IInv, TypeOK
    <3> QED BY <1>a, <3>1, <3>2, <3>3 DEF IInv, BoundToThePast, Here
  <2> QED BY <2>1, <2>2
<1>2. ASSUME NEW d \in Deploys, ReadTrust(d)
      PROVE  BoundToThePast'
  <2>1. CASE EndsUntouched(d)
    BY <1>2, <2>1, <1>a, BoundEnds DEF ReadTrust, EndsUntouched, Over, Goto, journalVars,
       world, effects
  <2>2. CASE ~EndsUntouched(d)
    BY <1>2, <2>2, <1>a, BoundKept DEF ReadTrust, Goto, journalVars, world, effects, Before,
       Handing, After
  <2> QED BY <2>1, <2>2
<1>3. ASSUME NEW d \in Deploys, Verify(d)
      PROVE  BoundToThePast'
  <2>1. CASE EndsUntouched(d)
    BY <1>3, <2>1, <1>a, BoundEnds DEF Verify, EndsUntouched, Over, Goto, journalVars, world,
       effects
  <2>2. CASE ~EndsUntouched(d)
    BY <1>3, <2>2, <1>a, BoundKept DEF Verify, Continues, Goto, journalVars, world, effects,
       Before, Handing, After
  <2> QED BY <2>1, <2>2
<1>4. ASSUME NEW d \in Deploys, Ask(d)
      PROVE  BoundToThePast'
  <2>1. CASE EndsUntouched(d)
    BY <1>4, <2>1, <1>a, BoundEnds DEF Ask, EndsUntouched, Over, Goto, journalVars, world,
       effects
  <2>2. CASE ~EndsUntouched(d)
    BY <1>4, <2>2, <1>a, BoundKept DEF Ask, Continues, Goto, journalVars, world, effects,
       Before, Handing, After
  <2> QED BY <2>1, <2>2
<1>5. ASSUME NEW d \in Deploys, VerifyApproved(d)
      PROVE  BoundToThePast'
  <2>1. CASE EndsUntouched(d)
    BY <1>5, <2>1, <1>a, BoundEnds DEF VerifyApproved, EndsUntouched, Over, Goto, journalVars,
       world, effects
  <2>2. CASE ~EndsUntouched(d)
    BY <1>5, <2>2, <1>a, BoundKept DEF VerifyApproved, Continues, Goto, journalVars, world,
       effects, Before, Handing, After
  <2> QED BY <2>1, <2>2
<1>6. ASSUME NEW d \in Deploys, BeginHistory(d)
      PROVE  BoundToThePast'
  BY <1>6, <1>a, BoundKept DEF BeginHistory, Begin, Goto, journalVars, world, effects,
       Before, Handing, After
<1>7. ASSUME NEW d \in Deploys, HistoryBegan(d)
      PROVE  BoundToThePast'
  BY <1>7, <1>a, BoundKept DEF HistoryBegan, Acknowledge, Goto, journalVars, world, effects,
       Before, Handing, After
<1>8. ASSUME NEW d \in Deploys, HistoryUnavailable(d)
      PROVE  BoundToThePast'
  BY <1>8 DEF HistoryUnavailable, Refuse, EndsUntouched, Over, Goto, journalVars, world,
     trust, effects, people, IInv, TypeOK, BoundToThePast, StepsAreKnown, Before, Handing,
     After, Basis, Here, Nowhere, Legacy
<1>9. ASSUME NEW d \in Deploys, CheckPrestep(d)
      PROVE  BoundToThePast'
  BY <1>9, <1>a, BoundKept DEF CheckPrestep, Blocked, Settle, Goto, journalVars, world,
       effects, Before, Handing, After
<1>10. ASSUME NEW d \in Deploys, Prestep(d)
      PROVE  BoundToThePast'
  BY <1>10, <1>a, BoundKept DEF Prestep, Settle, Goto, journalVars, world, effects, Before,
       Handing, After
<1>11. ASSUME NEW d \in Deploys, CheckRead(d)
      PROVE  BoundToThePast'
  BY <1>11, <1>a, BoundKept DEF CheckRead, Blocked, Settle, Goto, journalVars, world, effects,
       Before, Handing, After
<1>12. ASSUME NEW d \in Deploys, Spawn(d)
      PROVE  BoundToThePast'
  BY <1>12 DEF Spawn, Goto, journalVars, world, trust, effects, people, IInv, TypeOK,
     BoundToThePast, StepsAreKnown, Before, Handing, After, Basis, Here, Nowhere, Legacy
<1>13. ASSUME NEW d \in Deploys, Hear(d)
      PROVE  BoundToThePast'
  BY <1>13, <1>a, BoundKept DEF Hear, Settle, Goto, journalVars, world, effects, Before,
       Handing, After
<1>14. ASSUME NEW d \in Deploys, Throw(d)
      PROVE  BoundToThePast'
  BY <1>14, <1>a, BoundKept DEF Throw, Settle, Goto, journalVars, world, effects, Before,
       Handing, After
<1>15. ASSUME NEW d \in Deploys, CheckSettled(d)
      PROVE  BoundToThePast'
  BY <1>15, <1>a, BoundKept DEF CheckSettled, Goto, journalVars, world, effects, Before,
       Handing, After
<1>16. ASSUME NEW d \in Deploys, RecordSlot(d)
      PROVE  BoundToThePast'
  <2>1. CASE Answer(d)
    BY <1>16, <2>1, <1>a, BoundEnds DEF RecordSlot, Answer, Over, Goto, journalVars, world,
       effects
  <2>2. CASE ~Answer(d)
    BY <1>16, <2>2, <1>a, BoundKept DEF RecordSlot, Remembered, Continues, Goto, journalVars,
       world, effects, Before, Handing, After
  <2> QED BY <2>1, <2>2
<1>17. ASSUME NEW d \in Deploys, RecordExact(d)
      PROVE  BoundToThePast'
  <2>1. CASE Answer(d)
    BY <1>17, <2>1, <1>a, BoundEnds DEF RecordExact, Answer, Over, Goto, journalVars, world,
       effects
  <2>2. CASE ~Answer(d)
    BY <1>17, <2>2, <1>a, BoundKept DEF RecordExact, Remembered, Continues, Goto, journalVars,
       world, effects, Before, Handing, After
  <2> QED BY <2>1, <2>2
<1>18. ASSUME NEW d \in Deploys, CheckRecorded(d)
      PROVE  BoundToThePast'
  BY <1>18, <1>a, BoundKept DEF CheckRecorded, Goto, journalVars, world, effects, Before,
       Handing, After
<1>19. ASSUME NEW d \in Deploys, FinishHistory(d)
      PROVE  BoundToThePast'
  <2>1. CASE Answer(d)
    BY <1>19, <2>1, <1>a, BoundEnds DEF FinishHistory, Answer, Over, Goto, journalVars, world,
       effects, Finish, LeaveUnknown
  <2>2. CASE ~Answer(d)
    BY <1>19, <2>2, <1>a, BoundKept DEF FinishHistory, Finish, LeaveUnknown, Continues,
       Remembers, Goto, journalVars, world, effects, Before, Handing, After
  <2> QED BY <2>1, <2>2
<1>20. ASSUME NEW d \in Deploys, ToolEnds(d)
      PROVE  BoundToThePast'
  BY <1>20 DEF ToolEnds, journalVars, world, trust, effects, people, IInv, TypeOK,
     BoundToThePast, StepsAreKnown, Before, Handing, After, Basis, Here, Nowhere, Legacy
<1>21. ASSUME NEW d \in Deploys, Die(d)
      PROVE  BoundToThePast'
  BY <1>21 DEF Die, Over, Goto, journalVars, world, trust, effects, people, IInv, TypeOK,
     BoundToThePast, StepsAreKnown, Before, Handing, After, Basis, Here, Nowhere, Legacy
<1>22. ASSUME NEW f \in Forgets, Resolve(f)
      PROVE  BoundToThePast'
  BY <1>22 DEF Resolve, Forgetting, ForgetEnds, journalVars, world, trust, effects, deploys,
     people, IInv, TypeOK, BoundToThePast, StepsAreKnown, Before, Handing, After, Basis,
     Here, Nowhere, Legacy
<1>23. ASSUME NEW f \in Forgets, ReadExact(f)
      PROVE  BoundToThePast'
  BY <1>23 DEF ReadExact, Forgetting, ForgetEnds, journalVars, world, trust, effects,
     deploys, people, IInv, TypeOK, BoundToThePast, StepsAreKnown, Before, Handing, After,
     Basis, Here, Nowhere, Legacy
<1>24. ASSUME NEW f \in Forgets, ReadSlot(f)
      PROVE  BoundToThePast'
  BY <1>24 DEF ReadSlot, Forgetting, ForgetEnds, journalVars, world, trust, effects,
     deploys, people, IInv, TypeOK, BoundToThePast, StepsAreKnown, Before, Handing, After,
     Basis, Here, Nowhere, Legacy
<1>25. ASSUME NEW f \in Forgets, AskForget(f)
      PROVE  BoundToThePast'
  BY <1>25 DEF AskForget, Forgetting, ForgetEnds, journalVars, world, trust, effects,
     deploys, people, IInv, TypeOK, BoundToThePast, StepsAreKnown, Before, Handing, After,
     Basis, Here, Nowhere, Legacy
<1>26. ASSUME NEW f \in Forgets, DeleteExact(f)
      PROVE  BoundToThePast'
  BY <1>26 DEF DeleteExact, Forgetting, ForgetEnds, journalVars, world, trust, effects,
     deploys, people, IInv, TypeOK, BoundToThePast, StepsAreKnown, Before, Handing, After,
     Basis, Here, Nowhere, Legacy
<1>27. ASSUME NEW f \in Forgets, DeleteSlot(f)
      PROVE  BoundToThePast'
  BY <1>27 DEF DeleteSlot, Forgetting, ForgetEnds, journalVars, world, trust, effects,
     deploys, people, IInv, TypeOK, BoundToThePast, StepsAreKnown, Before, Handing, After,
     Basis, Here, Nowhere, Legacy
<1>28. CASE ChangeProject
  BY <1>28 DEF ChangeProject, journalVars, world, trust, effects, deploys, people, IInv,
     TypeOK, BoundToThePast, StepsAreKnown, Before, Handing, After, Basis, Here, Nowhere,
     Legacy
<1>29. CASE ReplaceCredential
  BY <1>29 DEF ReplaceCredential, journalVars, world, trust, effects, deploys, people, IInv,
     TypeOK, BoundToThePast, StepsAreKnown, Before, Handing, After, Basis, Here, Nowhere,
     Legacy
<1>30. CASE UNCHANGED vars
  BY <1>30 DEF vars, journalVars, world, trust, effects, deploys, people, IInv, TypeOK,
     BoundToThePast, StepsAreKnown, Before, Handing, After, Basis, Here, Nowhere, Legacy
<1> QED
  BY <1>1, <1>2, <1>3, <1>4, <1>5, <1>6, <1>7, <1>8, <1>9, <1>10, <1>11, <1>12, <1>13,
     <1>14, <1>15, <1>16, <1>17, <1>18, <1>19, <1>20, <1>21, <1>22, <1>23, <1>24, <1>25,
     <1>26, <1>27, <1>28, <1>29, <1>30 DEF Next, Step, ForgetStep

\* Every step of a deploy has behind it what it says.
LEMMA StepsAreKnownStep ==
  ASSUME IInv, [Next]_vars
  PROVE  StepsAreKnown'
<1>a. /\ pc \in [Deploys -> Before \cup Handing \cup After \cup {"done", "dead"}]
      /\ told \in [Deploys -> {"none", "nothing", "possible"}]
  BY DEF IInv, TypeOK
<1>1. ASSUME NEW d \in Deploys, Call(d)
      PROVE  StepsAreKnown'
  BY <1>1 DEF Call, EndsUntouched, Over, Here, Goto, journalVars, world, trust, effects,
     people, IInv, TypeOK, StepsAreKnown, Before, Handing, After, Legacy, Phases
<1>2. ASSUME NEW d \in Deploys, ReadTrust(d)
      PROVE  StepsAreKnown'
  BY <1>2 DEF ReadTrust, EndsUntouched, Over, Goto, journalVars, world, trust, effects,
     people, IInv, TypeOK, StepsAreKnown, Before, Handing, After, Legacy, Phases
<1>3. ASSUME NEW d \in Deploys, Verify(d)
      PROVE  StepsAreKnown'
  BY <1>3 DEF Verify, EndsUntouched, Over, Continues, Goto, journalVars, world, trust,
     effects, people, IInv, TypeOK, StepsAreKnown, Before, Handing, After, Legacy, Phases
<1>4. ASSUME NEW d \in Deploys, Ask(d)
      PROVE  StepsAreKnown'
  BY <1>4 DEF Ask, EndsUntouched, Over, Continues, Goto, journalVars, world, trust, effects,
     people, IInv, TypeOK, StepsAreKnown, Before, Handing, After, Legacy, Phases
<1>5. ASSUME NEW d \in Deploys, VerifyApproved(d)
      PROVE  StepsAreKnown'
  BY <1>5 DEF VerifyApproved, EndsUntouched, Over, Continues, Goto, journalVars, world,
     trust, effects, people, IInv, TypeOK, StepsAreKnown, Before, Handing, After, Legacy,
     Phases
<1>6. ASSUME NEW d \in Deploys, BeginHistory(d)
      PROVE  StepsAreKnown'
  <2>1. /\ pc' = [pc EXCEPT ![d] = "begun"] /\ phase' = [phase EXCEPT ![d] = "begun"]
        /\ pc[d] = "begin"
        /\ UNCHANGED <<request, removed, tool, placed, told>>
    BY <1>6 DEF BeginHistory, Begin, Goto, effects
  <2>2. \A e \in Deploys : (e = d \/ \E i \in DOMAIN starts : starts[i] = e)
           => \E i \in DOMAIN starts' : starts'[i] = e
    <3>1. starts \in Seq(Deploys) /\ starts' = Append(starts, d)
      BY <1>6 DEF BeginHistory, Begin, IInv, TypeOK
    <3> QED BY <3>1
  <2>3. phase \in [Deploys -> Phases]
    BY DEF IInv, TypeOK
  <2> QED
    BY <2>1, <2>2, <2>3, <1>a DEF IInv, StepsAreKnown, Before, Handing, After, Legacy, Phases
<1>7. ASSUME NEW d \in Deploys, HistoryBegan(d)
      PROVE  StepsAreKnown'
  BY <1>7 DEF HistoryBegan, Acknowledge, Goto, journalVars, world, trust, effects, people,
     IInv, TypeOK, StepsAreKnown, Before, Handing, After, Legacy, Phases
<1>8. ASSUME NEW d \in Deploys, HistoryUnavailable(d)
      PROVE  StepsAreKnown'
  BY <1>8 DEF HistoryUnavailable, Refuse, EndsUntouched, Over, Goto, journalVars, world,
     trust, effects, people, IInv, TypeOK, StepsAreKnown, Before, Handing, After, Legacy,
     Phases
<1>9. ASSUME NEW d \in Deploys, CheckPrestep(d)
      PROVE  StepsAreKnown'
  BY <1>9 DEF CheckPrestep, Blocked, Settle, Goto, journalVars, world, trust, effects,
     people, IInv, TypeOK, StepsAreKnown, Before, Handing, After, Legacy, Phases
<1>10. ASSUME NEW d \in Deploys, Prestep(d)
      PROVE  StepsAreKnown'
  BY <1>10 DEF Prestep, Settle, Goto, journalVars, world, trust, effects, people, IInv,
     TypeOK, StepsAreKnown, Before, Handing, After, Legacy, Phases
<1>11. ASSUME NEW d \in Deploys, CheckRead(d)
      PROVE  StepsAreKnown'
  BY <1>11 DEF CheckRead, Blocked, Settle, Goto, journalVars, world, trust, effects, people,
     IInv, TypeOK, StepsAreKnown, Before, Handing, After, Legacy, Phases
<1>12. ASSUME NEW d \in Deploys, Spawn(d)
      PROVE  StepsAreKnown'
  BY <1>12 DEF Spawn, Goto, journalVars, world, trust, effects, people, IInv, TypeOK,
     StepsAreKnown, Before, Handing, After, Legacy, Phases
<1>13. ASSUME NEW d \in Deploys, Hear(d)
      PROVE  StepsAreKnown'
  BY <1>13 DEF Hear, Settle, Goto, journalVars, world, trust, effects, people, IInv, TypeOK,
     StepsAreKnown, Before, Handing, After, Legacy, Phases
<1>14. ASSUME NEW d \in Deploys, Throw(d)
      PROVE  StepsAreKnown'
  BY <1>14 DEF Throw, Settle, Goto, journalVars, world, trust, effects, people, IInv,
     TypeOK, StepsAreKnown, Before, Handing, After, Legacy, Phases
<1>15. ASSUME NEW d \in Deploys, CheckSettled(d)
      PROVE  StepsAreKnown'
  BY <1>15 DEF CheckSettled, Goto, journalVars, world, trust, effects, people, IInv, TypeOK,
     StepsAreKnown, Before, Handing, After, Legacy, Phases
<1>16. ASSUME NEW d \in Deploys, RecordSlot(d)
      PROVE  StepsAreKnown'
  <2>1. CASE Answer(d)
    BY <1>16, <2>1, <1>a, KnownEnds DEF RecordSlot, Remembered, Answer, Over, Goto, journalVars,
       effects
  <2>2. CASE ~Answer(d)
    <3>1. \/ pc' = [pc EXCEPT ![d] = "recordExact"]
          \/ ~Legacy(d) /\ pc' = [pc EXCEPT ![d] = "recorded"]
      BY <1>16, <2>2 DEF RecordSlot, Remembered, Goto
    <3>2. UNCHANGED <<told, outcome, starts, phase, request, removed, tool, placed>>
      BY <1>16, <2>2 DEF RecordSlot, Remembered, Continues, journalVars, effects
    <3>3. pc[d] = "recordSlot"
      BY <1>16 DEF RecordSlot
    <3> QED
      BY <1>a, <3>1, <3>2, <3>3 DEF IInv, TypeOK, StepsAreKnown, Before, Handing, After,
         Legacy, Phases
  <2> QED BY <2>1, <2>2
<1>17. ASSUME NEW d \in Deploys, RecordExact(d)
      PROVE  StepsAreKnown'
  <2>1. CASE Answer(d)
    BY <1>17, <2>1, <1>a, KnownEnds DEF RecordExact, Remembered, Answer, Over, Goto,
       journalVars, effects
  <2>2. CASE ~Answer(d)
    BY <1>17, <2>2 DEF RecordExact, Remembered, Continues, Goto, journalVars, effects, people,
       trust, world, IInv, TypeOK, StepsAreKnown, Before, Handing, After, Legacy, Phases
  <2> QED BY <2>1, <2>2
<1>18. ASSUME NEW d \in Deploys, CheckRecorded(d)
      PROVE  StepsAreKnown'
  BY <1>18 DEF CheckRecorded, Goto, journalVars, world, trust, effects, people, IInv,
     TypeOK, StepsAreKnown, Before, Handing, After, Legacy, Phases
<1>19. ASSUME NEW d \in Deploys, FinishHistory(d)
      PROVE  StepsAreKnown'
  BY <1>19 DEF FinishHistory, Finish, LeaveUnknown, Answer, Over, Continues, Remembers,
     Goto, journalVars, world, trust, effects, people, IInv, TypeOK, StepsAreKnown, Before,
     Handing, After, Legacy, Phases
<1>20. ASSUME NEW d \in Deploys, ToolEnds(d)
      PROVE  StepsAreKnown'
  BY <1>20 DEF ToolEnds, journalVars, world, trust, effects, people, IInv, TypeOK,
     StepsAreKnown, Before, Handing, After, Legacy, Phases
<1>21. ASSUME NEW d \in Deploys, Die(d)
      PROVE  StepsAreKnown'
  BY <1>21 DEF Die, Over, Goto, journalVars, world, trust, effects, people, IInv, TypeOK,
     StepsAreKnown, Before, Handing, After, Legacy, Phases
<1>22. CASE UNCHANGED <<journalVars, deploys>>
  BY <1>22 DEF IInv, TypeOK, StepsAreKnown, Before, Handing, After, Legacy, Phases,
     journalVars, deploys, effects
<1> QED
  BY OthersLeave, <1>1, <1>2, <1>3, <1>4, <1>5, <1>6, <1>7, <1>8, <1>9, <1>10, <1>11, <1>12,
     <1>13, <1>14, <1>15, <1>16, <1>17, <1>18, <1>19, <1>20, <1>21, <1>22 DEF Next, Step

\* An outcome is chosen from what the tool did.
LEMMA OutcomeIsKnownStep ==
  ASSUME IInv, [Next]_vars
  PROVE  OutcomeIsKnown'
<1>a. /\ pc \in [Deploys -> Before \cup Handing \cup After \cup {"done", "dead"}]
      /\ outcome \in [Deploys -> Outcomes \cup {"none", "changed", "threw"}]
  BY DEF IInv, TypeOK
<1>1. ASSUME NEW d \in Deploys, Call(d)
      PROVE  OutcomeIsKnown'
  BY <1>1 DEF Call, EndsUntouched, Over, Here, Goto, journalVars, world, trust, effects,
     people, IInv, TypeOK, BoundToThePast, StepsAreKnown, OutcomeIsKnown, Before, Handing,
     After, Legacy, Outcomes
<1>2. ASSUME NEW d \in Deploys, ReadTrust(d)
      PROVE  OutcomeIsKnown'
  BY <1>2 DEF ReadTrust, EndsUntouched, Over, Goto, journalVars, world, trust, effects,
     people, IInv, TypeOK, BoundToThePast, StepsAreKnown, OutcomeIsKnown, Before, Handing,
     After, Legacy, Outcomes
<1>3. ASSUME NEW d \in Deploys, Verify(d)
      PROVE  OutcomeIsKnown'
  BY <1>3 DEF Verify, EndsUntouched, Over, Continues, Goto, journalVars, world, trust,
     effects, people, IInv, TypeOK, BoundToThePast, StepsAreKnown, OutcomeIsKnown, Before,
     Handing, After, Legacy, Outcomes
<1>4. ASSUME NEW d \in Deploys, Ask(d)
      PROVE  OutcomeIsKnown'
  BY <1>4 DEF Ask, EndsUntouched, Over, Continues, Goto, journalVars, world, trust, effects,
     people, IInv, TypeOK, BoundToThePast, StepsAreKnown, OutcomeIsKnown, Before, Handing,
     After, Legacy, Outcomes
<1>5. ASSUME NEW d \in Deploys, VerifyApproved(d)
      PROVE  OutcomeIsKnown'
  BY <1>5 DEF VerifyApproved, EndsUntouched, Over, Continues, Goto, journalVars, world,
     trust, effects, people, IInv, TypeOK, BoundToThePast, StepsAreKnown, OutcomeIsKnown,
     Before, Handing, After, Legacy, Outcomes
<1>6. ASSUME NEW d \in Deploys, BeginHistory(d)
      PROVE  OutcomeIsKnown'
  BY <1>6 DEF BeginHistory, Begin, Goto, journalVars, world, trust, effects, people, IInv,
     TypeOK, BoundToThePast, StepsAreKnown, OutcomeIsKnown, Before, Handing, After, Legacy,
     Outcomes
<1>7. ASSUME NEW d \in Deploys, HistoryBegan(d)
      PROVE  OutcomeIsKnown'
  BY <1>7 DEF HistoryBegan, Acknowledge, Goto, journalVars, world, trust, effects, people,
     IInv, TypeOK, BoundToThePast, StepsAreKnown, OutcomeIsKnown, Before, Handing, After,
     Legacy, Outcomes
<1>8. ASSUME NEW d \in Deploys, HistoryUnavailable(d)
      PROVE  OutcomeIsKnown'
  BY <1>8 DEF HistoryUnavailable, Refuse, EndsUntouched, Over, Goto, journalVars, world,
     trust, effects, people, IInv, TypeOK, BoundToThePast, StepsAreKnown, OutcomeIsKnown,
     Before, Handing, After, Legacy, Outcomes
<1>9. ASSUME NEW d \in Deploys, CheckPrestep(d)
      PROVE  OutcomeIsKnown'
  BY <1>9 DEF CheckPrestep, Blocked, Settle, Goto, journalVars, world, trust, effects,
     people, IInv, TypeOK, BoundToThePast, StepsAreKnown, OutcomeIsKnown, Before, Handing,
     After, Legacy, Outcomes
<1>10. ASSUME NEW d \in Deploys, Prestep(d)
      PROVE  OutcomeIsKnown'
  BY <1>10 DEF Prestep, Settle, Goto, journalVars, world, trust, effects, people, IInv,
     TypeOK, BoundToThePast, StepsAreKnown, OutcomeIsKnown, Before, Handing, After, Legacy,
     Outcomes
<1>11. ASSUME NEW d \in Deploys, CheckRead(d)
      PROVE  OutcomeIsKnown'
  BY <1>11 DEF CheckRead, Blocked, Settle, Goto, journalVars, world, trust, effects, people,
     IInv, TypeOK, BoundToThePast, StepsAreKnown, OutcomeIsKnown, Before, Handing, After,
     Legacy, Outcomes
<1>12. ASSUME NEW d \in Deploys, Spawn(d)
      PROVE  OutcomeIsKnown'
  BY <1>12 DEF Spawn, Goto, journalVars, world, trust, effects, people, IInv, TypeOK,
     BoundToThePast, StepsAreKnown, OutcomeIsKnown, Before, Handing, After, Legacy, Outcomes
<1>13. ASSUME NEW d \in Deploys, Hear(d)
      PROVE  OutcomeIsKnown'
  BY <1>13 DEF Hear, Settle, Goto, journalVars, world, trust, effects, people, IInv, TypeOK,
     BoundToThePast, StepsAreKnown, OutcomeIsKnown, Before, Handing, After, Legacy, Outcomes
<1>14. ASSUME NEW d \in Deploys, Throw(d)
      PROVE  OutcomeIsKnown'
  BY <1>14 DEF Throw, Settle, Goto, journalVars, world, trust, effects, people, IInv,
     TypeOK, BoundToThePast, StepsAreKnown, OutcomeIsKnown, Before, Handing, After, Legacy,
     Outcomes
<1>15. ASSUME NEW d \in Deploys, CheckSettled(d)
      PROVE  OutcomeIsKnown'
  <2>1. outcome'[d] = "completed" /\ ~Legacy(d) => tool[d] = "ok" /\ placed[d] = "bound"
    <3>1. SUFFICES ASSUME outcome'[d] = "completed", ~Legacy(d)
                   PROVE  tool[d] = "ok" /\ placed[d] = "bound"
      OBVIOUS
    <3>2. Current(d) /\ outcome' = outcome
      BY <1>15, <3>1, <1>a DEF CheckSettled
    <3>3. tool[d] = "ok" /\ placed[d] # "no"
      BY <1>15, <3>1, <3>2 DEF CheckSettled, IInv, OutcomeIsKnown, StepsAreKnown, After
    <3>4. placed[d] = "other" => bound[d].version < version \/ bound[d].cred < cred
      BY <1>15 DEF CheckSettled, IInv, BoundToThePast, After
    <3>5. version \in Int /\ cred \in Int
      BY EngineAssumption DEF IInv, TypeOK
    <3>6. placed[d] # "other"
      BY <3>1, <3>2, <3>4, <3>5 DEF Current
    <3> QED BY <3>3, <3>6 DEF IInv, TypeOK
  <2>2. ~Legacy(d)
    BY <1>15 DEF CheckSettled, IInv, StepsAreKnown
  <2> QED
    BY <1>15, <2>1, <2>2, <1>a DEF CheckSettled, Goto, effects, IInv, OutcomeIsKnown, After, Legacy
<1>16. ASSUME NEW d \in Deploys, RecordSlot(d)
      PROVE  OutcomeIsKnown'
  <2>1. CASE Answer(d)
    BY <1>16, <2>1, <1>a, OutcomeEnds DEF RecordSlot, Remembered, Answer, Over, Goto,
       journalVars, effects
  <2>2. CASE ~Answer(d)
    <3>1. \/ pc' = [pc EXCEPT ![d] = "recordExact"]
          \/ ~Legacy(d) /\ pc' = [pc EXCEPT ![d] = "recorded"]
      BY <1>16, <2>2 DEF RecordSlot, Remembered, Goto
    <3>2. UNCHANGED <<told, outcome, starts, phase, request, removed, tool, placed>>
      BY <1>16, <2>2 DEF RecordSlot, Remembered, Continues, journalVars, effects
    <3>3. pc[d] = "recordSlot"
      BY <1>16 DEF RecordSlot
    <3> QED
      BY <1>a, <3>1, <3>2, <3>3 DEF IInv, TypeOK, BoundToThePast, StepsAreKnown,
         OutcomeIsKnown, Before, Handing, After, Legacy, Outcomes
  <2> QED BY <2>1, <2>2
<1>17. ASSUME NEW d \in Deploys, RecordExact(d)
      PROVE  OutcomeIsKnown'
  <2>1. CASE Answer(d)
    BY <1>17, <2>1, <1>a, OutcomeEnds DEF RecordExact, Remembered, Answer, Over, Goto,
       journalVars, effects
  <2>2. CASE ~Answer(d)
    BY <1>17, <2>2 DEF RecordExact, Remembered, Continues, Goto, journalVars, effects, people,
       trust, world, IInv, TypeOK, BoundToThePast, StepsAreKnown, OutcomeIsKnown, Before,
       Handing, After, Legacy, Outcomes
  <2> QED BY <2>1, <2>2
<1>18. ASSUME NEW d \in Deploys, CheckRecorded(d)
      PROVE  OutcomeIsKnown'
  BY <1>18 DEF CheckRecorded, Goto, journalVars, world, trust, effects, people, IInv,
     TypeOK, BoundToThePast, StepsAreKnown, OutcomeIsKnown, Before, Handing, After, Legacy,
     Outcomes
<1>19. ASSUME NEW d \in Deploys, FinishHistory(d)
      PROVE  OutcomeIsKnown'
  <2>1. CASE Answer(d)
    BY <1>19, <2>1, <1>a, OutcomeEnds DEF FinishHistory, Finish, LeaveUnknown, Answer, Over,
       Remembers, Goto, journalVars, effects
  <2>2. CASE ~Answer(d)
    BY <1>19, <2>2 DEF FinishHistory, Finish, LeaveUnknown, Continues, Remembers, Goto,
       journalVars, effects, people, trust, world, IInv, TypeOK, BoundToThePast,
       StepsAreKnown, OutcomeIsKnown, Before, Handing, After, Legacy, Outcomes
  <2> QED BY <2>1, <2>2
<1>20. ASSUME NEW d \in Deploys, ToolEnds(d)
      PROVE  OutcomeIsKnown'
  BY <1>20 DEF ToolEnds, journalVars, world, trust, effects, people, IInv, TypeOK,
     BoundToThePast, StepsAreKnown, OutcomeIsKnown, Before, Handing, After, Legacy, Outcomes
<1>21. ASSUME NEW d \in Deploys, Die(d)
      PROVE  OutcomeIsKnown'
  BY <1>21 DEF Die, Over, Goto, journalVars, world, trust, effects, people, IInv, TypeOK,
     BoundToThePast, StepsAreKnown, OutcomeIsKnown, Before, Handing, After, Legacy, Outcomes
<1>22. CASE UNCHANGED <<journalVars, deploys>>
  BY <1>22 DEF IInv, TypeOK, BoundToThePast, StepsAreKnown, OutcomeIsKnown, Before, Handing,
     After, Legacy, Outcomes, journalVars, deploys, effects
<1> QED
  BY OthersLeave, <1>1, <1>2, <1>3, <1>4, <1>5, <1>6, <1>7, <1>8, <1>9, <1>10, <1>11, <1>12,
     <1>13, <1>14, <1>15, <1>16, <1>17, <1>18, <1>19, <1>20, <1>21, <1>22 DEF Next, Step

\* A closed receipt is its deploy's still.
LEMMA ClosedFields ==
  ASSUME NEW r \in Receipt, NEW o \in Outcomes
  PROVE  Closed(r, o).id = r.id /\ Closed(r, o).finished = TRUE /\ Closed(r, o).outcome = o
BY DEF Closed, Receipt

\* What the engine records as a result is one.
LEMMA ResultIsOutcome ==
  ASSUME IInv, NEW d \in Deploys, FinishHistory(d)
  PROVE  Result(d) \in Outcomes
BY DEF FinishHistory, Result, IInv, TypeOK, OutcomeIsKnown, After, Outcomes

\* The journal holds receipts.
LEMMA ReceiptsAreReceipts ==
  ASSUME journal \in Journal
  PROVE  \A i \in DOMAIN journal.entries :
           journal.entries[i] \in Receipt /\ journal.entries[i].id \in Deploys
<1>1. journal.entries \in Seq(Receipt)
  BY DEF Journal
<1>2. \A i \in DOMAIN journal.entries : journal.entries[i] \in Receipt
  BY <1>1, ElementOfSeq, LenProperties
<1> QED BY <1>2 DEF Receipt

\* What a deploy held is not used after it ended.
LEMMA OverTyped ==
  ASSUME TypeOK, NEW d \in Deploys, Over(d)
  PROVE  /\ outcome' \in [Deploys -> Outcomes \cup {"none", "changed", "threw"}]
         /\ bound' \in [Deploys -> Basis]
         /\ human' \in [Deploys -> BOOLEAN]
         /\ owed' \in [Deploys -> BOOLEAN]
<1>1. Nowhere \in Basis
  BY EngineAssumption DEF Nowhere, Basis
<1> QED BY <1>1 DEF Over, TypeOK

\* The journal after a saved result.
LEMMA FinishFits ==
  ASSUME IInv, NEW d \in Deploys, FinishHistory(d), Finish(d, Result(d))
  PROVE  /\ DOMAIN journal'.entries = DOMAIN journal.entries
         /\ Len(journal'.entries) <= LIMIT
         /\ \A i \in DOMAIN journal.entries :
              /\ journal'.entries[i].id = journal.entries[i].id
              /\ IF journal.entries[i].id = d
                 THEN /\ journal'.entries[i].finished = TRUE
                      /\ journal'.entries[i].outcome = Result(d)
                 ELSE journal'.entries[i] = journal.entries[i]
<1> DEFINE o == Result(d)
<1>1. o \in Outcomes
  BY ResultIsOutcome
<1>2. journal' = WithResult(journal, d, o)
  BY DEF Finish
<1>3. journal \in Journal /\ Len(journal.entries) <= LIMIT
  BY DEF IInv, TypeOK, ResultsAreFinished
<1> HIDE DEF o
<1>4. /\ journal' \in Journal
      /\ DOMAIN journal'.entries = DOMAIN journal.entries
      /\ \A i \in DOMAIN journal.entries :
           journal'.entries[i] =
             IF journal.entries[i].id = d THEN Closed(journal.entries[i], o)
                                          ELSE journal.entries[i]
  BY <1>1, <1>2, <1>3, WithResultKeeps
<1>5. journal.entries \in Seq(Receipt) /\ journal'.entries \in Seq(Receipt)
  BY <1>3, <1>4 DEF Journal
<1>6. Len(journal'.entries) = Len(journal.entries)
  BY <1>4, <1>5, LenProperties
<1>7. ASSUME NEW i \in DOMAIN journal.entries
      PROVE  /\ Closed(journal.entries[i], o).id = journal.entries[i].id
             /\ Closed(journal.entries[i], o).finished = TRUE
             /\ Closed(journal.entries[i], o).outcome = o
  <2>1. journal.entries[i] \in Receipt
    BY <1>3, ReceiptsAreReceipts
  <2> QED BY <1>1, <2>1, ClosedFields
<1> QED BY <1>3, <1>4, <1>6, <1>7 DEF o

\* The steps that touch the journal.
LEMMA JournalSteps ==
  ASSUME [Next]_vars
  PROVE  UNCHANGED <<journal, starts, phase>> \/ \E d \in Deploys :
           BeginHistory(d) \/ HistoryBegan(d) \/ HistoryUnavailable(d) \/ FinishHistory(d)
BY OthersLeave DEF Step, Call, ReadTrust, Verify, Ask, VerifyApproved, CheckPrestep,
   Prestep, CheckRead, Spawn, Hear, Throw, CheckSettled, RecordSlot, RecordExact,
   CheckRecorded, ToolEnds, Die, journalVars

\* The steps that touch the tool.
LEMMA ToolSteps ==
  ASSUME [Next]_vars
  PROVE  UNCHANGED <<tool, placed>> \/ \E d \in Deploys :
           Spawn(d) \/ ToolEnds(d)
BY OthersLeave DEF Step, Call, ReadTrust, Verify, Ask, VerifyApproved, BeginHistory,
   HistoryBegan, HistoryUnavailable, CheckPrestep, Prestep, CheckRead, Hear, Throw,
   CheckSettled, RecordSlot, RecordExact, CheckRecorded, FinishHistory, Die, effects,
   deploys

\* The step that removes the existing value.
LEMMA PrestepSteps ==
  ASSUME [Next]_vars
  PROVE  UNCHANGED <<removed>> \/ \E d \in Deploys :
           Prestep(d)
BY OthersLeave DEF Step, Call, ReadTrust, Verify, Ask, VerifyApproved, BeginHistory,
   HistoryBegan, HistoryUnavailable, CheckPrestep, CheckRead, Spawn, Hear, Throw,
   CheckSettled, RecordSlot, RecordExact, CheckRecorded, FinishHistory, ToolEnds, Die,
   effects, deploys

\* A request stays.
LEMMA RequestStays ==
  ASSUME [Next]_vars
  PROVE  UNCHANGED request
BY OthersLeave DEF Step, Call, ReadTrust, Verify, Ask, VerifyApproved, BeginHistory,
   HistoryBegan, HistoryUnavailable, CheckPrestep, Prestep, CheckRead, Spawn, Hear, Throw,
   CheckSettled, RecordSlot, RecordExact, CheckRecorded, FinishHistory, ToolEnds, Die,
   deploys

\* A forgetting that ended remembers nothing.
LEMMA ForgetEndsTyped ==
  ASSUME forget \in [Forgets -> ForgetState], NEW f \in Forgets, ForgetEnds(f)
  PROVE  forget' \in [Forgets -> ForgetState]
BY DEF ForgetState, ForgetEnds, Unasked

\* Every step keeps the types.
LEMMA TypeOKStep ==
  ASSUME IInv, [Next]_vars
  PROVE  TypeOK'
<1>1. ASSUME NEW d \in Deploys, Call(d)
      PROVE  TypeOK'
  <2>1. CASE EndsUntouched(d)
    BY <1>1, <2>1, EngineAssumption, OverTyped DEF Call, EndsUntouched, Goto, journalVars, world,
       trust, effects, people, IInv, TypeOK, Before, Handing, After
  <2>2. CASE ~EndsUntouched(d)
    <3>1. Here \in Basis
      BY DEF IInv, TypeOK, Here, Basis
    <3>2. (dest \in distrusted) \in BOOLEAN /\ request[d].automatic \in BOOLEAN
      BY EngineAssumption DEF IInv, TypeOK, Request
    <3>3. /\ bound' \in [Deploys -> Basis] /\ owed' \in [Deploys -> BOOLEAN]
          /\ human' \in [Deploys -> BOOLEAN] /\ UNCHANGED <<told, outcome>>
      BY <1>1, <2>2, <3>1, <3>2 DEF Call, IInv, TypeOK
    <3> QED
      BY <1>1, <2>2, <3>3 DEF Call, Goto, journalVars, world, trust, effects, people, IInv,
         TypeOK, Before
  <2> QED BY <2>1, <2>2
<1>2. ASSUME NEW d \in Deploys, ReadTrust(d)
      PROVE  TypeOK'
  <2>1. CASE EndsUntouched(d)
    BY <1>2, <2>1, EngineAssumption, OverTyped DEF ReadTrust, EndsUntouched, Goto, journalVars,
       world, trust, effects, people, IInv, TypeOK, Before, Handing, After, Phases, Outcomes
  <2>2. CASE ~EndsUntouched(d)
    BY <1>2, <2>2, EngineAssumption DEF ReadTrust, Goto, journalVars, world, trust, effects,
       people, IInv, TypeOK, Before, Handing, After, Phases, Outcomes
  <2> QED BY <2>1, <2>2
<1>3. ASSUME NEW d \in Deploys, Verify(d)
      PROVE  TypeOK'
  <2>1. CASE EndsUntouched(d)
    BY <1>3, <2>1, EngineAssumption, OverTyped DEF Verify, EndsUntouched, Goto, journalVars,
       world, trust, effects, people, IInv, TypeOK, Before, Handing, After, Phases, Outcomes
  <2>2. CASE ~EndsUntouched(d)
    BY <1>3, <2>2, EngineAssumption DEF Verify, Continues, Goto, journalVars, world, trust,
       effects, people, IInv, TypeOK, Before, Handing, After, Phases, Outcomes
  <2> QED BY <2>1, <2>2
<1>4. ASSUME NEW d \in Deploys, Ask(d)
      PROVE  TypeOK'
  <2>0. bound[d].dest \in Dests
    BY <1>4 DEF Ask, IInv, BoundToThePast, Before, After
  <2>1. CASE EndsUntouched(d)
    BY <1>4, <2>1, EngineAssumption, OverTyped, <2>0 DEF Ask, EndsUntouched, Goto, journalVars,
       world, trust, effects, people, IInv, TypeOK, Before, Handing, After, Phases, Outcomes
  <2>2. CASE ~EndsUntouched(d)
    BY <1>4, <2>2, EngineAssumption, <2>0 DEF Ask, Continues, Goto, journalVars, world, trust,
       effects, people, IInv, TypeOK, Before, Handing, After, Phases, Outcomes
  <2> QED BY <2>1, <2>2
<1>5. ASSUME NEW d \in Deploys, VerifyApproved(d)
      PROVE  TypeOK'
  <2>1. CASE EndsUntouched(d)
    BY <1>5, <2>1, EngineAssumption, OverTyped DEF VerifyApproved, EndsUntouched, Goto,
       journalVars, world, trust, effects, people, IInv, TypeOK, Before, Handing, After,
       Phases, Outcomes
  <2>2. CASE ~EndsUntouched(d)
    BY <1>5, <2>2, EngineAssumption DEF VerifyApproved, Continues, Goto, journalVars, world,
       trust, effects, people, IInv, TypeOK, Before, Handing, After, Phases, Outcomes
  <2> QED BY <2>1, <2>2
<1>6. ASSUME NEW d \in Deploys, BeginHistory(d)
      PROVE  TypeOK'
  <2>1. journal' \in Journal
    <3>1. ReceiptKind[request[d].kind] \in Kinds
      BY EngineAssumption DEF IInv, TypeOK, Request, ReceiptKind, Kinds
    <3> QED BY <1>6, <3>1, WithStartKeeps DEF BeginHistory, Begin, IInv, TypeOK
  <2>2. starts' \in Seq(Deploys)
    <3>1. starts \in Seq(Deploys) /\ starts' = Append(starts, d)
      BY <1>6 DEF BeginHistory, Begin, IInv, TypeOK
    <3> QED BY <3>1
  <2> QED
    BY <1>6, <2>1, <2>2 DEF BeginHistory, Begin, Goto, world, trust, effects, people, IInv, TypeOK,
       Before, Handing, After, Phases
<1>7. ASSUME NEW d \in Deploys, HistoryBegan(d)
      PROVE  TypeOK'
  BY <1>7, EngineAssumption DEF HistoryBegan, Acknowledge, Goto, journalVars, world, trust,
     effects, people, IInv, TypeOK, Before, Handing, After, Phases, Outcomes
<1>8. ASSUME NEW d \in Deploys, HistoryUnavailable(d)
      PROVE  TypeOK'
  <2>1. CASE EndsUntouched(d)
    BY <1>8, <2>1, EngineAssumption, OverTyped DEF HistoryUnavailable, Refuse, EndsUntouched,
       Goto, journalVars, world, trust, effects, people, IInv, TypeOK, Before, Handing,
       After, Phases, Outcomes
  <2>2. CASE ~EndsUntouched(d)
    BY <1>8, <2>2, EngineAssumption DEF HistoryUnavailable, Refuse, Goto, journalVars, world,
       trust, effects, people, IInv, TypeOK, Before, Handing, After, Phases, Outcomes
  <2> QED BY <2>1, <2>2
<1>9. ASSUME NEW d \in Deploys, CheckPrestep(d)
      PROVE  TypeOK'
  BY <1>9, EngineAssumption DEF CheckPrestep, Blocked, Settle, Goto, journalVars, world,
     trust, effects, people, IInv, TypeOK, Before, Handing, After, Phases, Outcomes
<1>10. ASSUME NEW d \in Deploys, Prestep(d)
      PROVE  TypeOK'
  BY <1>10, EngineAssumption DEF Prestep, Settle, Goto, journalVars, world, trust, effects,
     people, IInv, TypeOK, Before, Handing, After, Phases, Outcomes
<1>11. ASSUME NEW d \in Deploys, CheckRead(d)
      PROVE  TypeOK'
  BY <1>11, EngineAssumption DEF CheckRead, Blocked, Settle, Goto, journalVars, world,
     trust, effects, people, IInv, TypeOK, Before, Handing, After, Phases, Outcomes
<1>12. ASSUME NEW d \in Deploys, Spawn(d)
      PROVE  TypeOK'
  BY <1>12, EngineAssumption DEF Spawn, Goto, journalVars, world, trust, effects, people,
     IInv, TypeOK, Before, Handing, After, Phases, Outcomes
<1>13. ASSUME NEW d \in Deploys, Hear(d)
      PROVE  TypeOK'
  BY <1>13, EngineAssumption DEF Hear, Settle, Goto, journalVars, world, trust, effects,
     people, IInv, TypeOK, Before, Handing, After, Phases, Outcomes
<1>14. ASSUME NEW d \in Deploys, Throw(d)
      PROVE  TypeOK'
  BY <1>14, EngineAssumption DEF Throw, Settle, Goto, journalVars, world, trust, effects,
     people, IInv, TypeOK, Before, Handing, After, Phases, Outcomes
<1>15. ASSUME NEW d \in Deploys, CheckSettled(d)
      PROVE  TypeOK'
  BY <1>15, EngineAssumption DEF CheckSettled, Goto, journalVars, world, trust, effects,
     people, IInv, TypeOK, Before, Handing, After, Phases, Outcomes
<1>16. ASSUME NEW d \in Deploys, RecordSlot(d)
      PROVE  TypeOK'
  <2>1. CASE Answer(d)
    BY <1>16, <2>1, EngineAssumption, OverTyped DEF RecordSlot, Remembered, Answer, Goto,
       journalVars, world, trust, effects, people, IInv, TypeOK, Before, Handing, After,
       Phases, Outcomes
  <2>2. CASE ~Answer(d)
    BY <1>16, <2>2, EngineAssumption DEF RecordSlot, Remembered, Continues, Goto, journalVars,
       world, trust, effects, people, IInv, TypeOK, Before, Handing, After, Phases, Outcomes
  <2> QED BY <2>1, <2>2
<1>17. ASSUME NEW d \in Deploys, RecordExact(d)
      PROVE  TypeOK'
  <2>0. bound[d].dest \in Dests
    BY <1>17 DEF RecordExact, IInv, BoundToThePast, Before, After
  <2>1. CASE Answer(d)
    BY <1>17, <2>1, EngineAssumption, OverTyped, <2>0 DEF RecordExact, Remembered, Answer, Goto,
       journalVars, world, trust, effects, people, IInv, TypeOK, Before, Handing, After,
       Phases, Outcomes
  <2>2. CASE ~Answer(d)
    BY <1>17, <2>2, EngineAssumption, <2>0 DEF RecordExact, Remembered, Continues, Goto,
       journalVars, world, trust, effects, people, IInv, TypeOK, Before, Handing, After,
       Phases, Outcomes
  <2> QED BY <2>1, <2>2
<1>18. ASSUME NEW d \in Deploys, CheckRecorded(d)
      PROVE  TypeOK'
  BY <1>18, EngineAssumption DEF CheckRecorded, Goto, journalVars, world, trust, effects,
     people, IInv, TypeOK, Before, Handing, After, Phases, Outcomes
<1>19. ASSUME NEW d \in Deploys, FinishHistory(d)
      PROVE  TypeOK'
  <2>1. Result(d) \in Outcomes
    BY <1>19 DEF FinishHistory, Result, IInv, TypeOK, OutcomeIsKnown, After, Outcomes
  <2>2. journal' \in Journal
    <3>1. CASE Finish(d, Result(d))
      <4>1. journal \in Journal /\ Len(journal.entries) <= LIMIT
        BY DEF IInv, TypeOK, ResultsAreFinished
      <4>2. journal' = WithResult(journal, d, Result(d))
        BY <3>1 DEF Finish
      <4> QED BY <2>1, <4>1, <4>2, WithResultKeeps
    <3>2. CASE LeaveUnknown(d)
      BY <3>2 DEF LeaveUnknown, IInv, TypeOK
    <3> QED BY <1>19, <3>1, <3>2 DEF FinishHistory
  <2>3. phase' \in [Deploys -> Phases] /\ starts' = starts
    BY <1>19 DEF FinishHistory, Finish, LeaveUnknown, IInv, TypeOK, Phases
  <2>4. CASE Answer(d)
    BY <1>19, <2>2, <2>3, <2>4, OverTyped DEF FinishHistory, Answer, Goto, world, trust, effects,
       people, IInv, TypeOK, Before, Handing, After
  <2>5. CASE ~Answer(d)
    BY <1>19, <2>2, <2>3, <2>5 DEF FinishHistory, Continues, Goto, world, trust, effects, people,
       IInv, TypeOK, Before, Handing, After
  <2> QED BY <2>4, <2>5
<1>20. ASSUME NEW d \in Deploys, ToolEnds(d)
      PROVE  TypeOK'
  BY <1>20, EngineAssumption DEF ToolEnds, journalVars, world, trust, effects, people, IInv,
     TypeOK, Before, Handing, After, Phases, Outcomes
<1>21. ASSUME NEW d \in Deploys, Die(d)
      PROVE  TypeOK'
  BY <1>21, EngineAssumption DEF Die, Over, Goto, journalVars, world, trust, effects,
     people, Basis, Nowhere, IInv, TypeOK, Before, Handing, After, Phases, Outcomes
<1>22. ASSUME NEW f \in Forgets, Resolve(f)
      PROVE  TypeOK'
  <2>0. forget \in [Forgets -> ForgetState] /\ dest \in Dests /\ slot \in BOOLEAN
    BY DEF IInv, TypeOK
  <2>1. forget' \in [Forgets -> ForgetState]
    <3>1. PICK d \in {dest, None} :
            forget' = [forget EXCEPT ![f].at = "readExact", ![f].dest = d]
      BY <1>22 DEF Resolve
    <3>2. d \in Dests \cup {None}
      BY <2>0
    <3> QED BY <2>0, <3>1, <3>2 DEF ForgetState
  <2> QED
    BY <1>22, <2>1 DEF Resolve, journalVars, world, trust, effects, deploys, people, IInv,
       TypeOK
<1>23. ASSUME NEW f \in Forgets, ReadExact(f)
      PROVE  TypeOK'
  <2>0. forget \in [Forgets -> ForgetState] /\ dest \in Dests /\ slot \in BOOLEAN
    BY DEF IInv, TypeOK
  <2>1. forget' \in [Forgets -> ForgetState]
    <3>1. CASE forget' = [forget EXCEPT ![f].at = "readSlot", ![f].exact = forget[f].dest \in exact]
      <4> DEFINE seen == forget[f].dest \in exact
      <4>1. seen \in BOOLEAN
        OBVIOUS
      <4>2. forget' = [forget EXCEPT ![f].at = "readSlot", ![f].exact = seen]
        BY <3>1
      <4> HIDE DEF seen
      <4> QED BY <2>0, <4>1, <4>2 DEF ForgetState
    <3> QED BY <1>23, <3>1 DEF ReadExact
  <2> QED
    BY <1>23, <2>1 DEF ReadExact, journalVars, world, trust, effects, deploys, people, IInv,
       TypeOK
<1>24. ASSUME NEW f \in Forgets, ReadSlot(f)
      PROVE  TypeOK'
  <2>0. forget \in [Forgets -> ForgetState] /\ dest \in Dests /\ slot \in BOOLEAN
    BY DEF IInv, TypeOK
  <2>1. forget' \in [Forgets -> ForgetState]
    <3>1. CASE forget' = [forget EXCEPT ![f].at = "ask", ![f].slot = slot]
      BY <2>0, <3>1 DEF ForgetState
    <3>2. CASE ForgetEnds(f)
      BY <2>0, <3>2, ForgetEndsTyped
    <3> QED BY <1>24, <3>1, <3>2 DEF ReadSlot
  <2> QED
    BY <1>24, <2>1 DEF ReadSlot, journalVars, world, trust, effects, deploys, people, IInv,
       TypeOK
<1>25. ASSUME NEW f \in Forgets, AskForget(f)
      PROVE  TypeOK'
  <2>0. forget \in [Forgets -> ForgetState] /\ dest \in Dests /\ slot \in BOOLEAN
    BY DEF IInv, TypeOK
  <2>1. forget' \in [Forgets -> ForgetState]
    <3>1. CASE forget' = [forget EXCEPT ![f].at = "deleteExact"]
      BY <2>0, <3>1 DEF ForgetState
    <3>2. CASE forget' = [forget EXCEPT ![f].at = "deleteSlot"]
      BY <2>0, <3>2 DEF ForgetState
    <3>3. CASE ForgetEnds(f)
      BY <2>0, <3>3, ForgetEndsTyped
    <3> QED BY <1>25, <3>1, <3>2, <3>3 DEF AskForget
  <2> QED
    BY <1>25, <2>1 DEF AskForget, journalVars, world, trust, effects, deploys, people, IInv,
       TypeOK
<1>26. ASSUME NEW f \in Forgets, DeleteExact(f)
      PROVE  TypeOK'
  <2>0. forget \in [Forgets -> ForgetState] /\ dest \in Dests /\ slot \in BOOLEAN
    BY DEF IInv, TypeOK
  <2>1. forget' \in [Forgets -> ForgetState]
    <3>1. CASE forget' = [forget EXCEPT ![f].at = "deleteSlot"]
      BY <2>0, <3>1 DEF ForgetState
    <3>2. CASE ForgetEnds(f)
      BY <2>0, <3>2, ForgetEndsTyped
    <3> QED BY <1>26, <3>1, <3>2 DEF DeleteExact
  <2> QED
    BY <1>26, <2>1 DEF DeleteExact, journalVars, world, trust, effects, deploys, people, IInv,
       TypeOK
<1>27. ASSUME NEW f \in Forgets, DeleteSlot(f)
      PROVE  TypeOK'
  <2>0. forget \in [Forgets -> ForgetState] /\ dest \in Dests /\ slot \in BOOLEAN
    BY DEF IInv, TypeOK
  <2>1. forget' \in [Forgets -> ForgetState]
    <3>1. CASE ForgetEnds(f)
      BY <2>0, <3>1, ForgetEndsTyped
    <3> QED BY <1>27, <3>1 DEF DeleteSlot
  <2>2. forget[f].dest \in Dests \cup {None}
    BY <2>0 DEF ForgetState
  <2> QED
    BY <1>27, <2>1, <2>2 DEF DeleteSlot, journalVars, world, trust, effects, deploys, people,
       IInv, TypeOK
<1>28. CASE ChangeProject
  BY <1>28, EngineAssumption DEF ChangeProject, journalVars, world, trust, effects, deploys,
     people, Basis, IInv, TypeOK, Before, Handing, After, Phases, Outcomes
<1>29. CASE ReplaceCredential
  BY <1>29, EngineAssumption DEF ReplaceCredential, journalVars, world, trust, effects,
     deploys, people, Basis, IInv, TypeOK, Before, Handing, After, Phases, Outcomes
<1>30. CASE UNCHANGED vars
  BY <1>30 DEF vars, journalVars, world, trust, effects, deploys, people, IInv, TypeOK,
     Before, Handing, After, Phases, Outcomes
<1> QED
  BY <1>1, <1>2, <1>3, <1>4, <1>5, <1>6, <1>7, <1>8, <1>9, <1>10, <1>11, <1>12, <1>13,
     <1>14, <1>15, <1>16, <1>17, <1>18, <1>19, <1>20, <1>21, <1>22, <1>23, <1>24, <1>25,
     <1>26, <1>27, <1>28, <1>29, <1>30 DEF Next, Step, ForgetStep

\* A receipt gets its result with its deploy's finish.
LEMMA ResultsAreFinishedStep ==
  ASSUME IInv, [Next]_vars
  PROVE  ResultsAreFinished'
<1>1. \/ UNCHANGED <<journal, phase>>
      \/ \E d \in Deploys : BeginHistory(d) \/ HistoryBegan(d) \/ HistoryUnavailable(d) \/
           FinishHistory(d)
  BY JournalSteps
<1>2. CASE UNCHANGED <<journal, phase>>
  BY <1>2 DEF IInv, TypeOK, ResultsAreFinished
<1>3. ASSUME NEW d \in Deploys, BeginHistory(d)
      PROVE  ResultsAreFinished'
  <2>1. journal \in Journal /\ phase \in [Deploys -> Phases] /\ phase[d] = "new"
    BY <1>3 DEF BeginHistory, Begin, IInv, TypeOK
  <2>2. ReceiptKind[request[d].kind] \in Kinds
    BY EngineAssumption DEF IInv, TypeOK, Request, ReceiptKind, Kinds
  <2>3. /\ journal' = WithStart(journal, d, ReceiptKind[request[d].kind])
        /\ phase' = [phase EXCEPT ![d] = "begun"]
    BY <1>3 DEF BeginHistory, Begin
  <2>4. Len(journal'.entries) <= LIMIT
    BY <2>1, <2>2, <2>3, WithStartKeeps
  <2>5. ASSUME NEW i \in DOMAIN journal'.entries
        PROVE  \/ journal'.entries[i] = NewReceipt(d, ReceiptKind[request[d].kind])
               \/ \E j \in DOMAIN journal.entries : journal'.entries[i] = journal.entries[j]
    BY <2>1, <2>2, <2>3, WithStartKeeps
  <2>6. \A j \in DOMAIN journal.entries : journal.entries[j].id \in Deploys
    BY <2>1, ReceiptsAreReceipts
  <2>7. ASSUME NEW i \in DOMAIN journal'.entries
        PROVE  /\ journal'.entries[i].outcome # "unknown" => journal'.entries[i].finished
               /\ journal'.entries[i].finished => phase'[journal'.entries[i].id] = "finished"
    BY <2>1, <2>3, <2>5, <2>6 DEF IInv, ResultsAreFinished, NewReceipt
  <2> QED BY <2>4, <2>7 DEF ResultsAreFinished
<1>4. ASSUME NEW d \in Deploys, HistoryBegan(d)
      PROVE  ResultsAreFinished'
  BY <1>4 DEF HistoryBegan, Acknowledge, Goto, journalVars, world, trust, effects, people,
     IInv, TypeOK, ResultsAreFinished
<1>5. ASSUME NEW d \in Deploys, HistoryUnavailable(d)
      PROVE  ResultsAreFinished'
  <2>1. /\ journal' = journal
        /\ phase' = phase \/ (phase[d] = "new" /\ phase' = [phase EXCEPT ![d] = "refused"])
    BY <1>5 DEF HistoryUnavailable, Refuse, journalVars
  <2>2. phase \in [Deploys -> Phases]
        /\ \A i \in DOMAIN journal.entries : journal.entries[i].id \in Deploys
    BY ReceiptsAreReceipts DEF IInv, TypeOK
  <2> QED BY <2>1, <2>2 DEF IInv, ResultsAreFinished
<1>6. ASSUME NEW d \in Deploys, FinishHistory(d)
      PROVE  ResultsAreFinished'
  <2>1. CASE Finish(d, Result(d))
    <3>1. /\ DOMAIN journal'.entries = DOMAIN journal.entries
          /\ Len(journal'.entries) <= LIMIT
          /\ \A i \in DOMAIN journal.entries :
               /\ journal'.entries[i].id = journal.entries[i].id
               /\ \/ journal.entries[i].id = d /\ journal'.entries[i].finished
                  \/ journal'.entries[i] = journal.entries[i]
      BY <1>6, <2>1, FinishFits
    <3>2. phase \in [Deploys -> Phases] /\ phase' = [phase EXCEPT ![d] = "finished"]
      BY <2>1 DEF Finish, IInv, TypeOK
    <3>3. \A i \in DOMAIN journal.entries : journal.entries[i].id \in Deploys
      BY ReceiptsAreReceipts DEF IInv, TypeOK
    <3>4. ASSUME NEW i \in DOMAIN journal'.entries
          PROVE  /\ journal'.entries[i].outcome # "unknown" => journal'.entries[i].finished
                 /\ journal'.entries[i].finished => phase'[journal'.entries[i].id] = "finished"
      BY <3>1, <3>2, <3>3 DEF IInv, ResultsAreFinished
    <3> QED BY <3>1, <3>4 DEF ResultsAreFinished
  <2>2. CASE LeaveUnknown(d)
    <3>1. /\ UNCHANGED journal /\ phase[d] = "started"
          /\ phase' = [phase EXCEPT ![d] = "unsaved"]
      BY <2>2 DEF LeaveUnknown
    <3>2. \A i \in DOMAIN journal.entries : journal.entries[i].id \in Deploys
      BY ReceiptsAreReceipts DEF IInv, TypeOK
    <3> QED BY <3>1, <3>2 DEF IInv, ResultsAreFinished, TypeOK
  <2> QED BY <1>6, <2>1, <2>2 DEF FinishHistory
<1> QED BY <1>1, <1>2, <1>3, <1>4, <1>5, <1>6

\* A result agrees with the tool when it is written, and the tool's end is final.
LEMMA JournalIsHonestStep ==
  ASSUME IInv, [Next]_vars
  PROVE  JournalIsHonest'
<1>1. \/ UNCHANGED <<journal, request, tool, placed>>
      \/ \E d \in Deploys : BeginHistory(d) \/ HistoryBegan(d) \/ HistoryUnavailable(d) \/
           FinishHistory(d) \/ Spawn(d) \/ ToolEnds(d)
  BY JournalSteps, ToolSteps, RequestStays
<1>2. CASE UNCHANGED <<journal, request, tool, placed>>
  BY <1>2 DEF IInv, JournalIsHonest, ResultIsHonest, Legacy
<1>3. ASSUME NEW d \in Deploys, BeginHistory(d)
      PROVE  JournalIsHonest'
  <2>1. journal \in Journal
    BY DEF IInv, TypeOK
  <2>2. ReceiptKind[request[d].kind] \in Kinds
    BY EngineAssumption DEF IInv, TypeOK, Request, ReceiptKind, Kinds
  <2>3. /\ journal' = WithStart(journal, d, ReceiptKind[request[d].kind])
        /\ UNCHANGED <<tool, placed, request>>
    BY <1>3 DEF BeginHistory, Begin, effects
  <2>4. ASSUME NEW i \in DOMAIN journal'.entries
        PROVE  \/ journal'.entries[i] = NewReceipt(d, ReceiptKind[request[d].kind])
               \/ \E j \in DOMAIN journal.entries : journal'.entries[i] = journal.entries[j]
    BY <2>1, <2>2, <2>3, WithStartKeeps
  <2> QED BY <2>3, <2>4 DEF IInv, JournalIsHonest, ResultIsHonest, NewReceipt, Legacy
<1>4. ASSUME NEW d \in Deploys, HistoryBegan(d)
      PROVE  JournalIsHonest'
  BY <1>4 DEF HistoryBegan, Acknowledge, Goto, journalVars, world, trust, effects, people,
     IInv, JournalIsHonest, ResultIsHonest, Legacy
<1>5. ASSUME NEW d \in Deploys, HistoryUnavailable(d)
      PROVE  JournalIsHonest'
  BY <1>5 DEF HistoryUnavailable, Refuse, EndsUntouched, Over, Goto, journalVars, world,
     trust, effects, people, IInv, JournalIsHonest, ResultIsHonest, Legacy
<1>6. ASSUME NEW d \in Deploys, FinishHistory(d)
      PROVE  JournalIsHonest'
  <2>1. UNCHANGED <<tool, placed, request>>
    BY <1>6 DEF FinishHistory, effects
  <2>2. CASE Finish(d, Result(d))
    <3>1. /\ DOMAIN journal'.entries = DOMAIN journal.entries
          /\ \A i \in DOMAIN journal.entries :
               /\ journal'.entries[i].id = journal.entries[i].id
               /\ \/ /\ journal.entries[i].id = d
                     /\ journal'.entries[i].outcome = Result(d)
                  \/ journal'.entries[i] = journal.entries[i]
      BY <1>6, <2>2, FinishFits
    <3>2. /\ Result(d) = "completed" =>
                tool[d] = "ok" /\ (~Legacy(d) => placed[d] = "bound")
          /\ Result(d) = "incomplete" => tool[d] \in {"none", "failed"}
      BY <1>6 DEF FinishHistory, Result, IInv, OutcomeIsKnown, After
    <3> QED
      BY <2>1, <3>1, <3>2 DEF IInv, JournalIsHonest, ResultIsHonest, Legacy
  <2>3. CASE LeaveUnknown(d)
    BY <2>1, <2>3 DEF LeaveUnknown, IInv, JournalIsHonest, ResultIsHonest, Legacy
  <2> QED BY <1>6, <2>2, <2>3 DEF FinishHistory
<1>7. ASSUME NEW d \in Deploys, Spawn(d)
      PROVE  JournalIsHonest'
  <2>1. phase[d] = "started" /\ tool \in [Deploys -> {"none", "running", "ok", "failed"}]
    BY <1>7 DEF Spawn, IInv, StepsAreKnown, TypeOK, Handing
  <2>2. /\ \A e \in Deploys : e # d => tool'[e] = tool[e] /\ placed'[e] = placed[e]
        /\ UNCHANGED <<journal, request>>
    BY <1>7 DEF Spawn, journalVars, IInv, TypeOK
  <2>3. \A i \in DOMAIN journal.entries : journal.entries[i].id \in Deploys
    BY ReceiptsAreReceipts DEF IInv, TypeOK
  <2>4. ASSUME NEW i \in DOMAIN journal.entries, journal.entries[i].id = d
        PROVE  journal.entries[i].outcome = "unknown"
    BY <2>1, <2>4 DEF IInv, ResultsAreFinished
  <2> QED BY <2>2, <2>3, <2>4 DEF IInv, JournalIsHonest, ResultIsHonest, Legacy
<1>8. ASSUME NEW d \in Deploys, ToolEnds(d)
      PROVE  JournalIsHonest'
  <2>1. /\ \A e \in Deploys : e # d => tool'[e] = tool[e]
        /\ UNCHANGED <<journal, request, placed>>
    BY <1>8 DEF ToolEnds, journalVars, IInv, TypeOK
  <2>2. \A i \in DOMAIN journal.entries : journal.entries[i].id \in Deploys
    BY ReceiptsAreReceipts DEF IInv, TypeOK
  <2> QED BY <1>8, <2>1, <2>2 DEF ToolEnds, IInv, JournalIsHonest, ResultIsHonest, Legacy
<1> QED BY <1>1, <1>2, <1>3, <1>4, <1>5, <1>6, <1>7, <1>8

\* Only an approved destination is recorded.
LEMMA TrustIsHumanStep ==
  ASSUME IInv, [Next]_vars
  PROVE  TrustIsHuman'
<1>1. \/ UNCHANGED <<exact, confirmed>>
      \/ \E d \in Deploys : Ask(d) \/ RecordExact(d)
      \/ \E f \in Forgets : DeleteExact(f)
  BY DEF Next, Step, Call, ReadTrust, Verify, VerifyApproved, BeginHistory, HistoryBegan,
     HistoryUnavailable, CheckPrestep, Prestep, CheckRead, Spawn, Hear, Throw, CheckSettled,
     RecordSlot, CheckRecorded, FinishHistory, ToolEnds, Die, trust, people, vars, Resolve,
     ReadExact, ReadSlot, AskForget, DeleteSlot, ChangeProject, ReplaceCredential,
     ForgetStep
<1>2. CASE UNCHANGED <<exact, confirmed>>
  BY <1>2 DEF IInv, TypeOK, TrustIsHuman, EntitledGoOn, Entitled, Before, Handing, After
<1>3. ASSUME NEW d \in Deploys, Ask(d)
      PROVE  TrustIsHuman'
  BY <1>3 DEF Ask, EndsUntouched, Over, Continues, Goto, journalVars, world, trust, effects,
     people, IInv, TypeOK, TrustIsHuman, EntitledGoOn, Entitled, Before, Handing, After
<1>4. ASSUME NEW d \in Deploys, RecordExact(d)
      PROVE  TrustIsHuman'
  BY <1>4 DEF RecordExact, Remembered, Answer, Over, Continues, Goto, journalVars, world,
     trust, effects, people, IInv, TypeOK, TrustIsHuman, EntitledGoOn, Entitled, Before,
     Handing, After
<1>5. ASSUME NEW f \in Forgets, DeleteExact(f)
      PROVE  TrustIsHuman'
  BY <1>5 DEF DeleteExact, Forgetting, ForgetEnds, journalVars, world, trust, effects,
     deploys, people, IInv, TypeOK, TrustIsHuman, EntitledGoOn, Entitled, Before, Handing,
     After
<1> QED BY <1>1, <1>2, <1>3, <1>4, <1>5

\* A person or a trust record stands behind every deploy that goes on.
LEMMA EntitledGoOnStep ==
  ASSUME IInv, [Next]_vars
  PROVE  EntitledGoOn'
<1>1. ASSUME NEW d \in Deploys, Call(d)
      PROVE  EntitledGoOn'
  <2>1. /\ \A e \in Deploys : e # d => /\ pc'[e] = pc[e] /\ bound'[e] = bound[e]
                                      /\ human'[e] = human[e]
        /\ UNCHANGED <<request, confirmed>>
    BY <1>1 DEF Call, EndsUntouched, Over, Goto, people, IInv, TypeOK
  <2>2. \/ pc'[d] = "done"
        \/ pc'[d] = "trust" /\ request[d].automatic
        \/ pc'[d] = "verify" /\ ~request[d].automatic /\ human'[d]
    BY <1>1 DEF Call, EndsUntouched, Goto, IInv, TypeOK
  <2> QED BY <2>1, <2>2 DEF IInv, EntitledGoOn, Entitled, Handing, After
<1>2. ASSUME NEW d \in Deploys, ReadTrust(d)
      PROVE  EntitledGoOn'
  <2>1. /\ \A e \in Deploys : e # d => /\ pc'[e] = pc[e] /\ bound'[e] = bound[e]
                                      /\ human'[e] = human[e]
        /\ UNCHANGED <<request, confirmed>>
    BY <1>2 DEF ReadTrust, EndsUntouched, Over, Goto, people, IInv, TypeOK
  <2>2. request[d].automatic
    BY <1>2 DEF ReadTrust, IInv, StepsAreKnown
  <2>3. \/ pc'[d] = "done"
        \/ /\ pc'[d] = "verify" /\ bound'[d] = bound[d]
           /\ bound[d].dest \in exact \/ human'[d]
    BY <1>2 DEF ReadTrust, EndsUntouched, Goto, IInv, TypeOK
  <2> QED
    BY <2>1, <2>2, <2>3 DEF IInv, TrustIsHuman, EntitledGoOn, Entitled, Handing, After
<1>3. ASSUME NEW d \in Deploys, Verify(d)
      PROVE  EntitledGoOn'
  BY <1>3 DEF Verify, EndsUntouched, Over, Continues, Goto, journalVars, world, trust,
     effects, people, IInv, TypeOK, StepsAreKnown, TrustIsHuman, EntitledGoOn, Entitled,
     Before, Handing, After, Here
<1>4. ASSUME NEW d \in Deploys, Ask(d)
      PROVE  EntitledGoOn'
  BY <1>4 DEF Ask, EndsUntouched, Over, Continues, Goto, journalVars, world, trust, effects,
     people, IInv, TypeOK, StepsAreKnown, TrustIsHuman, EntitledGoOn, Entitled, Before,
     Handing, After, Here
<1>5. ASSUME NEW d \in Deploys, VerifyApproved(d)
      PROVE  EntitledGoOn'
  BY <1>5 DEF VerifyApproved, EndsUntouched, Over, Continues, Goto, journalVars, world,
     trust, effects, people, IInv, TypeOK, StepsAreKnown, TrustIsHuman, EntitledGoOn,
     Entitled, Before, Handing, After, Here
<1>6. ASSUME NEW d \in Deploys, BeginHistory(d)
      PROVE  EntitledGoOn'
  BY <1>6 DEF BeginHistory, Begin, Goto, journalVars, world, trust, effects, people, IInv,
     TypeOK, StepsAreKnown, TrustIsHuman, EntitledGoOn, Entitled, Before, Handing, After,
     Here
<1>7. ASSUME NEW d \in Deploys, HistoryBegan(d)
      PROVE  EntitledGoOn'
  BY <1>7 DEF HistoryBegan, Acknowledge, Goto, journalVars, world, trust, effects, people,
     IInv, TypeOK, StepsAreKnown, TrustIsHuman, EntitledGoOn, Entitled, Before, Handing,
     After, Here
<1>8. ASSUME NEW d \in Deploys, HistoryUnavailable(d)
      PROVE  EntitledGoOn'
  BY <1>8 DEF HistoryUnavailable, Refuse, EndsUntouched, Over, Goto, journalVars, world,
     trust, effects, people, IInv, TypeOK, StepsAreKnown, TrustIsHuman, EntitledGoOn,
     Entitled, Before, Handing, After, Here
<1>9. ASSUME NEW d \in Deploys, CheckPrestep(d)
      PROVE  EntitledGoOn'
  BY <1>9 DEF CheckPrestep, Blocked, Settle, Goto, journalVars, world, trust, effects,
     people, IInv, TypeOK, StepsAreKnown, TrustIsHuman, EntitledGoOn, Entitled, Before,
     Handing, After, Here
<1>10. ASSUME NEW d \in Deploys, Prestep(d)
      PROVE  EntitledGoOn'
  BY <1>10 DEF Prestep, Settle, Goto, journalVars, world, trust, effects, people, IInv,
     TypeOK, StepsAreKnown, TrustIsHuman, EntitledGoOn, Entitled, Before, Handing, After,
     Here
<1>11. ASSUME NEW d \in Deploys, CheckRead(d)
      PROVE  EntitledGoOn'
  BY <1>11 DEF CheckRead, Blocked, Settle, Goto, journalVars, world, trust, effects, people,
     IInv, TypeOK, StepsAreKnown, TrustIsHuman, EntitledGoOn, Entitled, Before, Handing,
     After, Here
<1>12. ASSUME NEW d \in Deploys, Spawn(d)
      PROVE  EntitledGoOn'
  BY <1>12 DEF Spawn, Goto, journalVars, world, trust, effects, people, IInv, TypeOK,
     StepsAreKnown, TrustIsHuman, EntitledGoOn, Entitled, Before, Handing, After, Here
<1>13. ASSUME NEW d \in Deploys, Hear(d)
      PROVE  EntitledGoOn'
  BY <1>13 DEF Hear, Settle, Goto, journalVars, world, trust, effects, people, IInv, TypeOK,
     StepsAreKnown, TrustIsHuman, EntitledGoOn, Entitled, Before, Handing, After, Here
<1>14. ASSUME NEW d \in Deploys, Throw(d)
      PROVE  EntitledGoOn'
  BY <1>14 DEF Throw, Settle, Goto, journalVars, world, trust, effects, people, IInv,
     TypeOK, StepsAreKnown, TrustIsHuman, EntitledGoOn, Entitled, Before, Handing, After,
     Here
<1>15. ASSUME NEW d \in Deploys, CheckSettled(d)
      PROVE  EntitledGoOn'
  BY <1>15 DEF CheckSettled, Goto, journalVars, world, trust, effects, people, IInv, TypeOK,
     StepsAreKnown, TrustIsHuman, EntitledGoOn, Entitled, Before, Handing, After, Here
<1>16. ASSUME NEW d \in Deploys, RecordSlot(d)
      PROVE  EntitledGoOn'
  <2>1. /\ \A e \in Deploys : e # d => /\ pc'[e] = pc[e] /\ bound'[e] = bound[e]
                                      /\ human'[e] = human[e]
        /\ UNCHANGED <<request, confirmed>>
    <3>1. UNCHANGED <<request, confirmed>>
      BY <1>16 DEF RecordSlot, people
    <3>2. CASE Answer(d)
      BY <3>1, <3>2 DEF Answer, Over, Goto, IInv, TypeOK
    <3>3. CASE ~Answer(d)
      BY <1>16, <3>1, <3>3 DEF RecordSlot, Remembered, Continues, Goto, IInv, TypeOK
    <3> QED BY <3>2, <3>3
  <2>2. \/ pc'[d] = "done"
        \/ pc'[d] \in {"recordExact", "recorded"} /\ UNCHANGED <<bound, human>>
    BY <1>16 DEF RecordSlot, Remembered, Answer, Continues, Goto, IInv, TypeOK
  <2>3. pc[d] = "recordSlot"
    BY <1>16 DEF RecordSlot
  <2> QED BY <2>1, <2>2, <2>3 DEF IInv, EntitledGoOn, Entitled, Handing, After
<1>17. ASSUME NEW d \in Deploys, RecordExact(d)
      PROVE  EntitledGoOn'
  BY <1>17 DEF RecordExact, Remembered, Answer, Over, Continues, Goto, journalVars, world,
     trust, effects, people, IInv, TypeOK, StepsAreKnown, TrustIsHuman, EntitledGoOn,
     Entitled, Before, Handing, After, Here
<1>18. ASSUME NEW d \in Deploys, CheckRecorded(d)
      PROVE  EntitledGoOn'
  BY <1>18 DEF CheckRecorded, Goto, journalVars, world, trust, effects, people, IInv,
     TypeOK, StepsAreKnown, TrustIsHuman, EntitledGoOn, Entitled, Before, Handing, After,
     Here
<1>19. ASSUME NEW d \in Deploys, FinishHistory(d)
      PROVE  EntitledGoOn'
  BY <1>19 DEF FinishHistory, Finish, LeaveUnknown, Answer, Over, Continues, Remembers,
     Goto, journalVars, world, trust, effects, people, IInv, TypeOK, StepsAreKnown,
     TrustIsHuman, EntitledGoOn, Entitled, Before, Handing, After, Here
<1>20. ASSUME NEW d \in Deploys, ToolEnds(d)
      PROVE  EntitledGoOn'
  BY <1>20 DEF ToolEnds, journalVars, world, trust, effects, people, IInv, TypeOK,
     StepsAreKnown, TrustIsHuman, EntitledGoOn, Entitled, Before, Handing, After, Here
<1>21. ASSUME NEW d \in Deploys, Die(d)
      PROVE  EntitledGoOn'
  BY <1>21 DEF Die, Over, Goto, journalVars, world, trust, effects, people, IInv, TypeOK,
     StepsAreKnown, TrustIsHuman, EntitledGoOn, Entitled, Before, Handing, After, Here
<1>22. ASSUME NEW f \in Forgets, Resolve(f)
      PROVE  EntitledGoOn'
  BY <1>22 DEF Resolve, Forgetting, ForgetEnds, journalVars, world, trust, effects, deploys,
     people, IInv, TypeOK, StepsAreKnown, TrustIsHuman, EntitledGoOn, Entitled, Before,
     Handing, After, Here
<1>23. ASSUME NEW f \in Forgets, ReadExact(f)
      PROVE  EntitledGoOn'
  BY <1>23 DEF ReadExact, Forgetting, ForgetEnds, journalVars, world, trust, effects,
     deploys, people, IInv, TypeOK, StepsAreKnown, TrustIsHuman, EntitledGoOn, Entitled,
     Before, Handing, After, Here
<1>24. ASSUME NEW f \in Forgets, ReadSlot(f)
      PROVE  EntitledGoOn'
  BY <1>24 DEF ReadSlot, Forgetting, ForgetEnds, journalVars, world, trust, effects,
     deploys, people, IInv, TypeOK, StepsAreKnown, TrustIsHuman, EntitledGoOn, Entitled,
     Before, Handing, After, Here
<1>25. ASSUME NEW f \in Forgets, AskForget(f)
      PROVE  EntitledGoOn'
  BY <1>25 DEF AskForget, Forgetting, ForgetEnds, journalVars, world, trust, effects,
     deploys, people, IInv, TypeOK, StepsAreKnown, TrustIsHuman, EntitledGoOn, Entitled,
     Before, Handing, After, Here
<1>26. ASSUME NEW f \in Forgets, DeleteExact(f)
      PROVE  EntitledGoOn'
  BY <1>26 DEF DeleteExact, Forgetting, ForgetEnds, journalVars, world, trust, effects,
     deploys, people, IInv, TypeOK, StepsAreKnown, TrustIsHuman, EntitledGoOn, Entitled,
     Before, Handing, After, Here
<1>27. ASSUME NEW f \in Forgets, DeleteSlot(f)
      PROVE  EntitledGoOn'
  BY <1>27 DEF DeleteSlot, Forgetting, ForgetEnds, journalVars, world, trust, effects,
     deploys, people, IInv, TypeOK, StepsAreKnown, TrustIsHuman, EntitledGoOn, Entitled,
     Before, Handing, After, Here
<1>28. CASE ChangeProject
  BY <1>28 DEF ChangeProject, journalVars, world, trust, effects, deploys, people, IInv,
     TypeOK, StepsAreKnown, TrustIsHuman, EntitledGoOn, Entitled, Before, Handing, After,
     Here
<1>29. CASE ReplaceCredential
  BY <1>29 DEF ReplaceCredential, journalVars, world, trust, effects, deploys, people, IInv,
     TypeOK, StepsAreKnown, TrustIsHuman, EntitledGoOn, Entitled, Before, Handing, After,
     Here
<1>30. CASE UNCHANGED vars
  BY <1>30 DEF vars, journalVars, world, trust, effects, deploys, people, IInv, TypeOK,
     StepsAreKnown, TrustIsHuman, EntitledGoOn, Entitled, Before, Handing, After, Here
<1> QED
  BY <1>1, <1>2, <1>3, <1>4, <1>5, <1>6, <1>7, <1>8, <1>9, <1>10, <1>11, <1>12, <1>13,
     <1>14, <1>15, <1>16, <1>17, <1>18, <1>19, <1>20, <1>21, <1>22, <1>23, <1>24, <1>25,
     <1>26, <1>27, <1>28, <1>29, <1>30 DEF Next, Step, ForgetStep

\* Nothing starts before the acknowledged start.
LEMMA WritesAreJournaledStep ==
  ASSUME IInv, [Next]_vars
  PROVE  WritesAreJournaled'
<1>1. \/ UNCHANGED <<removed, tool, phase, starts>>
      \/ \E d \in Deploys : BeginHistory(d) \/ HistoryBegan(d) \/ HistoryUnavailable(d) \/
           Prestep(d) \/ Spawn(d) \/ ToolEnds(d) \/ FinishHistory(d)
  BY JournalSteps, ToolSteps, PrestepSteps
<1>2. CASE UNCHANGED <<removed, tool, phase, starts>>
  BY <1>2 DEF IInv, TypeOK, StepsAreKnown, WritesAreJournaled, Before, Handing, After
<1>3. ASSUME NEW d \in Deploys, BeginHistory(d)
      PROVE  WritesAreJournaled'
  <2>1. ~removed[d] /\ tool[d] = "none"
    BY <1>3 DEF BeginHistory, IInv, StepsAreKnown, Before
  <2>2. starts' = Append(starts, d) /\ UNCHANGED <<removed, tool>>
    BY <1>3 DEF BeginHistory, Begin, effects
  <2>3. \A e \in Deploys : e # d => phase'[e] = phase[e]
    BY <1>3 DEF BeginHistory, Begin, IInv, TypeOK
  <2>4. starts \in Seq(Deploys)
    BY DEF IInv, TypeOK
  <2>5. \A e \in Deploys : (\E i \in DOMAIN starts : starts[i] = e)
                             => \E i \in DOMAIN starts' : starts'[i] = e
    BY <2>2, <2>4
  <2> QED BY <2>1, <2>2, <2>3, <2>5 DEF IInv, WritesAreJournaled
<1>4. ASSUME NEW d \in Deploys, HistoryBegan(d)
      PROVE  WritesAreJournaled'
  BY <1>4 DEF HistoryBegan, Acknowledge, Goto, journalVars, world, trust, effects, people,
     IInv, TypeOK, StepsAreKnown, WritesAreJournaled, Before, Handing, After
<1>5. ASSUME NEW d \in Deploys, HistoryUnavailable(d)
      PROVE  WritesAreJournaled'
  BY <1>5 DEF HistoryUnavailable, Refuse, EndsUntouched, Over, Goto, journalVars, world,
     trust, effects, people, IInv, TypeOK, StepsAreKnown, WritesAreJournaled, Before,
     Handing, After
<1>6. ASSUME NEW d \in Deploys, Prestep(d)
      PROVE  WritesAreJournaled'
  BY <1>6 DEF Prestep, Settle, Goto, journalVars, world, trust, effects, people, IInv,
     TypeOK, StepsAreKnown, WritesAreJournaled, Before, Handing, After
<1>7. ASSUME NEW d \in Deploys, Spawn(d)
      PROVE  WritesAreJournaled'
  BY <1>7 DEF Spawn, Goto, journalVars, world, trust, effects, people, IInv, TypeOK,
     StepsAreKnown, WritesAreJournaled, Before, Handing, After
<1>8. ASSUME NEW d \in Deploys, ToolEnds(d)
      PROVE  WritesAreJournaled'
  BY <1>8 DEF ToolEnds, journalVars, world, trust, effects, people, IInv, TypeOK,
     StepsAreKnown, WritesAreJournaled, Before, Handing, After
<1>9. ASSUME NEW d \in Deploys, FinishHistory(d)
      PROVE  WritesAreJournaled'
  BY <1>9 DEF FinishHistory, Finish, LeaveUnknown, Answer, Over, Continues, Remembers, Goto,
     journalVars, world, trust, effects, people, IInv, TypeOK, StepsAreKnown,
     WritesAreJournaled, Before, Handing, After
<1> QED BY <1>1, <1>2, <1>3, <1>4, <1>5, <1>6, <1>7, <1>8, <1>9

\* The answer that nothing was written comes first, and is the last of the deploy.
LEMMA NothingIsNothingStep ==
  ASSUME IInv, [Next]_vars
  PROVE  NothingIsNothing'
<1>1. \/ UNCHANGED <<told, removed, tool>>
      \/ \E d \in Deploys : Call(d) \/ ReadTrust(d) \/ Verify(d) \/ Ask(d) \/
           VerifyApproved(d) \/ HistoryUnavailable(d) \/ Prestep(d) \/ Spawn(d) \/
           ToolEnds(d) \/ RecordSlot(d) \/ RecordExact(d) \/ FinishHistory(d)
  BY OthersLeave DEF Next, Step, Goto, BeginHistory, HistoryBegan, CheckPrestep, CheckRead,
     Hear, Throw, CheckSettled, CheckRecorded, Die, Begin, Acknowledge, Blocked, Settle,
     Over, trust, world, effects, deploys, journalVars, people
<1>2. CASE UNCHANGED <<told, removed, tool>>
  BY <1>2 DEF IInv, TypeOK, StepsAreKnown, NothingIsNothing, Before, Handing, After
<1>3. ASSUME NEW d \in Deploys, Call(d)
      PROVE  NothingIsNothing'
  BY <1>3 DEF Call, EndsUntouched, Over, Here, Goto, journalVars, world, trust, effects,
     people, IInv, TypeOK, StepsAreKnown, NothingIsNothing, Before, Handing, After
<1>4. ASSUME NEW d \in Deploys, ReadTrust(d)
      PROVE  NothingIsNothing'
  BY <1>4 DEF ReadTrust, EndsUntouched, Over, Goto, journalVars, world, trust, effects,
     people, IInv, TypeOK, StepsAreKnown, NothingIsNothing, Before, Handing, After
<1>5. ASSUME NEW d \in Deploys, Verify(d)
      PROVE  NothingIsNothing'
  BY <1>5 DEF Verify, EndsUntouched, Over, Continues, Goto, journalVars, world, trust,
     effects, people, IInv, TypeOK, StepsAreKnown, NothingIsNothing, Before, Handing, After
<1>6. ASSUME NEW d \in Deploys, Ask(d)
      PROVE  NothingIsNothing'
  BY <1>6 DEF Ask, EndsUntouched, Over, Continues, Goto, journalVars, world, trust, effects,
     people, IInv, TypeOK, StepsAreKnown, NothingIsNothing, Before, Handing, After
<1>7. ASSUME NEW d \in Deploys, VerifyApproved(d)
      PROVE  NothingIsNothing'
  BY <1>7 DEF VerifyApproved, EndsUntouched, Over, Continues, Goto, journalVars, world,
     trust, effects, people, IInv, TypeOK, StepsAreKnown, NothingIsNothing, Before, Handing,
     After
<1>8. ASSUME NEW d \in Deploys, HistoryUnavailable(d)
      PROVE  NothingIsNothing'
  BY <1>8 DEF HistoryUnavailable, Refuse, EndsUntouched, Over, Goto, journalVars, world,
     trust, effects, people, IInv, TypeOK, StepsAreKnown, NothingIsNothing, Before, Handing,
     After
<1>9. ASSUME NEW d \in Deploys, Prestep(d)
      PROVE  NothingIsNothing'
  BY <1>9 DEF Prestep, Settle, Goto, journalVars, world, trust, effects, people, IInv,
     TypeOK, StepsAreKnown, NothingIsNothing, Before, Handing, After
<1>10. ASSUME NEW d \in Deploys, Spawn(d)
      PROVE  NothingIsNothing'
  BY <1>10 DEF Spawn, Goto, journalVars, world, trust, effects, people, IInv, TypeOK,
     StepsAreKnown, NothingIsNothing, Before, Handing, After
<1>11. ASSUME NEW d \in Deploys, ToolEnds(d)
      PROVE  NothingIsNothing'
  BY <1>11 DEF ToolEnds, journalVars, world, trust, effects, people, IInv, TypeOK,
     StepsAreKnown, NothingIsNothing, Before, Handing, After
<1>12. ASSUME NEW d \in Deploys, RecordSlot(d)
      PROVE  NothingIsNothing'
  <2>1. UNCHANGED <<removed, tool>> /\ (told' = told \/ told' = [told EXCEPT ![d] = "possible"])
    BY <1>12 DEF RecordSlot, Remembered, Answer, Continues, effects
  <2> QED BY <2>1 DEF IInv, TypeOK, NothingIsNothing
<1>13. ASSUME NEW d \in Deploys, RecordExact(d)
      PROVE  NothingIsNothing'
  BY <1>13 DEF RecordExact, Remembered, Answer, Over, Continues, Goto, journalVars, world,
     trust, effects, people, IInv, TypeOK, StepsAreKnown, NothingIsNothing, Before, Handing,
     After
<1>14. ASSUME NEW d \in Deploys, FinishHistory(d)
      PROVE  NothingIsNothing'
  BY <1>14 DEF FinishHistory, Finish, LeaveUnknown, Answer, Over, Continues, Remembers,
     Goto, journalVars, world, trust, effects, people, IInv, TypeOK, StepsAreKnown,
     NothingIsNothing, Before, Handing, After
<1> QED BY <1>1, <1>2, <1>3, <1>4, <1>5, <1>6, <1>7, <1>8, <1>9, <1>10, <1>11, <1>12, <1>13,
     <1>14

LEMMA InitIInv == Init => IInv
<1> SUFFICES ASSUME Init PROVE IInv
  OBVIOUS
<1> USE EngineAssumption DEF Init, JournalInit
<1>1. journal \in Journal /\ journal.entries = <<>>
  BY EmptySeq DEF EmptyJournal, Journal, Kinds
<1>2. TypeOK
  <2>1. starts \in Seq(Deploys) /\ exact \subseteq Dests
    BY EmptySeq
  <2>2. {version, cred} \subseteq 0 .. MaxChanges /\ Nowhere \in Basis /\ Unasked \in ForgetState
    BY DEF Nowhere, Basis, Unasked, ForgetState
  <2> QED BY <1>1, <2>1, <2>2 DEF TypeOK, Phases, Before
<1>3. BoundToThePast /\ StepsAreKnown /\ OutcomeIsKnown
  BY DEF BoundToThePast, StepsAreKnown, OutcomeIsKnown, Before, Handing, After
<1>4. ResultsAreFinished /\ JournalIsHonest
  BY <1>1, LimitAssumption DEF ResultsAreFinished, JournalIsHonest
<1>5. TrustIsHuman /\ EntitledGoOn /\ WritesAreJournaled /\ NothingIsNothing
  BY DEF TrustIsHuman, EntitledGoOn, WritesAreJournaled, NothingIsNothing, Handing, After
<1> QED BY <1>2, <1>3, <1>4, <1>5 DEF IInv

LEMMA NextIInv == IInv /\ [Next]_vars => IInv'
<1> SUFFICES ASSUME IInv, [Next]_vars PROVE IInv'
  OBVIOUS
<1>1. TypeOK' /\ BoundToThePast' /\ StepsAreKnown' /\ OutcomeIsKnown'
  BY TypeOKStep, BoundToThePastStep, StepsAreKnownStep, OutcomeIsKnownStep
<1>2. ResultsAreFinished' /\ JournalIsHonest' /\ TrustIsHuman'
  BY ResultsAreFinishedStep, JournalIsHonestStep, TrustIsHumanStep
<1>3. EntitledGoOn' /\ WritesAreJournaled' /\ NothingIsNothing'
  BY EntitledGoOnStep, WritesAreJournaledStep, NothingIsNothingStep
<1> QED BY <1>1, <1>2, <1>3 DEF IInv

(* The inductive invariant: what every step of a deploy, of the tool it started, *)
(* of a forgetting and of the world outside leaves true.                         *)
THEOREM InductiveInvariant == Spec => []IInv
<1> QED BY InitIInv, NextIInv, PTL DEF Spec

(* No provider's tool, placing or removing, ever ran without a start that the    *)
(* history had acknowledged, in whatever order deploys, crashes and failed saves *)
(* come (engine.ts begins the history before it calls the handoff).              *)
THEOREM WritesAreJournaledAlways == Spec => []WritesAreJournaled
<1>1. IInv => WritesAreJournaled
  BY DEF IInv
<1> QED BY <1>1, InductiveInvariant, PTL

(* The engine's answer that nothing was written is true, and stays so.           *)
THEOREM NothingIsNothingAlways == Spec => []NothingIsNothing
<1>1. IInv => NothingIsNothing
  BY DEF IInv
<1> QED BY <1>1, InductiveInvariant, PTL

(* The journal says completed only of a tool that succeeded, for a connection on *)
(* the basis it was bound to, and incomplete only of one that did not succeed.   *)
THEOREM JournalIsHonestAlways == Spec => []JournalIsHonest
<1>1. IInv => JournalIsHonest
  BY DEF IInv
<1> QED BY <1>1, InductiveInvariant, PTL

(* Whatever is recorded as trusted was approved by a person.                     *)
THEOREM TrustIsHumanAlways == Spec => []TrustIsHuman
<1>1. IInv => TrustIsHuman
  BY DEF IInv
<1> QED BY <1>1, InductiveInvariant, PTL

\* Only Spawn hands the secret over, and its deploy is entitled.
LEMMA PlacementStep ==
  ASSUME IInv, [Next]_vars
  PROVE  \A d \in Deploys : placed'[d] # placed[d] => Entitled(d)
<1>1. CASE UNCHANGED placed
  BY <1>1
<1>2. ASSUME NEW e \in Deploys, Spawn(e)
      PROVE  \A d \in Deploys : placed'[d] # placed[d] => Entitled(d)
  <2>1. Entitled(e)
    BY <1>2 DEF Spawn, IInv, EntitledGoOn, Handing
  <2> QED BY <1>2, <2>1 DEF Spawn, IInv, TypeOK
<1>3. UNCHANGED placed \/ \E e \in Deploys : Spawn(e)
  BY ToolSteps DEF ToolEnds
<1> QED BY <1>1, <1>2, <1>3

(* A secret is handed to a provider's tool only for a destination that a person  *)
(* approved, in this very deploy or, for the class that may repeat, before.      *)
THEOREM PlacementIsConfirmedAlways == Spec => PlacementIsConfirmed
<1>1. IInv /\ [Next]_vars => [\A d \in Deploys : placed'[d] # placed[d] => Entitled(d)]_vars
  BY PlacementStep
<1> QED BY <1>1, InductiveInvariant, PTL DEF Spec, PlacementIsConfirmed

\* A step of the engine is a call of the history's, or leaves the journal.
LEMMA JournalStep ==
  ASSUME IInv, [Next]_vars
  PROVE  [JournalNext]_journalVars
<1>1. CASE UNCHANGED <<journal, starts, phase>>
  BY <1>1 DEF journalVars
<1>2. ASSUME NEW d \in Deploys, BeginHistory(d)
      PROVE  JournalNext
  <2>1. ReceiptKind[request[d].kind] \in Kinds
    BY EngineAssumption DEF IInv, TypeOK, Request, ReceiptKind, Kinds
  <2> QED BY <1>2, <2>1 DEF BeginHistory, JournalNext
<1>3. ASSUME NEW d \in Deploys, HistoryBegan(d)
      PROVE  JournalNext
  BY <1>3 DEF HistoryBegan, JournalNext
<1>4. ASSUME NEW d \in Deploys, HistoryUnavailable(d)
      PROVE  [JournalNext]_journalVars
  BY <1>4 DEF HistoryUnavailable, JournalNext
<1>5. ASSUME NEW d \in Deploys, FinishHistory(d)
      PROVE  JournalNext
  <2>1. Result(d) \in Outcomes
    BY <1>5, ResultIsOutcome
  <2> QED BY <1>5, <2>1 DEF FinishHistory, JournalNext
<1> QED BY <1>1, <1>2, <1>3, <1>4, <1>5, JournalSteps

(* The engine uses the history as AtomicJournal, and so DeploymentHistory, says: *)
(* one begin for a deploy, its answer awaited, one finish after it.              *)
THEOREM EngineDrivesTheJournal == Spec => JournalSpec
<1>1. Init => JournalInit
  BY DEF Init
<1>2. IInv /\ [Next]_vars => [JournalNext]_journalVars
  BY JournalStep
<1> QED BY <1>1, <1>2, InductiveInvariant, PTL DEF Spec, JournalSpec
===============================================================================
