------------------------- MODULE UseDeliveryProofs ----------------------------
(***************************************************************************)
(* The inductive invariant of UseDelivery, for any number of processes,    *)
(* operations, changes and removed locks, and what follows from it.        *)
(***************************************************************************)
EXTENDS UseDelivery, TLAPS

\* A receipt is written to the operation of its call.
LEMMA EnterWrites ==
  ASSUME IInv, NEW p \in Procs, Enter(p)
  PROVE  /\ held[p] \in Ops
         /\ ops[held[p]] \in Operation /\ ops[held[p]].basis = plan[p]
         /\ ops' = Saved(held[p], "executing", "possible")
BY UseAssumption DEF IInv, TypeOK, HeldIsRecorded, Enter, Waiting, Handing

\* A result is written to the operation of its call, with the effect that goes
\* with it.
LEMMA FinishWrites ==
  ASSUME IInv, NEW p \in Procs, Finish(p)
  PROVE  /\ held[p] \in Ops
         /\ ops[held[p]] \in Operation /\ ops[held[p]].basis = plan[p]
         /\ result[p] \in OpStates
         /\ \E effect \in Effects :
              /\ ops' = Saved(held[p], result[p], effect)
              /\ result[p] \in {"completed", "incomplete", "unknown"} => effect # "not-started"
<1> USE DEF IInv, TypeOK
<1>1. held[p] \in Ops /\ ops[held[p]].basis = plan[p] /\ ops[held[p]] \in Operation
  BY UseAssumption DEF HeldIsRecorded, Finish, Waiting, Handing
<1>2. result[p] \in {"cancelled", "changed", "completed", "incomplete", "unknown"}
  BY DEF ResultIsKnown, Finish
<1>3. /\ EffectOf["completed"] = "completed" /\ EffectOf["incomplete"] = "failed"
      /\ EffectOf["unknown"] = "unknown"
      /\ EffectOf["cancelled"] = "not-started" /\ EffectOf["changed"] = "not-started"
  BY DEF EffectOf
<1>4. EffectOf[result[p]] \in Effects
      /\ (result[p] \in {"completed", "incomplete", "unknown"} =>
            EffectOf[result[p]] # "not-started")
  BY <1>2, <1>3 DEF Effects
<1>5. ops' = Saved(held[p], result[p], EffectOf[result[p]])
  BY DEF Finish
<1> QED BY <1>1, <1>2, <1>4, <1>5 DEF OpStates, Settled

\* What a call hears of its tool.
LEMMA HearsOne ==
  ASSUME IInv, NEW p \in Procs, Hear(p)
  PROVE  \/ result' = [result EXCEPT ![p] = "unknown"] /\ Goto(p, "finish")
         \/ /\ Goto(p, "closed")
            /\ \E end \in {"completed", "incomplete", "unknown"} :
                 /\ result' = [result EXCEPT ![p] = end]
                 /\ end = "completed" => tool[held[p]] = "ok"
<1> USE DEF IInv, TypeOK
<1>1. CASE tool[held[p]] = "running"
  BY <1>1 DEF Hear
<1>2. CASE tool[held[p]] # "running"
  <2>1. held[p] \in Ops
    BY UseAssumption DEF HeldIsRecorded, Hear, Waiting, Handing
  <2>2. received[held[p]] # Unreceived
    BY DEF ToolsAreReceipted, Hear
  <2>3. tool[held[p]] \in {"ok", "failed", "killed"}
    BY <1>2, <2>1, <2>2 DEF ToolsAreReceipted
  <2>4. CASE tool[held[p]] = "ok"
    BY <1>2, <2>4 DEF Hear
  <2>5. CASE tool[held[p]] = "failed"
    BY <1>2, <2>5 DEF Hear
  <2>6. CASE tool[held[p]] = "killed"
    BY <1>2, <2>6 DEF Hear
  <2> QED BY <2>3, <2>4, <2>5, <2>6
<1> QED BY <1>1, <1>2

\* Every step keeps the types.
LEMMA TypeOKStep ==
  ASSUME IInv, [Next]_vars
  PROVE  TypeOK'
<1> USE UseAssumption DEF IInv, TypeOK, Settled, OpStates, Effects, Operation, Waiting, Handing, Unreceived
<1>1. ASSUME NEW p \in Procs, Apply(p)
      PROVE  TypeOK'
  BY <1>1 DEF Apply, Goto, files, local
<1>2. ASSUME NEW p \in Procs, Claim(p)
      PROVE  TypeOK'
  BY <1>2 DEF Claim, Goto, files, local
<1>3. ASSUME NEW p \in Procs, Journal(p)
      PROVE  TypeOK'
  BY <1>3 DEF Journal, Goto, files, local
<1>4. ASSUME NEW p \in Procs, CheckPlan(p)
      PROVE  TypeOK'
  BY <1>4 DEF CheckPlan, Current, Owns, Goto, files, local
<1>5. ASSUME NEW p \in Procs, NEW o \in Ops, Record(p, o)
      PROVE  TypeOK'
  BY <1>5 DEF Record, Goto, files, local
<1>6. ASSUME NEW p \in Procs, Decide(p)
      PROVE  TypeOK'
  BY <1>6 DEF Decide, Goto, files, local
<1>7. ASSUME NEW p \in Procs, CheckDeclined(p)
      PROVE  TypeOK'
  BY <1>7 DEF CheckDeclined, Current, Owns, EndsChanged, Goto, files, local
<1>8. ASSUME NEW p \in Procs, CheckApproved(p)
      PROVE  TypeOK'
  BY <1>8 DEF CheckApproved, CurrentAndFresh, Current, Owns, EndsChanged, Goto, files, local
<1>9. ASSUME NEW p \in Procs, CheckReprobed(p)
      PROVE  TypeOK'
  BY <1>9 DEF CheckReprobed, CurrentAndFresh, Current, Owns, EndsChanged, Goto, files, local
<1>10. ASSUME NEW p \in Procs, Enter(p)
      PROVE  TypeOK'
  <2>1. held[p] \in Ops /\ ops[held[p]] \in Operation /\ ops[held[p]].basis = plan[p]
    BY <1>10, EnterWrites
  <2> QED BY <1>10, <2>1 DEF Enter, Saved, Goto, files, local
<1>11. ASSUME NEW p \in Procs, CheckEntered(p)
      PROVE  TypeOK'
  BY <1>11 DEF CheckEntered, CurrentAndFresh, Current, Owns, Goto, files, local
<1>12. ASSUME NEW p \in Procs, CheckSecret(p)
      PROVE  TypeOK'
  BY <1>12 DEF CheckSecret, CurrentAndFresh, Current, Owns, Goto, files, local
<1>13. ASSUME NEW p \in Procs, Spawn(p)
      PROVE  TypeOK'
  <2>1. held[p] \in Ops
    BY <1>13 DEF Spawn, HeldIsRecorded
  <2> QED BY <1>13, <2>1 DEF Spawn, Goto, files, local
<1>14. ASSUME NEW p \in Procs, Hear(p)
      PROVE  TypeOK'
  <2>1. CASE result' = [result EXCEPT ![p] = "unknown"] /\ Goto(p, "finish")
    BY <1>14, <2>1 DEF Hear, Goto, files
  <2>2. ASSUME Goto(p, "closed"), NEW end \in {"completed", "incomplete", "unknown"},
               result' = [result EXCEPT ![p] = end], end = "completed" => tool[held[p]] = "ok"
        PROVE  TypeOK'
    BY <1>14, <2>2 DEF Hear, Goto, files
  <2> QED BY <1>14, <2>1, <2>2, HearsOne
<1>15. ASSUME NEW p \in Procs, CheckClosed(p)
      PROVE  TypeOK'
  BY <1>15 DEF CheckClosed, Current, Owns, Goto, files, local
<1>16. ASSUME NEW p \in Procs, Finish(p)
      PROVE  TypeOK'
  <2>1. PICK effect \in Effects :
            /\ ops' = Saved(held[p], result[p], effect)
            /\ result[p] \in {"completed", "incomplete", "unknown"} => effect # "not-started"
    BY <1>16, FinishWrites
  <2>2. held[p] \in Ops /\ ops[held[p]] \in Operation /\ ops[held[p]].basis = plan[p]
        /\ result[p] \in OpStates
    BY <1>16, FinishWrites
  <2> QED BY <2>1, <2>2, <1>16 DEF Finish, Saved, Goto, files, local
<1>17. ASSUME NEW p \in Procs, Release(p)
      PROVE  TypeOK'
  BY <1>17 DEF Release, Owns, Ended, Goto, files, local
<1>18. ASSUME NEW p \in Procs, Throw(p)
      PROVE  TypeOK'
  BY <1>18 DEF Throw, Goto, files, local
<1>19. ASSUME NEW p \in Procs, Die(p)
      PROVE  TypeOK'
  BY <1>19 DEF Die, Owns, Ended, Goto, files, local
<1>20. ASSUME NEW o \in Ops, ToolEnds(o)
      PROVE  TypeOK'
  BY <1>20 DEF ToolEnds, files, local
<1>21. CASE RemoveLock
  BY <1>21 DEF RemoveLock, files, local
<1>22. CASE Change
  BY <1>22 DEF Change, files, local
<1>23. CASE Tick
  BY <1>23 DEF Tick, Aging, files, local
<1>24. CASE UNCHANGED vars
  BY <1>24 DEF vars, files, local
<1> QED
  BY <1>1, <1>2, <1>3, <1>4, <1>5, <1>6, <1>7, <1>8, <1>9, <1>10, <1>11, <1>12,
     <1>13, <1>14, <1>15, <1>16, <1>17, <1>18, <1>19, <1>20, <1>21, <1>22, <1>23, <1>24 DEF Next, Step

\* Only the call that recorded an operation changes it.
LEMMA HeldIsRecordedStep ==
  ASSUME IInv, [Next]_vars
  PROVE  HeldIsRecorded'
<1> USE UseAssumption DEF IInv, TypeOK, HeldIsRecorded, ResultIsKnown, Settled, OpStates, Effects, Operation, Waiting, Handing, Unreceived
<1>1. ASSUME NEW p \in Procs, Apply(p)
      PROVE  HeldIsRecorded'
  BY <1>1 DEF Apply, Goto, files, local
<1>2. ASSUME NEW p \in Procs, Claim(p)
      PROVE  HeldIsRecorded'
  BY <1>2 DEF Claim, Goto, files, local
<1>3. ASSUME NEW p \in Procs, Journal(p)
      PROVE  HeldIsRecorded'
  BY <1>3 DEF Journal, Goto, files, local
<1>4. ASSUME NEW p \in Procs, CheckPlan(p)
      PROVE  HeldIsRecorded'
  BY <1>4 DEF CheckPlan, Current, Owns, Goto, files, local
<1>5. ASSUME NEW p \in Procs, NEW o \in Ops, Record(p, o)
      PROVE  HeldIsRecorded'
  BY <1>5 DEF Record, Goto, files, local
<1>6. ASSUME NEW p \in Procs, Decide(p)
      PROVE  HeldIsRecorded'
  BY <1>6 DEF Decide, Goto, files, local
<1>7. ASSUME NEW p \in Procs, CheckDeclined(p)
      PROVE  HeldIsRecorded'
  BY <1>7 DEF CheckDeclined, Current, Owns, EndsChanged, Goto, files, local
<1>8. ASSUME NEW p \in Procs, CheckApproved(p)
      PROVE  HeldIsRecorded'
  BY <1>8 DEF CheckApproved, CurrentAndFresh, Current, Owns, EndsChanged, Goto, files, local
<1>9. ASSUME NEW p \in Procs, CheckReprobed(p)
      PROVE  HeldIsRecorded'
  BY <1>9 DEF CheckReprobed, CurrentAndFresh, Current, Owns, EndsChanged, Goto, files, local
<1>10. ASSUME NEW p \in Procs, Enter(p)
      PROVE  HeldIsRecorded'
  <2>1. held[p] \in Ops /\ ops[held[p]] \in Operation /\ ops[held[p]].basis = plan[p]
    BY <1>10, EnterWrites
  <2> QED BY <1>10, <2>1 DEF Enter, Saved, Goto, files, local
<1>11. ASSUME NEW p \in Procs, CheckEntered(p)
      PROVE  HeldIsRecorded'
  BY <1>11 DEF CheckEntered, CurrentAndFresh, Current, Owns, Goto, files, local
<1>12. ASSUME NEW p \in Procs, CheckSecret(p)
      PROVE  HeldIsRecorded'
  BY <1>12 DEF CheckSecret, CurrentAndFresh, Current, Owns, Goto, files, local
<1>13. ASSUME NEW p \in Procs, Spawn(p)
      PROVE  HeldIsRecorded'
  BY <1>13 DEF Spawn, Goto, files, local
<1>14. ASSUME NEW p \in Procs, Hear(p)
      PROVE  HeldIsRecorded'
  <2>1. CASE result' = [result EXCEPT ![p] = "unknown"] /\ Goto(p, "finish")
    BY <1>14, <2>1 DEF Hear, Goto, files
  <2>2. ASSUME Goto(p, "closed"), NEW end \in {"completed", "incomplete", "unknown"},
               result' = [result EXCEPT ![p] = end], end = "completed" => tool[held[p]] = "ok"
        PROVE  HeldIsRecorded'
    BY <1>14, <2>2 DEF Hear, Goto, files
  <2> QED BY <1>14, <2>1, <2>2, HearsOne
<1>15. ASSUME NEW p \in Procs, CheckClosed(p)
      PROVE  HeldIsRecorded'
  BY <1>15 DEF CheckClosed, Current, Owns, Goto, files, local
<1>16. ASSUME NEW p \in Procs, Finish(p)
      PROVE  HeldIsRecorded'
  <2>1. PICK effect \in Effects :
            /\ ops' = Saved(held[p], result[p], effect)
            /\ result[p] \in {"completed", "incomplete", "unknown"} => effect # "not-started"
    BY <1>16, FinishWrites
  <2>2. held[p] \in Ops /\ ops[held[p]] \in Operation /\ ops[held[p]].basis = plan[p]
        /\ result[p] \in OpStates
    BY <1>16, FinishWrites
  <2> QED BY <2>1, <2>2, <1>16 DEF Finish, Saved, Goto, files, local
<1>17. ASSUME NEW p \in Procs, Release(p)
      PROVE  HeldIsRecorded'
  BY <1>17 DEF Release, Owns, Ended, Goto, files, local
<1>18. ASSUME NEW p \in Procs, Throw(p)
      PROVE  HeldIsRecorded'
  BY <1>18 DEF Throw, Goto, files, local
<1>19. ASSUME NEW p \in Procs, Die(p)
      PROVE  HeldIsRecorded'
  BY <1>19 DEF Die, Owns, Ended, Goto, files, local
<1>20. ASSUME NEW o \in Ops, ToolEnds(o)
      PROVE  HeldIsRecorded'
  BY <1>20 DEF ToolEnds, files, local
<1>21. CASE RemoveLock
  BY <1>21 DEF RemoveLock, files, local
<1>22. CASE Change
  BY <1>22 DEF Change, files, local
<1>23. CASE Tick
  BY <1>23 DEF Tick, Aging, files, local
<1>24. CASE UNCHANGED vars
  BY <1>24 DEF vars, files, local
<1> QED
  BY <1>1, <1>2, <1>3, <1>4, <1>5, <1>6, <1>7, <1>8, <1>9, <1>10, <1>11, <1>12,
     <1>13, <1>14, <1>15, <1>16, <1>17, <1>18, <1>19, <1>20, <1>21, <1>22, <1>23, <1>24 DEF Next, Step

\* A result is chosen where the operation was left.
LEMMA ResultIsKnownStep ==
  ASSUME IInv, [Next]_vars
  PROVE  ResultIsKnown'
<1> USE UseAssumption DEF IInv, TypeOK, HeldIsRecorded, ResultIsKnown, Settled, OpStates, Effects, Operation, Waiting, Handing, Unreceived
<1>1. ASSUME NEW p \in Procs, Apply(p)
      PROVE  ResultIsKnown'
  BY <1>1 DEF Apply, Goto, files, local
<1>2. ASSUME NEW p \in Procs, Claim(p)
      PROVE  ResultIsKnown'
  BY <1>2 DEF Claim, Goto, files, local
<1>3. ASSUME NEW p \in Procs, Journal(p)
      PROVE  ResultIsKnown'
  BY <1>3 DEF Journal, Goto, files, local
<1>4. ASSUME NEW p \in Procs, CheckPlan(p)
      PROVE  ResultIsKnown'
  BY <1>4 DEF CheckPlan, Current, Owns, Goto, files, local
<1>5. ASSUME NEW p \in Procs, NEW o \in Ops, Record(p, o)
      PROVE  ResultIsKnown'
  BY <1>5 DEF Record, Goto, files, local
<1>6. ASSUME NEW p \in Procs, Decide(p)
      PROVE  ResultIsKnown'
  BY <1>6 DEF Decide, Goto, files, local
<1>7. ASSUME NEW p \in Procs, CheckDeclined(p)
      PROVE  ResultIsKnown'
  BY <1>7 DEF CheckDeclined, Current, Owns, EndsChanged, Goto, files, local
<1>8. ASSUME NEW p \in Procs, CheckApproved(p)
      PROVE  ResultIsKnown'
  BY <1>8 DEF CheckApproved, CurrentAndFresh, Current, Owns, EndsChanged, Goto, files, local
<1>9. ASSUME NEW p \in Procs, CheckReprobed(p)
      PROVE  ResultIsKnown'
  BY <1>9 DEF CheckReprobed, CurrentAndFresh, Current, Owns, EndsChanged, Goto, files, local
<1>10. ASSUME NEW p \in Procs, Enter(p)
      PROVE  ResultIsKnown'
  <2>1. held[p] \in Ops /\ ops[held[p]] \in Operation /\ ops[held[p]].basis = plan[p]
    BY <1>10, EnterWrites
  <2> QED BY <1>10, <2>1 DEF Enter, Saved, Goto, files, local
<1>11. ASSUME NEW p \in Procs, CheckEntered(p)
      PROVE  ResultIsKnown'
  BY <1>11 DEF CheckEntered, CurrentAndFresh, Current, Owns, Goto, files, local
<1>12. ASSUME NEW p \in Procs, CheckSecret(p)
      PROVE  ResultIsKnown'
  BY <1>12 DEF CheckSecret, CurrentAndFresh, Current, Owns, Goto, files, local
<1>13. ASSUME NEW p \in Procs, Spawn(p)
      PROVE  ResultIsKnown'
  BY <1>13 DEF Spawn, Goto, files, local
<1>14. ASSUME NEW p \in Procs, Hear(p)
      PROVE  ResultIsKnown'
  <2>1. CASE result' = [result EXCEPT ![p] = "unknown"] /\ Goto(p, "finish")
    BY <1>14, <2>1 DEF Hear, Goto, files
  <2>2. ASSUME Goto(p, "closed"), NEW end \in {"completed", "incomplete", "unknown"},
               result' = [result EXCEPT ![p] = end], end = "completed" => tool[held[p]] = "ok"
        PROVE  ResultIsKnown'
    BY <1>14, <2>2 DEF Hear, Goto, files
  <2> QED BY <1>14, <2>1, <2>2, HearsOne
<1>15. ASSUME NEW p \in Procs, CheckClosed(p)
      PROVE  ResultIsKnown'
  BY <1>15 DEF CheckClosed, Current, Owns, Goto, files, local
<1>16. ASSUME NEW p \in Procs, Finish(p)
      PROVE  ResultIsKnown'
  <2>1. PICK effect \in Effects :
            /\ ops' = Saved(held[p], result[p], effect)
            /\ result[p] \in {"completed", "incomplete", "unknown"} => effect # "not-started"
    BY <1>16, FinishWrites
  <2>2. held[p] \in Ops /\ ops[held[p]] \in Operation /\ ops[held[p]].basis = plan[p]
        /\ result[p] \in OpStates
    BY <1>16, FinishWrites
  <2> QED BY <2>1, <2>2, <1>16 DEF Finish, Saved, Goto, files, local
<1>17. ASSUME NEW p \in Procs, Release(p)
      PROVE  ResultIsKnown'
  BY <1>17 DEF Release, Owns, Ended, Goto, files, local
<1>18. ASSUME NEW p \in Procs, Throw(p)
      PROVE  ResultIsKnown'
  BY <1>18 DEF Throw, Goto, files, local
<1>19. ASSUME NEW p \in Procs, Die(p)
      PROVE  ResultIsKnown'
  BY <1>19 DEF Die, Owns, Ended, Goto, files, local
<1>20. ASSUME NEW o \in Ops, ToolEnds(o)
      PROVE  ResultIsKnown'
  BY <1>20 DEF ToolEnds, files, local
<1>21. CASE RemoveLock
  BY <1>21 DEF RemoveLock, files, local
<1>22. CASE Change
  BY <1>22 DEF Change, files, local
<1>23. CASE Tick
  BY <1>23 DEF Tick, Aging, files, local
<1>24. CASE UNCHANGED vars
  BY <1>24 DEF vars, files, local
<1> QED
  BY <1>1, <1>2, <1>3, <1>4, <1>5, <1>6, <1>7, <1>8, <1>9, <1>10, <1>11, <1>12,
     <1>13, <1>14, <1>15, <1>16, <1>17, <1>18, <1>19, <1>20, <1>21, <1>22, <1>23, <1>24 DEF Next, Step

\* A tool starts once, after its receipt.
LEMMA ToolsAreReceiptedStep ==
  ASSUME IInv, [Next]_vars
  PROVE  ToolsAreReceipted'
<1> USE UseAssumption DEF IInv, TypeOK, HeldIsRecorded, ResultIsKnown, ToolsAreReceipted, Settled, OpStates, Effects, Operation, Waiting, Handing, Unreceived
<1>1. ASSUME NEW p \in Procs, Apply(p)
      PROVE  ToolsAreReceipted'
  BY <1>1 DEF Apply, Goto, files, local
<1>2. ASSUME NEW p \in Procs, Claim(p)
      PROVE  ToolsAreReceipted'
  BY <1>2 DEF Claim, Goto, files, local
<1>3. ASSUME NEW p \in Procs, Journal(p)
      PROVE  ToolsAreReceipted'
  BY <1>3 DEF Journal, Goto, files, local
<1>4. ASSUME NEW p \in Procs, CheckPlan(p)
      PROVE  ToolsAreReceipted'
  BY <1>4 DEF CheckPlan, Current, Owns, Goto, files, local
<1>5. ASSUME NEW p \in Procs, NEW o \in Ops, Record(p, o)
      PROVE  ToolsAreReceipted'
  BY <1>5 DEF Record, Goto, files, local
<1>6. ASSUME NEW p \in Procs, Decide(p)
      PROVE  ToolsAreReceipted'
  BY <1>6 DEF Decide, Goto, files, local
<1>7. ASSUME NEW p \in Procs, CheckDeclined(p)
      PROVE  ToolsAreReceipted'
  BY <1>7 DEF CheckDeclined, Current, Owns, EndsChanged, Goto, files, local
<1>8. ASSUME NEW p \in Procs, CheckApproved(p)
      PROVE  ToolsAreReceipted'
  BY <1>8 DEF CheckApproved, CurrentAndFresh, Current, Owns, EndsChanged, Goto, files, local
<1>9. ASSUME NEW p \in Procs, CheckReprobed(p)
      PROVE  ToolsAreReceipted'
  BY <1>9 DEF CheckReprobed, CurrentAndFresh, Current, Owns, EndsChanged, Goto, files, local
<1>10. ASSUME NEW p \in Procs, Enter(p)
      PROVE  ToolsAreReceipted'
  <2>1. held[p] \in Ops /\ ops[held[p]] \in Operation /\ ops[held[p]].basis = plan[p]
    BY <1>10, EnterWrites
  <2> QED BY <1>10, <2>1 DEF Enter, Saved, Goto, files, local
<1>11. ASSUME NEW p \in Procs, CheckEntered(p)
      PROVE  ToolsAreReceipted'
  BY <1>11 DEF CheckEntered, CurrentAndFresh, Current, Owns, Goto, files, local
<1>12. ASSUME NEW p \in Procs, CheckSecret(p)
      PROVE  ToolsAreReceipted'
  BY <1>12 DEF CheckSecret, CurrentAndFresh, Current, Owns, Goto, files, local
<1>13. ASSUME NEW p \in Procs, Spawn(p)
      PROVE  ToolsAreReceipted'
  BY <1>13 DEF Spawn, Goto, files, local
<1>14. ASSUME NEW p \in Procs, Hear(p)
      PROVE  ToolsAreReceipted'
  <2>1. CASE result' = [result EXCEPT ![p] = "unknown"] /\ Goto(p, "finish")
    BY <1>14, <2>1 DEF Hear, Goto, files
  <2>2. ASSUME Goto(p, "closed"), NEW end \in {"completed", "incomplete", "unknown"},
               result' = [result EXCEPT ![p] = end], end = "completed" => tool[held[p]] = "ok"
        PROVE  ToolsAreReceipted'
    BY <1>14, <2>2 DEF Hear, Goto, files
  <2> QED BY <1>14, <2>1, <2>2, HearsOne
<1>15. ASSUME NEW p \in Procs, CheckClosed(p)
      PROVE  ToolsAreReceipted'
  BY <1>15 DEF CheckClosed, Current, Owns, Goto, files, local
<1>16. ASSUME NEW p \in Procs, Finish(p)
      PROVE  ToolsAreReceipted'
  <2>1. PICK effect \in Effects :
            /\ ops' = Saved(held[p], result[p], effect)
            /\ result[p] \in {"completed", "incomplete", "unknown"} => effect # "not-started"
    BY <1>16, FinishWrites
  <2>2. held[p] \in Ops /\ ops[held[p]] \in Operation /\ ops[held[p]].basis = plan[p]
        /\ result[p] \in OpStates
    BY <1>16, FinishWrites
  <2> QED BY <2>1, <2>2, <1>16 DEF Finish, Saved, Goto, files, local
<1>17. ASSUME NEW p \in Procs, Release(p)
      PROVE  ToolsAreReceipted'
  BY <1>17 DEF Release, Owns, Ended, Goto, files, local
<1>18. ASSUME NEW p \in Procs, Throw(p)
      PROVE  ToolsAreReceipted'
  BY <1>18 DEF Throw, Goto, files, local
<1>19. ASSUME NEW p \in Procs, Die(p)
      PROVE  ToolsAreReceipted'
  BY <1>19 DEF Die, Owns, Ended, Goto, files, local
<1>20. ASSUME NEW o \in Ops, ToolEnds(o)
      PROVE  ToolsAreReceipted'
  BY <1>20 DEF ToolEnds, files, local
<1>21. CASE RemoveLock
  BY <1>21 DEF RemoveLock, files, local
<1>22. CASE Change
  BY <1>22 DEF Change, files, local
<1>23. CASE Tick
  BY <1>23 DEF Tick, Aging, files, local
<1>24. CASE UNCHANGED vars
  BY <1>24 DEF vars, files, local
<1> QED
  BY <1>1, <1>2, <1>3, <1>4, <1>5, <1>6, <1>7, <1>8, <1>9, <1>10, <1>11, <1>12,
     <1>13, <1>14, <1>15, <1>16, <1>17, <1>18, <1>19, <1>20, <1>21, <1>22, <1>23, <1>24 DEF Next, Step

\* The journal and the checks replace the lock.
LEMMA OneMayHandStep ==
  ASSUME IInv, [Next]_vars
  PROVE  OneMayHand'
<1> USE UseAssumption DEF IInv, TypeOK, HeldIsRecorded, ResultIsKnown, ToolsAreReceipted, OneMayHand, Active, Excluded, Owns, Pending, Settled, OpStates, Effects, Operation, Waiting, Handing, Unreceived
<1>1. ASSUME NEW p \in Procs, Apply(p)
      PROVE  OneMayHand'
  BY <1>1 DEF Apply, Goto, files, local
<1>2. ASSUME NEW p \in Procs, Claim(p)
      PROVE  OneMayHand'
  BY <1>2 DEF Claim, Goto, files, local
<1>3. ASSUME NEW p \in Procs, Journal(p)
      PROVE  OneMayHand'
  BY <1>3 DEF Journal, Goto, files, local
<1>4. ASSUME NEW p \in Procs, CheckPlan(p)
      PROVE  OneMayHand'
  BY <1>4 DEF CheckPlan, Current, Owns, Goto, files, local
<1>5. ASSUME NEW p \in Procs, NEW o \in Ops, Record(p, o)
      PROVE  OneMayHand'
  BY <1>5 DEF Record, Goto, files, local
<1>6. ASSUME NEW p \in Procs, Decide(p)
      PROVE  OneMayHand'
  BY <1>6 DEF Decide, Goto, files, local
<1>7. ASSUME NEW p \in Procs, CheckDeclined(p)
      PROVE  OneMayHand'
  BY <1>7 DEF CheckDeclined, Current, Owns, EndsChanged, Goto, files, local
<1>8. ASSUME NEW p \in Procs, CheckApproved(p)
      PROVE  OneMayHand'
  BY <1>8 DEF CheckApproved, CurrentAndFresh, Current, Owns, EndsChanged, Goto, files, local
<1>9. ASSUME NEW p \in Procs, CheckReprobed(p)
      PROVE  OneMayHand'
  BY <1>9 DEF CheckReprobed, CurrentAndFresh, Current, Owns, EndsChanged, Goto, files, local
<1>10. ASSUME NEW p \in Procs, Enter(p)
      PROVE  OneMayHand'
  <2>1. held[p] \in Ops /\ ops[held[p]] \in Operation /\ ops[held[p]].basis = plan[p]
    BY <1>10, EnterWrites
  <2> QED BY <1>10, <2>1 DEF Enter, Saved, Goto, files, local
<1>11. ASSUME NEW p \in Procs, CheckEntered(p)
      PROVE  OneMayHand'
  BY <1>11 DEF CheckEntered, CurrentAndFresh, Current, Owns, Goto, files, local
<1>12. ASSUME NEW p \in Procs, CheckSecret(p)
      PROVE  OneMayHand'
  BY <1>12 DEF CheckSecret, CurrentAndFresh, Current, Owns, Goto, files, local
<1>13. ASSUME NEW p \in Procs, Spawn(p)
      PROVE  OneMayHand'
  BY <1>13 DEF Spawn, Goto, files, local
<1>14. ASSUME NEW p \in Procs, Hear(p)
      PROVE  OneMayHand'
  <2>1. CASE result' = [result EXCEPT ![p] = "unknown"] /\ Goto(p, "finish")
    BY <1>14, <2>1 DEF Hear, Goto, files
  <2>2. ASSUME Goto(p, "closed"), NEW end \in {"completed", "incomplete", "unknown"},
               result' = [result EXCEPT ![p] = end], end = "completed" => tool[held[p]] = "ok"
        PROVE  OneMayHand'
    BY <1>14, <2>2 DEF Hear, Goto, files
  <2> QED BY <1>14, <2>1, <2>2, HearsOne
<1>15. ASSUME NEW p \in Procs, CheckClosed(p)
      PROVE  OneMayHand'
  BY <1>15 DEF CheckClosed, Current, Owns, Goto, files, local
<1>16. ASSUME NEW p \in Procs, Finish(p)
      PROVE  OneMayHand'
  <2>1. PICK effect \in Effects :
            /\ ops' = Saved(held[p], result[p], effect)
            /\ result[p] \in {"completed", "incomplete", "unknown"} => effect # "not-started"
    BY <1>16, FinishWrites
  <2>2. held[p] \in Ops /\ ops[held[p]] \in Operation /\ ops[held[p]].basis = plan[p]
        /\ result[p] \in OpStates
    BY <1>16, FinishWrites
  <2> QED BY <2>1, <2>2, <1>16 DEF Finish, Saved, Goto, files, local
<1>17. ASSUME NEW p \in Procs, Release(p)
      PROVE  OneMayHand'
  BY <1>17 DEF Release, Owns, Ended, Goto, files, local
<1>18. ASSUME NEW p \in Procs, Throw(p)
      PROVE  OneMayHand'
  BY <1>18 DEF Throw, Goto, files, local
<1>19. ASSUME NEW p \in Procs, Die(p)
      PROVE  OneMayHand'
  BY <1>19 DEF Die, Owns, Ended, Goto, files, local
<1>20. ASSUME NEW o \in Ops, ToolEnds(o)
      PROVE  OneMayHand'
  BY <1>20 DEF ToolEnds, files, local
<1>21. CASE RemoveLock
  BY <1>21 DEF RemoveLock, files, local
<1>22. CASE Change
  BY <1>22 DEF Change, files, local
<1>23. CASE Tick
  BY <1>23 DEF Tick, Aging, files, local
<1>24. CASE UNCHANGED vars
  BY <1>24 DEF vars, files, local
<1> QED
  BY <1>1, <1>2, <1>3, <1>4, <1>5, <1>6, <1>7, <1>8, <1>9, <1>10, <1>11, <1>12,
     <1>13, <1>14, <1>15, <1>16, <1>17, <1>18, <1>19, <1>20, <1>21, <1>22, <1>23, <1>24 DEF Next, Step

\* An operation that may have had an effect never says it had none.
LEMMA EffectHasReceiptStep ==
  ASSUME IInv, [Next]_vars
  PROVE  EffectHasReceipt'
<1> USE UseAssumption DEF IInv, TypeOK, HeldIsRecorded, ResultIsKnown, ToolsAreReceipted, EffectHasReceipt, Settled, OpStates, Effects, Operation, Waiting, Handing, Unreceived
<1>1. ASSUME NEW p \in Procs, Apply(p)
      PROVE  EffectHasReceipt'
  BY <1>1 DEF Apply, Goto, files, local
<1>2. ASSUME NEW p \in Procs, Claim(p)
      PROVE  EffectHasReceipt'
  BY <1>2 DEF Claim, Goto, files, local
<1>3. ASSUME NEW p \in Procs, Journal(p)
      PROVE  EffectHasReceipt'
  BY <1>3 DEF Journal, Goto, files, local
<1>4. ASSUME NEW p \in Procs, CheckPlan(p)
      PROVE  EffectHasReceipt'
  BY <1>4 DEF CheckPlan, Current, Owns, Goto, files, local
<1>5. ASSUME NEW p \in Procs, NEW o \in Ops, Record(p, o)
      PROVE  EffectHasReceipt'
  BY <1>5 DEF Record, Goto, files, local
<1>6. ASSUME NEW p \in Procs, Decide(p)
      PROVE  EffectHasReceipt'
  BY <1>6 DEF Decide, Goto, files, local
<1>7. ASSUME NEW p \in Procs, CheckDeclined(p)
      PROVE  EffectHasReceipt'
  BY <1>7 DEF CheckDeclined, Current, Owns, EndsChanged, Goto, files, local
<1>8. ASSUME NEW p \in Procs, CheckApproved(p)
      PROVE  EffectHasReceipt'
  BY <1>8 DEF CheckApproved, CurrentAndFresh, Current, Owns, EndsChanged, Goto, files, local
<1>9. ASSUME NEW p \in Procs, CheckReprobed(p)
      PROVE  EffectHasReceipt'
  BY <1>9 DEF CheckReprobed, CurrentAndFresh, Current, Owns, EndsChanged, Goto, files, local
<1>10. ASSUME NEW p \in Procs, Enter(p)
      PROVE  EffectHasReceipt'
  <2>1. held[p] \in Ops /\ ops[held[p]] \in Operation /\ ops[held[p]].basis = plan[p]
    BY <1>10, EnterWrites
  <2> QED BY <1>10, <2>1 DEF Enter, Saved, Goto, files, local
<1>11. ASSUME NEW p \in Procs, CheckEntered(p)
      PROVE  EffectHasReceipt'
  BY <1>11 DEF CheckEntered, CurrentAndFresh, Current, Owns, Goto, files, local
<1>12. ASSUME NEW p \in Procs, CheckSecret(p)
      PROVE  EffectHasReceipt'
  BY <1>12 DEF CheckSecret, CurrentAndFresh, Current, Owns, Goto, files, local
<1>13. ASSUME NEW p \in Procs, Spawn(p)
      PROVE  EffectHasReceipt'
  BY <1>13 DEF Spawn, Goto, files, local
<1>14. ASSUME NEW p \in Procs, Hear(p)
      PROVE  EffectHasReceipt'
  <2>1. CASE result' = [result EXCEPT ![p] = "unknown"] /\ Goto(p, "finish")
    BY <1>14, <2>1 DEF Hear, Goto, files
  <2>2. ASSUME Goto(p, "closed"), NEW end \in {"completed", "incomplete", "unknown"},
               result' = [result EXCEPT ![p] = end], end = "completed" => tool[held[p]] = "ok"
        PROVE  EffectHasReceipt'
    BY <1>14, <2>2 DEF Hear, Goto, files
  <2> QED BY <1>14, <2>1, <2>2, HearsOne
<1>15. ASSUME NEW p \in Procs, CheckClosed(p)
      PROVE  EffectHasReceipt'
  BY <1>15 DEF CheckClosed, Current, Owns, Goto, files, local
<1>16. ASSUME NEW p \in Procs, Finish(p)
      PROVE  EffectHasReceipt'
  <2>1. PICK effect \in Effects :
            /\ ops' = Saved(held[p], result[p], effect)
            /\ result[p] \in {"completed", "incomplete", "unknown"} => effect # "not-started"
    BY <1>16, FinishWrites
  <2>2. held[p] \in Ops /\ ops[held[p]] \in Operation /\ ops[held[p]].basis = plan[p]
        /\ result[p] \in OpStates
    BY <1>16, FinishWrites
  <2> QED BY <2>1, <2>2, <1>16 DEF Finish, Saved, Goto, files, local
<1>17. ASSUME NEW p \in Procs, Release(p)
      PROVE  EffectHasReceipt'
  BY <1>17 DEF Release, Owns, Ended, Goto, files, local
<1>18. ASSUME NEW p \in Procs, Throw(p)
      PROVE  EffectHasReceipt'
  BY <1>18 DEF Throw, Goto, files, local
<1>19. ASSUME NEW p \in Procs, Die(p)
      PROVE  EffectHasReceipt'
  BY <1>19 DEF Die, Owns, Ended, Goto, files, local
<1>20. ASSUME NEW o \in Ops, ToolEnds(o)
      PROVE  EffectHasReceipt'
  BY <1>20 DEF ToolEnds, files, local
<1>21. CASE RemoveLock
  BY <1>21 DEF RemoveLock, files, local
<1>22. CASE Change
  BY <1>22 DEF Change, files, local
<1>23. CASE Tick
  BY <1>23 DEF Tick, Aging, files, local
<1>24. CASE UNCHANGED vars
  BY <1>24 DEF vars, files, local
<1> QED
  BY <1>1, <1>2, <1>3, <1>4, <1>5, <1>6, <1>7, <1>8, <1>9, <1>10, <1>11, <1>12,
     <1>13, <1>14, <1>15, <1>16, <1>17, <1>18, <1>19, <1>20, <1>21, <1>22, <1>23, <1>24 DEF Next, Step

\* Completion was checked against the plan.
LEMMA CompletedWasCurrentStep ==
  ASSUME IInv, [Next]_vars
  PROVE  CompletedWasCurrent'
<1> USE UseAssumption DEF IInv, TypeOK, HeldIsRecorded, ResultIsKnown, ToolsAreReceipted, CompletedWasCurrent, Settled, OpStates, Effects, Operation, Waiting, Handing, Unreceived
<1>1. ASSUME NEW p \in Procs, Apply(p)
      PROVE  CompletedWasCurrent'
  BY <1>1 DEF Apply, Goto, files, local
<1>2. ASSUME NEW p \in Procs, Claim(p)
      PROVE  CompletedWasCurrent'
  BY <1>2 DEF Claim, Goto, files, local
<1>3. ASSUME NEW p \in Procs, Journal(p)
      PROVE  CompletedWasCurrent'
  BY <1>3 DEF Journal, Goto, files, local
<1>4. ASSUME NEW p \in Procs, CheckPlan(p)
      PROVE  CompletedWasCurrent'
  BY <1>4 DEF CheckPlan, Current, Owns, Goto, files, local
<1>5. ASSUME NEW p \in Procs, NEW o \in Ops, Record(p, o)
      PROVE  CompletedWasCurrent'
  BY <1>5 DEF Record, Goto, files, local
<1>6. ASSUME NEW p \in Procs, Decide(p)
      PROVE  CompletedWasCurrent'
  BY <1>6 DEF Decide, Goto, files, local
<1>7. ASSUME NEW p \in Procs, CheckDeclined(p)
      PROVE  CompletedWasCurrent'
  BY <1>7 DEF CheckDeclined, Current, Owns, EndsChanged, Goto, files, local
<1>8. ASSUME NEW p \in Procs, CheckApproved(p)
      PROVE  CompletedWasCurrent'
  BY <1>8 DEF CheckApproved, CurrentAndFresh, Current, Owns, EndsChanged, Goto, files, local
<1>9. ASSUME NEW p \in Procs, CheckReprobed(p)
      PROVE  CompletedWasCurrent'
  BY <1>9 DEF CheckReprobed, CurrentAndFresh, Current, Owns, EndsChanged, Goto, files, local
<1>10. ASSUME NEW p \in Procs, Enter(p)
      PROVE  CompletedWasCurrent'
  <2>1. held[p] \in Ops /\ ops[held[p]] \in Operation /\ ops[held[p]].basis = plan[p]
    BY <1>10, EnterWrites
  <2> QED BY <1>10, <2>1 DEF Enter, Saved, Goto, files, local
<1>11. ASSUME NEW p \in Procs, CheckEntered(p)
      PROVE  CompletedWasCurrent'
  BY <1>11 DEF CheckEntered, CurrentAndFresh, Current, Owns, Goto, files, local
<1>12. ASSUME NEW p \in Procs, CheckSecret(p)
      PROVE  CompletedWasCurrent'
  BY <1>12 DEF CheckSecret, CurrentAndFresh, Current, Owns, Goto, files, local
<1>13. ASSUME NEW p \in Procs, Spawn(p)
      PROVE  CompletedWasCurrent'
  BY <1>13 DEF Spawn, Goto, files, local
<1>14. ASSUME NEW p \in Procs, Hear(p)
      PROVE  CompletedWasCurrent'
  <2>1. CASE result' = [result EXCEPT ![p] = "unknown"] /\ Goto(p, "finish")
    BY <1>14, <2>1 DEF Hear, Goto, files
  <2>2. ASSUME Goto(p, "closed"), NEW end \in {"completed", "incomplete", "unknown"},
               result' = [result EXCEPT ![p] = end], end = "completed" => tool[held[p]] = "ok"
        PROVE  CompletedWasCurrent'
    BY <1>14, <2>2 DEF Hear, Goto, files
  <2> QED BY <1>14, <2>1, <2>2, HearsOne
<1>15. ASSUME NEW p \in Procs, CheckClosed(p)
      PROVE  CompletedWasCurrent'
  BY <1>15 DEF CheckClosed, Current, Owns, Goto, files, local
<1>16. ASSUME NEW p \in Procs, Finish(p)
      PROVE  CompletedWasCurrent'
  <2>1. PICK effect \in Effects :
            /\ ops' = Saved(held[p], result[p], effect)
            /\ result[p] \in {"completed", "incomplete", "unknown"} => effect # "not-started"
    BY <1>16, FinishWrites
  <2>2. held[p] \in Ops /\ ops[held[p]] \in Operation /\ ops[held[p]].basis = plan[p]
        /\ result[p] \in OpStates
    BY <1>16, FinishWrites
  <2> QED BY <2>1, <2>2, <1>16 DEF Finish, Saved, Goto, files, local
<1>17. ASSUME NEW p \in Procs, Release(p)
      PROVE  CompletedWasCurrent'
  BY <1>17 DEF Release, Owns, Ended, Goto, files, local
<1>18. ASSUME NEW p \in Procs, Throw(p)
      PROVE  CompletedWasCurrent'
  BY <1>18 DEF Throw, Goto, files, local
<1>19. ASSUME NEW p \in Procs, Die(p)
      PROVE  CompletedWasCurrent'
  BY <1>19 DEF Die, Owns, Ended, Goto, files, local
<1>20. ASSUME NEW o \in Ops, ToolEnds(o)
      PROVE  CompletedWasCurrent'
  BY <1>20 DEF ToolEnds, files, local
<1>21. CASE RemoveLock
  BY <1>21 DEF RemoveLock, files, local
<1>22. CASE Change
  BY <1>22 DEF Change, files, local
<1>23. CASE Tick
  BY <1>23 DEF Tick, Aging, files, local
<1>24. CASE UNCHANGED vars
  BY <1>24 DEF vars, files, local
<1> QED
  BY <1>1, <1>2, <1>3, <1>4, <1>5, <1>6, <1>7, <1>8, <1>9, <1>10, <1>11, <1>12,
     <1>13, <1>14, <1>15, <1>16, <1>17, <1>18, <1>19, <1>20, <1>21, <1>22, <1>23, <1>24 DEF Next, Step

\* IInv holds initially and every step preserves it.
THEOREM InductiveInvariant == Spec => []IInv
<1>1. Init => IInv
  BY UseAssumption DEF Init, IInv, TypeOK, HeldIsRecorded, ResultIsKnown, ToolsAreReceipted,
     OneMayHand, Active, Excluded, EffectHasReceipt, CompletedWasCurrent, Settled, OpStates,
     Effects, Operation, Waiting, Handing, Unreceived
<1>2. IInv /\ [Next]_vars => IInv'
  BY TypeOKStep, HeldIsRecordedStep, ResultIsKnownStep, ToolsAreReceiptedStep, OneMayHandStep,
     EffectHasReceiptStep, CompletedWasCurrentStep DEF IInv
<1> QED BY <1>1, <1>2, PTL DEF Spec

\* Whatever dies, throws or is removed, no record denies an effect that its
\* tool may have had.
THEOREM ReceiptsAreHonest == Spec => []EffectHasReceipt
<1>1. IInv => EffectHasReceipt
  BY DEF IInv
<1> QED BY <1>1, InductiveInvariant, PTL

\* What is recorded as completed was placed on the approved basis.
THEOREM CompletionIsCurrent == Spec => []CompletedWasCurrent
<1>1. IInv => CompletedWasCurrent
  BY DEF IInv
<1> QED BY <1>1, InductiveInvariant, PTL

\* A secret reaches a tool in one step only, Spawn.
LEMMA OnlySpawnHands ==
  ASSUME [Next]_vars, received' # received
  PROVE  \E p \in Procs : Spawn(p)
<1> QED
  BY DEF Next, Step, vars, files, local, Apply, Claim, Journal, CheckPlan, Record, Decide,
     CheckDeclined, CheckApproved, CheckReprobed, Enter, CheckEntered, CheckSecret, Hear,
     CheckClosed, Finish, Release, Throw, Die, ToolEnds, RemoveLock, Change, Tick

\* A secret is handed over only when every earlier handover of this use is known
\* to have completed: the call that hands it is not excluded, so no operation
\* but its own is both unfinished and received.
THEOREM HandoverIsNotReplayed == Spec => NoReplay
<1>1. ASSUME IInv, [Next]_vars, NEW o \in Ops, received'[o] # received[o],
             NEW q \in Ops \ {o}, received[q] # Unreceived
      PROVE  ops[q].state = "completed"
  <2>1. PICK p \in Procs : Spawn(p)
    BY <1>1, OnlySpawnHands
  <2>2. held[p] = o
    BY <1>1, <2>1 DEF Spawn, IInv, TypeOK
  <2>3. Active(p) /\ ~Excluded(p)
    BY <2>1 DEF Spawn, Active, Excluded, Waiting, Handing
  <2>4. q \notin Pending
    BY <1>1, <2>2, <2>3 DEF IInv, OneMayHand
  <2>5. ops[q] # Nobody /\ ops[q].state \in {"executing", "completed", "incomplete", "unknown"}
    BY <1>1 DEF IInv, EffectHasReceipt
  <2> QED BY <2>4, <2>5 DEF Pending, Settled
<1>2. IInv /\ [Next]_vars =>
        [\A o \in Ops : received'[o] # received[o] =>
           \A q \in Ops \ {o} : received[q] # Unreceived => ops[q].state = "completed"]_vars
  BY <1>1
<1> QED BY <1>2, InductiveInvariant, PTL DEF Spec, NoReplay

\* A secret is handed over by a call whose approval was given and had not expired
\* at its last check.
THEOREM HandoverIsApproved == Spec => ApprovalIsFresh
<1>1. ASSUME IInv, [Next]_vars, NEW o \in Ops, received'[o] # received[o]
      PROVE  \E p \in Procs : held[p] = o /\ result[p] = "none" /\ age[p] <= AgeLimit
  <2>1. PICK p \in Procs : Spawn(p)
    BY <1>1, OnlySpawnHands
  <2>2. held[p] = o
    BY <1>1, <2>1 DEF Spawn, IInv, TypeOK
  <2>3. result[p] = "none" /\ age[p] <= AgeLimit
    BY <1>1, <2>1 DEF Spawn, IInv, HeldIsRecorded, ToolsAreReceipted
  <2> QED BY <2>2, <2>3
<1>2. IInv /\ [Next]_vars =>
        [\A o \in Ops : received'[o] # received[o] =>
           \E p \in Procs : held[p] = o /\ result[p] = "none" /\ age[p] <= AgeLimit]_vars
  BY <1>1
<1> QED BY <1>2, InductiveInvariant, PTL DEF Spec, ApprovalIsFresh
===============================================================================
