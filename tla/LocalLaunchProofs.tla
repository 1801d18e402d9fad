-------------------------- MODULE LocalLaunchProofs --------------------------
(***************************************************************************)
(* A profile has at most one application, whatever the number of launches. *)
(*                                                                         *)
(* The lock alone does not show it: it is given back, or removed, while an *)
(* application may still run.  The invariant therefore joins three things: *)
(* a launch between its claim and its answer holds the lock; one that has  *)
(* looked at the operations found every other one at a certain end, and no *)
(* other launch can save one meanwhile; and an operation at a certain end  *)
(* has no application.                                                     *)
(***************************************************************************)
EXTENDS LocalLaunch, TLAPS

Quiet == Ended \cup {"none"}
States == Quiet \cup {"consent-needed", "prepared", "running", "unknown"}
Effects == {"none", "not-started", "possible", "completed", "unknown"}
Operations == [state : States, effect : Effects]

Ends == [status : Quiet \cup {"unknown"},
         execution : {"none", "not-started", "possible"},
         tree : {"none", "not-needed", "confirmed", "unknown"}]

Early == {"idle", "claim", "list", "record"}
HandingOff == {"handoff", "created", "running", "save"}
Past == {"record", "approve"} \cup HandingOff
Held == {"list"} \cup Past
Steps == Early \cup Held \cup {"done", "dead"}

TypeOK ==
  /\ lock \in Calls \cup {None}
  /\ op \in [Calls -> Operations]
  /\ known \in [Calls -> Operations]
  /\ pc \in [Calls -> Steps]
  /\ tree \in [Calls -> {"none", "running", "dying", "dead"}]
  /\ ended \in [Calls -> Ends]

\* What a launch has made of its operation and its application at each step.
Phase(c) ==
  /\ pc[c] \in Early => op[c].state = "none"
  /\ pc[c] = "approve" => op[c] = [state |-> "consent-needed", effect |-> "not-started"]
  /\ pc[c] \in HandingOff => op[c].state \in {"prepared", "running"} /\ op[c].effect = "possible"
  /\ pc[c] \in Early \cup {"approve", "handoff"} => tree[c] = "none"
  /\ pc[c] \in {"created", "running"} => tree[c] = "running"
  /\ pc[c] = "save" /\ ended[c].status # "unknown" /\ ended[c].tree # "unknown" => ~Alive(c)

\* An operation tells the truth of its application.
Truth(c) ==
  /\ Alive(c) => op[c].state \notin Quiet
  /\ op[c].state # "none" /\ op[c].effect = "not-started" => tree[c] = "none"

IInv ==
  /\ TypeOK
  /\ \A c \in Calls : pc[c] \in Held => lock = c
  /\ \A c, d \in Calls : pc[c] \in Past /\ d # c => op[d].state \in Quiet
  /\ \A c \in Calls : Phase(c) /\ Truth(c)
  /\ \A c, d \in Calls : Alive(c) /\ Alive(d) => c = d

-----------------------------------------------------------------------------
\* Initially no call has begun.
LEMMA InitIInv == Init => IInv
  BY DEF Init, IInv, TypeOK, Phase, Truth, Alive, NoOperation, NoEnd, Operations, Ends, States, Effects,
         Quiet, Ended, Early, HandingOff, Past, Held, Steps

\* What is the same of every other call.
Frame(c) == \A d \in Calls : d # c => pc'[d] = pc[d] /\ op'[d] = op[d] /\ tree'[d] = tree[d] /\ ended'[d] = ended[d]

\* A step of one call preserves the invariant when what it does to that call
\* does: the lock is taken only from nobody and given back only by its holder,
\* an operation is saved only under the lock, and an application starts only
\* at the handoff.
LEMMA StepKeeps ==
  ASSUME IInv, TypeOK', NEW c \in Calls, Frame(c),
         lock' = lock \/ lock \in {c, None},
         op'[c] = op[c] \/ lock = c,
         pc'[c] \in Held => lock' = c,
         pc'[c] \in Past => \A d \in Calls : d # c => op[d].state \in Quiet,
         Phase(c)', Truth(c)',
         Alive(c)' => Alive(c) \/ pc[c] = "handoff"
  PROVE  IInv'
<1> USE DEF IInv
<1>1. ASSUME NEW d \in Calls, d # c
      PROVE  /\ Phase(d)' /\ Truth(d)'
             /\ Alive(d)' <=> Alive(d)
             /\ pc[d] \in Held => lock' = d
  <2>1. pc'[d] = pc[d] /\ op'[d] = op[d] /\ tree'[d] = tree[d] /\ ended'[d] = ended[d]
    BY <1>1 DEF Frame
  <2>2. pc[d] \in Held => lock' = d
    BY <1>1, LaunchAssumption
  <2> QED BY <1>1, <2>1, <2>2 DEF Phase, Truth, Alive
<1>2. \A d \in Calls : pc'[d] \in Held => lock' = d
  BY <1>1 DEF Frame
<1>3. ASSUME NEW d \in Calls, NEW e \in Calls, pc'[d] \in Past, e # d
      PROVE  op'[e].state \in Quiet
  <2>1. CASE d = c
    BY <1>3, <2>1 DEF Frame
  <2>2. CASE d # c /\ e # c
    BY <1>3, <2>2 DEF Frame
  <2>3. CASE d # c /\ e = c
    <3>1. pc[d] \in Past /\ lock = d
      BY <1>3, <2>3 DEF Frame, Held
    <3> QED BY <1>3, <2>3, <3>1
  <2> QED BY <2>1, <2>2, <2>3
<1>4. \A d \in Calls : Phase(d)' /\ Truth(d)'
  BY <1>1
<1>5. ASSUME NEW d \in Calls, d # c, Alive(c)', Alive(d)'
      PROVE  FALSE
  <2>1. Alive(d)
    BY <1>1, <1>5
  <2>2. pc[c] = "handoff"
    BY <1>5, <2>1
  <2>3. op[d].state \in Quiet
    BY <1>5, <2>2 DEF Past, HandingOff
  <2> QED BY <2>1, <2>3 DEF Truth
<1>6. \A d, e \in Calls : Alive(d)' /\ Alive(e)' => d = e
  BY <1>1, <1>5
<1> QED BY <1>2, <1>3, <1>4, <1>6

-----------------------------------------------------------------------------
\* What answering does to the lock.
LEMMA AnswerFrees ==
  ASSUME TypeOK, NEW c \in Calls, NEW said, Answer(c, said)
  PROVE  /\ pc' = [pc EXCEPT ![c] = "done"]
         /\ lock' = lock \/ (lock' = None /\ lock = c)
BY DEF Answer, Goto

\* What saving an operation can do to its file, whether or not it fails.
LEMMA SavingWrites ==
  ASSUME TypeOK, NEW c \in Calls, NEW new \in Operations, Saved(c, new) \/ NotSaved(c, new)
  PROVE  /\ op' = op \/ op' = [op EXCEPT ![c] = new]
         /\ known' \in [Calls -> Operations]
         /\ op' \in [Calls -> Operations]
BY DEF Saved, NotSaved, TypeOK

\* Every step of a call keeps the invariant.
LEMMA PrepareKeeps == ASSUME IInv, NEW c \in Calls, Prepare(c) PROVE IInv'
<1> USE DEF IInv, Prepare
<1>1. TypeOK
  OBVIOUS
<1>2. /\ pc' = [pc EXCEPT ![c] = "done"] \/ pc' = [pc EXCEPT ![c] = "claim"]
      /\ lock' = lock \/ (lock' = None /\ lock = c)
  BY <1>1, AnswerFrees DEF Goto
<1>3. TypeOK'
  BY <1>2 DEF TypeOK, Steps, Held, Early
<1>4. Frame(c) /\ pc'[c] \in {"done", "claim"}
  BY <1>1, <1>2 DEF Frame, TypeOK
<1>5. pc'[c] \notin Held /\ pc'[c] \notin Past
  BY <1>4 DEF Held, Past, HandingOff
<1>6. Phase(c)' /\ Truth(c)' /\ Alive(c)' = Alive(c)
  BY <1>4 DEF Phase, Truth, Alive, Early, HandingOff
<1> QED BY <1>2, <1>3, <1>4, <1>5, <1>6, StepKeeps

LEMMA ClaimKeeps == ASSUME IInv, NEW c \in Calls, Claim(c) PROVE IInv'
<1> USE DEF IInv, Claim
<1>1. TypeOK
  OBVIOUS
<1>2. \/ /\ pc' = [pc EXCEPT ![c] = "done"]
         /\ lock' = lock \/ lock = c
      \/ /\ pc' = [pc EXCEPT ![c] = "list"]
         /\ lock = None /\ lock' = c
  BY <1>1, AnswerFrees DEF Goto
<1>3. TypeOK'
  BY <1>1, <1>2, AnswerFrees DEF TypeOK, Steps, Held, Past
<1>4. Frame(c) /\ (pc'[c] = "done" \/ (pc'[c] = "list" /\ lock' = c))
  BY <1>1, <1>2 DEF Frame, TypeOK
<1>5. (pc'[c] \in Held => lock' = c) /\ pc'[c] \notin Past
  BY <1>4 DEF Held, Past, HandingOff
<1>6. Phase(c)' /\ Truth(c)' /\ Alive(c)' = Alive(c)
  BY <1>4 DEF Phase, Truth, Alive, Early, HandingOff
<1> QED BY <1>2, <1>3, <1>4, <1>5, <1>6, StepKeeps

LEMMA ListKeeps == ASSUME IInv, NEW c \in Calls, List(c) PROVE IInv'
<1> USE DEF IInv, List
<1>1. TypeOK /\ lock = c
  BY DEF Held
<1>2. \/ pc' = [pc EXCEPT ![c] = "done"] /\ lock' \in {lock, None}
      \/ pc' = [pc EXCEPT ![c] = "record"] /\ lock' = lock /\ ~Pending
  BY <1>1, AnswerFrees DEF Goto
<1>3. TypeOK'
  BY <1>1, <1>2 DEF TypeOK, Steps, Early
<1>4. Frame(c) /\ (pc'[c] = "done" \/ (pc'[c] = "record" /\ lock' = c /\ ~Pending))
  BY <1>1, <1>2 DEF Frame, TypeOK
<1>5. /\ pc'[c] \in Held => lock' = c
      /\ pc'[c] \in Past => \A d \in Calls : d # c => op[d].state \in Quiet
  BY <1>4 DEF Held, Past, HandingOff, Pending, Quiet
<1>6. Phase(c)' /\ Truth(c)' /\ Alive(c)' = Alive(c)
  BY <1>4 DEF Phase, Truth, Alive, Early, HandingOff
<1> QED BY <1>1, <1>3, <1>4, <1>5, <1>6, StepKeeps

LEMMA RecordKeeps == ASSUME IInv, NEW c \in Calls, Record(c) PROVE IInv'
<1> DEFINE new == [state |-> "consent-needed", effect |-> "not-started"]
<1> USE DEF IInv
<1>1. TypeOK /\ lock = c /\ pc[c] = "record" /\ tree[c] = "none" /\ op[c].state = "none"
  BY DEF Record, Held, Past, Phase, Early
<1>2. new \in Operations
  BY DEF Operations, States, Effects
<1>3. /\ \/ Saved(c, new) /\ pc' = [pc EXCEPT ![c] = "approve"] /\ lock' = lock
         \/ /\ pc' = [pc EXCEPT ![c] = "done"] /\ lock' \in {lock, None}
            /\ NotSaved(c, new) \/ (op' = op /\ known' = known)
      /\ tree' = tree /\ ended' = ended
  BY <1>1, AnswerFrees DEF Goto, Record
<1>4. /\ op' = op \/ op' = [op EXCEPT ![c] = new]
      /\ known' \in [Calls -> Operations] /\ op' \in [Calls -> Operations]
  BY <1>1, <1>2, <1>3, SavingWrites DEF TypeOK
<1>5. TypeOK'
  BY <1>1, <1>3, <1>4 DEF TypeOK, Steps, Held, Past
<1>6. Frame(c)
  BY <1>1, <1>3, <1>4 DEF Frame, TypeOK
<1>7. /\ tree'[c] = "none"
      /\ \/ pc'[c] = "approve" /\ lock' = c /\ op'[c] = new
         \/ pc'[c] = "done" /\ (op'[c] = new \/ op'[c] = op[c])
  BY <1>1, <1>3, <1>4 DEF TypeOK, Saved
<1>8. /\ pc'[c] \in Held => lock' = c
      /\ pc'[c] \in Past => \A d \in Calls : d # c => op[d].state \in Quiet
  BY <1>1, <1>7 DEF Held, Past, HandingOff
<1>9. Phase(c)' /\ Truth(c)' /\ ~Alive(c)'
  BY <1>1, <1>7 DEF Phase, Truth, Alive, Early, HandingOff
<1> QED BY <1>1, <1>5, <1>6, <1>8, <1>9, StepKeeps

LEMMA RefuseKeeps == ASSUME IInv, NEW c \in Calls, Refuse(c) PROVE IInv'
<1> USE DEF IInv
<1>1. TypeOK /\ lock = c /\ pc[c] = "approve" /\ tree[c] = "none"
      /\ op[c] = [state |-> "consent-needed", effect |-> "not-started"]
  BY DEF Refuse, Held, Past, Phase, Early
<1>2. PICK state \in {"cancelled", "changed"} :
        /\ Saved(c, [op[c] EXCEPT !.state = state]) \/ NotSaved(c, [op[c] EXCEPT !.state = state])
        /\ pc' = [pc EXCEPT ![c] = "done"] /\ lock' \in {lock, None}
        /\ tree' = tree /\ ended' = ended
  BY <1>1, AnswerFrees DEF Refuse
<1> DEFINE new == [op[c] EXCEPT !.state = state]
<1>3. new \in Operations
  BY <1>1 DEF Operations, States, Effects, Quiet, Ended
<1>4. /\ op' = op \/ op' = [op EXCEPT ![c] = new]
      /\ known' \in [Calls -> Operations] /\ op' \in [Calls -> Operations]
  BY <1>1, <1>2, <1>3, SavingWrites
<1>5. TypeOK'
  BY <1>1, <1>2, <1>4 DEF TypeOK, Steps
<1>6. Frame(c)
  BY <1>1, <1>2, <1>4 DEF Frame, TypeOK
<1>7. tree'[c] = "none" /\ pc'[c] = "done"
  BY <1>1, <1>2 DEF TypeOK
<1>8. pc'[c] \notin Held /\ pc'[c] \notin Past
  BY <1>7 DEF Held, Past, HandingOff
<1>9. Phase(c)' /\ Truth(c)' /\ ~Alive(c)'
  BY <1>7 DEF Phase, Truth, Alive, Early, HandingOff
<1> QED BY <1>1, <1>2, <1>5, <1>6, <1>8, <1>9, StepKeeps

LEMMA ApproveKeeps == ASSUME IInv, NEW c \in Calls, Approve(c) PROVE IInv'
<1> DEFINE new == [state |-> "prepared", effect |-> "possible"]
<1> USE DEF IInv
<1>1. TypeOK /\ lock = c /\ pc[c] = "approve" /\ tree[c] = "none"
  BY DEF Approve, Held, Past, Phase, Early
<1>2. new \in Operations
  BY DEF Operations, States, Effects
<1>3. /\ \/ Saved(c, new) /\ pc' = [pc EXCEPT ![c] = "handoff"] /\ lock' = lock
         \/ NotSaved(c, new) /\ pc' = [pc EXCEPT ![c] = "done"] /\ lock' \in {lock, None}
      /\ tree' = tree /\ ended' = ended
  BY <1>1, AnswerFrees DEF Goto, Approve
<1>4. /\ op' = op \/ op' = [op EXCEPT ![c] = new]
      /\ known' \in [Calls -> Operations] /\ op' \in [Calls -> Operations]
  BY <1>1, <1>2, <1>3, SavingWrites
<1>5. TypeOK'
  BY <1>1, <1>3, <1>4 DEF TypeOK, Steps, Held, Past, HandingOff
<1>6. Frame(c)
  BY <1>1, <1>3, <1>4 DEF Frame, TypeOK
<1>7. /\ tree'[c] = "none"
      /\ pc'[c] = "done" \/ (pc'[c] = "handoff" /\ lock' = c /\ op'[c] = new)
  BY <1>1, <1>3 DEF TypeOK, Saved
<1>8. /\ pc'[c] \in Held => lock' = c
      /\ pc'[c] \in Past => \A d \in Calls : d # c => op[d].state \in Quiet
  BY <1>1, <1>7 DEF Held, Past, HandingOff
<1>9. Phase(c)' /\ Truth(c)' /\ ~Alive(c)'
  BY <1>7 DEF Phase, Truth, Alive, Early, HandingOff
<1> QED BY <1>1, <1>3, <1>5, <1>6, <1>8, <1>9, StepKeeps

LEMMA CreateKeeps == ASSUME IInv, NEW c \in Calls, Create(c) PROVE IInv'
<1> USE DEF IInv, Create
<1>1. TypeOK /\ lock = c /\ pc[c] = "handoff" /\ pc' = [pc EXCEPT ![c] = "created"]
      /\ op[c].state \in {"prepared", "running"} /\ op[c].effect = "possible"
  BY DEF Held, Past, HandingOff, Phase, Goto
<1>2. TypeOK'
  BY <1>1 DEF TypeOK, Steps, Held, Past, HandingOff
<1>3. Frame(c) /\ pc'[c] = "created" /\ tree'[c] = "running"
  BY <1>1 DEF Frame, TypeOK
<1>4. pc'[c] \in Past => \A d \in Calls : d # c => op[d].state \in Quiet
  BY <1>1 DEF Past, HandingOff
<1>5. Phase(c)' /\ Truth(c)'
  BY <1>1, <1>3 DEF Phase, Truth, Alive, Early, HandingOff, Quiet, Ended
<1> QED BY <1>1, <1>2, <1>3, <1>4, <1>5, StepKeeps

LEMMA LaunchedKeeps == ASSUME IInv, NEW c \in Calls, Launched(c) PROVE IInv'
<1> DEFINE new == [op[c] EXCEPT !.state = "running"]
<1> USE DEF IInv
<1>1. TypeOK /\ lock = c /\ pc[c] = "created"
      /\ op[c].state \in {"prepared", "running"} /\ op[c].effect = "possible"
      /\ tree[c] = "running"
  BY DEF Launched, Held, Past, HandingOff, Phase
<1>2. new \in Operations /\ new.state = "running" /\ new.effect = "possible"
  BY <1>1 DEF TypeOK, Operations, States
<1> HIDE DEF new
<1>3. \/ Saved(c, new) /\ pc' = [pc EXCEPT ![c] = "running"] /\ tree' = tree /\ ended' = ended
      \/ /\ NotSaved(c, new) /\ pc' = [pc EXCEPT ![c] = "save"]
         /\ tree' = [tree EXCEPT ![c] = "dying"]
         /\ ended' = [ended EXCEPT ![c] = [status |-> "unknown", execution |-> "possible", tree |-> "unknown"]]
  BY DEF Goto, Launched, new
<1>4. /\ op' = op \/ op' = [op EXCEPT ![c] = new]
      /\ known' \in [Calls -> Operations] /\ op' \in [Calls -> Operations]
  BY <1>1, <1>2, <1>3, SavingWrites
<1>5. TypeOK'
  <2>1. [status |-> "unknown", execution |-> "possible", tree |-> "unknown"] \in Ends
    BY DEF Ends
  <2>2. ended' \in [Calls -> Ends] /\ tree' \in [Calls -> {"none", "running", "dying", "dead"}]
    BY <1>1, <1>3, <2>1 DEF TypeOK
  <2>3. pc' \in [Calls -> Steps]
    BY <1>1, <1>3 DEF TypeOK, Steps, Held, Past, HandingOff
  <2> QED BY <1>1, <1>4, <2>2, <2>3 DEF TypeOK, Launched
<1>6. Frame(c)
  BY <1>1, <1>3, <1>4 DEF Frame, TypeOK
<1>7. /\ lock' = c /\ Alive(c)
      /\ op'[c].state \in {"prepared", "running"} /\ op'[c].effect = "possible"
      /\ (pc'[c] = "running" /\ tree'[c] = "running") \/ (pc'[c] = "save" /\ ended'[c].status = "unknown")
  BY <1>1, <1>2, <1>3, <1>4 DEF TypeOK, Launched, Alive
<1>8. pc'[c] \in Past => \A d \in Calls : d # c => op[d].state \in Quiet
  BY <1>1 DEF Past, HandingOff
<1>9. Phase(c)' /\ Truth(c)'
  BY <1>7 DEF Phase, Truth, Alive, Early, HandingOff, Quiet, Ended
<1> QED BY <1>1, <1>5, <1>6, <1>7, <1>8, <1>9, StepKeeps

LEMMA ReturnKeeps == ASSUME IInv, NEW c \in Calls, Return(c) PROVE IInv'
<1> USE DEF IInv
<1>1. TypeOK /\ lock = c /\ pc[c] \in {"handoff", "created", "running"}
      /\ op[c].state \in {"prepared", "running"} /\ op[c].effect = "possible"
      /\ (pc[c] = "handoff" => tree[c] = "none")
  BY DEF Return, Held, Past, HandingOff, Phase
<1>2. /\ pc' = [pc EXCEPT ![c] = "save"] /\ lock' = lock /\ op' = op /\ known' = known
      /\ \E end \in Ends :
           /\ ended' = [ended EXCEPT ![c] = end]
           /\ \/ pc[c] = "handoff" /\ tree' = tree
              \/ tree' = [tree EXCEPT ![c] = "dead"]
              \/ end.tree = "unknown" /\ tree' = [tree EXCEPT ![c] = "dying"] /\ pc[c] # "handoff"
  <2>1. CASE /\ pc[c] = "handoff" /\ tree' = tree
             /\ \E status \in {"changed", "cancelled", "expired", "unknown"} :
                  ended' = [ended EXCEPT ![c] = [status |-> status, execution |-> "not-started", tree |-> "not-needed"]]
    <3>1. \A status \in {"changed", "cancelled", "expired", "unknown"} :
            [status |-> status, execution |-> "not-started", tree |-> "not-needed"] \in Ends
      BY DEF Ends, Quiet, Ended
    <3> QED BY <1>1, <2>1, <3>1 DEF Return, Goto
  <2>2. CASE /\ tree' = [tree EXCEPT ![c] = "dead"]
             /\ \E status \in Ended :
                  ended' = [ended EXCEPT ![c] = [status |-> status, execution |-> "possible", tree |-> "confirmed"]]
    <3>1. \A status \in Ended :
            [status |-> status, execution |-> "possible", tree |-> "confirmed"] \in Ends
      BY DEF Ends, Quiet
    <3> QED BY <1>1, <2>2, <3>1 DEF Return, Goto
  <2>3. CASE /\ pc[c] # "handoff" /\ tree' = [tree EXCEPT ![c] = "dying"]
             /\ ended' = [ended EXCEPT ![c] = [status |-> "unknown", execution |-> "possible", tree |-> "unknown"]]
    <3>1. [status |-> "unknown", execution |-> "possible", tree |-> "unknown"] \in Ends
      BY DEF Ends
    <3> QED BY <1>1, <2>3, <3>1 DEF Return, Goto
  <2> QED BY <1>1, <2>1, <2>2, <2>3 DEF Return
<1>3. TypeOK'
  BY <1>1, <1>2 DEF TypeOK, Steps, Held, Past, HandingOff
<1>4. Frame(c)
  BY <1>1, <1>2 DEF Frame, TypeOK
<1>5. /\ pc'[c] = "save" /\ lock' = c /\ op'[c] = op[c]
      /\ Alive(c)' => ended'[c].tree = "unknown" /\ Alive(c)
  BY <1>1, <1>2 DEF TypeOK, Alive, Phase
<1>6. pc'[c] \in Past => \A d \in Calls : d # c => op[d].state \in Quiet
  BY <1>1 DEF Past, HandingOff
<1>7. Phase(c)' /\ Truth(c)'
  BY <1>1, <1>5 DEF Phase, Truth, Early, HandingOff, Quiet, Ended
<1> QED BY <1>1, <1>3, <1>4, <1>5, <1>6, <1>7, StepKeeps

LEMMA FinishKeeps == ASSUME IInv, NEW c \in Calls, Finish(c) PROVE IInv'
<1> DEFINE uncertain == ended[c].tree = "unknown" \/ ended[c].status = "unknown"
           new == IF uncertain THEN [state |-> "unknown", effect |-> "unknown"]
                               ELSE [state |-> ended[c].status, effect |-> "completed"]
<1> USE DEF IInv
<1>1. TypeOK /\ lock = c /\ pc[c] = "save"
      /\ op[c].state \in {"prepared", "running"} /\ op[c].effect = "possible"
      /\ (~uncertain => ~Alive(c))
  BY DEF Finish, Held, Past, HandingOff, Phase
<1>2. /\ new \in Operations /\ new.effect # "not-started"
      /\ Alive(c) => new.state \notin Quiet
  <2>1. ended[c].status \in Quiet \cup {"unknown"}
    BY <1>1 DEF TypeOK, Ends
  <2>2. CASE uncertain
    BY <2>2 DEF Operations, States, Effects, Quiet, Ended
  <2>3. CASE ~uncertain
    BY <1>1, <2>1, <2>3 DEF Operations, States, Effects
  <2> QED BY <2>2, <2>3
<1>3. /\ Saved(c, new) \/ NotSaved(c, new)
      /\ pc' = [pc EXCEPT ![c] = "done"] /\ lock' \in {lock, None}
      /\ tree' = tree /\ ended' = ended
  BY <1>1, AnswerFrees DEF Finish
<1> HIDE DEF new, uncertain
<1>4. /\ op' = op \/ op' = [op EXCEPT ![c] = new]
      /\ known' \in [Calls -> Operations] /\ op' \in [Calls -> Operations]
  BY <1>1, <1>2, <1>3, SavingWrites
<1>5. TypeOK'
  BY <1>1, <1>3, <1>4 DEF TypeOK, Steps
<1>6. Frame(c)
  BY <1>1, <1>3, <1>4 DEF Frame, TypeOK
<1>7. pc'[c] = "done" /\ tree'[c] = tree[c] /\ op'[c] \in {op[c], new}
  BY <1>1, <1>3, <1>4 DEF TypeOK
<1>8. pc'[c] \notin Held /\ pc'[c] \notin Past
  BY <1>7 DEF Held, Past, HandingOff
<1>9. Phase(c)' /\ Truth(c)' /\ Alive(c)' = Alive(c)
  BY <1>1, <1>2, <1>7 DEF Phase, Truth, Alive, Early, HandingOff, Quiet, Ended
<1> QED BY <1>1, <1>3, <1>5, <1>6, <1>8, <1>9, StepKeeps

LEMMA CrashKeeps == ASSUME IInv, NEW c \in Calls, Crash(c) PROVE IInv'
<1> USE DEF IInv
<1>1. TypeOK /\ pc' = [pc EXCEPT ![c] = "dead"] /\ lock' = lock /\ op' = op /\ ended' = ended /\ known' = known
      /\ tree' = [tree EXCEPT ![c] = IF tree[c] = "running" THEN "dying" ELSE tree[c]]
  BY DEF Crash, Goto
<1>2. TypeOK'
  BY <1>1 DEF TypeOK, Steps
<1>3. Frame(c) /\ pc'[c] = "dead" /\ op'[c] = op[c]
  BY <1>1 DEF Frame, TypeOK
<1>4. pc'[c] \notin Held /\ pc'[c] \notin Past
  BY <1>3 DEF Held, Past, HandingOff
<1>5. Alive(c)' = Alive(c) /\ (tree[c] = "none" => tree'[c] = "none")
  BY <1>1 DEF TypeOK, Alive
<1>6. Phase(c)' /\ Truth(c)'
  BY <1>3, <1>5 DEF Phase, Truth, Early, HandingOff
<1> QED BY <1>1, <1>2, <1>3, <1>4, <1>5, <1>6, StepKeeps

LEMMA TreeDiesKeeps == ASSUME IInv, NEW c \in Calls, TreeDies(c) PROVE IInv'
<1> USE DEF IInv, TreeDies
<1>1. TypeOK
  OBVIOUS
<1>2. TypeOK'
  BY <1>1 DEF TypeOK
<1>3. Frame(c) /\ ~Alive(c)' /\ tree[c] = "dying"
  BY <1>1 DEF Frame, TypeOK, Alive
<1>4. Phase(c)' /\ Truth(c)'
  BY <1>3 DEF Phase, Truth
<1>5. /\ pc'[c] \in Held => lock' = c
      /\ pc'[c] \in Past => \A d \in Calls : d # c => op[d].state \in Quiet
  OBVIOUS
<1> QED BY <1>2, <1>3, <1>4, <1>5, StepKeeps

LEMMA CleanUpKeeps == ASSUME IInv, NEW c \in Calls, CleanUp(c) PROVE IInv'
<1> USE DEF IInv, CleanUp
<1>1. TypeOK' /\ Frame(c) /\ Phase(c)' /\ Truth(c)' /\ Alive(c)' = Alive(c)
  BY DEF TypeOK, Frame, Phase, Truth, Alive
<1>2. pc[c] \notin Held
  <2>1. "done" \notin Held /\ "dead" \notin Held
    BY DEF Held, Past, HandingOff
  <2> QED BY <2>1, LaunchAssumption
<1>3. pc[c] \notin Past
  BY <1>2 DEF Held
<1> QED BY <1>1, <1>2, <1>3, StepKeeps

-----------------------------------------------------------------------------
\* The invariant is kept by every step of the specification.
LEMMA IInvStep == IInv /\ [Next]_vars => IInv'
<1> SUFFICES ASSUME IInv, [Next]_vars PROVE IInv'
  OBVIOUS
<1>1. CASE Edit
  BY <1>1 DEF Edit, IInv, TypeOK, Phase, Truth, Alive
<1>2. CASE UNCHANGED vars
  BY <1>2 DEF vars, IInv, TypeOK, Phase, Truth, Alive
<1>3. ASSUME NEW c \in Calls, Prepare(c) \/ Claim(c) \/ List(c) \/ Record(c) \/ Refuse(c) \/ Approve(c)
      PROVE  IInv'
  BY <1>3, PrepareKeeps, ClaimKeeps, ListKeeps, RecordKeeps, RefuseKeeps, ApproveKeeps
<1>4. ASSUME NEW c \in Calls, Create(c) \/ Launched(c) \/ Return(c) \/ Finish(c)
      PROVE  IInv'
  BY <1>4, CreateKeeps, LaunchedKeeps, ReturnKeeps, FinishKeeps
<1>5. ASSUME NEW c \in Calls, Crash(c) \/ TreeDies(c) \/ CleanUp(c)
      PROVE  IInv'
  BY <1>5, CrashKeeps, TreeDiesKeeps, CleanUpKeeps
<1> QED BY <1>1, <1>2, <1>3, <1>4, <1>5 DEF Next

\* It says of every state what is wanted.
LEMMA IInvImplies == IInv => OneApplicationPerProfile
<1> SUFFICES ASSUME IInv, NEW c \in Calls, op[c].state # "none"
             PROVE  /\ StatusOf(op[c]).execution = "not-started" => tree[c] = "none"
                    /\ StatusOf(op[c]).tree = "confirmed" => ~Alive(c)
  BY DEF IInv, OneApplicationPerProfile
<1>1. Truth(c)
  BY DEF IInv
<1>2. StatusOf(op[c]).execution = "not-started" => op[c].effect = "not-started"
  BY DEF StatusOf
<1>3. StatusOf(op[c]).tree = "confirmed" => op[c].state \in Ended
  BY DEF StatusOf
<1> QED BY <1>1, <1>2, <1>3 DEF Truth, Quiet

\* A profile never has two applications, and the status of a launch never
\* denies its application nor confirms an end that has not come: for any number
\* of launches, edits, failures, crashes and removed locks.
THEOREM ProfileHasOneApplication == Spec => []OneApplicationPerProfile
<1>1. Init => IInv
  BY InitIInv
<1>2. IInv /\ [Next]_vars => IInv'
  BY IInvStep
<1>3. IInv => OneApplicationPerProfile
  BY IInvImplies
<1> QED BY <1>1, <1>2, <1>3, PTL DEF Spec
=============================================================================
