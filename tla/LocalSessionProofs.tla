-------------------------- MODULE LocalSessionProofs --------------------------
(***************************************************************************)
(* Trials of a project never overlap, and their receipts are true, for any *)
(* number of commands and changes of their basis.                          *)
(*                                                                         *)
(* The invariant follows one call from its claim of the session lock to    *)
(* its release.  What a command believes of its application comes from     *)
(* the lines its helper wrote, so the invariant says of every line that is *)
(* still unread what it stands for; and what it believes without a line    *)
(* comes from what it wrote itself: before the secret is sent, nothing can *)
(* have been created.                                                      *)
(***************************************************************************)
EXTENDS LocalSession, SequenceTheorems, TLAPS

Before  == {"idle", "look", "ask", "begin", "begun", "spawn"}
Talking == {"READY", "secret", "CREATED", "release", "STARTED", "started", "watch", "close"}
After   == {"finish", "unlock", "done", "dead"}
Holding == {"begun", "spawn"} \cup Talking \cup {"finish", "unlock"}

Lines == {"secret", "RELEASE", "CANCEL", "READY", "CREATED", "STARTED"} \cup Reasons
Owners == {"none", "ended", "hung", "closed"} \cup Working \cup Reasons
Hands == [execution : {"not-started", "possible"}, changed : BOOLEAN, cancelled : BOOLEAN,
          fault : BOOLEAN, forced : BOOLEAN, late : BOOLEAN, again : BOOLEAN]
Outcomes == {"none", "unknown", "changed", "cancelled", "expired", "exited", "failed"} \cup Reasons
Ends == [outcome : Outcomes, tree : {"none", "not-needed", "confirmed", "unknown"}]
Trees == {"none", "suspended", "running", "dying", "dead"}

\* The lines of a pipe.
In(pipe) == {pipe[i] : i \in DOMAIN pipe}

TypeOK ==
  /\ lock \in Calls \cup {None}
  /\ pc \in [Calls -> Before \cup Talking \cup After]
  /\ hand \in [Calls -> Hands]
  /\ ends \in [Calls -> Ends]
  /\ owner \in [Calls -> Owners]
  /\ told \in [Calls -> Seq(Lines)]
  /\ said \in [Calls -> Seq(Lines)]
  /\ tree \in [Calls -> Trees]

Over(c) == ~Alive(c) /\ owner[c] \in {"ended", "closed"}

\* Whatever can still do something is covered by the call's lock.
Covered(c) == pc[c] \in Holding \/ owner[c] \notin {"none", "closed"} \/ Alive(c) => lock = c

\* What a command that lives has done is all there is.
Known(c) ==
  /\ pc[c] \in Before =>
       owner[c] = "none" /\ tree[c] = "none" /\ told[c] = <<>> /\ said[c] = <<>>
  /\ pc[c] \in Before \cup {"READY", "secret"} => hand[c].execution = "not-started"
  /\ pc[c] \in {"finish", "unlock", "done"} => owner[c] \in {"none", "closed"}
  /\ pc[c] \notin {"dead", "done"} /\ hand[c].execution = "not-started" =>
       tree[c] = "none" /\ "secret" \notin In(told[c]) /\ owner[c] \notin {"created", "running"}
  /\ pc[c] \in {"release", "STARTED", "started", "watch", "close"} /\ hand[c].execution = "possible" =>
       tree[c] # "none"

\* What the lines of a helper stand for.
Said(c) ==
  /\ owner[c] \in {"created", "running", "EXITED"} => tree[c] # "none"
  /\ \A line \in In(said[c]) :
       /\ line \in {"CREATED", "EXITED"} => tree[c] # "none"
       /\ line \in Reasons \ {"UNKNOWN"} => Over(c)
  /\ pc[c] = "close" =>
       /\ ends[c].outcome \in Reasons
       /\ ends[c].outcome # "UNKNOWN" => Over(c)
       /\ ends[c].outcome = "EXITED" => tree[c] # "none"

\* What a command concludes of them.
Concluded(c) ==
  /\ pc[c] \in {"finish", "unlock"} =>
       /\ ends[c].tree = "confirmed" => tree[c] = "dead"
       /\ ends[c].outcome = "exited" => ends[c].tree = "confirmed"
  /\ pc[c] = "unlock" => Released(c)

Local(c) == Covered(c) /\ Known(c) /\ Said(c) /\ Concluded(c)

\* The latest receipt.
Receipt ==
  /\ receipt # None => receipt.by \in Calls
  /\ receipt # None /\ receipt.finished =>
       /\ pc[receipt.by] \in After /\ owner[receipt.by] \in {"none", "closed"}
       /\ receipt.execution = "not-started" => tree[receipt.by] = "none"
       /\ receipt.tree = "confirmed" => tree[receipt.by] = "dead"
       /\ receipt.outcome = "exited" => receipt.tree = "confirmed"
  /\ observed => receipt # None /\ receipt.finished /\ receipt.tree = "confirmed"

IInv == TypeOK /\ (\A c \in Calls : Local(c)) /\ Receipt

-----------------------------------------------------------------------------
\* The lines of a pipe as it is written and read.
LEMMA Pipes ==
  ASSUME NEW pipe \in Seq(Lines), NEW line \in Lines
  PROVE  /\ Append(pipe, line) \in Seq(Lines) /\ In(Append(pipe, line)) = In(pipe) \cup {line}
         /\ pipe # <<>> => /\ Head(pipe) \in In(pipe)
                          /\ Tail(pipe) \in Seq(Lines) /\ In(Tail(pipe)) \subseteq In(pipe)
<1>1. Append(pipe, line) \in Seq(Lines) /\ In(Append(pipe, line)) = In(pipe) \cup {line}
  BY AppendProperties DEF In
<1>2. ASSUME pipe # <<>>
      PROVE  /\ Head(pipe) \in In(pipe)
             /\ Tail(pipe) \in Seq(Lines) /\ In(Tail(pipe)) \subseteq In(pipe)
  <2>1. Len(pipe) \in Nat \ {0} /\ DOMAIN pipe = 1..Len(pipe) /\ Head(pipe) = pipe[1]
    BY <1>2, EmptySeq, LenProperties
  <2>2. /\ Tail(pipe) \in Seq(Lines) /\ DOMAIN Tail(pipe) = 1..(Len(pipe) - 1)
        /\ \A i \in 1..(Len(pipe) - 1) : Tail(pipe)[i] = pipe[i+1]
    BY <1>2, <2>1
  <2> QED BY <2>1, <2>2 DEF In
<1> QED BY <1>1, <1>2

\* Nothing is in an empty pipe.
LEMMA EmptyPipe == <<>> \in Seq(Lines) /\ In(<<>>) = {}
BY DEF In

\* A flag is raised; only the secret makes execution possible.
LEMMA Flags ==
  ASSUME NEW flags \in Hands
  PROVE  /\ [flags EXCEPT !.execution = "possible"] \in Hands
         /\ [flags EXCEPT !.execution = "possible"].execution = "possible"
         /\ [flags EXCEPT !.changed = TRUE] \in Hands
         /\ [flags EXCEPT !.changed = TRUE].execution = flags.execution
         /\ [flags EXCEPT !.cancelled = TRUE] \in Hands
         /\ [flags EXCEPT !.cancelled = TRUE].execution = flags.execution
         /\ [flags EXCEPT !.fault = TRUE] \in Hands
         /\ [flags EXCEPT !.fault = TRUE].execution = flags.execution
         /\ [flags EXCEPT !.forced = TRUE] \in Hands
         /\ [flags EXCEPT !.forced = TRUE].execution = flags.execution
         /\ [flags EXCEPT !.late = TRUE] \in Hands
         /\ [flags EXCEPT !.late = TRUE].execution = flags.execution
         /\ [flags EXCEPT !.again = TRUE] \in Hands
         /\ [flags EXCEPT !.again = TRUE].execution = flags.execution
BY DEF Hands

\* Initially no call has begun.
LEMMA InitIInv == Init => IInv
<1> SUFFICES ASSUME Init PROVE IInv
  OBVIOUS
<1>1. NewHand \in Hands /\ NewHand.execution = "not-started"
  BY DEF NewHand, Hands
<1>2. NoEnd \in Ends
  BY DEF NoEnd, Ends, Outcomes
<1>3. TypeOK
  BY <1>1, <1>2, EmptyPipe DEF Init, TypeOK, Before, Owners, Trees
<1>4. ASSUME NEW c \in Calls
      PROVE  Local(c)
  BY <1>1, EmptyPipe DEF Init, Local, Covered, Known, Said, Concluded, Alive, Before, Talking, Holding
<1>5. Receipt
  BY DEF Init, Receipt
<1> QED BY <1>3, <1>4, <1>5 DEF IInv

-----------------------------------------------------------------------------
\* What is the same of every other call.
Frame(c) == \A d \in Calls : d # c =>
  /\ pc'[d] = pc[d] /\ hand'[d] = hand[d] /\ ends'[d] = ends[d] /\ owner'[d] = owner[d]
  /\ told'[d] = told[d] /\ said'[d] = said[d] /\ tree'[d] = tree[d]

\* A step of one call keeps the invariant when it takes the lock only from
\* nobody, and gives back only its own.
LEMMA StepKeeps ==
  ASSUME IInv, TypeOK', NEW c \in Calls, Frame(c),
         lock' = lock \/ lock \in {c, None},
         Local(c)', Receipt'
  PROVE  IInv'
<1> USE DEF IInv
<1>1. ASSUME NEW d \in Calls, d # c
      PROVE  Local(d)'
  <2>1. /\ pc'[d] = pc[d] /\ hand'[d] = hand[d] /\ ends'[d] = ends[d] /\ owner'[d] = owner[d]
        /\ told'[d] = told[d] /\ said'[d] = said[d] /\ tree'[d] = tree[d]
    BY <1>1 DEF Frame
  <2>2. Local(d)
    OBVIOUS
  <2>3. lock = d => lock' = d
    BY <1>1, LocalAssumption
  <2>4. Covered(d)'
    BY <2>1, <2>2, <2>3 DEF Local, Covered, Alive
  <2>5. Known(d)' /\ Said(d)' /\ Concluded(d)'
    BY <2>1, <2>2 DEF Local, Known, Said, Concluded, Over, Alive, Released
  <2> QED BY <2>4, <2>5 DEF Local
<1> QED BY <1>1

\* A receipt stays true while its call is not where receipts are finished, or
\* does nothing to its application but let it end.
LEMMA ReceiptKept ==
  ASSUME IInv, NEW c \in Calls, Frame(c), receipt' = receipt, observed' = observed,
         \/ pc[c] \notin After
         \/ owner[c] \notin {"none", "closed"}
         \/ /\ pc'[c] \in After /\ owner'[c] \in {"none", "closed"}
            /\ \/ tree'[c] = tree[c]
               \/ tree[c] # "none" /\ tree'[c] = "dead"
  PROVE  Receipt'
<1>1. Receipt
  BY DEF IInv
<1>2. CASE receipt = None \/ ~receipt.finished
  BY <1>1, <1>2 DEF Receipt
<1>3. CASE receipt # None /\ receipt.finished /\ receipt.by # c
  BY <1>1, <1>3 DEF Receipt, Frame
<1>4. CASE receipt # None /\ receipt.finished /\ receipt.by = c
  BY <1>1, <1>4 DEF Receipt
<1> QED BY <1>2, <1>3, <1>4

-----------------------------------------------------------------------------
(* Before the handoff. *)

\* A call that only goes on, before it holds anything.
LEMMA EarlyKeeps ==
  ASSUME IInv, NEW c \in Calls, pc[c] \in Before \ {"begun", "spawn"},
         NEW step \in {"look", "ask", "begin", "done"}, pc' = [pc EXCEPT ![c] = step],
         hand' = hand, ends' = ends, UNCHANGED helper,
         lock' = lock \/ (lock = None /\ lock' = c), receipt' = receipt, observed' = observed
  PROVE  IInv'
<1> USE DEF IInv, helper
<1>1. TypeOK' /\ pc'[c] = step
  BY DEF TypeOK, Before, After
<1>2. Frame(c)
  BY DEF TypeOK, Frame
<1>3. Local(c)'
  <2>1. owner[c] = "none" /\ tree[c] = "none" /\ told[c] = <<>> /\ said[c] = <<>>
        /\ hand[c].execution = "not-started"
    BY DEF Local, Known, Before
  <2> QED BY <1>1, <2>1, EmptyPipe
          DEF Local, Covered, Known, Said, Concluded, Alive, Before, Talking, Holding
<1>4. Receipt'
  BY <1>2, ReceiptKept DEF Before, After
<1> QED BY <1>1, <1>2, <1>3, <1>4, StepKeeps

LEMMA PrepareKeeps == ASSUME IInv, NEW c \in Calls, Prepare(c) PROVE IInv'
BY EarlyKeeps DEF Prepare, Goto, shared, Before
LEMMA LookKeeps == ASSUME IInv, NEW c \in Calls, Look(c) PROVE IInv'
BY EarlyKeeps DEF Look, Goto, shared, Before
LEMMA AskKeeps == ASSUME IInv, NEW c \in Calls, Ask(c) PROVE IInv'
BY EarlyKeeps DEF Ask, Goto, shared, Before

LEMMA BeginSessionKeeps == ASSUME IInv, NEW c \in Calls, BeginSession(c) PROVE IInv'
<1>1. CASE /\ lock = None /\ lock' = c /\ receipt' = Pending(c) /\ observed' = FALSE
           /\ pc' = [pc EXCEPT ![c] = "begun"]
  <2> USE DEF IInv, BeginSession, helper
  <2>1. TypeOK' /\ pc'[c] = "begun"
    BY <1>1 DEF TypeOK, Before
  <2>2. Frame(c)
    BY <1>1 DEF TypeOK, Frame
  <2>3. Local(c)'
    <3>1. owner[c] = "none" /\ tree[c] = "none" /\ told[c] = <<>> /\ said[c] = <<>>
          /\ hand[c].execution = "not-started"
      BY DEF Local, Known, Before
    <3> QED BY <1>1, <2>1, <3>1, EmptyPipe
            DEF Local, Covered, Known, Said, Concluded, Alive, Before, Talking, Holding
  <2>4. Receipt'
    BY <1>1 DEF Receipt, Pending
  <2> QED BY <1>1, <2>1, <2>2, <2>3, <2>4, StepKeeps
<1>2. CASE /\ lock' = lock \/ (lock = None /\ lock' = c)
           /\ receipt' = receipt /\ observed' = observed
           /\ pc' = [pc EXCEPT ![c] = "done"]
  BY <1>2, EarlyKeeps DEF BeginSession, Before
<1> QED BY <1>1, <1>2 DEF BeginSession, Goto

-----------------------------------------------------------------------------
(* The handoff. *)

\* A helper that is gone leaves processes that die, if any.
LEMMA GoneLeaves ==
  ASSUME TypeOK, NEW c \in Calls, Gone(c)
  PROVE  /\ owner' = [owner EXCEPT ![c] = "closed"] /\ told' = [told EXCEPT ![c] = <<>>]
         /\ owner' \in [Calls -> Owners] /\ told' \in [Calls -> Seq(Lines)] /\ tree' \in [Calls -> Trees]
         /\ \A d \in Calls : d # c => tree'[d] = tree[d]
         /\ Alive(c)' = Alive(c) /\ (~Alive(c) => tree'[c] = tree[c])
         /\ (tree'[c] = "none") = (tree[c] = "none")
BY EmptyPipe DEF Gone, Orphan, TypeOK, Owners, Trees, Alive

\* What a handoff that ends has concluded must be so.
LEMMA EndKeeps ==
  ASSUME IInv, NEW c \in Calls, pc[c] \in {"begun", "spawn"} \cup Talking,
         NEW end \in Ends, NEW flags \in Hands,
         ends' = [ends EXCEPT ![c] = end], hand' = [hand EXCEPT ![c] = flags],
         pc' = [pc EXCEPT ![c] = "finish"], said' = [said EXCEPT ![c] = <<>>], UNCHANGED shared,
         \/ owner[c] = "none" /\ owner' = owner /\ told' = told /\ tree' = tree
         \/ Gone(c),
         flags.execution = "not-started" => hand[c].execution = "not-started",
         end.tree = "confirmed" => tree[c] = "dead",
         end.outcome = "exited" => end.tree = "confirmed"
  PROVE  IInv'
<1> USE DEF IInv, shared
<1>1. lock = c /\ pc[c] \notin After
  BY DEF Local, Covered, Holding, Talking, After
<1>2. /\ owner' \in [Calls -> Owners] /\ told' \in [Calls -> Seq(Lines)] /\ tree' \in [Calls -> Trees]
      /\ owner'[c] \in {"none", "closed"}
      /\ Alive(c)' = Alive(c) /\ (~Alive(c) => tree'[c] = tree[c])
      /\ (tree'[c] = "none") = (tree[c] = "none")
      /\ \A d \in Calls : d # c => owner'[d] = owner[d] /\ told'[d] = told[d] /\ tree'[d] = tree[d]
      /\ "secret" \in In(told'[c]) => "secret" \in In(told[c])
  BY GoneLeaves, EmptyPipe DEF TypeOK, Alive
<1>3. TypeOK'
  BY <1>2, EmptyPipe DEF TypeOK, After
<1>4. Frame(c)
  BY <1>2 DEF TypeOK, Frame
<1>5. pc'[c] = "finish" /\ ends'[c] = end /\ said'[c] = <<>> /\ hand'[c] = flags
  BY DEF TypeOK
<1>6. Local(c)'
  <2>1. Known(c)'
    BY <1>2, <1>5 DEF Local, Known, Before, Talking
  <2>2. Said(c)'
    BY <1>2, <1>5, EmptyPipe DEF Said
  <2>3. Concluded(c)'
    BY <1>2, <1>5 DEF Concluded, Alive
  <2> QED BY <1>1, <2>1, <2>2, <2>3 DEF Local, Covered
<1>7. Receipt'
  BY <1>1, <1>4, ReceiptKept
<1> QED BY <1>3, <1>4, <1>6, <1>7, StepKeeps

LEMMA ReturnKeeps ==
  ASSUME IInv, NEW c \in Calls, pc[c] \in {"begun", "spawn"} \cup Talking,
         NEW outcome \in {"unknown", "changed", "cancelled", "expired", "exited", "failed"},
         NEW trees \in {"not-needed", "unknown", "confirmed"},
         Return(c, outcome, trees), UNCHANGED <<shared, hand>>,
         trees = "confirmed" /\ hand[c].execution = "possible" => tree[c] = "dead",
         outcome = "exited" => trees = "confirmed" /\ hand[c].execution = "possible"
  PROVE  IInv'
<1> DEFINE end == [outcome |-> outcome, tree |-> IF hand[c].execution = "not-started" THEN "not-needed" ELSE trees]
<1>1. hand[c] \in Hands /\ hand[c].execution \in {"not-started", "possible"} /\ hand' = [hand EXCEPT ![c] = hand[c]]
  BY DEF IInv, TypeOK, Hands
<1>2. end \in Ends /\ end.outcome = outcome
      /\ end.tree = IF hand[c].execution = "not-started" THEN "not-needed" ELSE trees
  BY <1>1 DEF Ends, Outcomes
<1> HIDE DEF end
<1>3. /\ ends' = [ends EXCEPT ![c] = end] /\ pc' = [pc EXCEPT ![c] = "finish"]
      /\ said' = [said EXCEPT ![c] = <<>>]
      /\ \/ owner[c] = "none" /\ owner' = owner /\ told' = told /\ tree' = tree
         \/ Gone(c)
  BY DEF Return, Goto, end
<1> QED BY <1>1, <1>2, <1>3, EndKeeps

LEMMA UnknownKeeps ==
  ASSUME IInv, NEW c \in Calls, pc[c] \in Talking, Unknown(c), UNCHANGED shared
  PROVE  IInv'
BY ReturnKeeps DEF Unknown

\* A handoff that goes on.
LEMMA TalkingKeeps ==
  ASSUME IInv, NEW c \in Calls, pc[c] \in {"begun", "spawn"} \cup Talking,
         NEW step \in {"spawn"} \cup Talking, pc' = [pc EXCEPT ![c] = step],
         TypeOK', Frame(c), UNCHANGED shared, Known(c)', Said(c)'
  PROVE  IInv'
<1> USE DEF IInv, shared
<1>1. lock = c /\ pc[c] \notin After /\ pc'[c] = step
  BY DEF TypeOK, Local, Covered, Holding, Talking, After
<1>2. Local(c)'
  BY <1>1 DEF Local, Covered, Concluded, Talking
<1>3. Receipt'
  BY <1>1, ReceiptKept
<1> QED BY <1>2, <1>3, StepKeeps

LEMMA BegunKeeps == ASSUME IInv, NEW c \in Calls, Begun(c) PROVE IInv'
<1>1. CASE Return(c, "changed", "not-needed")
  BY <1>1, ReturnKeeps DEF Begun
<1>2. CASE pc' = [pc EXCEPT ![c] = "spawn"] /\ UNCHANGED <<ends, helper>>
  <2> USE DEF IInv, Begun, helper
  <2>1. TypeOK' /\ Frame(c) /\ pc'[c] = "spawn"
    BY <1>2 DEF TypeOK, Frame, Before, shared
  <2>2. Known(c)' /\ Said(c)'
    BY <1>2, <2>1 DEF Local, Known, Said, Before, Over, Alive
  <2> QED BY <1>2, <2>1, <2>2, TalkingKeeps
<1> QED BY <1>1, <1>2 DEF Begun, Goto

LEMMA SpawnKeeps == ASSUME IInv, NEW c \in Calls, Spawn(c) PROVE IInv'
<1>1. CASE Return(c, "unknown", "unknown")
  BY <1>1, ReturnKeeps DEF Spawn
<1>2. CASE /\ owner' = [owner EXCEPT ![c] = "compiling"] /\ pc' = [pc EXCEPT ![c] = "READY"]
           /\ UNCHANGED <<ends, told, said, tree>>
  <2> USE DEF IInv, Spawn
  <2>1. TypeOK' /\ Frame(c) /\ pc'[c] = "READY" /\ owner'[c] = "compiling"
    BY <1>2 DEF TypeOK, Frame, Talking, Owners, Working, shared
  <2>2. /\ tree[c] = "none" /\ told[c] = <<>> /\ said[c] = <<>>
        /\ hand[c].execution = "not-started"
    BY DEF Local, Known, Before
  <2>3. Known(c)' /\ Said(c)'
    BY <1>2, <2>1, <2>2, EmptyPipe DEF Known, Said, Before
  <2> QED BY <1>2, <2>1, <2>3, TalkingKeeps DEF Talking
<1> QED BY <1>1, <1>2 DEF Spawn, Goto

LEMMA HearKeeps == ASSUME IInv, NEW c \in Calls, Hear(c) PROVE IInv'
<1>1. pc[c] \in {"READY", "CREATED", "STARTED"}
  BY DEF Hear, Handshake
<1>2. CASE Unknown(c)
  BY <1>1, <1>2, UnknownKeeps DEF Hear, Talking
<1>3. CASE /\ Says(c, pc[c]) /\ Consume(c) /\ Goto(c, Handshake[pc[c]])
           /\ UNCHANGED <<hand, ends, owner, told, tree>>
  <2> USE DEF IInv, Hear
  <2> DEFINE step == Handshake[pc[c]]
  <2>1. /\ step = IF pc[c] = "READY" THEN "secret" ELSE IF pc[c] = "CREATED" THEN "release" ELSE "started"
        /\ pc' = [pc EXCEPT ![c] = step]
    BY <1>1, <1>3 DEF Goto, Handshake
  <2>2. step \in Talking
    BY <2>1 DEF Talking
  <2> HIDE DEF step
  <2>3. said[c] \in Seq(Lines) /\ said[c] # <<>> /\ Head(said[c]) = pc[c]
    BY <1>3 DEF Says, TypeOK
  <2>4. /\ pc[c] \in In(said[c]) /\ Tail(said[c]) \in Seq(Lines)
        /\ In(Tail(said[c])) \subseteq In(said[c])
    BY <2>3, Pipes DEF Lines
  <2>5. TypeOK' /\ Frame(c) /\ pc'[c] = step /\ said'[c] = Tail(said[c])
    BY <1>3, <2>1, <2>2, <2>4 DEF TypeOK, Frame, Consume, shared
  <2>6. Known(c)'
    <3>1. pc[c] = "CREATED" => tree[c] # "none"
      BY <2>4 DEF Local, Said
    <3> QED BY <1>1, <1>3, <2>1, <2>5, <3>1 DEF Local, Known, Before
  <2>7. Said(c)'
    BY <1>3, <2>1, <2>4, <2>5 DEF Local, Said, Over, Alive
  <2> QED BY <1>1, <2>1, <2>2, <2>5, <2>6, <2>7, TalkingKeeps DEF Talking
<1> QED BY <1>2, <1>3 DEF Hear

\* Stopping tells the helper to, and says nothing of what was started.
LEMMA StopTells ==
  ASSUME TypeOK, NEW c \in Calls, NEW flags \in Hands, flags.execution = hand[c].execution, Stop(c, flags)
  PROVE  /\ hand' \in [Calls -> Hands] /\ told' \in [Calls -> Seq(Lines)]
         /\ hand'[c].execution = hand[c].execution
         /\ In(told'[c]) \subseteq In(told[c]) \cup {"CANCEL"}
         /\ \A d \in Calls : d # c => hand'[d] = hand[d] /\ told'[d] = told[d]
<1> DEFINE forced == [flags EXCEPT !.forced = TRUE]
<1>1. forced \in Hands /\ forced.execution = flags.execution
  BY Flags
<1>2. told[c] \in Seq(Lines) /\ "CANCEL" \in Lines
  BY DEF TypeOK, Lines
<1>3. Append(told[c], "CANCEL") \in Seq(Lines) /\ In(Append(told[c], "CANCEL")) = In(told[c]) \cup {"CANCEL"}
  BY <1>2, Pipes
<1>4. \/ hand' = [hand EXCEPT ![c] = flags] /\ told' = told
      \/ hand' = [hand EXCEPT ![c] = forced] /\ told' = [told EXCEPT ![c] = Append(told[c], "CANCEL")]
  BY DEF Stop
<1> HIDE DEF forced
<1> QED BY <1>1, <1>3, <1>4 DEF TypeOK

\* A handoff that is stopped goes on to watch its helper end.
LEMMA StoppingKeeps ==
  ASSUME IInv, NEW c \in Calls, NEW flags \in Hands, flags.execution = hand[c].execution, Stop(c, flags),
         \/ pc' = pc /\ pc[c] \in Talking
         \/ pc' = [pc EXCEPT ![c] = "watch"] /\ pc[c] \in {"secret", "release", "started", "watch"},
         UNCHANGED <<shared, ends, owner, said, tree>>
  PROVE  IInv'
<1> USE DEF IInv
<1>1. /\ hand' \in [Calls -> Hands] /\ told' \in [Calls -> Seq(Lines)]
      /\ hand'[c].execution = hand[c].execution
      /\ In(told'[c]) \subseteq In(told[c]) \cup {"CANCEL"}
      /\ \A d \in Calls : d # c => hand'[d] = hand[d] /\ told'[d] = told[d]
  BY StopTells
<1>2. PICK step \in Talking : pc' = [pc EXCEPT ![c] = step]
                             /\ (step = pc[c] \/ (step = "watch" /\ pc[c] \in {"secret", "release", "started", "watch"}))
  BY DEF TypeOK, Talking
<1>3. TypeOK' /\ Frame(c) /\ pc'[c] = step
  BY <1>1, <1>2 DEF TypeOK, Frame, shared
<1>4. Known(c)'
  BY <1>1, <1>2, <1>3 DEF Local, Known, Before, Talking
<1>5. Said(c)'
  BY <1>2, <1>3 DEF Local, Said, Over, Alive
<1> QED BY <1>2, <1>3, <1>4, <1>5, TalkingKeeps DEF Talking

LEMMA ChangedKeeps ==
  ASSUME IInv, NEW c \in Calls, pc[c] \in {"secret", "release", "started", "watch"}, Changed(c), UNCHANGED shared
  PROVE  IInv'
<1> DEFINE flags == [hand[c] EXCEPT !.changed = TRUE]
<1>1. flags \in Hands /\ flags.execution = hand[c].execution
  BY Flags DEF IInv, TypeOK
<1>2. Stop(c, flags) /\ pc' = [pc EXCEPT ![c] = "watch"]
  BY DEF Changed, Goto
<1> HIDE DEF flags
<1> QED BY <1>1, <1>2, StoppingKeeps DEF Changed

\* The secret is sent with execution possible, the release after the creation.
LEMMA SendKeeps ==
  ASSUME IInv, NEW c \in Calls, NEW flags \in Hands, NEW line, NEW answer, Send(c, line, flags, answer),
         \/ pc[c] = "secret" /\ line = "secret" /\ answer = "CREATED" /\ flags.execution = "possible"
         \/ pc[c] = "release" /\ line = "RELEASE" /\ answer = "STARTED" /\ flags.execution = hand[c].execution,
         UNCHANGED shared
  PROVE  IInv'
<1> USE DEF IInv
<1>1. CASE /\ told' = [told EXCEPT ![c] = Append(told[c], line)] /\ hand' = [hand EXCEPT ![c] = flags]
           /\ pc' = [pc EXCEPT ![c] = answer] /\ UNCHANGED <<ends, owner, said, tree>>
  <2>1. /\ Append(told[c], line) \in Seq(Lines)
        /\ In(Append(told[c], line)) = In(told[c]) \cup {line}
    BY Pipes DEF TypeOK, Lines
  <2>2. /\ TypeOK' /\ Frame(c) /\ answer \in Talking
        /\ pc'[c] = answer /\ hand'[c] = flags /\ told'[c] = Append(told[c], line)
    BY <1>1, <2>1 DEF TypeOK, Frame, Talking, shared
  <2>3. Known(c)'
    BY <1>1, <2>1, <2>2 DEF Local, Known, Before
  <2>4. Said(c)'
    BY <1>1, <2>2 DEF Local, Said, Over, Alive
  <2> QED BY <1>1, <2>2, <2>3, <2>4, TalkingKeeps DEF Talking
<1>2. CASE /\ hand' = [hand EXCEPT ![c] = flags]
           /\ ends' = [ends EXCEPT ![c] = [outcome |-> "unknown",
                tree |-> IF flags.execution = "not-started" THEN "not-needed" ELSE "unknown"]]
           /\ Gone(c) /\ said' = [said EXCEPT ![c] = <<>>] /\ pc' = [pc EXCEPT ![c] = "finish"]
  <2> DEFINE end == [outcome |-> "unknown", tree |-> IF flags.execution = "not-started" THEN "not-needed" ELSE "unknown"]
  <2>1. end \in Ends /\ end.outcome = "unknown" /\ end.tree # "confirmed"
    BY DEF Ends, Outcomes
  <2>2. ends' = [ends EXCEPT ![c] = end]
    BY <1>2
  <2> HIDE DEF end
  <2> QED BY <1>2, <2>1, <2>2, EndKeeps DEF Talking
<1> QED BY <1>1, <1>2 DEF Send, Goto

LEMMA SecretKeeps == ASSUME IInv, NEW c \in Calls, Secret(c) PROVE IInv'
<1> DEFINE flags == [hand[c] EXCEPT !.execution = "possible"]
<1>1. flags \in Hands /\ flags.execution = "possible"
  BY Flags DEF IInv, TypeOK
<1>2. /\ UNCHANGED shared /\ pc[c] = "secret"
      /\ Send(c, "secret", flags, "CREATED") \/ Changed(c) \/ Unknown(c)
  BY DEF Secret
<1> HIDE DEF flags
<1>3. CASE Send(c, "secret", flags, "CREATED")
  BY <1>1, <1>2, <1>3, SendKeeps
<1>4. CASE Changed(c)
  BY <1>2, <1>4, ChangedKeeps
<1>5. CASE Unknown(c)
  BY <1>2, <1>5, UnknownKeeps DEF Talking
<1> QED BY <1>2, <1>3, <1>4, <1>5

LEMMA ReleaseKeeps == ASSUME IInv, NEW c \in Calls, Release(c) PROVE IInv'
<1>1. /\ UNCHANGED shared /\ pc[c] = "release" /\ hand[c] \in Hands
      /\ Send(c, "RELEASE", hand[c], "STARTED") \/ Changed(c)
  BY DEF Release, IInv, TypeOK
<1>2. CASE Send(c, "RELEASE", hand[c], "STARTED")
  BY <1>1, <1>2, SendKeeps
<1>3. CASE Changed(c)
  BY <1>1, <1>3, ChangedKeeps
<1> QED BY <1>1, <1>2, <1>3

LEMMA StartedKeeps == ASSUME IInv, NEW c \in Calls, Started(c) PROVE IInv'
<1>1. CASE Changed(c)
  BY <1>1, ChangedKeeps DEF Started
<1>2. CASE pc' = [pc EXCEPT ![c] = "watch"] /\ UNCHANGED <<hand, ends, helper>>
  <2> USE DEF IInv, Started, helper
  <2>1. TypeOK' /\ Frame(c) /\ pc'[c] = "watch"
    BY <1>2 DEF TypeOK, Frame, Talking, shared
  <2>2. Known(c)' /\ Said(c)'
    BY <1>2, <2>1 DEF Local, Known, Said, Before, Over, Alive
  <2> QED BY <1>2, <2>1, <2>2, TalkingKeeps DEF Talking
<1> QED BY <1>1, <1>2 DEF Started, Goto

LEMMA PollKeeps == ASSUME IInv, NEW c \in Calls, Poll(c) PROVE IInv'
BY ChangedKeeps DEF Poll

\* The last line is remembered with what it stands for.
LEMMA TerminalKeeps == ASSUME IInv, NEW c \in Calls, Terminal(c) PROVE IInv'
<1>1. CASE Unknown(c)
  BY <1>1, UnknownKeeps DEF Terminal, Talking
<1>2. ASSUME NEW reason \in Reasons, Says(c, reason), Consume(c),
             ends' = [ends EXCEPT ![c].outcome = reason], hand' = [hand EXCEPT ![c].forced = TRUE],
             pc' = [pc EXCEPT ![c] = "close"], UNCHANGED <<owner, told, tree>>
      PROVE  IInv'
  <2> USE DEF IInv, Terminal
  <2> DEFINE flags == [hand[c] EXCEPT !.forced = TRUE]
             end == [ends[c] EXCEPT !.outcome = reason]
  <2>1. flags \in Hands /\ flags.execution = hand[c].execution
    BY Flags DEF TypeOK
  <2>2. end \in Ends /\ end.outcome = reason
    BY DEF TypeOK, Ends, Outcomes
  <2>3. hand' = [hand EXCEPT ![c] = flags] /\ ends' = [ends EXCEPT ![c] = end]
    BY <1>2
  <2> HIDE DEF flags, end
  <2>4. said[c] \in Seq(Lines) /\ said[c] # <<>> /\ Head(said[c]) = reason /\ reason \in Lines
    BY <1>2 DEF Says, TypeOK, Lines
  <2>5. /\ reason \in In(said[c]) /\ Tail(said[c]) \in Seq(Lines)
        /\ In(Tail(said[c])) \subseteq In(said[c])
    BY <2>4, Pipes
  <2>6. /\ TypeOK' /\ Frame(c)
        /\ pc'[c] = "close" /\ hand'[c] = flags /\ ends'[c] = end /\ said'[c] = Tail(said[c])
    BY <1>2, <2>1, <2>2, <2>3, <2>5 DEF TypeOK, Frame, Consume, Talking, shared
  <2>7. Known(c)'
    BY <1>2, <2>1, <2>6 DEF Local, Known, Before
  <2>8. Said(c)'
    BY <1>2, <2>2, <2>5, <2>6 DEF Local, Said, Over, Alive
  <2> QED BY <1>2, <2>6, <2>7, <2>8, TalkingKeeps DEF Talking
<1> QED BY <1>1, <1>2 DEF Terminal, Goto

\* A helper that is believed has no process left.
LEMMA CloseKeeps == ASSUME IInv, NEW c \in Calls, Close(c) PROVE IInv'
<1>1. UNCHANGED <<shared, hand>> /\ pc[c] = "close" /\ pc[c] \in Talking
  BY DEF Close, Talking
<1>2. CASE Return(c, "unknown", "unknown")
  BY <1>1, <1>2, ReturnKeeps
<1>3. ASSUME NEW changed, Believed(c), Return(c, Status(c, changed), "confirmed")
      PROVE  IInv'
  <2> DEFINE outcome == Status(c, changed)
  <2>1. /\ outcome \in {"changed", "cancelled", "expired", "exited", "failed"}
        /\ outcome = "exited" => ends[c].outcome = "EXITED"
    BY DEF Status
  <2> HIDE DEF outcome
  <2>2. ~Alive(c) /\ (ends[c].outcome = "EXITED" => tree[c] # "none")
    BY <1>1, <1>3 DEF IInv, Local, Said, Over, Believed
  <2>3. hand[c].execution \in {"not-started", "possible"} /\ tree[c] \in Trees
    BY DEF IInv, TypeOK, Hands
  <2>4. /\ hand[c].execution = "possible" => tree[c] = "dead"
        /\ outcome = "exited" => hand[c].execution = "possible"
    BY <1>1, <2>1, <2>2, <2>3 DEF IInv, Local, Known, Alive, Trees
  <2>5. Return(c, outcome, "confirmed")
    BY <1>3 DEF outcome
  <2> QED BY <1>1, <2>1, <2>4, <2>5, ReturnKeeps
<1> QED BY <1>2, <1>3 DEF Close

-----------------------------------------------------------------------------
(* Timers and signals. *)

LEMMA AbortKeeps == ASSUME IInv, NEW c \in Calls, Abort(c) PROVE IInv'
<1> DEFINE flags == [hand[c] EXCEPT !.cancelled = TRUE]
<1>1. flags \in Hands /\ flags.execution = hand[c].execution
  BY Flags DEF IInv, TypeOK
<1>2. Stop(c, flags) /\ pc' = pc /\ pc[c] \in Talking /\ UNCHANGED <<shared, ends, owner, said, tree>>
  BY DEF Abort, HandingOff, Talking
<1> HIDE DEF flags
<1> QED BY <1>1, <1>2, StoppingKeeps

LEMMA DeadlineKeeps == ASSUME IInv, NEW c \in Calls, Deadline(c) PROVE IInv'
<1> DEFINE flags == [hand[c] EXCEPT !.late = TRUE]
<1>1. flags \in Hands /\ flags.execution = hand[c].execution
  BY Flags DEF IInv, TypeOK
<1>2. Stop(c, flags) /\ pc' = pc /\ pc[c] \in Talking /\ UNCHANGED <<shared, ends, owner, said, tree>>
  BY DEF Deadline, HandingOff, Talking
<1> HIDE DEF flags
<1> QED BY <1>1, <1>2, StoppingKeeps

LEMMA TimeoutKeeps == ASSUME IInv, NEW c \in Calls, Timeout(c) PROVE IInv'
<1> USE DEF IInv, Timeout
<1> DEFINE flags == [hand[c] EXCEPT !.fault = TRUE]
<1>1. flags \in Hands /\ flags.execution = hand[c].execution
  BY Flags DEF TypeOK
<1>2. /\ hand' = [hand EXCEPT ![c] = flags] /\ Gone(c) /\ UNCHANGED <<shared, pc, ends, said>>
      /\ pc[c] \in Talking
  BY DEF ForceStop, HandingOff, Talking
<1> HIDE DEF flags
<1>3. /\ owner' = [owner EXCEPT ![c] = "closed"] /\ told' = [told EXCEPT ![c] = <<>>]
      /\ owner' \in [Calls -> Owners] /\ told' \in [Calls -> Seq(Lines)] /\ tree' \in [Calls -> Trees]
      /\ \A d \in Calls : d # c => tree'[d] = tree[d]
      /\ Alive(c)' = Alive(c) /\ (~Alive(c) => tree'[c] = tree[c])
      /\ (tree'[c] = "none") = (tree[c] = "none")
  BY <1>2, GoneLeaves
<1>4. TypeOK' /\ Frame(c) /\ hand'[c] = flags /\ owner'[c] = "closed" /\ told'[c] = <<>>
  BY <1>1, <1>2, <1>3 DEF TypeOK, Frame, shared
<1>5. Known(c)'
  BY <1>1, <1>2, <1>3, <1>4, EmptyPipe DEF Local, Known, Before, Talking
<1>6. Said(c)'
  BY <1>2, <1>3, <1>4 DEF Local, Said, Over
<1>7. pc' = [pc EXCEPT ![c] = pc[c]]
  BY <1>2 DEF TypeOK
<1> QED BY <1>2, <1>4, <1>5, <1>6, <1>7, TalkingKeeps

-----------------------------------------------------------------------------
(* After the handoff. *)

\* A command that leaves gives back its lock only when nothing of it is left.
LEMMA LeaveKeeps ==
  ASSUME IInv, NEW c \in Calls, pc[c] \in {"finish", "unlock"}, Leave(c), UNCHANGED helper,
         lock' = lock \/ (lock' = None /\ ~Alive(c)), Receipt'
  PROVE  IInv'
<1> USE DEF IInv, helper
<1>1. NewHand \in Hands /\ NoEnd \in Ends
  BY DEF NewHand, Hands, NoEnd, Ends, Outcomes
<1>2. TypeOK' /\ Frame(c) /\ pc'[c] = "done"
  BY <1>1 DEF TypeOK, Frame, After, Leave, Goto
<1>3. lock = c /\ owner[c] \in {"none", "closed"}
  BY DEF Local, Covered, Known, Holding
<1>4. Local(c)'
  BY <1>2, <1>3 DEF Local, Covered, Known, Said, Concluded, Over, Alive, Before, Talking, Holding
<1> QED BY <1>2, <1>3, <1>4, StepKeeps

\* One that goes on to finish or to unlock has what it concluded.
LEMMA FinishingKeeps ==
  ASSUME IInv, NEW c \in Calls, pc[c] \in {"finish", "unlock"}, UNCHANGED <<ends, helper, lock>>,
         NEW flags \in Hands, hand' = [hand EXCEPT ![c] = flags], flags.execution = hand[c].execution,
         NEW step \in {"finish", "unlock"}, pc' = [pc EXCEPT ![c] = step], Released(c), Receipt'
  PROVE  IInv'
<1> USE DEF IInv, helper
<1>1. TypeOK' /\ Frame(c) /\ pc'[c] = step /\ hand'[c] = flags
  BY DEF TypeOK, Frame, After
<1>2. Covered(c)' /\ Known(c)' /\ Said(c)'
  BY <1>1 DEF Local, Covered, Known, Said, Over, Alive, Before, Talking, Holding
<1>3. Concluded(c)'
  BY <1>1 DEF Local, Concluded, Released
<1> QED BY <1>1, <1>2, <1>3, StepKeeps DEF Local

LEMMA RetryKeeps ==
  ASSUME IInv, NEW c \in Calls, pc[c] \in {"finish", "unlock"}, Retry(c),
         UNCHANGED <<helper, lock, receipt, observed>>
  PROVE  IInv'
<1>1. CASE Leave(c)
  <2>1. Frame(c) /\ pc'[c] = "done" /\ owner'[c] \in {"none", "closed"} /\ tree' = tree
    BY <1>1 DEF IInv, TypeOK, Frame, Leave, Goto, helper, Local, Known
  <2>2. Receipt'
    BY <2>1, ReceiptKept DEF After
  <2> QED BY <1>1, <2>2, LeaveKeeps
<1>2. CASE /\ Released(c) /\ hand' = [hand EXCEPT ![c].again = TRUE]
           /\ pc' = [pc EXCEPT ![c] = "finish"] /\ ends' = ends
  <2> DEFINE flags == [hand[c] EXCEPT !.again = TRUE]
  <2>1. flags \in Hands /\ flags.execution = hand[c].execution /\ hand' = [hand EXCEPT ![c] = flags]
    BY <1>2, Flags DEF IInv, TypeOK
  <2> HIDE DEF flags
  <2>2. Frame(c) /\ pc'[c] = "finish" /\ owner'[c] \in {"none", "closed"} /\ tree' = tree
    BY <1>2, <2>1 DEF IInv, TypeOK, Frame, helper, Local, Known
  <2>3. Receipt'
    BY <2>2, ReceiptKept DEF After
  <2> QED BY <1>2, <2>1, <2>3, FinishingKeeps
<1> QED BY <1>1, <1>2 DEF Retry, Goto

\* The receipt a command saves is true.
LEMMA SavedIsTrue ==
  ASSUME IInv, NEW c \in Calls, pc[c] = "finish",
         Owns(c) \/ receipt = Outcome(c), receipt' = Outcome(c), UNCHANGED <<observed, helper>>,
         pc' \in {[pc EXCEPT ![c] = "unlock"], [pc EXCEPT ![c] = "done"]}
  PROVE  Receipt'
<1> USE DEF IInv, helper
<1>1. /\ receipt'.by = c /\ receipt'.finished = TRUE /\ receipt'.execution = hand[c].execution
      /\ receipt'.tree = ends[c].tree /\ receipt'.outcome = ends[c].outcome
  BY DEF Outcome
<1>2. pc'[c] \in After /\ owner[c] \in {"none", "closed"}
  BY DEF TypeOK, After, Local, Known
<1>3. /\ hand[c].execution = "not-started" => tree[c] = "none"
      /\ ends[c].tree = "confirmed" => tree[c] = "dead"
      /\ ends[c].outcome = "exited" => ends[c].tree = "confirmed"
  BY DEF Local, Known, Concluded
<1>4. observed => receipt = Outcome(c) /\ receipt # None /\ receipt.tree = "confirmed"
  BY DEF Receipt, Owns
<1> QED BY <1>1, <1>2, <1>3, <1>4 DEF Receipt

LEMMA FinishSessionKeeps == ASSUME IInv, NEW c \in Calls, FinishSession(c) PROVE IInv'
<1>1. UNCHANGED <<lock, observed, helper>> /\ pc[c] = "finish"
  BY DEF FinishSession
<1>2. CASE receipt' = receipt /\ Retry(c)
  BY <1>1, <1>2, RetryKeeps
<1>3. CASE /\ Owns(c) \/ receipt = Outcome(c)
           /\ receipt' = Outcome(c) /\ Leave(c)
  <2>1. pc' = [pc EXCEPT ![c] = "done"]
    BY <1>3 DEF Leave, Goto
  <2>2. Receipt'
    BY <1>1, <1>3, <2>1, SavedIsTrue
  <2> QED BY <1>1, <1>3, <2>2, LeaveKeeps
<1>4. CASE /\ Owns(c) \/ receipt = Outcome(c)
           /\ receipt' = Outcome(c) /\ Released(c)
           /\ pc' = [pc EXCEPT ![c] = "unlock"] /\ UNCHANGED <<hand, ends>>
  <2>1. Receipt'
    BY <1>1, <1>4, SavedIsTrue
  <2>2. hand[c] \in Hands /\ hand' = [hand EXCEPT ![c] = hand[c]]
    BY <1>4 DEF IInv, TypeOK
  <2> QED BY <1>1, <1>4, <2>1, <2>2, FinishingKeeps
<1> QED BY <1>2, <1>3, <1>4 DEF FinishSession, Goto

LEMMA ReleaseSessionKeeps == ASSUME IInv, NEW c \in Calls, ReleaseSession(c) PROVE IInv'
<1>1. UNCHANGED <<receipt, observed, helper>> /\ pc[c] = "unlock"
  BY DEF ReleaseSession
<1>2. CASE Retry(c) /\ lock' = lock
  BY <1>1, <1>2, RetryKeeps
<1>3. CASE lock' = None /\ Leave(c)
  <2>1. Frame(c) /\ pc'[c] = "done" /\ owner'[c] \in {"none", "closed"} /\ tree' = tree
    BY <1>1, <1>3 DEF IInv, TypeOK, Frame, Leave, Goto, helper, Local, Known
  <2>2. Receipt'
    BY <1>1, <2>1, ReceiptKept DEF After
  <2>3. ~Alive(c)
    BY <1>1 DEF IInv, Local, Known, Concluded, Released, Alive
  <2> QED BY <1>1, <1>3, <2>2, <2>3, LeaveKeeps
<1> QED BY <1>2, <1>3 DEF ReleaseSession

-----------------------------------------------------------------------------
(* The helper. *)

\* Nobody but its command speaks of a helper that is there.
LEMMA HelperKeeps ==
  ASSUME IInv, NEW c \in Calls, owner[c] \notin {"none", "closed"}, UNCHANGED <<shared, command>>,
         TypeOK', Frame(c), Known(c)', Said(c)'
  PROVE  IInv'
<1> USE DEF IInv, shared, command
<1>1. lock = c /\ pc[c] \notin {"finish", "unlock"}
  BY DEF Local, Covered, Known
<1>2. Local(c)'
  BY <1>1 DEF Local, Covered, Concluded
<1>3. Receipt'
  BY ReceiptKept
<1> QED BY <1>2, <1>3, StepKeeps

LEMMA SayTells ==
  ASSUME TypeOK, NEW c \in Calls, NEW line \in Lines, Say(c, line)
  PROVE  /\ said' \in [Calls -> Seq(Lines)]
         /\ In(said'[c]) \subseteq In(said[c]) \cup {line}
         /\ \A d \in Calls : d # c => said'[d] = said[d]
<1>1. /\ Append(said[c], line) \in Seq(Lines)
      /\ In(Append(said[c], line)) = In(said[c]) \cup {line}
  BY Pipes DEF TypeOK
<1> QED BY <1>1 DEF Say, TypeOK

LEMMA OwnerReadyKeeps ==
  ASSUME IInv, NEW c \in Calls, OwnerReady(c), UNCHANGED <<shared, command>>
  PROVE  IInv'
<1> USE DEF IInv, OwnerReady
<1>1. /\ said' \in [Calls -> Seq(Lines)] /\ In(said'[c]) \subseteq In(said[c]) \cup {"READY"}
      /\ \A d \in Calls : d # c => said'[d] = said[d]
  BY SayTells DEF Lines
<1>2. TypeOK' /\ Frame(c) /\ owner'[c] = "ready"
  BY <1>1 DEF TypeOK, Frame, Owners, Working, shared, command
<1>3. Known(c)'
  BY <1>2 DEF Local, Known, command
<1>4. Said(c)'
  BY <1>1, <1>2 DEF Local, Said, Over, Reasons, command
<1> QED BY <1>2, <1>3, <1>4, HelperKeeps

\* Reading a line takes it from the pipe.
LEMMA ReadTakes ==
  ASSUME TypeOK, NEW c \in Calls, NEW line \in Lines, Read(c, line)
  PROVE  /\ line \in In(told[c]) /\ told' \in [Calls -> Seq(Lines)]
         /\ In(told'[c]) \subseteq In(told[c])
         /\ \A d \in Calls : d # c => told'[d] = told[d]
<1>1. told[c] \in Seq(Lines) /\ told[c] # <<>> /\ Head(told[c]) = line
      /\ told' = [told EXCEPT ![c] = Tail(told[c])]
  BY DEF Read, TypeOK
<1>2. line \in In(told[c]) /\ Tail(told[c]) \in Seq(Lines) /\ In(Tail(told[c])) \subseteq In(told[c])
  BY <1>1, Pipes
<1> QED BY <1>1, <1>2 DEF TypeOK

LEMMA OwnerCreatesKeeps ==
  ASSUME IInv, NEW c \in Calls, OwnerCreates(c), UNCHANGED <<shared, command>>
  PROVE  IInv'
<1> USE DEF IInv, OwnerCreates
<1>1. /\ "secret" \in In(told[c]) /\ told' \in [Calls -> Seq(Lines)]
      /\ In(told'[c]) \subseteq In(told[c])
      /\ \A d \in Calls : d # c => told'[d] = told[d]
  BY ReadTakes DEF Lines
<1>2. /\ said' \in [Calls -> Seq(Lines)] /\ In(said'[c]) \subseteq In(said[c]) \cup {"CREATED"}
      /\ \A d \in Calls : d # c => said'[d] = said[d]
  BY SayTells DEF Lines
<1>3. TypeOK' /\ Frame(c) /\ owner'[c] = "created" /\ tree'[c] = "suspended"
  BY <1>1, <1>2 DEF TypeOK, Frame, Owners, Working, Trees, shared, command
<1>4. Known(c)'
  BY <1>1, <1>3 DEF Local, Known, command
<1>5. Said(c)'
  BY <1>2, <1>3 DEF Local, Said, Over, Reasons, command
<1> QED BY <1>3, <1>4, <1>5, HelperKeeps

LEMMA OwnerReleasesKeeps ==
  ASSUME IInv, NEW c \in Calls, OwnerReleases(c), UNCHANGED <<shared, command>>
  PROVE  IInv'
<1> USE DEF IInv, OwnerReleases
<1>1. /\ told' \in [Calls -> Seq(Lines)] /\ In(told'[c]) \subseteq In(told[c])
      /\ \A d \in Calls : d # c => told'[d] = told[d]
  BY ReadTakes DEF Lines
<1>2. /\ said' \in [Calls -> Seq(Lines)] /\ In(said'[c]) \subseteq In(said[c]) \cup {"STARTED"}
      /\ \A d \in Calls : d # c => said'[d] = said[d]
  BY SayTells DEF Lines
<1>3. TypeOK' /\ Frame(c) /\ owner'[c] = "running" /\ tree'[c] = "running"
  BY <1>1, <1>2 DEF TypeOK, Frame, Owners, Working, Trees, shared, command
<1>4. Known(c)'
  BY <1>1, <1>3 DEF Local, Known, command
<1>5. Said(c)'
  BY <1>2, <1>3 DEF Local, Said, Over, Reasons, command
<1> QED BY <1>3, <1>4, <1>5, HelperKeeps

\* A helper that goes on to stop, or hangs: nothing else changes.
LEMMA OwnerTurnsKeeps ==
  ASSUME IInv, NEW c \in Calls, owner[c] \in Working \cup Reasons,
         NEW stage \in Reasons \cup {"hung"}, owner' = [owner EXCEPT ![c] = stage],
         stage = "EXITED" => owner[c] = "running",
         UNCHANGED <<told, said, tree, shared, command>>
  PROVE  IInv'
<1> USE DEF IInv
<1>1. TypeOK' /\ Frame(c) /\ owner'[c] = stage /\ stage \notin {"none", "ended", "closed", "created", "running"}
  BY DEF TypeOK, Frame, Owners, Reasons, shared, command
<1>2. owner[c] \notin {"none", "ended", "closed"}
  BY DEF Working, Reasons
<1>3. Known(c)'
  BY <1>1, <1>2 DEF Local, Known, command
<1>4. Said(c)'
  BY <1>1, <1>2 DEF Local, Said, Over, command
<1> QED BY <1>1, <1>2, <1>3, <1>4, HelperKeeps

LEMMA OwnerInterruptedKeeps ==
  ASSUME IInv, NEW c \in Calls, OwnerInterrupted(c), UNCHANGED <<shared, command>>
  PROVE  IInv'
BY OwnerTurnsKeeps DEF OwnerInterrupted, Reasons

LEMMA OwnerEndsKeeps ==
  ASSUME IInv, NEW c \in Calls, OwnerEnds(c), UNCHANGED <<shared, command>>
  PROVE  IInv'
BY OwnerTurnsKeeps DEF OwnerEnds, Reasons

\* A last line is written only when the tree has no process left.
LEMMA StopTreeKeeps ==
  ASSUME IInv, NEW c \in Calls, StopTree(c), UNCHANGED <<shared, command>>
  PROVE  IInv'
<1> USE DEF IInv, StopTree
<1>1. owner[c] \notin {"none", "ended", "closed", "created", "running"} /\ owner'[c] = "ended"
  BY DEF TypeOK, Reasons
<1>2. CASE Say(c, owner[c]) /\ tree' = [tree EXCEPT ![c] = IF Alive(c) THEN "dead" ELSE tree[c]]
  <2>1. /\ said' \in [Calls -> Seq(Lines)] /\ In(said'[c]) \subseteq In(said[c]) \cup {owner[c]}
        /\ \A d \in Calls : d # c => said'[d] = said[d]
    BY <1>2, SayTells DEF Lines
  <2>2. tree'[c] = (IF Alive(c) THEN "dead" ELSE tree[c]) /\ tree[c] \in Trees
    BY <1>2 DEF TypeOK
  <2>3. Over(c)' /\ (tree'[c] = "none") = (tree[c] = "none")
    BY <1>1, <2>2 DEF Over, Alive
  <2>4. TypeOK' /\ Frame(c)
    BY <1>2, <2>1 DEF TypeOK, Frame, Owners, Trees, shared, command
  <2>5. Known(c)'
    BY <1>1, <2>3 DEF Local, Known, command
  <2>6. Said(c)'
    BY <1>1, <2>1, <2>3 DEF Local, Said, command, Reasons
  <2> QED BY <1>1, <2>4, <2>5, <2>6, HelperKeeps
<1>3. CASE Alive(c) /\ Say(c, "UNKNOWN") /\ Orphan(c)
  <2>1. /\ said' \in [Calls -> Seq(Lines)] /\ In(said'[c]) \subseteq In(said[c]) \cup {"UNKNOWN"}
        /\ \A d \in Calls : d # c => said'[d] = said[d]
    BY <1>3, SayTells DEF Lines, Reasons
  <2>2. tree' = [tree EXCEPT ![c] = "dying"] /\ tree'[c] = "dying" /\ tree[c] # "none"
    BY <1>3 DEF TypeOK, Orphan, Alive
  <2>3. TypeOK' /\ Frame(c)
    BY <2>1, <2>2 DEF TypeOK, Frame, Owners, Trees, shared, command
  <2>4. Known(c)'
    BY <1>1, <2>2 DEF Local, Known, command
  <2>5. Said(c)'
    BY <1>1, <1>3, <2>1, <2>2 DEF Local, Said, Over, command, Reasons
  <2> QED BY <1>1, <2>3, <2>4, <2>5, HelperKeeps
<1> QED BY <1>2, <1>3

\* A helper that is gone has no process that was not dying.
LEMMA OwnerGoneKeeps ==
  ASSUME IInv, NEW c \in Calls, owner[c] \notin {"none", "closed"}, Gone(c), said' = said,
         UNCHANGED <<shared, command>>
  PROVE  IInv'
<1> USE DEF IInv
<1>1. /\ owner' = [owner EXCEPT ![c] = "closed"] /\ told' = [told EXCEPT ![c] = <<>>]
      /\ owner' \in [Calls -> Owners] /\ told' \in [Calls -> Seq(Lines)] /\ tree' \in [Calls -> Trees]
      /\ \A d \in Calls : d # c => tree'[d] = tree[d]
      /\ Alive(c)' = Alive(c) /\ (~Alive(c) => tree'[c] = tree[c])
      /\ (tree'[c] = "none") = (tree[c] = "none")
  BY GoneLeaves
<1>2. TypeOK' /\ Frame(c) /\ owner'[c] = "closed" /\ told'[c] = <<>>
  BY <1>1 DEF TypeOK, Frame, shared, command
<1>3. Known(c)'
  BY <1>1, <1>2, EmptyPipe DEF Local, Known, command
<1>4. Said(c)'
  BY <1>1, <1>2 DEF Local, Said, Over, command
<1> QED BY <1>2, <1>3, <1>4, HelperKeeps

LEMMA OwnerReactsKeeps == ASSUME IInv, NEW c \in Calls, OwnerReacts(c) PROVE IInv'
<1>1. UNCHANGED <<shared, command>>
  BY DEF OwnerReacts
<1>2. CASE OwnerCloses(c)
  BY <1>1, <1>2, OwnerGoneKeeps DEF OwnerCloses
<1> QED BY <1>1, <1>2, OwnerReadyKeeps, OwnerCreatesKeeps, OwnerReleasesKeeps, OwnerInterruptedKeeps,
           StopTreeKeeps DEF OwnerReacts

LEMMA OwnerFailsKeeps == ASSUME IInv, NEW c \in Calls, OwnerFails(c) PROVE IInv'
<1>1. UNCHANGED <<shared, command>>
  BY DEF OwnerFails
<1>2. CASE OwnerEnds(c)
  BY <1>1, <1>2, OwnerEndsKeeps
<1>3. CASE /\ owner[c] \in Working \cup Reasons /\ owner' = [owner EXCEPT ![c] = "hung"]
           /\ UNCHANGED <<told, said, tree>>
  BY <1>1, <1>3, OwnerTurnsKeeps
<1>4. CASE owner[c] \in Working \cup Reasons \cup {"ended"} /\ Gone(c) /\ said' = said
  BY <1>1, <1>4, OwnerGoneKeeps DEF Working, Reasons
<1> QED BY <1>2, <1>3, <1>4 DEF OwnerFails

LEMMA TreeDiesKeeps == ASSUME IInv, NEW c \in Calls, TreeDies(c) PROVE IInv'
<1> USE DEF IInv, TreeDies, shared, command
<1>1. TypeOK' /\ Frame(c) /\ tree[c] = "dying" /\ tree'[c] = "dead"
  BY DEF TypeOK, Frame, Trees
<1>2. Local(c)'
  <2>1. Alive(c)
    BY <1>1 DEF Alive
  <2> QED BY <1>1, <2>1 DEF Local, Covered, Known, Said, Concluded, Over, Released
<1>3. Receipt'
  BY <1>1, ReceiptKept DEF Receipt
<1> QED BY <1>1, <1>2, <1>3, StepKeeps

-----------------------------------------------------------------------------
(* Everybody else. *)

LEMMA CrashKeeps == ASSUME IInv, NEW c \in Calls, Crash(c) PROVE IInv'
<1> USE DEF IInv, Crash
<1>1. NewHand \in Hands /\ NoEnd \in Ends
  BY DEF NewHand, Hands, NoEnd, Ends, Outcomes
<1>2. TypeOK' /\ Frame(c) /\ pc'[c] = "dead" /\ said'[c] = <<>>
  BY <1>1, EmptyPipe DEF TypeOK, Frame, After
<1>3. Local(c)'
  BY <1>2, EmptyPipe DEF Local, Covered, Known, Said, Concluded, Alive, Before, Talking, Holding
<1>4. Receipt'
  <2>1. pc[c] \in After /\ owner[c] \in {"none", "closed"} => owner'[c] \in {"none", "closed"}
    OBVIOUS
  <2> QED BY <1>2, <2>1, ReceiptKept DEF After
<1> QED BY <1>2, <1>3, <1>4, StepKeeps

LEMMA ReviewKeeps == ASSUME IInv, NEW c \in Calls, Review(c) PROVE IInv'
<1> USE DEF IInv, Review, command, helper
<1>1. TypeOK' /\ Frame(c)
  BY DEF TypeOK, Frame
<1>2. Local(c)'
  BY DEF Local, Covered, Known, Said, Concluded, Over, Alive, Released, Holding, Talking
<1>3. Receipt'
  BY DEF Receipt
<1> QED BY <1>1, <1>2, <1>3, StepKeeps

\* Nobody's call is concerned.
LEMMA OutsideKeeps ==
  ASSUME IInv, UNCHANGED <<lock, receipt, command, helper>>,
         observed' = observed \/ (receipt # None /\ receipt.finished /\ receipt.tree = "confirmed")
  PROVE  IInv'
<1> USE DEF IInv, command, helper
<1>1. TypeOK'
  BY DEF TypeOK
<1>2. \A c \in Calls : Local(c)'
  BY DEF Local, Covered, Known, Said, Concluded, Over, Alive, Released
<1>3. Receipt'
  BY DEF Receipt
<1> QED BY <1>1, <1>2, <1>3

-----------------------------------------------------------------------------
\* The invariant is kept by every step of the specification.
LEMMA IInvStep == IInv /\ [Next]_vars => IInv'
<1> SUFFICES ASSUME IInv, [Next]_vars PROVE IInv'
  OBVIOUS
<1>1. CASE Edit
  BY <1>1, OutsideKeeps DEF Edit
<1>2. CASE Observe
  BY <1>2, OutsideKeeps DEF Observe
<1>3. CASE UNCHANGED vars
  BY <1>3, OutsideKeeps DEF vars, shared
<1>4. ASSUME NEW c \in Calls, CommandStep(c)
      PROVE  IInv'
  BY <1>4, LookKeeps, BeginSessionKeeps, BegunKeeps, SpawnKeeps, HearKeeps, SecretKeeps, ReleaseKeeps,
     StartedKeeps, TerminalKeeps, CloseKeeps, FinishSessionKeeps, ReleaseSessionKeeps DEF CommandStep
<1>5. ASSUME NEW c \in Calls,
             Prepare(c) \/ Ask(c) \/ Poll(c) \/ Abort(c) \/ Deadline(c) \/ Timeout(c)
      PROVE  IInv'
  BY <1>5, PrepareKeeps, AskKeeps, PollKeeps, AbortKeeps, DeadlineKeeps, TimeoutKeeps
<1>6. ASSUME NEW c \in Calls, OwnerReacts(c) \/ OwnerFails(c) \/ TreeDies(c) \/ Crash(c) \/ Review(c)
      PROVE  IInv'
  BY <1>6, OwnerReactsKeeps, OwnerFailsKeeps, TreeDiesKeeps, CrashKeeps, ReviewKeeps
<1> QED BY <1>1, <1>2, <1>3, <1>4, <1>5, <1>6 DEF Next

LEMMA IInvIsKept == Spec => []IInv
<1> QED BY InitIInv, IInvStep, PTL DEF Spec

\* No two trials of a project ever overlap: an application some process of which
\* may be left is covered by its own call's session lock, for any number of
\* commands, through crashes, hung helpers, failed saves and reviews.
THEOREM TrialsNeverOverlap == Spec => []OneApplication
<1>1. IInv => OneApplication
  BY DEF IInv, Local, Covered, OneApplication
<1> QED BY <1>1, IInvIsKept, PTL

\* A finished receipt is true of its application's processes, whichever lines
\* were lost and whoever died.
THEOREM ReceiptsNeverLie == Spec => []ReceiptsAreTrue
<1>1. IInv => ReceiptsAreTrue
  BY DEF IInv, Receipt, ReceiptsAreTrue
<1> QED BY <1>1, IInvIsKept, PTL
=============================================================================
