----------------------------- MODULE LocalSession -----------------------------
(***************************************************************************)
(* A trial of the user's application on this machine: prepareLocalExecution*)
(* and performLocalApplicationHandoff of core/deploy/handoff.ts, the        *)
(* session receipt and lock of core/agent/connection-state.ts, and the     *)
(* helper of core/local/windows-owner.ts that owns the application.        *)
(*                                                                         *)
(* A command asks a person, claims the project's session lock with a       *)
(* pending receipt, starts the helper, gives it the secret and lets it     *)
(* run the application until that ends, is cancelled, expires or its basis *)
(* changes.  The command completes the receipt, and gives the lock back    *)
(* only when it knows that no process of the application is left.          *)
(*                                                                         *)
(* Command and helper are two processes joined by two pipes.  Either may   *)
(* die at any instant and the helper may hang; the processes of the        *)
(* application form a job the operating system kills when its owner ends.  *)
(***************************************************************************)
EXTENDS Integers, Sequences

CONSTANTS
  Calls,      \* commands that are run, each once
  MaxEdits,   \* bound: how often the basis of a trial changes
  None

ASSUME LocalAssumption == MaxEdits \in Nat /\ None \notin Calls

VARIABLES
  lock,       \* the call whose directory local-session.lock is, or None
  jam,        \* a metadata lock or temporary file was left behind
  receipt,    \* the latest receipt, or None
  observed,   \* an observation was recorded on the latest receipt
  basis,      \* version of selection, credential revision and launch inputs
  pc,         \* call -> its next step
  seen,       \* call -> the basis it was prepared for
  hand,       \* call -> the flags of its handoff
  ends,       \* call -> the helper's last line, then the outcome of its handoff
  owner,      \* call -> its helper: none, a stage, a reason to stop, ended, hung or closed
  told,       \* call -> lines the helper has not read
  said,       \* call -> lines the command has not read
  tree        \* call -> its application's processes

shared  == <<lock, jam, receipt, observed, basis>>
command == <<pc, seen, hand, ends>>
helper  == <<owner, told, said, tree>>
vars == <<shared, command, helper>>

Reasons == {"EXITED", "FAILED", "CANCELLED", "EXPIRED", "PARENT_LOST", "UNKNOWN"}
Working == {"compiling", "ready", "created", "running"}

NewHand == [execution |-> "not-started", changed |-> FALSE, cancelled |-> FALSE,
            fault |-> FALSE, forced |-> FALSE, late |-> FALSE, again |-> FALSE]

NoEnd == [outcome |-> "none", tree |-> "none"]

Init ==
  /\ lock = None
  /\ jam = FALSE
  /\ receipt = None
  /\ observed = FALSE
  /\ basis = 0
  /\ pc = [c \in Calls |-> "idle"]
  /\ seen = [c \in Calls |-> 0]
  /\ hand = [c \in Calls |-> NewHand]
  /\ ends = [c \in Calls |-> NoEnd]
  /\ owner = [c \in Calls |-> "none"]
  /\ told = [c \in Calls |-> <<>>]
  /\ said = [c \in Calls |-> <<>>]
  /\ tree = [c \in Calls |-> "none"]

-----------------------------------------------------------------------------
Goto(c, step) == pc' = [pc EXCEPT ![c] = step]

\* Some process of the application may be left.
Alive(c) == tree[c] \in {"suspended", "running", "dying"}

\* The receipt and the lock are this call's own, as it made them.
Owns(c) == ~jam /\ lock = c /\ receipt # None /\ receipt.by = c /\ ~receipt.finished

\* Every check may also fail: presence, approval age, or a read that fails.
Current(c) == basis = seen[c] /\ ~hand[c].cancelled /\ ~jam
Valid(c) == Current(c) /\ Owns(c)

-----------------------------------------------------------------------------
(* Before the trial: prepareLocalExecution. *)

Prepare(c) ==
  /\ pc[c] = "idle"
  /\ seen' = [seen EXCEPT ![c] = basis]
  /\ Goto(c, "look")
  /\ UNCHANGED <<shared, hand, ends, helper>>

\* A session lock that is there already asks for its owner's review.
Look(c) ==
  /\ pc[c] = "look"
  /\ \/ Current(c) /\ lock = None /\ Goto(c, "ask")
     \/ Goto(c, "done")
  /\ UNCHANGED <<shared, seen, hand, ends, helper>>

Ask(c) ==
  /\ pc[c] = "ask"
  /\ \/ Current(c) /\ Goto(c, "begin")
     \/ Goto(c, "done")
  /\ UNCHANGED <<shared, seen, hand, ends, helper>>

Pending(c) == [by |-> c, basis |-> seen[c], finished |-> FALSE, outcome |-> "unknown",
               execution |-> "not-started", tree |-> "not-needed"]

\* beginLocalSession: under the metadata lock, the session's lock and then its
\* receipt; a start that fails half way keeps the session's lock.
BeginSession(c) ==
  /\ pc[c] = "begin"
  /\ \/ /\ ~jam /\ lock = None
        /\ lock' = c
        /\ jam' \in BOOLEAN
        /\ \/ receipt' = Pending(c) /\ observed' = FALSE /\ Goto(c, "begun")
           \/ UNCHANGED <<receipt, observed>> /\ Goto(c, "done")
     \/ Goto(c, "done") /\ UNCHANGED <<lock, jam, receipt, observed>>
  /\ UNCHANGED <<basis, seen, hand, ends, helper>>

-----------------------------------------------------------------------------
(* The handoff: performLocalApplicationHandoff. *)

\* The job is closed, and the system kills what is in it: KILL_ON_JOB_CLOSE.
Orphan(c) == tree' = [tree EXCEPT ![c] = IF Alive(c) THEN "dying" ELSE @]

\* The helper is gone, with the pipe it read.
Gone(c) ==
  /\ owner' = [owner EXCEPT ![c] = "closed"]
  /\ told' = [told EXCEPT ![c] = <<>>]
  /\ Orphan(c)

\* force: the helper is killed, and whatever it said is no evidence any more.
ForceStop(c) ==
  /\ hand' = [hand EXCEPT ![c].fault = TRUE]
  /\ Gone(c)

\* stop: the helper is told, and has two seconds.
Stop(c, flags) ==
  IF owner[c] = "closed" THEN hand' = [hand EXCEPT ![c] = flags] /\ UNCHANGED told
  ELSE /\ told' = [told EXCEPT ![c] = Append(@, "CANCEL")]
       /\ hand' = [hand EXCEPT ![c] = [flags EXCEPT !.forced = TRUE]]

\* The handoff returns; its finally block kills a helper that is still there.
Return(c, outcome, trees) ==
  /\ ends' = [ends EXCEPT ![c] = [outcome |-> outcome,
       tree |-> IF hand[c].execution = "not-started" THEN "not-needed" ELSE trees]]
  /\ IF owner[c] = "none" THEN UNCHANGED <<owner, told, tree>> ELSE Gone(c)
  /\ said' = [said EXCEPT ![c] = <<>>]
  /\ Goto(c, "finish")

Unknown(c) == Return(c, "unknown", "unknown") /\ UNCHANGED hand

\* The attempt is durable; the basis is checked again before anything starts.
Begun(c) ==
  /\ pc[c] = "begun"
  /\ \/ Valid(c) /\ Goto(c, "spawn") /\ UNCHANGED <<ends, helper>>
     \/ Return(c, "changed", "not-needed")
  /\ UNCHANGED <<shared, seen, hand>>

Spawn(c) ==
  /\ pc[c] = "spawn"
  /\ \/ /\ owner' = [owner EXCEPT ![c] = "compiling"]
        /\ Goto(c, "READY")
        /\ UNCHANGED <<ends, told, said, tree>>
     \/ Return(c, "unknown", "unknown")
  /\ UNCHANGED <<shared, seen, hand>>

\* next(): a fault hides what was said; a closed pipe ends it.
Silent(c) == hand[c].fault \/ (said[c] = <<>> /\ owner[c] = "closed")
Says(c, line) == ~hand[c].fault /\ said[c] # <<>> /\ Head(said[c]) = line
Consume(c) == said' = [said EXCEPT ![c] = Tail(@)]

Handshake == [READY |-> "secret", CREATED |-> "release", STARTED |-> "started"]

\* Exactly the line that is expected next, or the handoff is over.
Hear(c) ==
  /\ pc[c] \in DOMAIN Handshake
  /\ \/ /\ Says(c, pc[c])
        /\ Consume(c) /\ Goto(c, Handshake[pc[c]])
        /\ UNCHANGED <<hand, ends, owner, told, tree>>
     \/ /\ Silent(c) \/ (said[c] # <<>> /\ ~Says(c, pc[c]))
        /\ Unknown(c)
  /\ UNCHANGED <<shared, seen>>

\* changed: the helper is stopped, and its end awaited.
Changed(c) ==
  /\ Stop(c, [hand[c] EXCEPT !.changed = TRUE])
  /\ Goto(c, "watch")
  /\ UNCHANGED <<ends, owner, said, tree>>

\* A line is sent only across a clean boundary, and the pipe may be broken.
Send(c, line, flags, answer) ==
  \/ /\ ~hand[c].fault
     /\ told' = [told EXCEPT ![c] = Append(@, line)]
     /\ hand' = [hand EXCEPT ![c] = flags]
     /\ Goto(c, answer)
     /\ UNCHANGED <<ends, owner, said, tree>>
  \/ /\ hand[c].fault \/ said[c] # <<>> \/ owner[c] = "closed"
     /\ hand' = [hand EXCEPT ![c] = flags]
     /\ ends' = [ends EXCEPT ![c] = [outcome |-> "unknown",
          tree |-> IF flags.execution = "not-started" THEN "not-needed" ELSE "unknown"]]
     /\ Gone(c)
     /\ said' = [said EXCEPT ![c] = <<>>]
     /\ Goto(c, "finish")

\* Fault: execution counts as possible only once the helper answers.
SecretFirst(c) ==
  /\ pc[c] = "secret"
  /\ \/ Valid(c) /\ Send(c, "secret", hand[c], "CREATED")
     \/ Changed(c)
     \/ Unknown(c)
  /\ UNCHANGED <<shared, seen>>

\* The secret is read between two checks; execution is possible from here on,
\* before the first byte is written.
Secret(c) ==
  /\ pc[c] = "secret"
  /\ \/ Valid(c) /\ Send(c, "secret", [hand[c] EXCEPT !.execution = "possible"], "CREATED")
     \/ Changed(c)
     \/ Unknown(c)
  /\ UNCHANGED <<shared, seen>>

Release(c) ==
  /\ pc[c] = "release"
  /\ \/ Valid(c) /\ Send(c, "RELEASE", hand[c], "STARTED")
     \/ Changed(c)
  /\ UNCHANGED <<shared, seen>>

Started(c) ==
  /\ pc[c] = "started"
  /\ \/ Valid(c) /\ Goto(c, "watch") /\ UNCHANGED <<hand, ends, helper>>
     \/ Changed(c)
  /\ UNCHANGED <<shared, seen>>

\* While the application runs, its basis is polled.
Poll(c) ==
  /\ pc[c] = "watch" /\ owner[c] # "closed"
  /\ ~hand[c].fault /\ ~hand[c].changed /\ ~hand[c].cancelled
  /\ Changed(c)
  /\ UNCHANGED <<shared, seen>>

\* The last line, or none.
Terminal(c) ==
  /\ pc[c] = "watch"
  /\ \/ \E reason \in Reasons :
          /\ Says(c, reason)
          /\ ends' = [ends EXCEPT ![c].outcome = reason]
          /\ hand' = [hand EXCEPT ![c].forced = TRUE]
          /\ Consume(c) /\ Goto(c, "close")
          /\ UNCHANGED <<owner, told, tree>>
     \/ Silent(c) /\ Unknown(c)
  /\ UNCHANGED <<shared, seen>>

Status(c, changed) ==
  IF changed THEN "changed"
  ELSE IF hand[c].cancelled \/ ends[c].outcome = "CANCELLED" THEN "cancelled"
  ELSE IF ends[c].outcome = "EXPIRED" THEN "expired"
  ELSE IF ends[c].outcome = "EXITED" THEN "exited" ELSE "failed"

\* Fault: a tree the helper could not stop counts as ended.
BelievedAlways(c) == ~hand[c].fault /\ said[c] = <<>> /\ ends[c].outcome # "PARENT_LOST"

\* A helper that stopped its tree, said so and closed its pipe is believed.
Believed(c) == ~hand[c].fault /\ said[c] = <<>> /\ ends[c].outcome \notin {"UNKNOWN", "PARENT_LOST"}

Close(c) ==
  /\ pc[c] = "close" /\ (hand[c].fault \/ owner[c] = "closed")
  /\ IF ~Believed(c) THEN Return(c, "unknown", "unknown")
     ELSE \E changed \in {hand[c].changed} \cup (IF hand[c].cancelled THEN {} ELSE {TRUE}) :
            /\ ~changed => hand[c].cancelled \/ Valid(c)
            /\ Return(c, Status(c, changed), "confirmed")
  /\ UNCHANGED <<shared, seen, hand>>

-----------------------------------------------------------------------------
(* Timers and the caller's signal, while the handoff lasts. *)

HandingOff(c) ==
  /\ owner[c] # "none"
  /\ pc[c] \in {"READY", "secret", "CREATED", "release", "STARTED", "started", "watch", "close"}

Abort(c) ==
  /\ HandingOff(c) /\ ~hand[c].cancelled
  /\ Stop(c, [hand[c] EXCEPT !.cancelled = TRUE])
  /\ UNCHANGED <<shared, pc, seen, ends, owner, said, tree>>

\* Fault: the deadline arms no timer of its own.
DeadlineUnforced(c) ==
  /\ HandingOff(c) /\ ~hand[c].late
  /\ hand' = [hand EXCEPT ![c].late = TRUE]
  /\ told' = [told EXCEPT ![c] = Append(@, "CANCEL")]
  /\ UNCHANGED <<shared, pc, seen, ends, owner, said, tree>>

Deadline(c) ==
  /\ HandingOff(c) /\ ~hand[c].late
  /\ Stop(c, [hand[c] EXCEPT !.late = TRUE])
  /\ UNCHANGED <<shared, pc, seen, ends, owner, said, tree>>

\* Thirty seconds for the handshake, or two after a stop.
Timeout(c) ==
  /\ HandingOff(c) /\ ~hand[c].fault
  /\ hand[c].forced \/ pc[c] \notin {"watch", "close"}
  /\ pc[c] = "close" => owner[c] # "closed"
  /\ ForceStop(c)
  /\ UNCHANGED <<shared, pc, seen, ends, said>>

-----------------------------------------------------------------------------
(* After the trial: complete and finishLocalSession. *)

Released(c) == hand[c].execution = "not-started" \/ ends[c].tree = "confirmed"

Outcome(c) == [by |-> c, basis |-> seen[c], finished |-> TRUE, outcome |-> ends[c].outcome,
               execution |-> hand[c].execution, tree |-> ends[c].tree]

\* The command ends, with all it remembers.
Leave(c) ==
  /\ Goto(c, "done")
  /\ seen' = [seen EXCEPT ![c] = 0]
  /\ hand' = [hand EXCEPT ![c] = NewHand]
  /\ ends' = [ends EXCEPT ![c] = NoEnd]

\* One more try, after an I/O failure only, by a call that owns nothing any more.
Retry(c) ==
  \/ Leave(c)
  \/ /\ Released(c) /\ ~hand[c].again
     /\ hand' = [hand EXCEPT ![c].again = TRUE]
     /\ Goto(c, "finish")
     /\ UNCHANGED <<seen, ends>>

FinishSession(c) ==
  /\ pc[c] = "finish"
  /\ \/ /\ Owns(c) \/ (~jam /\ lock = c /\ receipt = Outcome(c))
        /\ jam' \in BOOLEAN
        /\ \/ /\ receipt' = Outcome(c)
              /\ IF Released(c) THEN Goto(c, "unlock") /\ UNCHANGED <<seen, hand, ends>>
                                ELSE Leave(c)
           \/ UNCHANGED receipt /\ Retry(c)
     \/ Retry(c) /\ UNCHANGED <<jam, receipt>>
  /\ UNCHANGED <<lock, observed, basis, helper>>

\* The receipt is read back, and the lock must be the one this call made.
ReleaseSession(c) ==
  /\ pc[c] = "unlock"
  /\ \/ /\ ~jam /\ receipt = Outcome(c) /\ lock = c
        /\ lock' = None
        /\ Leave(c)
     \/ Retry(c) /\ UNCHANGED lock
  /\ UNCHANGED <<jam, receipt, observed, basis, helper>>

-----------------------------------------------------------------------------
(* The helper: AkcLocalOwner. *)

\* Nobody reads the pipe of a command that died.
Say(c, line) ==
  said' = IF pc[c] = "dead" THEN said ELSE [said EXCEPT ![c] = Append(@, line)]

OwnerReady(c) ==
  /\ owner[c] = "compiling"
  /\ owner' = [owner EXCEPT ![c] = "ready"]
  /\ Say(c, "READY")
  /\ UNCHANGED <<told, tree>>

Read(c, line) == told[c] # <<>> /\ Head(told[c]) = line /\ told' = [told EXCEPT ![c] = Tail(@)]

\* The root is created suspended, and in the job from its first instant.
OwnerCreates(c) ==
  /\ owner[c] = "ready" /\ Read(c, "secret")
  /\ owner' = [owner EXCEPT ![c] = "created"]
  /\ tree' = [tree EXCEPT ![c] = "suspended"]
  /\ Say(c, "CREATED")

OwnerReleases(c) ==
  /\ owner[c] = "created" /\ Read(c, "RELEASE")
  /\ owner' = [owner EXCEPT ![c] = "running"]
  /\ tree' = [tree EXCEPT ![c] = "running"]
  /\ Say(c, "STARTED")

\* Why the helper stops: its own clock, the command's line or its death.
OwnerInterrupted(c) ==
  /\ owner[c] \in Working
  /\ \E reason \in {"EXPIRED", "PARENT_LOST", "CANCELLED"} :
       /\ reason = "PARENT_LOST" => pc[c] = "dead"
       /\ reason = "CANCELLED" =>
            (told[c] # <<>> /\ Head(told[c]) = "CANCEL") \/ (told[c] = <<>> /\ pc[c] = "dead")
       /\ owner' = [owner EXCEPT ![c] = reason]
  /\ UNCHANGED <<told, said, tree>>

\* The root exits, or something the helper does fails.
OwnerEnds(c) ==
  /\ owner[c] \in Working
  /\ \E reason \in {"UNKNOWN"} \cup (IF owner[c] = "running" THEN {"EXITED", "FAILED"} ELSE {}) :
       owner' = [owner EXCEPT ![c] = reason]
  /\ UNCHANGED <<told, said, tree>>

\* StopTree waits until the job is empty; failing that, closing the job kills it.
StopTree(c) ==
  /\ owner[c] \in Reasons
  /\ owner' = [owner EXCEPT ![c] = "ended"]
  /\ \/ Say(c, owner[c]) /\ tree' = [tree EXCEPT ![c] = IF Alive(c) THEN "dead" ELSE @]
     \/ Alive(c) /\ Say(c, "UNKNOWN") /\ Orphan(c)
  /\ UNCHANGED told

OwnerCloses(c) ==
  /\ owner[c] = "ended"
  /\ Gone(c)
  /\ UNCHANGED said

OwnerReacts(c) ==
  /\ \/ OwnerReady(c) \/ OwnerCreates(c) \/ OwnerReleases(c)
     \/ OwnerInterrupted(c) \/ StopTree(c) \/ OwnerCloses(c)
  /\ UNCHANGED <<shared, command>>

OwnerFails(c) ==
  /\ \/ OwnerEnds(c)
     \/ /\ owner[c] \in Working \cup Reasons
        /\ owner' = [owner EXCEPT ![c] = "hung"]
        /\ UNCHANGED <<told, said, tree>>
     \/ /\ owner[c] \in Working \cup Reasons \cup {"ended"}
        /\ Gone(c)
        /\ UNCHANGED said
  /\ UNCHANGED <<shared, command>>

TreeDies(c) ==
  /\ tree[c] = "dying"
  /\ tree' = [tree EXCEPT ![c] = "dead"]
  /\ UNCHANGED <<shared, command, owner, told, said>>

-----------------------------------------------------------------------------
(* Everybody else. *)

\* Another selection, a new registration of the key, an edited file.
Edit ==
  /\ basis < MaxEdits
  /\ basis' = basis + 1
  /\ UNCHANGED <<lock, jam, receipt, observed, command, helper>>

\* recordLocalSessionObservation: on an attempt that ended, and whose basis is
\* still the one it ran with.
Observe ==
  /\ ~jam /\ lock = None /\ receipt # None /\ ~observed
  /\ receipt.finished /\ receipt.outcome \in {"exited", "failed"}
  /\ receipt.execution = "possible" /\ receipt.tree = "confirmed"
  /\ receipt.basis = basis
  /\ observed' = TRUE
  /\ jam' \in BOOLEAN
  /\ UNCHANGED <<lock, receipt, basis, command, helper>>

\* The command dies; within a change it leaves the metadata locked.
Crash(c) ==
  /\ pc[c] \notin {"idle", "done", "dead"}
  /\ pc' = [pc EXCEPT ![c] = "dead"]
  /\ seen' = [seen EXCEPT ![c] = 0]
  /\ hand' = [hand EXCEPT ![c] = NewHand]
  /\ ends' = [ends EXCEPT ![c] = NoEnd]
  /\ said' = [said EXCEPT ![c] = <<>>]
  /\ jam' \in IF pc[c] \in {"begin", "finish"} THEN BOOLEAN ELSE {jam}
  /\ UNCHANGED <<lock, receipt, observed, basis, owner, told, tree>>

\* The owner's review: whoever removes a lock made sure that its command and
\* its application are gone.
Review(c) ==
  /\ lock = c
  /\ pc[c] \in {"done", "dead"}
  /\ owner[c] \in {"none", "closed"} /\ ~Alive(c)
  /\ lock' = None
  /\ jam' = FALSE
  /\ UNCHANGED <<receipt, observed, basis, command, helper>>

-----------------------------------------------------------------------------
CommandStep(c) ==
  \/ Look(c) \/ BeginSession(c) \/ Begun(c) \/ Spawn(c) \/ Hear(c) \/ Secret(c)
  \/ Release(c) \/ Started(c) \/ Terminal(c) \/ Close(c)
  \/ FinishSession(c) \/ ReleaseSession(c)

Next ==
  \/ \E c \in Calls :
       \/ Prepare(c) \/ Ask(c) \/ CommandStep(c) \/ Poll(c)
       \/ Abort(c) \/ Deadline(c) \/ Timeout(c)
       \/ OwnerReacts(c) \/ OwnerFails(c) \/ TreeDies(c)
       \/ Crash(c) \/ Review(c)
  \/ Edit
  \/ Observe

Spec == Init /\ [][Next]_vars

\* Commands and helpers go on, timers fire, and the system ends what it must;
\* nobody has to answer, to edit or to review, and no application has to end.
FairSpec ==
  /\ Spec
  /\ \A c \in Calls :
       /\ WF_vars(CommandStep(c)) /\ WF_vars(OwnerReacts(c))
       /\ WF_vars(Deadline(c)) /\ WF_vars(Timeout(c)) /\ WF_vars(TreeDies(c))

-----------------------------------------------------------------------------
\* An application some process of which may be left is covered by its own
\* call's session lock: no two trials of a project ever overlap, through
\* crashes, hung helpers, failed saves and reviews.
OneApplication == \A c \in Calls : Alive(c) => lock = c

\* What a finished receipt says of the processes is so: none was started, all
\* have ended; an exit was seen, and only what ended was observed.
ReceiptsAreTrue ==
  receipt # None /\ receipt.finished =>
    /\ receipt.execution = "not-started" => tree[receipt.by] = "none"
    /\ receipt.tree = "confirmed" => tree[receipt.by] = "dead"
    /\ receipt.outcome = "exited" => receipt.tree = "confirmed"
    /\ observed => tree[receipt.by] = "dead"

\* A helper that was started comes to its end with all it owns, and so does the
\* command, unless the command died and its helper hangs: then nobody is left
\* to stop the application.
TrialsEnd ==
  \A c \in Calls :
    owner[c] # "none" ~>
      \/ ~Alive(c) /\ pc[c] \in {"done", "dead"}
      \/ owner[c] = "hung" /\ pc[c] = "dead"
=============================================================================
