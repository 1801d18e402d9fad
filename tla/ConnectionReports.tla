-------------------------- MODULE ConnectionReports --------------------------
(***************************************************************************)
(* The two readers of the connection metadata: checkResendConnection       *)
(* (core/agent/connection-check.ts) has the provider validate the stored   *)
(* credential and records its answer; buildNextReport (core/agent/next.ts) *)
(* tells a person or an agent what is registered, what was validated, and  *)
(* what to do next.  Neither takes a lock while it reads: both read the    *)
(* same things again after everything they awaited, while the commands of  *)
(* ConnectionState run.                                                    *)
(***************************************************************************)
EXTENDS ConnectionState, Sequences

CONSTANTS
  JournalLimit    \* observations kept (200 in the code)

ASSUME ReportsAssumption == JournalLimit \in Nat \ {0}

VARIABLES
  journal,    \* observations, in the order they were begun
  mem,        \* call -> what it has read so far
  tested      \* call -> the value the provider was asked about (history)

vars == <<state, journal, mem, tested>>

Unavailable == [by |-> None, rev |-> 0, state |-> "unavailable"]
Outcomes == {"unknown", "valid", "invalid"}
NoObservation == [call |-> None, env |-> Tracked, about |-> Unregistered, finished |-> FALSE, outcome |-> "unknown"]
NoMemory ==
  [intent |-> None, reg |-> Unavailable, revision |-> Unavailable, present |-> "unavailable",
   entry |-> NoObservation, readable |-> FALSE, round |-> 1, verdict |-> "unknown"]

Observation == [call : Calls, env : Envs, about : Registration, finished : BOOLEAN, outcome : Outcomes]
Memory ==
  [intent : Intent \cup {None}, reg : Registration \cup {Unregistered, Unavailable},
   revision : Registration \cup {Unavailable}, present : {"unavailable", "registered", "missing"},
   entry : Observation \cup {NoObservation}, readable : BOOLEAN, round : 1 .. 4, verdict : Outcomes]

RInit ==
  /\ Init
  /\ journal = <<>>
  /\ mem = [c \in Calls |-> NoMemory]
  /\ tested = [c \in Calls |-> None]

-----------------------------------------------------------------------------
(* What both readers do. *)

Quiet == UNCHANGED <<disk, local, dead, latest, journal, tested>>
Learn(c, field, v) == mem' = [mem EXCEPT ![c] = [@ EXCEPT ![field] = v]]

Managed(i) == i # None /\ i.route = "managed"
\* Bound: a managed selection of an environment whose slot is not modelled.
Untracked(i) == Managed(i) /\ i.env # Tracked

\* The intent, read at once or not at all.
ReadIntent(c, k, next) ==
  /\ At(c, "idle")
  /\ Start(c, k)
  /\ IF Readable("intent") /\ intent # None
     THEN Learn(c, "intent", intent) /\ Goto(c, next)
     ELSE UNCHANGED mem /\ Goto(c, "done")
  /\ UNCHANGED <<disk, then, want, plan, dead, latest, journal, tested>>

\* A registration is read in two steps: the slot's lock, then the record.
SlotThen == [reg |-> "reg.read", revision |-> "revision.read", again |-> "again.read"]

LookAtSlot(c) ==
  /\ c \notin dead /\ pc[c] \in DOMAIN SlotThen
  /\ IF slot = None /\ Readable("credential")
     THEN Goto(c, SlotThen[pc[c]]) /\ UNCHANGED mem
     ELSE CASE pc[c] = "reg"      -> Learn(c, "reg", Unavailable) /\ Goto(c, "present")
            [] pc[c] = "revision" -> /\ Learn(c, "revision", Unavailable)
                                     /\ Goto(c, IF kind[c] = "check" THEN "done" ELSE "planned")
            [] pc[c] = "again"    -> /\ mem' = [mem EXCEPT ![c].present =
                                          IF mem[c].reg = Unavailable THEN @ ELSE "unavailable"]
                                     /\ Goto(c, "reread")
  /\ Quiet

\* Only a settled record gives a revision.
ReadRevision(c) ==
  /\ At(c, "revision.read")
  /\ LET r == IF Readable("credential") /\ cred.state = "settled" THEN cred ELSE Unavailable
     IN  /\ Learn(c, "revision", r)
         /\ Goto(c, IF kind[c] # "check" THEN "planned"
                    ELSE IF r = Unavailable THEN "done" ELSE "await")
  /\ Quiet

-----------------------------------------------------------------------------
(* checkResendConnection: four rounds of awaiting and reading everything
   again, before the receipt, the secret, the provider and the result. *)

Check(c) == ReadIntent(c, "check", "selected")

CheckSelected(c) ==
  /\ At(c, "selected")
  /\ Goto(c, IF Managed(mem[c].intent) /\ ~Untracked(mem[c].intent) THEN "revision" ELSE "done")
  /\ UNCHANGED mem /\ Quiet

\* A receipt that was begun is finished, with what is known.
Stop(c) == Goto(c, IF mem[c].round = 1 THEN "done" ELSE "record")

AwaitPresence(c) ==
  /\ At(c, "await")
  /\ \/ stored # None /\ Goto(c, "current") /\ UNCHANGED mem
     \/ Learn(c, "verdict", "unknown") /\ Stop(c)
  /\ Quiet

\* Fault: the revision is not read again.
SameIntentOnly(c) ==
  /\ At(c, "current.read")
  /\ Goto(c, <<"open", "fetch", "probe", "record">>[mem[c].round])
  /\ UNCHANGED mem /\ Quiet

CheckSelection(c) ==
  /\ At(c, "current")
  /\ IF Readable("intent") /\ intent = mem[c].intent /\ slot = None
     THEN Goto(c, "current.read") /\ UNCHANGED mem
     ELSE Learn(c, "verdict", "unknown") /\ Stop(c)
  /\ Quiet

HasOpenEntry(c) == \E i \in DOMAIN journal : journal[i].call = c /\ ~journal[i].finished

CheckRevision(c) ==
  /\ At(c, "current.read")
  /\ IF /\ Readable("credential") /\ cred.state = "settled" /\ cred.rev = mem[c].revision.rev
        /\ mem[c].round > 1 => Readable("journal") /\ HasOpenEntry(c)
     THEN Goto(c, <<"open", "fetch", "probe", "record">>[mem[c].round]) /\ UNCHANGED mem
     ELSE Learn(c, "verdict", "unknown") /\ Stop(c)
  /\ Quiet

NextRound(c) == [mem[c] EXCEPT !.round = @ + 1]

\* The journal is changed under the metadata lock.
JournalLock(c) ==
  /\ c \notin dead /\ pc[c] \in {"open", "record"}
  /\ \/ lock = None /\ lock' = c /\ Goto(c, IF pc[c] = "open" THEN "opened" ELSE "recorded")
     \/ UNCHANGED lock /\ Goto(c, "done")
  /\ UNCHANGED <<tmps, intent, history, slot, cred, stored, local, dead, latest, journal, mem, tested>>

Retained(s) == IF Len(s) > JournalLimit THEN Tail(s) ELSE s

\* beginObservation: the result is unknown until it is known.
OpenEntry(c) ==
  /\ At(c, "opened")
  /\ \/ /\ "journal" \notin tmps /\ intent # None
        /\ journal' = Retained(Append(journal,
             [NoObservation EXCEPT !.call = c, !.env = intent.env, !.about = mem[c].revision]))
        /\ mem' = [mem EXCEPT ![c] = NextRound(c)]
        /\ UNCHANGED tmps
        /\ Leave(c, IF intent.env = mem[c].intent.env THEN "await" ELSE "record")
     \/ /\ Spoils("journal") /\ UNCHANGED <<journal, mem>>
        /\ Leave(c, "done")
  /\ UNCHANGED <<lock, intent, history, slot, cred, stored, kind, want, plan, dead, latest, tested>>

\* The secret is read from the operating system's store.
Fetch(c) ==
  /\ At(c, "fetch")
  /\ tested' = [tested EXCEPT ![c] = stored]
  /\ mem' = [mem EXCEPT ![c] = NextRound(c)]
  /\ Goto(c, IF stored = None THEN "record" ELSE "await")
  /\ UNCHANGED <<disk, local, dead, latest, journal>>

\* The provider's tool answers about the value it was given, or does not.
Probe(c) ==
  /\ At(c, "probe")
  /\ \E v \in Outcomes : mem' = [mem EXCEPT ![c] = [NextRound(c) EXCEPT !.verdict = v]]
  /\ Goto(c, "await")
  /\ Quiet

\* finishObservation: an entry that was evicted or finished is left alone.
RecordVerdict(c) ==
  /\ At(c, "recorded")
  /\ \/ /\ "journal" \notin tmps /\ HasOpenEntry(c)
        /\ journal' = [i \in DOMAIN journal |->
             IF journal[i].call = c
             THEN [journal[i] EXCEPT !.finished = TRUE, !.outcome = mem[c].verdict]
             ELSE journal[i]]
        /\ UNCHANGED tmps
     \/ Spoils("journal") /\ UNCHANGED journal
  /\ Leave(c, "done")
  /\ UNCHANGED <<lock, intent, history, slot, cred, stored, kind, want, plan, dead, latest, mem, tested>>

-----------------------------------------------------------------------------
(* buildNextReport: the connection's part. *)

Report(c) == ReadIntent(c, "report", "observe")

LatestObservation(env) ==
  LET of == {i \in DOMAIN journal : journal[i].env = env}
  IN  IF of = {} THEN NoObservation
                 ELSE journal[CHOOSE i \in of : \A j \in of : j <= i]

Observe(c) ==
  /\ At(c, "observe") /\ ~Untracked(mem[c].intent)
  /\ mem' = [mem EXCEPT ![c].readable = Readable("journal"),
                        ![c].entry = LatestObservation(mem[c].intent.env)]
  /\ Goto(c, IF Managed(mem[c].intent) THEN "reg" ELSE "reread")
  /\ Quiet

ReadRegistration(c) ==
  /\ At(c, "reg.read")
  /\ Learn(c, "reg", cred)
  /\ Goto(c, "present")
  /\ Quiet

Truth == IF stored # None THEN "registered" ELSE "missing"

\* A pending or unreadable registration is not diagnosed by presence alone.
ReadPresence(c) ==
  /\ At(c, "present")
  /\ \E p \in (IF mem[c].reg.state \in {"unavailable", "pending"} THEN {} ELSE {Truth}) \cup {"unavailable"} :
        /\ Learn(c, "present", p)
        /\ Goto(c, CASE p = "registered" -> "revision" [] p = "missing" -> "planned" [] OTHER -> "reread")
  /\ Quiet

\* The plan reads the presence for itself, and then it is read once more; an
\* answer that differs, or fails, makes the credential unavailable.
Agree(c) ==
  /\ c \notin dead /\ pc[c] \in {"planned", "presence"}
  /\ \E p \in {Truth, "unavailable"} :
        Learn(c, "present", IF p = mem[c].present THEN p ELSE "unavailable")
  /\ Goto(c, IF pc[c] = "planned" THEN "presence"
             ELSE IF mem'[c].present = "unavailable" THEN "reread" ELSE "again")
  /\ Quiet

\* Fault: the registration is not compared with the one that was read first.
RegistrationUncompared(c) ==
  /\ At(c, "again.read")
  /\ UNCHANGED mem
  /\ Goto(c, "reread")
  /\ Quiet

ReadRegistrationAgain(c) ==
  /\ At(c, "again.read")
  /\ Learn(c, "present", IF cred = mem[c].reg THEN mem[c].present ELSE "unavailable")
  /\ Goto(c, "reread")
  /\ Quiet

\* An intent that changed meanwhile makes the whole report unavailable.
ReadIntentAgain(c) ==
  /\ At(c, "reread")
  /\ Goto(c, IF Readable("intent") /\ intent = mem[c].intent THEN "answered" ELSE "done")
  /\ UNCHANGED mem /\ Quiet

-----------------------------------------------------------------------------
(* What the report says of what was read. *)

ProviderStatus(m) ==
  CASE ~Managed(m.intent)                                        -> "not-applicable"
    [] Managed(m.intent) /\ ~m.readable                          -> "unknown"
    [] Managed(m.intent) /\ m.readable ->
       CASE m.present = "registered" /\ m.revision = Unavailable -> "unknown"
         [] m.present = "registered" /\ m.revision # Unavailable ->
              (CASE m.entry = NoObservation             -> "not-run"
                 [] m.entry # NoObservation /\ m.entry.about.rev # m.revision.rev -> "stale"
                 [] m.entry # NoObservation /\ m.entry.about.rev = m.revision.rev ->
                      [valid |-> "passed", invalid |-> "failed", unknown |-> "unknown"][m.entry.outcome])
         [] m.present # "registered" ->
              IF m.entry = NoObservation THEN "not-run"
              ELSE IF m.present = "missing" THEN "stale" ELSE "unknown"

\* deriveConnectionStage; no resolver of destinations is installed, so none is
\* ever "configured" and no application check is current.
Stage(m) ==
  LET provider == ProviderStatus(m)
  IN  CASE ~m.readable \/ provider = "unknown"   -> "unknown"
        [] m.readable /\ provider = "failed"     -> "blocked"
        [] m.readable /\ provider \notin {"unknown", "failed"} ->
           CASE ~Managed(m.intent)                                      -> "configure-destination"
             [] Managed(m.intent) /\ m.present = "unavailable"          -> "unknown"
             [] Managed(m.intent) /\ m.present = "missing"              -> "acquire-credential"
             [] Managed(m.intent) /\ m.present = "registered"           ->
                IF provider \in {"not-run", "stale"} THEN "verify-provider" ELSE "configure-destination"

-----------------------------------------------------------------------------
ReaderStep(c) ==
  \/ LookAtSlot(c) \/ ReadRevision(c)
  \/ Check(c) \/ CheckSelected(c) \/ AwaitPresence(c) \/ CheckSelection(c) \/ CheckRevision(c)
  \/ JournalLock(c) \/ OpenEntry(c) \/ Fetch(c) \/ Probe(c) \/ RecordVerdict(c)
  \/ Report(c) \/ Observe(c) \/ ReadRegistration(c) \/ ReadPresence(c) \/ Agree(c)
  \/ ReadRegistrationAgain(c) \/ ReadIntentAgain(c)

RNext == \E c \in Calls : ReaderStep(c) \/ (Step(c) /\ UNCHANGED <<journal, mem, tested>>)

RSpec == RInit /\ [][RNext]_vars

-----------------------------------------------------------------------------
(* Properties. *)

\* The steps of the two readers, and those of all commands.
Reporting == {"observe", "reg", "reg.read", "present", "planned", "presence", "again", "again.read", "reread", "answered"}
Checking == {"selected", "await", "current", "current.read", "open", "opened", "fetch", "probe", "record", "recorded"}
Steps ==
  {"idle", "select", "archived", "apply", "slot", "revision", "revision.read"}
    \cup UnderLock \cup UnderSlot \cup Afterwards \cup Reporting \cup Checking

\* The variables keep their types; the journal keeps its newest entries, one of
\* each check.
ReaderTypeOK ==
  /\ TypeOK
  /\ pc \in [Calls -> Steps]
  /\ journal \in Seq(Observation) /\ Len(journal) <= JournalLimit
  /\ \A i, j \in DOMAIN journal : journal[i].call = journal[j].call => i = j
  /\ mem \in [Calls -> Memory]
  /\ tested \in [Calls -> Calls \cup {None}]

\* An observation says "valid" or "invalid" only when the value the provider was
\* asked about is the one the recorded revision stands for, whatever was saved,
\* replaced or removed while the check read, fetched and asked
\* (connection-check.ts: current() after every await).
ChecksAreHonest ==
  \A i \in DOMAIN journal :
    journal[i].outcome # "unknown" => tested[journal[i].call] = journal[i].about.by

\* When a report has read everything again, the presence it tells is the one the
\* operating system has at that moment, and a credential it calls validated is
\* the very value the provider accepted (next.ts: the second reading of the
\* registration).
ReportIsTrue(c) ==
  pc[c] = "again.read" /\ pc'[c] # pc[c] /\ mem'[c].present # "unavailable" =>
    /\ (mem'[c].present = "registered") <=> (stored # None)
    /\ ProviderStatus(mem'[c]) = "passed" => tested[mem'[c].entry.call] = stored
    /\ Stage(mem'[c]) = "acquire-credential" => stored = None

ReportsAreTrue == [][\A c \in Calls : ReportIsTrue(c)]_vars
-----------------------------------------------------------------------------
(* What the properties rest on. *)

\* A record that was read: it is the present one, at an earlier state perhaps,
\* or a later command has begun since.
IsPast(r) ==
  /\ r.rev <= cred.rev
  /\ r.rev = cred.rev => r = cred \/ (r.state = "pending" /\ cred.state = "settled")

\* A check that does nothing more.
Over(c) == pc[c] = "done" \/ (pc[c] = "unlock" /\ then[c] = "done")

\* An observation names a settled record, and its result is final.
IsSound(o) ==
  /\ o.about.state = "settled" /\ IsPast(o.about)
  /\ o.finished => Over(o.call)
  /\ o.outcome # "unknown" => o.finished /\ tested[o.call] = o.about.by

JournalIsSo ==
  \A i \in DOMAIN journal : LET c == journal[i].call IN
    /\ IsSound(journal[i])
    /\ kind[c] = "check" /\ mem[c].round > 1 /\ journal[i].about = mem[c].revision

ReaderIsSo(c) ==
  /\ pc[c] \in Reporting => kind[c] = "report"
  /\ pc[c] \in Checking => kind[c] = "check"
  /\ pc[c] \in {"revision", "revision.read"} => kind[c] \in {"check", "report"}
  /\ pc[c] = "unlock" /\ then[c] \in {"await", "record"} => kind[c] = "check" /\ mem[c].round = 2

\* Where a check is in its rounds, and what it asks the provider about.
CheckIsSo(c) ==
  /\ pc[c] \in {"idle", "selected", "revision", "revision.read", "open", "opened"} \cup Reporting =>
       mem[c].round = 1
  /\ pc[c] = "fetch" => mem[c].round = 2
  /\ pc[c] = "probe" => mem[c].round = 3
  /\ pc[c] \in {"open", "opened"} => mem[c].revision.state = "settled"
  /\ pc[c] \in {"record", "recorded"} => mem[c].round > 1
  /\ mem[c].round > 2 /\ cred = mem[c].revision => tested[c] = stored
  /\ mem[c].round > 2 /\ pc[c] \in {"await", "current", "current.read", "probe"} => tested[c] # None
  /\ mem[c].verdict # "unknown" => mem[c].round = 4
  /\ mem[c].verdict # "unknown" /\ pc[c] \in {"record", "recorded"} => tested[c] = mem[c].revision.by

\* What a reader has read is of the past, and its presence is the store's for
\* as long as the registration is the one that was read.
MemoryIsSo(m) ==
  /\ m.reg # Unavailable => IsPast(m.reg)
  /\ m.revision # Unavailable =>
       /\ m.revision.state = "settled" /\ IsPast(m.revision)
       /\ m.reg # Unavailable => m.reg.rev <= m.revision.rev
  /\ m.entry # NoObservation => IsSound(m.entry)
  /\ m.present # "unavailable" =>
       /\ m.reg.state \in {"settled", "missing"}
       /\ cred = m.reg => (m.present = "registered" <=> stored # None)

ReportIsSo(c) ==
  /\ pc[c] \in {"idle", "observe", "reg", "reg.read", "present"} =>
       mem[c].revision = Unavailable /\ mem[c].present = "unavailable"
  /\ MemoryIsSo(mem[c])

\* The inductive invariant.
IInv ==
  /\ ReaderTypeOK /\ StateIsSo /\ JournalIsSo
  /\ \A c \in Calls : ReaderIsSo(c) /\ CheckIsSo(c) /\ ReportIsSo(c)
=============================================================================
