------------------------ MODULE ConnectionReportsProofs ------------------------
(***************************************************************************)
(* What the connection metadata promise the commands that change them and  *)
(* the readers that hold no lock, for any number of commands, environments *)
(* and kept observations, and any clock.                                   *)
(*                                                                         *)
(* The invariant IInv of ConnectionReports rests on two facts: what is     *)
(* done under a lock is done by its owner, and revisions never return, so  *)
(* that a registration which is read again and has the revision it had was *)
(* there all the time.                                                     *)
(***************************************************************************)
EXTENDS ConnectionReports, FiniteSetTheorems, WellFoundedInduction, TLAPS

-----------------------------------------------------------------------------
(* Revisions. *)

\* A finite set of numbers has a greatest one: of its subsets that have none,
\* a smallest one would lose an element and still have none.
LEMMA GreatestExists ==
  ASSUME NEW S \in SUBSET Nat, S # {}, IsFiniteSet(S)
  PROVE  \E v \in S : \A w \in S : w <= v
<1> DEFINE HasGreatest(X) == \E v \in X : \A w \in X : w <= v
           Bad == {X \in SUBSET S : X # {} /\ ~HasGreatest(X)}
<1>1. SUFFICES ASSUME Bad # {} PROVE FALSE
  BY <1>1
<1>2. IsWellFoundedOn(StrictSubsetOrdering(S), SUBSET S)
  BY FS_StrictSubsetOrderingWellFounded, FS_FiniteSubsetsOfFinite
<1>3. PICK X \in Bad : \A Y \in Bad : <<Y, X>> \notin StrictSubsetOrdering(S)
  <2>1. Bad \subseteq SUBSET S
    OBVIOUS
  <2> HIDE DEF Bad
  <2>2. \E X \in Bad : \A Y \in Bad : ~(<<Y, X>> \in StrictSubsetOrdering(S))
    BY <1>1, <1>2, <2>1, WFMin
  <2> QED BY <2>2
<1>4. PICK x \in X : TRUE
  BY <1>3
<1> DEFINE Y == X \ {x}
<1>5. Y \notin Bad
  BY <1>3, <1>4 DEF StrictSubsetOrdering
<1>6. CASE Y = {}
  <2>1. \A w \in X : w <= x
    BY <1>4, <1>6
  <2> QED BY <1>3, <1>4, <2>1
<1>7. CASE HasGreatest(Y)
  <2>1. PICK v \in Y : \A w \in Y : w <= v
    BY <1>7
  <2>2. v \in Nat /\ x \in Nat
    BY <1>3, <1>4, <2>1
  <2>3. \A w \in X : w = x \/ w \in Y
    OBVIOUS
  <2>4. CASE x <= v
    BY <1>3, <2>1, <2>3, <2>4
  <2>5. CASE v <= x
    <3>1. \A w \in X : w <= x
      BY <1>3, <2>1, <2>2, <2>3, <2>5
    <3> QED BY <1>3, <1>4, <3>1
  <2> QED BY <2>2, <2>4, <2>5
<1> QED BY <1>3, <1>5, <1>6, <1>7

\* The revision that is given is a revision, and later than all it follows.
LEMMA NextRevisionIsLater ==
  ASSUME NEW previous, NEW others, IsFiniteSet(others), NEW now \in Nat,
         \A r \in ({previous} \cup others) \ {None} : r.rev \in Nat
  PROVE  /\ NextRevision(previous, others, now) \in Revision
         /\ previous # None => previous.rev < NextRevision(previous, others, now)
<1> DEFINE R == ({previous} \cup others) \ {None}
           past == {r.rev + 1 : r \in R}
           all == past \cup {now + 1}
           f == [r \in R |-> r.rev + 1]
<1>1. IsFiniteSet(R)
  BY FS_Union, FS_Singleton, FS_Difference
<1>2. IsFiniteSet(past)
  <2>1. f \in Surjection(R, past)
    BY DEF Surjection
  <2> QED BY <1>1, <2>1, FS_Surjection
<1>3. IsFiniteSet(all)
  BY <1>2, FS_AddElement
<1>4. all \in SUBSET Nat /\ all # {}
  OBVIOUS
<1>5. \E v \in all : \A w \in all : w <= v
  BY <1>3, <1>4, GreatestExists
<1> DEFINE n == CHOOSE v \in all : \A w \in all : w <= v
<1>6. n \in all /\ \A w \in all : w <= n
  BY <1>5
<1>7. NextRevision(previous, others, now) = n
  BY DEF NextRevision
<1>8. n \in Revision
  BY <1>6 DEF Revision
<1>9. ASSUME previous # None PROVE previous.rev < n
  <2>1. previous.rev + 1 \in all /\ previous.rev \in Nat
    BY <1>9
  <2>2. previous.rev + 1 <= n /\ n \in Nat
    BY <1>4, <1>6, <2>1
  <2> HIDE DEF n
  <2> QED BY <2>1, <2>2
<1> QED BY <1>7, <1>8, <1>9

-----------------------------------------------------------------------------
(* What a step of one call does to the others. *)

\* A call that a step leaves alone.
Waits(q) ==
  /\ pc'[q] = pc[q] /\ kind'[q] = kind[q] /\ then'[q] = then[q] /\ want'[q] = want[q]
  /\ plan'[q] = plan[q] /\ mem'[q] = mem[q] /\ tested'[q] = tested[q]

\* Revisions grow, a pending record may settle, and only while it is pending
\* does the store change.
StoreMoves ==
  /\ \/ cred' = cred
     \/ cred'.rev \in Nat /\ cred.rev < cred'.rev
     \/ cred.state = "pending" /\ cred' = [cred EXCEPT !.state = "settled"]
  /\ stored' = stored \/ (cred.state = "pending" /\ cred' = cred)

\* A step of call c touches what is behind a lock only as the lock's owner.
Acts(c) ==
  /\ \A q \in Calls \ {c} : Waits(q)
  /\ StoreMoves
  /\ UNCHANGED <<intent, history, latest>> \/ lock = c
  /\ UNCHANGED <<cred, stored>> \/ slot = c
  /\ lock' = lock \/ lock \in {c, None}
  /\ slot' = slot \/ slot \in {c, None}
  /\ cred'.by = cred.by \/ cred'.by = c
  /\ kind'[c] = kind[c] \/ pc[c] = "idle"
  /\ Over(c) => Over(c)' /\ tested'[c] = tested[c]

\* What a step makes of the call that takes it.
Arrives(c) ==
  /\ pc'[c] \in UnderLock => lock' = c
  /\ HoldsSlot(c)' => slot' = c
  /\ SelectionIsSo(c)' /\ CredentialIsSo(c)'
  /\ ReaderIsSo(c)' /\ CheckIsSo(c)' /\ ReportIsSo(c)'

\* The fields of what is stored and remembered.
LEMMA Fields ==
  ASSUME ReaderTypeOK
  PROVE  /\ cred.rev \in Nat /\ cred.by \in Calls \cup {None}
         /\ cred.state \in {"pending", "settled", "missing"}
         /\ cred.state # "missing" => cred \in Registration /\ cred.by \in Calls /\ cred.rev > 0
         /\ cred.state = "missing" => cred = Unregistered /\ cred.by = None /\ cred.rev = 0
         /\ \A c \in Calls :
              /\ mem[c].reg \in Registration \cup {Unregistered, Unavailable}
              /\ mem[c].revision \in Registration \cup {Unavailable}
              /\ mem[c].entry \in Observation \cup {NoObservation}
              /\ mem[c].round \in 1 .. 4 /\ mem[c].verdict \in Outcomes
              /\ mem[c].intent \in Intent \cup {None} /\ mem[c].readable \in BOOLEAN
              /\ mem[c].present \in {"unavailable", "registered", "missing"}
         /\ \A i \in DOMAIN journal : journal[i] \in Observation
<1>1. cred \in Registration \cup {Unregistered}
  BY DEF ReaderTypeOK, TypeOK
<1>2. \A c \in Calls : mem[c] \in Memory
  BY DEF ReaderTypeOK
<1>3. /\ cred.rev \in Nat /\ cred.by \in Calls \cup {None}
      /\ cred.state \in {"pending", "settled", "missing"}
      /\ cred.state # "missing" => cred \in Registration /\ cred.by \in Calls /\ cred.rev > 0
      /\ cred.state = "missing" => cred = Unregistered /\ cred.by = None /\ cred.rev = 0
  BY <1>1 DEF Registration, Unregistered, Revision
<1>4. \A c \in Calls :
              /\ mem[c].reg \in Registration \cup {Unregistered, Unavailable}
              /\ mem[c].revision \in Registration \cup {Unavailable}
              /\ mem[c].entry \in Observation \cup {NoObservation}
              /\ mem[c].round \in 1 .. 4 /\ mem[c].verdict \in Outcomes
              /\ mem[c].intent \in Intent \cup {None} /\ mem[c].readable \in BOOLEAN
              /\ mem[c].present \in {"unavailable", "registered", "missing"}
  BY <1>2 DEF Memory
<1>5. \A i \in DOMAIN journal : journal[i] \in Observation
  BY DEF ReaderTypeOK
<1> QED BY <1>3, <1>4, <1>5

\* A record that was read stays a record of the past, and the present record
\* becomes one that was read only if it was that one before.
LEMMA PastStays ==
  ASSUME ReaderTypeOK, StoreMoves, NEW r \in Registration \cup {Unregistered}, IsPast(r)
  PROVE  /\ IsPast(r)'
         /\ r.state # "pending" /\ cred' = r => cred = r /\ stored' = stored
<1>1. /\ r.rev \in Nat /\ r.state \in {"pending", "settled", "missing"}
      /\ r.state = "missing" => r = Unregistered
      /\ r.state # "missing" => r.rev > 0
  BY DEF Registration, Unregistered, Revision
<1>3. CASE cred' = cred
  BY <1>3 DEF IsPast, StoreMoves
<1>4. CASE cred'.rev \in Nat /\ cred.rev < cred'.rev
  BY <1>1, <1>4, Fields DEF IsPast, StoreMoves
<1>5. CASE cred.state = "pending" /\ cred' = [cred EXCEPT !.state = "settled"]
  <2>1. cred'.rev = cred.rev /\ cred'.state = "settled" /\ cred' # cred
    BY <1>5, Fields DEF Registration
  <2> QED BY <1>1, <1>5, <2>1, Fields DEF IsPast, StoreMoves
<1> QED BY <1>3, <1>4, <1>5 DEF StoreMoves

\* An observation stays sound, whatever any call does.
LEMMA SoundStays ==
  ASSUME IInv, NEW c \in Calls, Acts(c), NEW o \in Observation, IsSound(o)
  PROVE  IsSound(o)'
<1>1. o.about \in Registration /\ o.call \in Calls
  BY DEF Observation
<1>2. IsPast(o.about)'
  BY <1>1, PastStays DEF IInv, IsSound, Acts
<1>3. Over(o.call) => Over(o.call)' /\ tested'[o.call] = tested[o.call]
  BY <1>1 DEF Acts, Waits, Over
<1> QED BY <1>1, <1>2, <1>3 DEF IsSound

\* What a call has read is of the past, and what it concluded is still so.
LEMMA MemoryKeeps ==
  ASSUME IInv, NEW c \in Calls, Acts(c), NEW q \in Calls, mem'[q] = mem[q]
  PROVE  /\ cred' = mem[q].revision => cred = mem[q].revision /\ stored' = stored
         /\ MemoryIsSo(mem[q])'
<1>1. MemoryIsSo(mem[q]) /\ ReaderTypeOK
  BY DEF IInv, ReportIsSo
<1>2. /\ mem[q].revision \in Registration \cup {Unavailable}
      /\ mem[q].reg \in Registration \cup {Unregistered, Unavailable}
      /\ mem[q].entry \in Observation \cup {NoObservation}
  BY <1>1, Fields
<1>3. \A r \in Registration \cup {Unregistered} : IsPast(r) =>
        IsPast(r)' /\ (r.state # "pending" /\ cred' = r => cred = r /\ stored' = stored)
  BY <1>1, PastStays DEF Acts
<1>4. cred' = mem[q].revision => cred = mem[q].revision /\ stored' = stored
  <2>1. CASE mem[q].revision = Unavailable
    <3>1. cred' # Unavailable
      BY <1>1, Fields DEF Acts, StoreMoves, Unavailable, Registration, Unregistered
    <3> QED BY <2>1, <3>1
  <2>2. CASE mem[q].revision # Unavailable
    BY <1>1, <1>2, <1>3, <2>2 DEF MemoryIsSo
  <2> QED BY <2>1, <2>2
<1>5. mem[q].reg # Unavailable => IsPast(mem[q].reg)'
  BY <1>1, <1>2, <1>3 DEF MemoryIsSo, IsPast
<1>6. mem[q].revision # Unavailable => IsPast(mem[q].revision)'
  BY <1>1, <1>2, <1>3 DEF MemoryIsSo, IsPast
<1>7. mem[q].entry # NoObservation => IsSound(mem[q].entry)'
  <2>1. \A o \in Observation : IsSound(o) => IsSound(o)'
    BY SoundStays
  <2> QED BY <1>1, <1>2, <2>1 DEF MemoryIsSo, IsSound, IsPast, Over
<1>8. mem[q].present # "unavailable" =>
        /\ mem[q].reg.state \in {"settled", "missing"}
        /\ cred' = mem[q].reg => (mem[q].present = "registered" <=> stored' # None)
  <2>1. mem[q].present # "unavailable" => mem[q].reg # Unavailable
    BY <1>1 DEF MemoryIsSo, Unavailable
  <2> QED BY <1>1, <1>2, <1>3, <2>1 DEF MemoryIsSo
<1> QED BY <1>1, <1>4, <1>5, <1>6, <1>7, <1>8 DEF MemoryIsSo

\* A call that a step leaves alone is where it was, with what it had read.
LEMMA WaitingKeeps ==
  ASSUME IInv, NEW c \in Calls, Acts(c), NEW q \in Calls \ {c}
  PROVE  /\ pc'[q] \in UnderLock => lock' = q
         /\ HoldsSlot(q)' => slot' = q
         /\ SelectionIsSo(q)' /\ CredentialIsSo(q)'
         /\ ReaderIsSo(q)' /\ CheckIsSo(q)' /\ ReportIsSo(q)'
<1>0. Waits(q)
  BY DEF Acts
<1>1. pc'[q] \in UnderLock => lock' = q
  BY <1>0, ConnectionAssumption DEF Acts, Waits, IInv, StateIsSo, LocksAreHeld
<1>2. HoldsSlot(q)' => slot' = q
  BY <1>0, ConnectionAssumption DEF Acts, Waits, IInv, StateIsSo, LocksAreHeld, HoldsSlot
<1>3. SelectionIsSo(q)'
  <2>1. SelectionIsSo(q)
    BY DEF IInv, StateIsSo
  <2>2. CASE UNCHANGED <<intent, history, latest>>
    BY <1>0, <2>1, <2>2 DEF Waits, SelectionIsSo
  <2>3. CASE lock = c
    <3>1. pc[q] \notin {"archive", "publish"}
      BY <2>3 DEF IInv, StateIsSo, LocksAreHeld, UnderLock
    <3> QED BY <1>0, <2>1, <3>1 DEF Waits, SelectionIsSo
  <2> QED BY <2>2, <2>3 DEF Acts
<1>4. CredentialIsSo(q)'
  <2>1. CredentialIsSo(q)
    BY DEF IInv, StateIsSo
  <2>2. CASE UNCHANGED <<cred, stored>>
    <3>1. cred.by = q => Value(cred)' = Value(cred)
      BY <1>0, <2>2 DEF Waits, Value
    <3>2. pc[q] \in {"settle", "settled"} => cred.by = q
      BY <2>1 DEF CredentialIsSo
    <3> QED BY <1>0, <2>1, <2>2, <3>1, <3>2 DEF Waits, CredentialIsSo
  <2>3. CASE slot = c
    <3>1. ~HoldsSlot(q)
      BY <2>3 DEF IInv, StateIsSo, LocksAreHeld
    <3>2. cred'.by = q => cred.by = q
      BY DEF Acts
    <3> QED BY <1>0, <2>1, <3>1, <3>2 DEF Waits, CredentialIsSo, HoldsSlot, UnderSlot
  <2> QED BY <2>2, <2>3 DEF Acts
<1>5. ReaderIsSo(q)'
  BY <1>0 DEF Waits, IInv, ReaderIsSo
<1>6. CheckIsSo(q)'
  BY <1>0, MemoryKeeps DEF Waits, IInv, CheckIsSo
<1>7. ReportIsSo(q)'
  BY <1>0, MemoryKeeps DEF Waits, IInv, ReportIsSo
<1> QED BY <1>1, <1>2, <1>3, <1>4, <1>5, <1>6, <1>7

\* What a step that does not touch the two files, the store's record or the
\* journal leaves as it is.
LEMMA FilesStay ==
  ASSUME IInv, UNCHANGED <<intent, history, latest>>
  PROVE  FilesAreSo' /\ NothingForgotten'
BY DEF IInv, StateIsSo, FilesAreSo, NothingForgotten

\* The value of the record does not depend on the kind of a call that begins.
LEMMA ValueStays ==
  ASSUME IInv, NEW c \in Calls, Acts(c), UNCHANGED cred
  PROVE  /\ cred.by # None => Value(cred)' = Value(cred)
         /\ UNCHANGED stored => SettledNamesTheValue'
<1>1. cred.by # None => cred.by \in Calls /\ pc[cred.by] # "idle"
  BY Fields DEF IInv, StateIsSo, CredentialIsSo
<1>2. cred.by # None => kind'[cred.by] = kind[cred.by]
  BY <1>1 DEF Acts, Waits
<1>3. cred.by # None => Value(cred)' = Value(cred)
  BY <1>2 DEF Value
<1>4. cred.state = "settled" => cred.by # None
  BY Fields, ConnectionAssumption DEF IInv
<1> QED BY <1>3, <1>4 DEF IInv, StateIsSo, SettledNamesTheValue

LEMMA JournalStays ==
  ASSUME IInv, NEW c \in Calls, Acts(c), UNCHANGED journal,
         kind[c] = "check" /\ mem[c].round > 1 =>
           kind'[c] = "check" /\ mem'[c].round > 1 /\ mem'[c].revision = mem[c].revision
  PROVE  JournalIsSo'
<1> SUFFICES ASSUME NEW i \in DOMAIN journal
             PROVE  /\ IsSound(journal[i])'
                    /\ (kind[journal[i].call] = "check" /\ mem[journal[i].call].round > 1
                        /\ journal[i].about = mem[journal[i].call].revision)'
  BY DEF JournalIsSo
<1>1. journal[i] \in Observation /\ journal[i].call \in Calls
  BY Fields DEF IInv, Observation
<1>2. IsSound(journal[i])'
  <2>1. \A o \in Observation : IsSound(o) => IsSound(o)'
    BY SoundStays
  <2> QED BY <1>1, <2>1 DEF IInv, JournalIsSo, IsSound, IsPast, Over
<1> QED BY <1>1, <1>2 DEF IInv, JournalIsSo, Acts, Waits

\* A command that is not reading keeps what a reader is to keep.
LEMMA CommandsRead ==
  ASSUME IInv, NEW c \in Calls, Acts(c), mem'[c] = mem[c], tested'[c] = tested[c],
         pc'[c] \notin Checking \cup Reporting \cup {"idle", "revision", "revision.read"},
         pc'[c] = "unlock" => then'[c] \notin {"await", "record"}
  PROVE  ReaderIsSo(c)' /\ CheckIsSo(c)' /\ ReportIsSo(c)'
<1>1. ReaderIsSo(c)'
  BY DEF ReaderIsSo
<1>2. CheckIsSo(c)'
  BY MemoryKeeps DEF IInv, CheckIsSo, Checking
<1>3. ReportIsSo(c)'
  BY MemoryKeeps DEF IInv, ReportIsSo, Reporting
<1> QED BY <1>1, <1>2, <1>3

\* The parts of a step that make it keep the invariant.
LEMMA CallKeeps ==
  ASSUME IInv, NEW c \in Calls, ReaderTypeOK', Acts(c), Arrives(c),
         FilesAreSo', NothingForgotten', SettledNamesTheValue', JournalIsSo'
  PROVE  IInv'
<1>1. \A q \in Calls :
         /\ pc'[q] \in UnderLock => lock' = q
         /\ HoldsSlot(q)' => slot' = q
         /\ SelectionIsSo(q)' /\ CredentialIsSo(q)'
         /\ ReaderIsSo(q)' /\ CheckIsSo(q)' /\ ReportIsSo(q)'
  BY WaitingKeeps DEF Arrives
<1> QED BY <1>1 DEF IInv, StateIsSo, LocksAreHeld

\* A step that changes only what a call and the locks remember.
Quietly(c) ==
  /\ UNCHANGED <<intent, history, latest, cred, stored, journal>>
  /\ kind[c] = "check" /\ mem[c].round > 1 =>
       kind'[c] = "check" /\ mem'[c].round > 1 /\ mem'[c].revision = mem[c].revision

LEMMA QuietKeeps ==
  ASSUME IInv, NEW c \in Calls, ReaderTypeOK', Acts(c), Arrives(c), Quietly(c)
  PROVE  IInv'
BY CallKeeps, FilesStay, ValueStays, JournalStays DEF Quietly

-----------------------------------------------------------------------------
(* The metadata lock. *)

LEMMA TakeLockKeeps ==
  ASSUME IInv, NEW c \in Calls, TakeLock(c), UNCHANGED <<journal, mem, tested>>
  PROVE  IInv'
<1>1. ReaderTypeOK /\ lock = None /\ ~(pc[c] \in UnderLock)
  BY ConnectionAssumption DEF IInv, TakeLock, StateIsSo, LocksAreHeld
<1>2. ReaderTypeOK'
  BY <1>1 DEF ReaderTypeOK, TypeOK, TakeLock, Inside, Edits, Refused, Leave, Goto, Steps, Afterwards, UnderLock, UnderSlot
<1>3. Acts(c)
  BY <1>1 DEF Acts, Waits, StoreMoves, ReaderTypeOK, TypeOK, TakeLock, Inside, Edits, Refused, Leave, Goto, Over
<1>4. Arrives(c)
  <2>1. \/ pc[c] = "select" /\ ((pc'[c] = "archive" /\ then' = then) \/ (pc'[c] = "unlock" /\ then'[c] = "done"))
        \/ pc[c] = "apply" /\ ((pc'[c] = "recompute" /\ then' = then) \/ (pc'[c] = "unlock" /\ then'[c] = "done"))
        \/ pc[c] = "begin" /\ ((pc'[c] = "invalidate" /\ then' = then) \/ (pc'[c] = "unlock" /\ then'[c] = "release"))
        \/ pc[c] = "settle" /\ ((pc'[c] = "settled" /\ then' = then) \/ (pc'[c] = "unlock" /\ then'[c] = "release"))
    BY <1>1 DEF TakeLock, Inside, Edits, Refused, Leave, Goto, ReaderTypeOK, TypeOK
  <2>2. ReaderIsSo(c)' /\ CheckIsSo(c)' /\ ReportIsSo(c)'
    BY <1>3, <2>1, CommandsRead DEF Checking, Reporting
  <2>3. lock' = c /\ slot' = slot
    BY DEF TakeLock
  <2>4. HoldsSlot(c)' => slot' = c
    BY <2>1, <2>3 DEF IInv, StateIsSo, LocksAreHeld, HoldsSlot, UnderSlot
  <2>5. SelectionIsSo(c)'
    BY <2>1 DEF TakeLock, IInv, StateIsSo, SelectionIsSo
  <2>6. CredentialIsSo(c)'
    BY <2>1 DEF TakeLock, IInv, StateIsSo, CredentialIsSo, Value
  <2> QED BY <2>2, <2>3, <2>4, <2>5, <2>6 DEF Arrives
<1>5. Quietly(c)
  BY DEF Quietly, TakeLock
<1> QED BY <1>2, <1>3, <1>4, <1>5, QuietKeeps

LEMMA NoLockKeeps ==
  ASSUME IInv, NEW c \in Calls, NoLock(c), UNCHANGED <<journal, mem, tested>>
  PROVE  IInv'
<1>1. \/ pc[c] \in {"select", "apply"} /\ pc'[c] = "done"
      \/ pc[c] \in {"begin", "settle"} /\ pc'[c] = "release"
  BY DEF NoLock, Inside, Refused, Goto, IInv, ReaderTypeOK
<1>2. ReaderTypeOK'
  BY <1>1 DEF IInv, ReaderTypeOK, TypeOK, NoLock, disk, local, Goto, Steps, Afterwards, UnderSlot
<1>3. Acts(c)
  BY <1>1 DEF IInv, Acts, Waits, StoreMoves, ReaderTypeOK, NoLock, disk, local, Goto, Over
<1>4. Arrives(c)
  <2>1. ReaderIsSo(c)' /\ CheckIsSo(c)' /\ ReportIsSo(c)'
    BY <1>1, <1>3, CommandsRead DEF Checking, Reporting, NoLock
  <2>2. HoldsSlot(c)' => slot' = c
    BY <1>1 DEF IInv, StateIsSo, LocksAreHeld, HoldsSlot, UnderSlot, NoLock, disk, local
  <2>3. SelectionIsSo(c)' /\ CredentialIsSo(c)'
    BY <1>1 DEF SelectionIsSo, CredentialIsSo
  <2> QED BY <1>1, <2>1, <2>2, <2>3 DEF Arrives, UnderLock
<1>5. Quietly(c)
  BY DEF Quietly, NoLock, disk, local
<1> QED BY <1>2, <1>3, <1>4, <1>5, QuietKeeps

LEMMA UnlockKeeps ==
  ASSUME IInv, NEW c \in Calls, Unlock(c), UNCHANGED <<journal, mem, tested>>
  PROVE  IInv'
<1>1. /\ pc[c] = "unlock" /\ pc'[c] = then[c] /\ then[c] \in Afterwards /\ lock = c
      /\ lock' \in {None, lock} /\ UNCHANGED <<tmps, intent, history, slot, cred, stored, local, dead, latest>>
  BY DEF Unlock, At, Goto, IInv, ReaderTypeOK, TypeOK, StateIsSo, LocksAreHeld, UnderLock
<1>2. ReaderTypeOK'
  BY <1>1 DEF IInv, ReaderTypeOK, TypeOK, Unlock, local, Goto, Steps
<1>3. Acts(c)
  BY <1>1 DEF IInv, Acts, Waits, StoreMoves, ReaderTypeOK, Unlock, local, Goto, Over
<1>4. Arrives(c)
  <2>1. SelectionIsSo(c)' /\ CredentialIsSo(c)'
    BY <1>1 DEF IInv, StateIsSo, SelectionIsSo, CredentialIsSo, Afterwards
  <2>2. HoldsSlot(c)' => slot' = c
    BY <1>1 DEF IInv, StateIsSo, LocksAreHeld, HoldsSlot, UnderSlot, Afterwards
  <2>3. pc'[c] \notin UnderLock
    BY <1>1 DEF Afterwards, UnderLock
  <2>4. CASE then[c] \in {"await", "record"}
    <3>1. kind'[c] = "check" /\ mem[c].round = 2
      BY <1>1, <2>4 DEF IInv, ReaderIsSo, local
    <3>2. ReaderIsSo(c)'
      BY <1>1, <2>4, <3>1 DEF ReaderIsSo, Reporting
    <3>3. CheckIsSo(c)'
      BY <1>1, <2>4, <3>1 DEF IInv, CheckIsSo, Reporting
    <3>4. ReportIsSo(c)'
      BY <1>1, <1>3, <2>4, MemoryKeeps DEF IInv, ReportIsSo
    <3> QED BY <2>1, <2>2, <2>3, <3>2, <3>3, <3>4 DEF Arrives
  <2>5. CASE then[c] \notin {"await", "record"}
    <3>1. ReaderIsSo(c)' /\ CheckIsSo(c)' /\ ReportIsSo(c)'
      BY <1>1, <1>3, <2>5, CommandsRead DEF Checking, Reporting, Afterwards
    <3> QED BY <2>1, <2>2, <2>3, <3>1 DEF Arrives
  <2> QED BY <2>4, <2>5
<1>5. Quietly(c)
  BY <1>1 DEF Quietly, local
<1> QED BY <1>2, <1>3, <1>4, <1>5, QuietKeeps

-----------------------------------------------------------------------------
(* Selections and resumes. *)

LEMMA SelectKeeps ==
  ASSUME IInv, NEW c \in Calls, NEW e \in Envs, NEW r \in Routes, Select(c, e, r),
         UNCHANGED <<journal, mem, tested>>
  PROVE  IInv'
<1>1. /\ pc[c] = "idle" /\ pc'[c] = "select" /\ kind'[c] = "select"
      /\ want'[c].env = e /\ want'[c].route = r /\ UNCHANGED <<disk, then, plan, dead, latest>>
  BY DEF Select, At, Start, Goto, IInv, ReaderTypeOK, TypeOK
<1>2. ReaderTypeOK'
  BY <1>1 DEF IInv, ReaderTypeOK, TypeOK, Select, Start, disk, Goto, Steps, Kinds
<1>3. Acts(c)
  BY <1>1 DEF IInv, Acts, Waits, StoreMoves, ReaderTypeOK, TypeOK, Select, Start, disk, Goto, Over
<1>4. Arrives(c)
  <2>1. ReaderIsSo(c)' /\ CheckIsSo(c)' /\ ReportIsSo(c)'
    BY <1>1, <1>3, CommandsRead DEF Checking, Reporting
  <2>2. ~HoldsSlot(c)' /\ pc'[c] \notin UnderLock
    BY <1>1 DEF HoldsSlot, UnderSlot, UnderLock
  <2>3. SelectionIsSo(c)' /\ CredentialIsSo(c)'
    BY <1>1 DEF SelectionIsSo, CredentialIsSo
  <2> QED BY <2>1, <2>2, <2>3 DEF Arrives
<1>5. Quietly(c)
  BY <1>1 DEF Quietly, disk, IInv, CheckIsSo
<1> QED BY <1>2, <1>3, <1>4, <1>5, QuietKeeps

LEMMA PlanKeeps ==
  ASSUME IInv, NEW c \in Calls, NEW e \in Envs, Plan(c, e), UNCHANGED <<journal, mem, tested>>
  PROVE  IInv'
<1>1. /\ pc[c] = "idle" /\ pc'[c] \in {"archived", "done"} /\ kind'[c] = "resume"
      /\ want'[c].env = e /\ UNCHANGED <<disk, then, dead, latest>>
  BY DEF Plan, At, Start, Goto, IInv, ReaderTypeOK, TypeOK
<1>2. ReaderTypeOK'
  <2>1. plan \in [Calls -> Shown] /\ intent \in Intent \cup {None}
    BY DEF IInv, ReaderTypeOK, TypeOK
  <2>2. [plan[c] EXCEPT !.current = intent] \in Shown
    BY <2>1 DEF Shown
  <2>3. plan' = plan \/ plan' = [plan EXCEPT ![c] = [plan[c] EXCEPT !.current = intent]]
    BY <2>1 DEF Plan
  <2>4. plan' \in [Calls -> Shown]
    BY <2>1, <2>2, <2>3
  <2>5. pc' \in [Calls -> Steps]
    BY DEF IInv, ReaderTypeOK, Plan, Goto, Steps, Afterwards
  <2>6. kind' \in [Calls -> Kinds] /\ DOMAIN want' = Calls
    BY DEF IInv, ReaderTypeOK, TypeOK, Plan, Start, Kinds
  <2> QED BY <1>1, <2>4, <2>5, <2>6 DEF IInv, ReaderTypeOK, TypeOK, disk
<1>3. Acts(c)
  BY <1>1 DEF IInv, Acts, Waits, StoreMoves, ReaderTypeOK, TypeOK, Plan, Start, disk, Goto, Over
<1>4. Arrives(c)
  <2>1. ReaderIsSo(c)' /\ CheckIsSo(c)' /\ ReportIsSo(c)'
    BY <1>1, <1>3, CommandsRead DEF Checking, Reporting
  <2>2. ~HoldsSlot(c)' /\ pc'[c] \notin UnderLock
    BY <1>1 DEF HoldsSlot, UnderSlot, UnderLock
  <2>3. SelectionIsSo(c)' /\ CredentialIsSo(c)'
    BY <1>1 DEF SelectionIsSo, CredentialIsSo
  <2> QED BY <2>1, <2>2, <2>3 DEF Arrives
<1>5. Quietly(c)
  BY <1>1 DEF Quietly, disk, IInv, CheckIsSo
<1> QED BY <1>2, <1>3, <1>4, <1>5, QuietKeeps

\* What a plan selects is an intent for the environment that was asked for.
LEMMA RememberedIsAnIntent ==
  ASSUME NEW current \in Intent \cup {None}, NEW past \in Archive, NEW e \in Envs
  PROVE  Remembered(current, past, e) \in Intent \cup {None}
BY DEF Remembered, Archive

LEMMA PlanArchivedKeeps ==
  ASSUME IInv, NEW c \in Calls, PlanArchived(c), UNCHANGED <<journal, mem, tested>>
  PROVE  IInv'
<1>1. /\ pc[c] = "archived" /\ UNCHANGED <<disk, kind, then, want, dead, latest>>
      /\ pc'[c] = "done" \/ (pc'[c] = "apply" /\ plan'[c].selected # None)
  BY DEF PlanArchived, At, Goto, IInv, ReaderTypeOK, TypeOK
<1>2. ReaderTypeOK'
  <2>1. want[c].env \in Envs
    BY <1>1 DEF IInv, StateIsSo, SelectionIsSo
  <2>2. plan[c] \in Shown /\ history \in Archive
    BY DEF IInv, ReaderTypeOK, TypeOK
  <2>3. Remembered(plan[c].current, history, want[c].env) \in Intent \cup {None}
    BY <2>1, <2>2, RememberedIsAnIntent DEF Shown
  <2>4. plan' \in [Calls -> Shown]
    BY <2>2, <2>3 DEF IInv, ReaderTypeOK, TypeOK, PlanArchived, Shown
  <2> QED BY <1>1, <2>4 DEF IInv, ReaderTypeOK, TypeOK, PlanArchived, disk, Goto, Steps, Afterwards
<1>3. Acts(c)
  BY <1>1 DEF IInv, Acts, Waits, StoreMoves, ReaderTypeOK, TypeOK, PlanArchived, disk, Goto, Over
<1>4. Arrives(c)
  <2>1. ReaderIsSo(c)' /\ CheckIsSo(c)' /\ ReportIsSo(c)'
    BY <1>1, <1>3, CommandsRead DEF Checking, Reporting
  <2>2. ~HoldsSlot(c)' /\ pc'[c] \notin UnderLock
    BY <1>1 DEF HoldsSlot, UnderSlot, UnderLock
  <2>3. SelectionIsSo(c)' /\ CredentialIsSo(c)'
    BY <1>1 DEF SelectionIsSo, CredentialIsSo, IInv, StateIsSo
  <2> QED BY <2>1, <2>2, <2>3 DEF Arrives
<1>5. Quietly(c)
  BY <1>1 DEF Quietly, disk, IInv, CheckIsSo
<1> QED BY <1>2, <1>3, <1>4, <1>5, QuietKeeps

\* What a resume selects was the last selection made for its environment.
LEMMA RecomputeKeeps ==
  ASSUME IInv, NEW c \in Calls, Recompute(c), UNCHANGED <<journal, mem, tested>>
  PROVE  IInv'
<1> DEFINE selected == Remembered(intent, history, want[c].env)
<1>1. /\ pc[c] = "recompute" /\ lock = c /\ UNCHANGED <<disk, kind, plan, dead, latest>>
      /\ kind[c] = "resume" /\ want[c].env \in Envs /\ plan[c].selected # None
      /\ \/ pc'[c] = "unlock" /\ then'[c] = "done" /\ UNCHANGED want
         \/ /\ pc'[c] = "archive" /\ then' = then /\ want'[c] = selected
            /\ plan[c].selected = selected /\ selected # None
  <2>1. pc[c] = "recompute" /\ lock = c /\ kind[c] = "resume" /\ want[c].env \in Envs /\ plan[c].selected # None
    BY DEF Recompute, At, IInv, StateIsSo, LocksAreHeld, UnderLock, SelectionIsSo
  <2> QED BY <2>1 DEF Recompute, Leave, Goto, IInv, ReaderTypeOK, TypeOK
<1>2. ReaderTypeOK'
  BY <1>1 DEF IInv, ReaderTypeOK, TypeOK, Recompute, Leave, disk, Goto, Steps, Afterwards, UnderLock
<1>3. Acts(c)
  BY <1>1 DEF IInv, Acts, Waits, StoreMoves, ReaderTypeOK, TypeOK, Recompute, Leave, disk, Goto, Over
<1>4. Arrives(c)
  <2>1. ReaderIsSo(c)' /\ CheckIsSo(c)' /\ ReportIsSo(c)'
    BY <1>1, <1>3, CommandsRead DEF Checking, Reporting
  <2>2. ~HoldsSlot(c)' /\ lock' = c
    BY <1>1 DEF HoldsSlot, UnderSlot, disk
  <2>3. CredentialIsSo(c)'
    BY <1>1 DEF CredentialIsSo
  <2>4. selected # None => selected \in Intent /\ latest[selected.env] = selected
    <3>1. CASE intent # None /\ intent.env = want[c].env
      BY <3>1 DEF Remembered, IInv, StateIsSo, FilesAreSo, ReaderTypeOK, TypeOK
    <3>2. CASE ~(intent # None /\ intent.env = want[c].env)
      BY <1>1, <3>2 DEF Remembered, IInv, StateIsSo, FilesAreSo, NothingForgotten, ReaderTypeOK, TypeOK, Archive
    <3> QED BY <3>1, <3>2
  <2>5. SelectionIsSo(c)'
    BY <1>1, <2>4 DEF SelectionIsSo, Intent
  <2> QED BY <2>1, <2>2, <2>3, <2>5 DEF Arrives
<1>5. Quietly(c)
  BY <1>1 DEF Quietly, disk
<1> QED BY <1>2, <1>3, <1>4, <1>5, QuietKeeps

\* What is active is archived before it is replaced.
LEMMA ArchiveActiveKeeps ==
  ASSUME IInv, NEW c \in Calls, ArchiveActive(c), UNCHANGED <<journal, mem, tested>>
  PROVE  IInv'
<1>1. /\ pc[c] = "archive" /\ lock = c
      /\ UNCHANGED <<lock, intent, slot, cred, stored, kind, want, plan, dead, latest>>
      /\ \/ pc'[c] = "unlock" /\ then'[c] = "done" /\ UNCHANGED history
         \/ /\ pc'[c] = "publish" /\ then' = then
            /\ history' = IF intent = None THEN history ELSE [history EXCEPT ![intent.env] = intent]
  <2>1. pc[c] = "archive" /\ lock = c
    BY DEF ArchiveActive, At, IInv, StateIsSo, LocksAreHeld, UnderLock
  <2> QED BY <2>1 DEF ArchiveActive, Leave, Goto, IInv, ReaderTypeOK, TypeOK
<1>2. intent # None => intent \in Intent /\ intent.env \in Envs
  BY DEF IInv, ReaderTypeOK, TypeOK, Intent
<1>3. ReaderTypeOK'
  <2>1. history' \in Archive
    BY <1>1, <1>2 DEF IInv, ReaderTypeOK, TypeOK, Archive
  <2>2. tmps' \subseteq Files
    BY DEF IInv, ReaderTypeOK, TypeOK, ArchiveActive, Spoils, Files
  <2> QED BY <1>1, <2>1, <2>2 DEF IInv, ReaderTypeOK, TypeOK, ArchiveActive, Leave, Goto, Steps, Afterwards, UnderLock
<1>4. Acts(c)
  BY <1>1 DEF IInv, Acts, Waits, StoreMoves, ReaderTypeOK, TypeOK, ArchiveActive, Leave, Goto, Over
<1>5. Arrives(c)
  <2>1. ReaderIsSo(c)' /\ CheckIsSo(c)' /\ ReportIsSo(c)'
    BY <1>1, <1>4, CommandsRead DEF Checking, Reporting
  <2>2. ~HoldsSlot(c)' /\ lock' = c
    BY <1>1 DEF HoldsSlot, UnderSlot
  <2>3. CredentialIsSo(c)'
    BY <1>1 DEF CredentialIsSo
  <2>4. SelectionIsSo(c)'
    <3>1. SelectionIsSo(c)
      BY DEF IInv, StateIsSo
    <3>2. pc'[c] = "publish" /\ intent # None => history'[intent.env] = intent
      BY <1>1, <1>2 DEF IInv, ReaderTypeOK, TypeOK, Archive
    <3> QED BY <1>1, <3>1, <3>2 DEF SelectionIsSo
  <2> QED BY <2>1, <2>2, <2>3, <2>4 DEF Arrives
<1>6. FilesAreSo' /\ NothingForgotten'
  BY <1>1, <1>2 DEF IInv, StateIsSo, FilesAreSo, NothingForgotten, ReaderTypeOK, TypeOK, Archive
<1>7. SettledNamesTheValue' /\ JournalIsSo'
  BY <1>1, <1>4, ValueStays, JournalStays
<1> QED BY <1>3, <1>4, <1>5, <1>6, <1>7, CallKeeps

\* What a call publishes is a selection, with a revision.
LEMMA PublicationIsAnIntent ==
  ASSUME IInv, NEW c \in Calls, pc[c] = "publish", NEW now \in Clock
  PROVE  LET next == [env |-> want[c].env, route |-> want[c].route,
                      rev |-> NextRevision(intent, {history[e] : e \in Envs}, now)]
         IN  next \in Intent /\ next # None /\ next.env \in Envs
<1>1. want[c].env \in Envs /\ want[c].route \in Routes
  BY DEF IInv, StateIsSo, SelectionIsSo
<1>2. IsFiniteSet({history[e] : e \in Envs})
  <2>1. history \in Surjection(Envs, {history[e] : e \in Envs})
    BY DEF Surjection, IInv, ReaderTypeOK, TypeOK, Archive
  <2> QED BY <2>1, FS_Surjection, ConnectionAssumption
<1>3. \A r \in ({intent} \cup {history[e] : e \in Envs}) \ {None} : r.rev \in Nat
  BY DEF IInv, ReaderTypeOK, TypeOK, Archive, Intent, Revision
<1>4. now \in Nat
  BY ConnectionAssumption
<1>5. NextRevision(intent, {history[e] : e \in Envs}, now) \in Revision
  BY <1>2, <1>3, <1>4, NextRevisionIsLater
<1> QED BY <1>1, <1>5, ConnectionAssumption DEF Intent

LEMMA PublishKeeps ==
  ASSUME IInv, NEW c \in Calls, NEW now \in Clock, Publish(c, now), UNCHANGED <<journal, mem, tested>>
  PROVE  IInv'
<1> DEFINE next == [env |-> want[c].env, route |-> want[c].route,
                    rev |-> NextRevision(intent, {history[e] : e \in Envs}, now)]
<1>1. /\ pc[c] = "publish" /\ lock = c /\ pc'[c] = "unlock" /\ then'[c] = "done"
      /\ UNCHANGED <<lock, history, slot, cred, stored, kind, want, plan, dead>>
      /\ \/ UNCHANGED <<intent, latest>>
         \/ intent' = next /\ latest' = [latest EXCEPT ![next.env] = next]
  <2>1. pc[c] = "publish" /\ lock = c
    BY DEF Publish, At, IInv, StateIsSo, LocksAreHeld, UnderLock
  <2> QED BY <2>1 DEF Publish, Leave, Goto, IInv, ReaderTypeOK, TypeOK
<1>2. next \in Intent /\ next # None /\ next.env \in Envs
  BY <1>1, PublicationIsAnIntent
<1> HIDE DEF next
<1>3. ReaderTypeOK'
  <2>1. intent' \in Intent \cup {None} /\ latest' \in Archive
    BY <1>1, <1>2 DEF IInv, ReaderTypeOK, TypeOK, Archive
  <2>2. tmps' \subseteq Files
    BY DEF IInv, ReaderTypeOK, TypeOK, Publish, Spoils, Files
  <2> QED BY <1>1, <2>1, <2>2 DEF IInv, ReaderTypeOK, TypeOK, Publish, Leave, Goto, Steps, Afterwards, UnderLock
<1>4. Acts(c)
  BY <1>1 DEF IInv, Acts, Waits, StoreMoves, ReaderTypeOK, TypeOK, Publish, Leave, Goto, Over
<1>5. Arrives(c)
  <2>1. ReaderIsSo(c)' /\ CheckIsSo(c)' /\ ReportIsSo(c)'
    BY <1>1, <1>4, CommandsRead DEF Checking, Reporting
  <2>2. ~HoldsSlot(c)' /\ lock' = c
    BY <1>1 DEF HoldsSlot, UnderSlot
  <2>3. SelectionIsSo(c)' /\ CredentialIsSo(c)'
    BY <1>1 DEF CredentialIsSo, SelectionIsSo
  <2> QED BY <2>1, <2>2, <2>3 DEF Arrives
<1>6. FilesAreSo' /\ NothingForgotten'
  <2>1. CASE UNCHANGED <<intent, latest>>
    BY <1>1, <2>1, FilesStay
  <2>2. CASE intent' = next /\ latest' = [latest EXCEPT ![next.env] = next]
    <3>1. intent # None => history[intent.env] = intent
      BY <1>1 DEF IInv, StateIsSo, SelectionIsSo
    <3>2. \A e \in Envs : latest'[e] = IF e = next.env THEN next ELSE latest[e]
      BY <2>2 DEF IInv, ReaderTypeOK, TypeOK, Archive
    <3>3. FilesAreSo'
      BY <1>1, <1>2, <2>2, <3>2 DEF IInv, StateIsSo, FilesAreSo
    <3>4. NothingForgotten'
      BY <1>1, <2>2, <3>1, <3>2 DEF IInv, StateIsSo, FilesAreSo, NothingForgotten
    <3> QED BY <3>3, <3>4
  <2> QED BY <1>1, <2>1, <2>2
<1>7. SettledNamesTheValue' /\ JournalIsSo'
  BY <1>1, <1>4, ValueStays, JournalStays
<1> QED BY <1>3, <1>4, <1>5, <1>6, <1>7, CallKeeps

-----------------------------------------------------------------------------
(* The commands that change a credential. *)

LEMMA CredentialKeeps ==
  ASSUME IInv, NEW c \in Calls, NEW k \in {"save", "replace", "remove"}, Credential(c, k),
         UNCHANGED <<journal, mem, tested>>
  PROVE  IInv'
<1>1. /\ pc[c] = "idle" /\ pc'[c] \in {"slot", "done"} /\ kind'[c] = k
      /\ UNCHANGED <<disk, then, want, plan, dead, latest>>
  BY DEF Credential, At, Start, Goto, IInv, ReaderTypeOK, TypeOK
<1>2. ReaderTypeOK'
  BY <1>1 DEF IInv, ReaderTypeOK, TypeOK, Credential, Start, disk, Goto, Steps, Kinds, Afterwards
<1>3. Acts(c)
  BY <1>1 DEF IInv, Acts, Waits, StoreMoves, ReaderTypeOK, TypeOK, Credential, Start, disk, Goto, Over
<1>4. Arrives(c)
  <2>1. ReaderIsSo(c)' /\ CheckIsSo(c)' /\ ReportIsSo(c)'
    BY <1>1, <1>3, CommandsRead DEF Checking, Reporting
  <2>2. ~HoldsSlot(c)' /\ pc'[c] \notin UnderLock
    BY <1>1 DEF HoldsSlot, UnderSlot, UnderLock
  <2>3. SelectionIsSo(c)' /\ CredentialIsSo(c)'
    BY <1>1 DEF SelectionIsSo, CredentialIsSo
  <2> QED BY <2>1, <2>2, <2>3 DEF Arrives
<1>5. Quietly(c)
  BY <1>1 DEF Quietly, disk, IInv, CheckIsSo
<1> QED BY <1>2, <1>3, <1>4, <1>5, QuietKeeps

LEMMA TakeSlotKeeps ==
  ASSUME IInv, NEW c \in Calls, TakeSlot(c), UNCHANGED <<journal, mem, tested>>
  PROVE  IInv'
<1>1. /\ pc[c] = "slot" /\ UNCHANGED <<lock, tmps, intent, history, cred, stored, local, dead, latest>>
      /\ \/ slot = None /\ slot' = c /\ pc'[c] = "begin"
         \/ slot' = slot /\ pc'[c] = "done"
  BY DEF TakeSlot, At, Goto, IInv, ReaderTypeOK, TypeOK
<1>2. ReaderTypeOK'
  BY <1>1 DEF IInv, ReaderTypeOK, TypeOK, TakeSlot, local, Goto, Steps, Afterwards, UnderSlot
<1>3. Acts(c)
  BY <1>1 DEF IInv, Acts, Waits, StoreMoves, ReaderTypeOK, TypeOK, TakeSlot, local, Goto, Over
<1>4. Arrives(c)
  <2>1. ReaderIsSo(c)' /\ CheckIsSo(c)' /\ ReportIsSo(c)'
    BY <1>1, <1>3, CommandsRead DEF Checking, Reporting
  <2>2. (HoldsSlot(c)' => slot' = c) /\ pc'[c] \notin UnderLock
    BY <1>1 DEF HoldsSlot, UnderSlot, UnderLock
  <2>3. SelectionIsSo(c)' /\ CredentialIsSo(c)'
    BY <1>1 DEF SelectionIsSo, CredentialIsSo
  <2> QED BY <2>1, <2>2, <2>3 DEF Arrives
<1>5. Quietly(c)
  BY <1>1 DEF Quietly, local
<1> QED BY <1>2, <1>3, <1>4, <1>5, QuietKeeps

\* From here on the record is the command's own, and a value stands for nothing
\* until the command has settled it.
LEMMA InvalidateKeeps ==
  ASSUME IInv, NEW c \in Calls, NEW now \in Clock, Invalidate(c, now), UNCHANGED <<journal, mem, tested>>
  PROVE  IInv'
<1> DEFINE v == NextRevision(cred, {}, now)
<1>1. /\ pc[c] = "invalidate" /\ lock = c /\ slot = c /\ pc'[c] = "unlock"
      /\ UNCHANGED <<lock, intent, history, slot, stored, kind, want, plan, dead, latest>>
      /\ \/ cred' = cred /\ then'[c] = "release"
         \/ cred' = [by |-> c, rev |-> v, state |-> "pending"] /\ then'[c] = "ask"
  <2>1. pc[c] = "invalidate" /\ lock = c /\ slot = c
    BY DEF Invalidate, At, IInv, StateIsSo, LocksAreHeld, UnderLock, HoldsSlot, UnderSlot
  <2> QED BY <2>1 DEF Invalidate, Leave, Goto, IInv, ReaderTypeOK, TypeOK
<1>2. v \in Revision /\ cred.rev < v
  <2>1. cred.rev \in Nat /\ cred # None /\ now \in Nat
    BY Fields, ConnectionAssumption DEF IInv, ReaderTypeOK, TypeOK
  <2>2. IsFiniteSet({}) /\ \A r \in ({cred} \cup {}) \ {None} : r.rev \in Nat
    BY <2>1, FS_EmptySet
  <2> QED BY <2>1, <2>2, NextRevisionIsLater
<1> HIDE DEF v
<1>3. ReaderTypeOK'
  <2>1. cred' \in Registration \cup {Unregistered}
    BY <1>1, <1>2 DEF IInv, ReaderTypeOK, TypeOK, Registration
  <2>2. tmps' \subseteq Files
    BY DEF IInv, ReaderTypeOK, TypeOK, Invalidate, Spoils, Files
  <2> QED BY <1>1, <2>1, <2>2 DEF IInv, ReaderTypeOK, TypeOK, Invalidate, Leave, Goto, Steps, Afterwards, UnderLock
<1>4. Acts(c)
  <2>1. StoreMoves
    BY <1>1, <1>2 DEF StoreMoves, Revision
  <2> QED BY <1>1, <2>1 DEF IInv, Acts, Waits, ReaderTypeOK, TypeOK, Invalidate, Leave, Goto, Over
<1>5. Arrives(c)
  <2>1. ReaderIsSo(c)' /\ CheckIsSo(c)' /\ ReportIsSo(c)'
    BY <1>1, <1>4, CommandsRead DEF Checking, Reporting
  <2>2. lock' = c /\ slot' = c
    BY <1>1
  <2>3. SelectionIsSo(c)' /\ CredentialIsSo(c)'
    BY <1>1 DEF CredentialIsSo, SelectionIsSo
  <2> QED BY <2>1, <2>2, <2>3 DEF Arrives
<1>6. SettledNamesTheValue'
  BY <1>1, <1>4, ValueStays DEF SettledNamesTheValue
<1>7. JournalIsSo' /\ FilesAreSo' /\ NothingForgotten'
  BY <1>1, <1>4, FilesStay, JournalStays
<1> QED BY <1>3, <1>4, <1>5, <1>6, <1>7, CallKeeps

LEMMA AskKeeps ==
  ASSUME IInv, NEW c \in Calls, Ask(c), UNCHANGED <<journal, mem, tested>>
  PROVE  IInv'
<1>1. pc[c] = "ask" /\ pc'[c] \in {"dialog", "release"} /\ slot = c /\ UNCHANGED <<disk, local, dead, latest>>
  BY DEF Ask, At, Goto, IInv, ReaderTypeOK, TypeOK, StateIsSo, LocksAreHeld, HoldsSlot, UnderSlot
<1>2. ReaderTypeOK'
  BY <1>1 DEF IInv, ReaderTypeOK, TypeOK, Ask, disk, local, Goto, Steps, Afterwards, UnderSlot
<1>3. Acts(c)
  BY <1>1 DEF IInv, Acts, Waits, StoreMoves, ReaderTypeOK, TypeOK, Ask, disk, local, Goto, Over
<1>4. Arrives(c)
  <2>1. ReaderIsSo(c)' /\ CheckIsSo(c)' /\ ReportIsSo(c)'
    BY <1>1, <1>3, CommandsRead DEF Checking, Reporting
  <2>2. slot' = c /\ pc'[c] \notin UnderLock
    BY <1>1 DEF UnderLock, disk
  <2>3. SelectionIsSo(c)' /\ CredentialIsSo(c)'
    BY <1>1 DEF IInv, StateIsSo, SelectionIsSo, CredentialIsSo, disk
  <2> QED BY <2>1, <2>2, <2>3 DEF Arrives
<1>5. Quietly(c)
  BY <1>1 DEF Quietly, disk, local
<1> QED BY <1>2, <1>3, <1>4, <1>5, QuietKeeps

\* The helper may act after its command died: the slot is still the command's.
LEMMA HelperStoresKeeps ==
  ASSUME IInv, NEW c \in Calls, HelperStores(c), UNCHANGED <<journal, mem, tested>>
  PROVE  IInv'
<1>1. /\ pc[c] = "dialog" /\ pc'[c] = "stored" /\ slot = c /\ stored' = c
      /\ kind[c] \in {"save", "replace"} /\ cred.by = c /\ cred.state = "pending"
      /\ UNCHANGED <<lock, tmps, intent, history, slot, cred, local, dead, latest>>
  BY DEF HelperStores, Goto, IInv, ReaderTypeOK, TypeOK, StateIsSo, LocksAreHeld, HoldsSlot, UnderSlot, CredentialIsSo
<1>2. ReaderTypeOK'
  BY <1>1 DEF IInv, ReaderTypeOK, TypeOK, HelperStores, local, Goto, Steps, UnderSlot
<1>3. Acts(c)
  BY <1>1 DEF IInv, Acts, Waits, StoreMoves, ReaderTypeOK, TypeOK, HelperStores, local, Goto, Over
<1>4. Arrives(c)
  <2>1. ReaderIsSo(c)' /\ CheckIsSo(c)' /\ ReportIsSo(c)'
    BY <1>1, <1>3, CommandsRead DEF Checking, Reporting
  <2>2. slot' = c /\ pc'[c] \notin UnderLock
    BY <1>1 DEF UnderLock
  <2>3. SelectionIsSo(c)' /\ CredentialIsSo(c)'
    BY <1>1 DEF SelectionIsSo, CredentialIsSo, local
  <2> QED BY <2>1, <2>2, <2>3 DEF Arrives
<1>5. SettledNamesTheValue'
  BY <1>1 DEF SettledNamesTheValue
<1>6. JournalIsSo' /\ FilesAreSo' /\ NothingForgotten'
  BY <1>1, <1>3, FilesStay, JournalStays DEF local
<1> QED BY <1>2, <1>3, <1>4, <1>5, <1>6, CallKeeps

LEMMA HearStoredKeeps ==
  ASSUME IInv, NEW c \in Calls, HearStored(c), UNCHANGED <<journal, mem, tested>>
  PROVE  IInv'
<1>1. /\ pc[c] = "stored" /\ pc'[c] \in {"settle", "release"} /\ slot = c
      /\ UNCHANGED <<disk, local, dead, latest>>
  BY DEF HearStored, At, Goto, IInv, ReaderTypeOK, TypeOK, StateIsSo, LocksAreHeld, HoldsSlot, UnderSlot
<1>2. ReaderTypeOK'
  BY <1>1 DEF IInv, ReaderTypeOK, TypeOK, HearStored, disk, local, Goto, Steps, Afterwards, UnderSlot
<1>3. Acts(c)
  BY <1>1 DEF IInv, Acts, Waits, StoreMoves, ReaderTypeOK, TypeOK, HearStored, disk, local, Goto, Over
<1>4. Arrives(c)
  <2>1. ReaderIsSo(c)' /\ CheckIsSo(c)' /\ ReportIsSo(c)'
    BY <1>1, <1>3, CommandsRead DEF Checking, Reporting
  <2>2. slot' = c /\ pc'[c] \notin UnderLock
    BY <1>1 DEF UnderLock, disk
  <2>3. SelectionIsSo(c)' /\ CredentialIsSo(c)'
    BY <1>1 DEF IInv, StateIsSo, SelectionIsSo, CredentialIsSo, Value, disk, local
  <2> QED BY <2>1, <2>2, <2>3 DEF Arrives
<1>5. Quietly(c)
  BY <1>1 DEF Quietly, disk, local
<1> QED BY <1>2, <1>3, <1>4, <1>5, QuietKeeps

LEMMA DeclineKeeps ==
  ASSUME IInv, NEW c \in Calls, Decline(c), UNCHANGED <<journal, mem, tested>>
  PROVE  IInv'
<1>1. /\ pc[c] = "dialog" /\ pc'[c] = "release" /\ slot = c
      /\ UNCHANGED <<disk, local, dead, latest>>
  BY DEF Decline, At, Goto, IInv, ReaderTypeOK, TypeOK, StateIsSo, LocksAreHeld, HoldsSlot, UnderSlot
<1>2. ReaderTypeOK'
  BY <1>1 DEF IInv, ReaderTypeOK, TypeOK, Decline, disk, local, Goto, Steps, Afterwards
<1>3. Acts(c)
  BY <1>1 DEF IInv, Acts, Waits, StoreMoves, ReaderTypeOK, TypeOK, Decline, disk, local, Goto, Over
<1>4. Arrives(c)
  <2>1. ReaderIsSo(c)' /\ CheckIsSo(c)' /\ ReportIsSo(c)'
    BY <1>1, <1>3, CommandsRead DEF Checking, Reporting
  <2>2. slot' = c /\ pc'[c] \notin UnderLock
    BY <1>1 DEF UnderLock, disk
  <2>3. SelectionIsSo(c)' /\ CredentialIsSo(c)'
    BY <1>1 DEF IInv, StateIsSo, SelectionIsSo, CredentialIsSo, disk
  <2> QED BY <2>1, <2>2, <2>3 DEF Arrives
<1>5. Quietly(c)
  BY <1>1 DEF Quietly, disk, local
<1> QED BY <1>2, <1>3, <1>4, <1>5, QuietKeeps

LEMMA DeleteKeeps ==
  ASSUME IInv, NEW c \in Calls, Delete(c), UNCHANGED <<journal, mem, tested>>
  PROVE  IInv'
<1>1. /\ pc[c] = "dialog" /\ pc'[c] \in {"settle", "release"} /\ slot = c /\ stored' = None
      /\ kind[c] = "remove" /\ cred.by = c /\ cred.state = "pending"
      /\ UNCHANGED <<lock, tmps, intent, history, slot, cred, local, dead, latest>>
  BY DEF Delete, At, Goto, IInv, ReaderTypeOK, TypeOK, StateIsSo, LocksAreHeld, HoldsSlot, UnderSlot, CredentialIsSo
<1>2. ReaderTypeOK'
  BY <1>1 DEF IInv, ReaderTypeOK, TypeOK, Delete, local, Goto, Steps, UnderSlot, Afterwards
<1>3. Acts(c)
  BY <1>1 DEF IInv, Acts, Waits, StoreMoves, ReaderTypeOK, TypeOK, Delete, local, Goto, Over
<1>4. Arrives(c)
  <2>1. ReaderIsSo(c)' /\ CheckIsSo(c)' /\ ReportIsSo(c)'
    BY <1>1, <1>3, CommandsRead DEF Checking, Reporting
  <2>2. slot' = c /\ pc'[c] \notin UnderLock
    BY <1>1 DEF UnderLock
  <2>3. SelectionIsSo(c)' /\ CredentialIsSo(c)'
    BY <1>1 DEF SelectionIsSo, CredentialIsSo, Value, local
  <2> QED BY <2>1, <2>2, <2>3 DEF Arrives
<1>5. SettledNamesTheValue'
  BY <1>1 DEF SettledNamesTheValue
<1>6. JournalIsSo' /\ FilesAreSo' /\ NothingForgotten'
  BY <1>1, <1>3, FilesStay, JournalStays DEF local
<1> QED BY <1>2, <1>3, <1>4, <1>5, <1>6, CallKeeps

\* A record is settled for what its own command did.
LEMMA SettleKeeps ==
  ASSUME IInv, NEW c \in Calls, Settle(c), UNCHANGED <<journal, mem, tested>>
  PROVE  IInv'
<1>1. /\ pc[c] = "settled" /\ pc'[c] = "unlock" /\ then'[c] = "release" /\ lock = c /\ slot = c
      /\ cred.by = c /\ cred.state = "pending" /\ stored = Value(cred)
      /\ cred' = [cred EXCEPT !.state = "settled"] \/ cred' = cred
      /\ UNCHANGED <<lock, intent, history, slot, stored, kind, want, plan, dead, latest>>
  <2>1. /\ pc[c] = "settled" /\ lock = c /\ slot = c
        /\ cred.by = c /\ cred.state = "pending" /\ stored = Value(cred)
    BY DEF Settle, At, IInv, StateIsSo, LocksAreHeld, HoldsSlot, UnderSlot, UnderLock, CredentialIsSo
  <2> QED BY <2>1 DEF Settle, Leave, Goto, IInv, ReaderTypeOK, TypeOK
<1>2. cred \in Registration
  BY <1>1, Fields DEF IInv
<1>3. ReaderTypeOK'
  <2>1. cred' \in Registration
    BY <1>1, <1>2 DEF Registration
  <2>2. tmps' \subseteq Files
    BY DEF IInv, ReaderTypeOK, TypeOK, Settle, Spoils, Files
  <2> QED BY <1>1, <2>1, <2>2 DEF IInv, ReaderTypeOK, TypeOK, Settle, Leave, Goto, Steps, Afterwards, UnderLock
<1>4. Acts(c)
  <2>1. StoreMoves /\ cred'.by = cred.by
    BY <1>1, <1>2 DEF StoreMoves, Registration
  <2> QED BY <1>1, <2>1 DEF IInv, Acts, Waits, ReaderTypeOK, TypeOK, Settle, Leave, Goto, Over
<1>5. Arrives(c)
  <2>1. ReaderIsSo(c)' /\ CheckIsSo(c)' /\ ReportIsSo(c)'
    BY <1>1, <1>4, CommandsRead DEF Checking, Reporting
  <2>2. lock' = c /\ slot' = c
    BY <1>1
  <2>3. SelectionIsSo(c)' /\ CredentialIsSo(c)'
    BY <1>1 DEF CredentialIsSo, SelectionIsSo
  <2> QED BY <2>1, <2>2, <2>3 DEF Arrives
<1>6. SettledNamesTheValue'
  BY <1>1, <1>2 DEF SettledNamesTheValue, Value, Registration
<1>7. JournalIsSo' /\ FilesAreSo' /\ NothingForgotten'
  BY <1>1, <1>4, FilesStay, JournalStays
<1> QED BY <1>3, <1>4, <1>5, <1>6, <1>7, CallKeeps

LEMMA ReleaseSlotKeeps ==
  ASSUME IInv, NEW c \in Calls, ReleaseSlot(c), UNCHANGED <<journal, mem, tested>>
  PROVE  IInv'
<1>1. /\ pc[c] = "release" /\ pc'[c] = "done" /\ slot = c /\ slot' \in {None, slot}
      /\ UNCHANGED <<lock, tmps, intent, history, cred, stored, local, dead, latest>>
  BY DEF ReleaseSlot, At, Goto, IInv, ReaderTypeOK, TypeOK, StateIsSo, LocksAreHeld, HoldsSlot, UnderSlot
<1>2. ReaderTypeOK'
  BY <1>1 DEF IInv, ReaderTypeOK, TypeOK, ReleaseSlot, local, Goto, Steps, Afterwards
<1>3. Acts(c)
  BY <1>1 DEF IInv, Acts, Waits, StoreMoves, ReaderTypeOK, TypeOK, ReleaseSlot, local, Goto, Over
<1>4. Arrives(c)
  <2>1. ReaderIsSo(c)' /\ CheckIsSo(c)' /\ ReportIsSo(c)'
    BY <1>1, <1>3, CommandsRead DEF Checking, Reporting
  <2>2. ~HoldsSlot(c)' /\ pc'[c] \notin UnderLock
    BY <1>1 DEF UnderLock, HoldsSlot, UnderSlot
  <2>3. SelectionIsSo(c)' /\ CredentialIsSo(c)'
    BY <1>1 DEF IInv, StateIsSo, SelectionIsSo, CredentialIsSo
  <2> QED BY <2>1, <2>2, <2>3 DEF Arrives
<1>5. Quietly(c)
  BY <1>1 DEF Quietly, local
<1> QED BY <1>2, <1>3, <1>4, <1>5, QuietKeeps

LEMMA CrashKeeps ==
  ASSUME IInv, NEW c \in Calls, Crash(c), UNCHANGED <<journal, mem, tested>>
  PROVE  IInv'
<1>1. /\ UNCHANGED <<lock, intent, history, slot, cred, stored, pc, local, latest>>
      /\ tmps' \subseteq Files /\ dead' \subseteq Calls
  <2>1. UNCHANGED <<lock, intent, history, slot, cred, stored, pc, local, latest>> /\ dead' \subseteq Calls
    BY DEF Crash, IInv, ReaderTypeOK, TypeOK
  <2>2. pc[c] \in DOMAIN Writing => Writing[pc[c]] \subseteq Files
    BY DEF Writing, Files
  <2>3. tmps' = tmps \/ (pc[c] \in DOMAIN Writing /\ tmps' = tmps \cup Writing[pc[c]])
    BY DEF Crash
  <2> QED BY <2>1, <2>2, <2>3 DEF IInv, ReaderTypeOK, TypeOK
<1>2. ReaderTypeOK'
  BY <1>1 DEF IInv, ReaderTypeOK, TypeOK, local
<1>3. Acts(c)
  BY <1>1 DEF Acts, Waits, StoreMoves, local, Over
<1>4. Arrives(c)
  <2>1. ReaderIsSo(c) /\ CheckIsSo(c) /\ ReportIsSo(c) /\ SelectionIsSo(c) /\ CredentialIsSo(c)
        /\ (pc[c] \in UnderLock => lock = c) /\ (HoldsSlot(c) => slot = c)
    BY DEF IInv, StateIsSo, LocksAreHeld
  <2>2. ReaderIsSo(c)' /\ SelectionIsSo(c)'
    BY <1>1, <2>1 DEF ReaderIsSo, SelectionIsSo, local
  <2>3. CheckIsSo(c)'
    BY <1>1, <2>1 DEF CheckIsSo
  <2>4. ReportIsSo(c)'
    BY <1>1, <1>3, <2>1, MemoryKeeps DEF ReportIsSo
  <2>5. CredentialIsSo(c)'
    BY <1>1, <2>1 DEF CredentialIsSo, Value, local
  <2> QED BY <1>1, <2>1, <2>2, <2>3, <2>4, <2>5 DEF Arrives, HoldsSlot, local
<1>5. Quietly(c)
  BY <1>1 DEF Quietly, local
<1> QED BY <1>2, <1>3, <1>4, <1>5, QuietKeeps

-----------------------------------------------------------------------------
(* The two readers. *)

ReaderSteps == Checking \cup Reporting \cup {"revision", "revision.read"}

\* The fields of a memory that learns.
LEMMA MemoryFields ==
  ASSUME NEW m \in Memory
  PROVE  /\ \A v \in Registration \cup {Unregistered, Unavailable} : [m EXCEPT !.reg = v] \in Memory
         /\ \A v \in Registration \cup {Unavailable} : [m EXCEPT !.revision = v] \in Memory
         /\ \A v \in {"unavailable", "registered", "missing"} : [m EXCEPT !.present = v] \in Memory
         /\ \A v \in Outcomes : [m EXCEPT !.verdict = v] \in Memory
         /\ \A v \in Intent \cup {None} : [m EXCEPT !.intent = v] \in Memory
BY DEF Memory

\* A step of a reader that looks, remembers and goes on.
LEMMA LookKeeps ==
  ASSUME IInv, NEW c \in Calls, Quiet, NEW s \in (ReaderSteps \cup {"done"}) \ {"opened", "recorded"},
         pc[c] \in ReaderSteps, Goto(c, s),
         NEW m \in Memory, (UNCHANGED mem /\ m = mem[c]) \/ mem' = [mem EXCEPT ![c] = m],
         kind[c] = "check" /\ mem[c].round > 1 => m.round > 1 /\ m.revision = mem[c].revision,
         s \in {"observe", "reg", "reg.read", "present"} =>
           m.revision = Unavailable /\ m.present = "unavailable",
         MemoryIsSo(m), ReaderIsSo(c)', CheckIsSo(c)'
  PROVE  IInv'
<1>1. /\ pc'[c] = s /\ mem'[c] = m
      /\ UNCHANGED <<lock, tmps, intent, history, slot, cred, stored, kind, then, want, plan, dead, latest, journal, tested>>
      /\ \A q \in Calls \ {c} : pc'[q] = pc[q] /\ mem'[q] = mem[q]
  BY DEF Goto, Quiet, disk, local, IInv, ReaderTypeOK
<1>2. s \in Steps /\ s \notin UnderLock \cup UnderSlot \cup {"idle", "select", "archived", "apply"}
  BY DEF ReaderSteps, Steps, UnderLock, UnderSlot, Afterwards, Checking, Reporting
<1>3. ReaderTypeOK'
  <2>1. pc' \in [Calls -> Steps]
    BY <1>2 DEF Goto, IInv, ReaderTypeOK
  <2>2. mem' \in [Calls -> Memory]
    BY DEF IInv, ReaderTypeOK
  <2> QED BY <1>1, <2>1, <2>2 DEF IInv, ReaderTypeOK, TypeOK
<1>4. ~Over(c)
  BY DEF Over, ReaderSteps, Checking, Reporting
<1>5. Acts(c)
  BY <1>1, <1>4 DEF Acts, Waits, StoreMoves
<1>6. ReportIsSo(c)'
  <2>1. m.entry # NoObservation => IsSound(m.entry)'
    <3>1. m.entry \in Observation \cup {NoObservation}
      BY DEF Memory
    <3>2. \A o \in Observation : IsSound(o) => IsSound(o)'
      BY <1>5, SoundStays
    <3> QED BY <3>1, <3>2 DEF MemoryIsSo
  <2>2. MemoryIsSo(m)'
    BY <1>1, <2>1 DEF MemoryIsSo, IsPast
  <2>3. MemoryIsSo(mem[c])'
    BY <1>1, <2>2 DEF MemoryIsSo, IsPast, IsSound, Over
  <2> QED BY <1>1, <1>2, <2>3 DEF ReportIsSo
<1>7. Arrives(c)
  <2>1. SelectionIsSo(c)' /\ CredentialIsSo(c)'
    BY <1>1, <1>2 DEF SelectionIsSo, CredentialIsSo, UnderLock, UnderSlot
  <2>2. ~HoldsSlot(c)' /\ pc'[c] \notin UnderLock
    BY <1>1, <1>2 DEF HoldsSlot, UnderLock
  <2> QED BY <1>6, <2>1, <2>2 DEF Arrives
<1>8. Quietly(c)
  BY <1>1 DEF Quietly
<1> QED BY <1>3, <1>5, <1>7, <1>8, QuietKeeps

LEMMA LookAtSlotKeeps ==
  ASSUME IInv, NEW c \in Calls, LookAtSlot(c)
  PROVE  IInv'
<1>1. pc[c] \in {"reg", "revision", "again"} /\ Quiet
  BY DEF LookAtSlot, SlotThen
<1>2. mem \in [Calls -> Memory] /\ mem[c] \in Memory /\ ReaderTypeOK
  BY DEF IInv, ReaderTypeOK
<1>3. ReaderIsSo(c) /\ CheckIsSo(c) /\ ReportIsSo(c) /\ MemoryIsSo(mem[c])
  BY DEF IInv, ReportIsSo
<1>4. \A s : Goto(c, s) => pc'[c] = s
  BY <1>2 DEF Goto, ReaderTypeOK
<1>5. CASE UNCHANGED mem /\ Goto(c, SlotThen[pc[c]])
  <2>1. PICK s \in {"reg.read", "revision.read", "again.read"} :
           Goto(c, s) /\ ((s = "reg.read" /\ pc[c] = "reg") \/ (s = "revision.read" /\ pc[c] = "revision") \/ (s = "again.read" /\ pc[c] = "again"))
    BY <1>1, <1>5 DEF SlotThen
  <2>2. ReaderIsSo(c)' /\ CheckIsSo(c)'
    BY <1>1, <1>3, <1>4, <1>5, <2>1 DEF ReaderIsSo, CheckIsSo, Quiet, disk, local, Reporting, Checking
  <2>3. /\ s \in (ReaderSteps \cup {"done"}) \ {"opened", "recorded"} /\ pc[c] \in ReaderSteps
        /\ s \in {"observe", "reg", "reg.read", "present"} =>
             mem[c].revision = Unavailable /\ mem[c].present = "unavailable"
    BY <1>1, <1>3, <2>1 DEF ReaderSteps, Reporting, Checking, ReportIsSo
  <2> QED BY <1>1, <1>2, <1>3, <1>5, <2>1, <2>2, <2>3, LookKeeps
<1>6. CASE pc[c] = "reg" /\ Learn(c, "reg", Unavailable) /\ Goto(c, "present")
  <2> DEFINE m == [mem[c] EXCEPT !.reg = Unavailable]
  <2>1. m \in Memory /\ m.reg = Unavailable /\ m.revision = mem[c].revision /\ m.present = mem[c].present
        /\ m.entry = mem[c].entry /\ m.round = mem[c].round /\ m.verdict = mem[c].verdict
    BY <1>2, MemoryFields DEF Memory
  <2>2. mem' = [mem EXCEPT ![c] = m] /\ mem'[c] = m
    BY <1>2, <1>6 DEF Learn
  <2> HIDE DEF m
  <2>3. MemoryIsSo(m)
    BY <1>3, <1>6, <2>1 DEF MemoryIsSo, ReportIsSo
  <2>4. ReaderIsSo(c)' /\ CheckIsSo(c)'
    BY <1>1, <1>3, <1>4, <1>6, <2>1, <2>2 DEF ReaderIsSo, CheckIsSo, Quiet, disk, local, Reporting, Checking
  <2>5. "present" \in (ReaderSteps \cup {"done"}) \ {"opened", "recorded"} /\ pc[c] \in ReaderSteps
    BY <1>1 DEF ReaderSteps, Reporting, Checking
  <2> QED BY <1>1, <1>3, <1>6, <2>1, <2>2, <2>3, <2>4, <2>5, LookKeeps DEF ReportIsSo
<1>7. CASE pc[c] = "revision" /\ Learn(c, "revision", Unavailable) /\ Goto(c, IF kind[c] = "check" THEN "done" ELSE "planned")
  <2> DEFINE m == [mem[c] EXCEPT !.revision = Unavailable]
  <2>1. m \in Memory /\ m.reg = mem[c].reg /\ m.revision = Unavailable /\ m.present = mem[c].present
        /\ m.entry = mem[c].entry /\ m.round = mem[c].round /\ m.verdict = mem[c].verdict
    BY <1>2, MemoryFields DEF Memory
  <2>2. mem' = [mem EXCEPT ![c] = m] /\ mem'[c] = m
    BY <1>2, <1>7 DEF Learn
  <2> HIDE DEF m
  <2>3. MemoryIsSo(m)
    BY <1>3, <2>1 DEF MemoryIsSo
  <2>4. PICK s \in {"done", "planned"} : Goto(c, s) /\ (s = "planned" => kind[c] # "check")
    BY <1>7
  <2>5. mem[c].round = 1
    BY <1>3, <1>7 DEF CheckIsSo
  <2>6. ReaderIsSo(c)' /\ CheckIsSo(c)'
    BY <1>1, <1>3, <1>4, <1>7, <2>1, <2>2, <2>4, <2>5 DEF ReaderIsSo, CheckIsSo, Quiet, disk, local, Reporting, Checking
  <2>7. /\ s \in (ReaderSteps \cup {"done"}) \ {"opened", "recorded"} /\ pc[c] \in ReaderSteps
        /\ s \notin {"observe", "reg", "reg.read", "present"}
    BY <1>1, <1>7, <2>4 DEF ReaderSteps, Reporting, Checking
  <2>8. Goto(c, s) /\ ~(mem[c].round > 1)
    BY <2>4, <2>5
  <2> QED BY <1>1, <2>1, <2>2, <2>3, <2>6, <2>7, <2>8, LookKeeps
<1>8. CASE /\ pc[c] = "again" /\ Goto(c, "reread")
           /\ mem' = [mem EXCEPT ![c].present = IF mem[c].reg = Unavailable THEN @ ELSE "unavailable"]
  <2> DEFINE v == IF mem[c].reg = Unavailable THEN mem[c].present ELSE "unavailable"
             m == [mem[c] EXCEPT !.present = v]
  <2>0. /\ v \in {"unavailable", "registered", "missing"}
        /\ v # "unavailable" => v = mem[c].present
    BY <1>2 DEF Memory
  <2> HIDE DEF v
  <2>1. m \in Memory /\ m.reg = mem[c].reg /\ m.revision = mem[c].revision /\ m.present = v
        /\ m.entry = mem[c].entry /\ m.round = mem[c].round /\ m.verdict = mem[c].verdict
    BY <1>2, <2>0, MemoryFields DEF Memory
  <2>2. mem' = [mem EXCEPT ![c] = m] /\ mem'[c] = m
    BY <1>2, <1>8 DEF v
  <2> HIDE DEF m
  <2>3. MemoryIsSo(m)
    BY <1>3, <2>0, <2>1 DEF MemoryIsSo
  <2>4. ReaderIsSo(c)' /\ CheckIsSo(c)'
    BY <1>1, <1>3, <1>4, <1>8, <2>1, <2>2 DEF ReaderIsSo, CheckIsSo, Quiet, disk, local, Reporting, Checking
  <2>5. "reread" \in (ReaderSteps \cup {"done"}) \ {"opened", "recorded"} /\ pc[c] \in ReaderSteps
    BY <1>1 DEF ReaderSteps, Reporting, Checking
  <2> QED BY <1>1, <1>8, <2>1, <2>2, <2>3, <2>4, <2>5, LookKeeps
<1> QED BY <1>1, <1>5, <1>6, <1>7, <1>8 DEF LookAtSlot

\* What a reader that holds no lock starts from.
LEMMA ReaderFacts ==
  ASSUME IInv, NEW c \in Calls
  PROVE  /\ ReaderTypeOK /\ mem \in [Calls -> Memory] /\ mem[c] \in Memory
         /\ ReaderIsSo(c) /\ CheckIsSo(c) /\ ReportIsSo(c) /\ MemoryIsSo(mem[c])
         /\ \A s : Goto(c, s) => pc'[c] = s
BY DEF IInv, ReaderTypeOK, ReportIsSo, Goto

LEMMA ReadRevisionKeeps ==
  ASSUME IInv, NEW c \in Calls, ReadRevision(c)
  PROVE  IInv'
<1>1. pc[c] = "revision.read" /\ Quiet
  BY DEF ReadRevision, At
<1>2. mem[c].round = 1 /\ ~(mem[c].round > 1)
  BY <1>1, ReaderFacts DEF CheckIsSo
<1> DEFINE r == IF Readable("credential") /\ cred.state = "settled" THEN cred ELSE Unavailable
           m == [mem[c] EXCEPT !.revision = r]
<1>3. /\ r \in Registration \cup {Unavailable}
      /\ r # Unavailable => r = cred /\ r.state = "settled"
  BY Fields, ReaderFacts
<1>4. /\ Learn(c, "revision", r)
      /\ Goto(c, IF kind[c] # "check" THEN "planned" ELSE IF r = Unavailable THEN "done" ELSE "await")
  BY DEF ReadRevision
<1> HIDE DEF r
<1>5. m \in Memory /\ m.reg = mem[c].reg /\ m.revision = r /\ m.present = mem[c].present
      /\ m.entry = mem[c].entry /\ m.round = mem[c].round /\ m.verdict = mem[c].verdict
  BY <1>3, ReaderFacts, MemoryFields DEF Memory
<1>6. mem' = [mem EXCEPT ![c] = m] /\ mem'[c] = m
  BY <1>4, ReaderFacts DEF Learn
<1> HIDE DEF m
<1>7. MemoryIsSo(m)
  <2>1. MemoryIsSo(mem[c]) /\ cred.rev \in Nat
    BY ReaderFacts, Fields
  <2> QED BY <1>3, <1>5, <2>1 DEF MemoryIsSo, IsPast
<1>8. PICK s \in {"planned", "done", "await"} : Goto(c, s) /\ (s = "planned" <=> kind[c] # "check")
  BY <1>4
<1>9. ReaderIsSo(c)' /\ CheckIsSo(c)'
  BY <1>1, <1>2, <1>5, <1>6, <1>8, ReaderFacts DEF ReaderIsSo, CheckIsSo, Quiet, disk, local, Reporting, Checking
<1>10. /\ s \in (ReaderSteps \cup {"done"}) \ {"opened", "recorded"} /\ pc[c] \in ReaderSteps
       /\ s \notin {"observe", "reg", "reg.read", "present"} /\ Goto(c, s)
  BY <1>1, <1>8 DEF ReaderSteps, Reporting, Checking
<1> QED BY <1>1, <1>2, <1>5, <1>6, <1>7, <1>9, <1>10, LookKeeps

LEMMA CheckSelectedKeeps ==
  ASSUME IInv, NEW c \in Calls, CheckSelected(c)
  PROVE  IInv'
<1>1. pc[c] = "selected" /\ Quiet /\ UNCHANGED mem
  BY DEF CheckSelected, At
<1>2. PICK s \in {"revision", "done"} : Goto(c, s)
  BY DEF CheckSelected
<1>3. ReaderIsSo(c)' /\ CheckIsSo(c)'
  BY <1>1, <1>2, ReaderFacts DEF ReaderIsSo, CheckIsSo, Quiet, disk, local, Reporting, Checking
<1>4. /\ s \in (ReaderSteps \cup {"done"}) \ {"opened", "recorded"} /\ pc[c] \in ReaderSteps
      /\ s \notin {"observe", "reg", "reg.read", "present"} /\ Goto(c, s)
  BY <1>1, <1>2 DEF ReaderSteps, Reporting, Checking
<1> QED BY <1>1, <1>3, <1>4, LookKeeps, ReaderFacts

\* A check that stops records, if it has begun, that it knows nothing.
LEMMA StopKeeps ==
  ASSUME IInv, NEW c \in Calls, Quiet, Learn(c, "verdict", "unknown"), Stop(c),
         pc[c] \in {"await", "current", "current.read"}
  PROVE  IInv'
<1> DEFINE m == [mem[c] EXCEPT !.verdict = "unknown"]
<1>0. "unknown" \in Outcomes
  BY DEF Outcomes
<1>1. m \in Memory /\ m.reg = mem[c].reg /\ m.revision = mem[c].revision /\ m.present = mem[c].present
      /\ m.entry = mem[c].entry /\ m.round = mem[c].round /\ m.verdict = "unknown"
  BY <1>0, ReaderFacts, MemoryFields DEF Memory
<1>2. mem' = [mem EXCEPT ![c] = m] /\ mem'[c] = m
  BY ReaderFacts DEF Learn
<1> HIDE DEF m
<1>3. MemoryIsSo(m)
  BY <1>1, ReaderFacts DEF MemoryIsSo
<1>4. PICK s \in {"done", "record"} : Goto(c, s) /\ (s = "record" => mem[c].round # 1)
  BY DEF Stop
<1>5. mem[c].round \in 1 .. 4
  BY Fields, ReaderFacts
<1>6. ReaderIsSo(c)' /\ CheckIsSo(c)'
  BY <1>1, <1>2, <1>4, <1>5, ReaderFacts DEF ReaderIsSo, CheckIsSo, Quiet, disk, local, Reporting, Checking
<1>7. /\ s \in (ReaderSteps \cup {"done"}) \ {"opened", "recorded"} /\ pc[c] \in ReaderSteps
      /\ s \notin {"observe", "reg", "reg.read", "present"} /\ Goto(c, s)
  BY <1>4 DEF ReaderSteps, Reporting, Checking
<1> QED BY <1>1, <1>2, <1>3, <1>6, <1>7, LookKeeps

LEMMA AwaitPresenceKeeps ==
  ASSUME IInv, NEW c \in Calls, AwaitPresence(c)
  PROVE  IInv'
<1>1. pc[c] = "await" /\ Quiet
  BY DEF AwaitPresence, At
<1>2. CASE UNCHANGED mem /\ Goto(c, "current")
  <2>1. ReaderIsSo(c)' /\ CheckIsSo(c)'
    BY <1>1, <1>2, ReaderFacts DEF ReaderIsSo, CheckIsSo, Quiet, disk, local, Reporting, Checking
  <2>2. "current" \in (ReaderSteps \cup {"done"}) \ {"opened", "recorded"} /\ pc[c] \in ReaderSteps
    BY <1>1 DEF ReaderSteps, Reporting, Checking
  <2> QED BY <1>1, <1>2, <2>1, <2>2, LookKeeps, ReaderFacts
<1> QED BY <1>1, <1>2, StopKeeps DEF AwaitPresence

LEMMA CheckSelectionKeeps ==
  ASSUME IInv, NEW c \in Calls, CheckSelection(c)
  PROVE  IInv'
<1>1. pc[c] = "current" /\ Quiet
  BY DEF CheckSelection, At
<1>2. CASE UNCHANGED mem /\ Goto(c, "current.read")
  <2>1. ReaderIsSo(c)' /\ CheckIsSo(c)'
    BY <1>1, <1>2, ReaderFacts DEF ReaderIsSo, CheckIsSo, Quiet, disk, local, Reporting, Checking
  <2>2. "current.read" \in (ReaderSteps \cup {"done"}) \ {"opened", "recorded"} /\ pc[c] \in ReaderSteps
    BY <1>1 DEF ReaderSteps, Reporting, Checking
  <2> QED BY <1>1, <1>2, <2>1, <2>2, LookKeeps, ReaderFacts
<1> QED BY <1>1, <1>2, StopKeeps DEF CheckSelection

\* A registration with the revision that was read first is the one that was
\* read first, and the store holds what it stands for.
LEMMA CheckRevisionKeeps ==
  ASSUME IInv, NEW c \in Calls, CheckRevision(c)
  PROVE  IInv'
<1>1. pc[c] = "current.read" /\ Quiet
  BY DEF CheckRevision, At
<1>2. CASE /\ cred.state = "settled" /\ cred.rev = mem[c].revision.rev
           /\ Goto(c, <<"open", "fetch", "probe", "record">>[mem[c].round]) /\ UNCHANGED mem
  <2>1. mem[c].revision # Unavailable
    BY <1>2, Fields, ReaderFacts DEF Unavailable
  <2>2. mem[c].revision = cred /\ cred.by \in Calls
    BY <1>2, <2>1, Fields, ReaderFacts DEF MemoryIsSo, IsPast
  <2>3. stored = Value(cred)
    BY <1>2 DEF IInv, StateIsSo, SettledNamesTheValue
  <2>4. mem[c].round > 2 => tested[c] = stored /\ tested[c] # None
    BY <1>1, <2>2, ReaderFacts DEF CheckIsSo
  <2>5. mem[c].round > 2 => tested[c] = mem[c].revision.by
    BY <2>2, <2>3, <2>4 DEF Value
  <2>6. mem[c].round \in 1 .. 4
    BY Fields, ReaderFacts
  <2>7. PICK s \in {"open", "fetch", "probe", "record"} :
           /\ Goto(c, s)
           /\ (s = "open" => mem[c].round = 1) /\ (s = "fetch" => mem[c].round = 2)
           /\ (s = "probe" => mem[c].round = 3) /\ (s = "record" => mem[c].round = 4)
    BY <1>2, <2>6
  <2>8. CheckIsSo(c)'
    BY <1>1, <1>2, <2>2, <2>4, <2>5, <2>6, <2>7, ReaderFacts DEF CheckIsSo, Quiet, disk, local, Reporting
  <2>9. ReaderIsSo(c)'
    BY <1>1, <2>7, ReaderFacts DEF ReaderIsSo, Quiet, disk, local, Reporting, Checking
  <2>10. /\ s \in (ReaderSteps \cup {"done"}) \ {"opened", "recorded"} /\ pc[c] \in ReaderSteps
         /\ s \notin {"observe", "reg", "reg.read", "present"} /\ Goto(c, s)
    BY <1>1, <2>7 DEF ReaderSteps, Reporting, Checking
  <2> QED BY <1>1, <1>2, <2>8, <2>9, <2>10, LookKeeps, ReaderFacts
<1> QED BY <1>1, <1>2, StopKeeps DEF CheckRevision

LEMMA NextRoundFields ==
  ASSUME IInv, NEW c \in Calls, mem[c].round < 4
  PROVE  /\ NextRound(c) \in Memory /\ NextRound(c).reg = mem[c].reg
         /\ NextRound(c).revision = mem[c].revision /\ NextRound(c).present = mem[c].present
         /\ NextRound(c).entry = mem[c].entry /\ NextRound(c).verdict = mem[c].verdict
         /\ NextRound(c).round = mem[c].round + 1
<1>1. mem[c] \in Memory
  BY ReaderFacts
<1> QED BY <1>1 DEF NextRound, Memory

LEMMA ProbeKeeps ==
  ASSUME IInv, NEW c \in Calls, Probe(c)
  PROVE  IInv'
<1>1. pc[c] = "probe" /\ Quiet /\ Goto(c, "await") /\ mem[c].round = 3
  BY ReaderFacts DEF Probe, At, CheckIsSo
<1>2. PICK v \in Outcomes : mem' = [mem EXCEPT ![c] = [NextRound(c) EXCEPT !.verdict = v]]
  BY DEF Probe
<1> DEFINE n == NextRound(c)
           m == [n EXCEPT !.verdict = v]
<1>0. n \in Memory /\ n.reg = mem[c].reg /\ n.revision = mem[c].revision /\ n.present = mem[c].present
      /\ n.entry = mem[c].entry /\ n.round = 4
  BY <1>1, NextRoundFields, ReaderFacts
<1> HIDE DEF n
<1>3. m \in Memory /\ m.reg = mem[c].reg /\ m.revision = mem[c].revision /\ m.present = mem[c].present
      /\ m.entry = mem[c].entry /\ m.round = 4 /\ m.round > 1 /\ m.verdict = v
  BY <1>0, MemoryFields DEF Memory
<1>4. mem' = [mem EXCEPT ![c] = m] /\ mem'[c] = m
  BY <1>2, ReaderFacts DEF n
<1> HIDE DEF m
<1>5. MemoryIsSo(m)
  BY <1>3, ReaderFacts DEF MemoryIsSo
<1>6. ReaderIsSo(c)' /\ CheckIsSo(c)'
  BY <1>1, <1>3, <1>4, ReaderFacts DEF ReaderIsSo, CheckIsSo, Quiet, disk, local, Reporting, Checking
<1>7. "await" \in (ReaderSteps \cup {"done"}) \ {"opened", "recorded"} /\ pc[c] \in ReaderSteps
  BY <1>1 DEF ReaderSteps, Reporting, Checking
<1> QED BY <1>1, <1>3, <1>4, <1>5, <1>6, <1>7, LookKeeps

LEMMA ReadRegistrationKeeps ==
  ASSUME IInv, NEW c \in Calls, ReadRegistration(c)
  PROVE  IInv'
<1>1. pc[c] = "reg.read" /\ Quiet /\ Goto(c, "present") /\ Learn(c, "reg", cred)
  BY DEF ReadRegistration, At
<1> DEFINE m == [mem[c] EXCEPT !.reg = cred]
<1>2. cred \in Registration \cup {Unregistered}
  BY ReaderFacts DEF ReaderTypeOK, TypeOK
<1>3. m \in Memory /\ m.reg = cred /\ m.revision = mem[c].revision /\ m.present = mem[c].present
      /\ m.entry = mem[c].entry /\ m.round = mem[c].round /\ m.verdict = mem[c].verdict
  BY <1>2, ReaderFacts, MemoryFields DEF Memory
<1>4. mem' = [mem EXCEPT ![c] = m] /\ mem'[c] = m
  BY <1>1, ReaderFacts DEF Learn
<1> HIDE DEF m
<1>5. MemoryIsSo(m) /\ m.revision = Unavailable /\ m.present = "unavailable"
  BY <1>1, <1>3, ReaderFacts, Fields DEF MemoryIsSo, ReportIsSo, IsPast
<1>6. ReaderIsSo(c)' /\ CheckIsSo(c)'
  BY <1>1, <1>3, <1>4, ReaderFacts DEF ReaderIsSo, CheckIsSo, Quiet, disk, local, Reporting, Checking
<1>7. "present" \in (ReaderSteps \cup {"done"}) \ {"opened", "recorded"} /\ pc[c] \in ReaderSteps
  BY <1>1 DEF ReaderSteps, Reporting, Checking
<1> QED BY <1>1, <1>3, <1>4, <1>5, <1>6, <1>7, LookKeeps

\* A reader that changes its mind about the presence only to know nothing, or
\* to what the store holds.
LEMMA PresenceKeeps ==
  ASSUME IInv, NEW c \in Calls, Quiet, pc[c] \in {"present", "planned", "presence", "again.read"},
         NEW p \in {"unavailable", "registered", "missing"}, Learn(c, "present", p),
         NEW s \in {"revision", "planned", "presence", "again", "reread"}, Goto(c, s),
         p # "unavailable" =>
           \/ p = mem[c].present
           \/ mem[c].reg.state \in {"settled", "missing"} /\ (p = "registered" <=> stored # None)
  PROVE  IInv'
<1> DEFINE m == [mem[c] EXCEPT !.present = p]
<1>0. mem[c] \in Memory
  BY ReaderFacts
<1>1. m \in Memory /\ m.reg = mem[c].reg /\ m.revision = mem[c].revision /\ m.present = p
      /\ m.entry = mem[c].entry /\ m.round = mem[c].round /\ m.verdict = mem[c].verdict
  BY <1>0, MemoryFields DEF Memory
<1>2. mem' = [mem EXCEPT ![c] = m] /\ mem'[c] = m
  BY ReaderFacts DEF Learn
<1> HIDE DEF m
<1>3. MemoryIsSo(m)
  BY <1>1, ReaderFacts DEF MemoryIsSo
<1>4. kind[c] = "report"
  BY ReaderFacts DEF ReaderIsSo, Reporting
<1>5. ReaderIsSo(c)'
  BY <1>4, ReaderFacts DEF ReaderIsSo, Quiet, disk, local, Reporting, Checking
<1>6. mem[c].round = 1
  BY ReaderFacts DEF CheckIsSo, Reporting
<1>7. CheckIsSo(c)'
  BY <1>1, <1>2, <1>6, ReaderFacts DEF CheckIsSo, Quiet, disk, local
<1>8. /\ s \in (ReaderSteps \cup {"done"}) \ {"opened", "recorded"} /\ pc[c] \in ReaderSteps
      /\ s \notin {"observe", "reg", "reg.read", "present"}
  BY DEF ReaderSteps, Reporting, Checking
<1> QED BY <1>1, <1>2, <1>3, <1>4, <1>5, <1>7, <1>8, LookKeeps

LEMMA ReadPresenceKeeps ==
  ASSUME IInv, NEW c \in Calls, ReadPresence(c)
  PROVE  IInv'
<1>1. pc[c] = "present" /\ Quiet
  BY DEF ReadPresence, At
<1>2. PICK p \in (IF mem[c].reg.state \in {"unavailable", "pending"} THEN {} ELSE {Truth}) \cup {"unavailable"} :
        /\ Learn(c, "present", p)
        /\ Goto(c, CASE p = "registered" -> "revision" [] p = "missing" -> "planned" [] OTHER -> "reread")
  BY DEF ReadPresence
<1>3. Truth \in {"registered", "missing"} /\ (Truth = "registered" <=> stored # None)
  BY DEF Truth
<1>4. mem[c].reg.state \in {"unavailable", "pending", "settled", "missing"}
  BY ReaderFacts, Fields DEF Registration, Unregistered, Unavailable
<1>5. /\ p \in {"unavailable", "registered", "missing"}
      /\ p # "unavailable" => mem[c].reg.state \in {"settled", "missing"} /\ (p = "registered" <=> stored # None)
  BY <1>2, <1>3, <1>4
<1>6. PICK s \in {"revision", "planned", "presence", "again", "reread"} : Goto(c, s)
  BY <1>2, <1>5
<1> QED BY <1>1, <1>2, <1>5, <1>6, PresenceKeeps

LEMMA AgreeKeeps ==
  ASSUME IInv, NEW c \in Calls, Agree(c)
  PROVE  IInv'
<1>1. pc[c] \in {"planned", "presence"} /\ Quiet
  BY DEF Agree
<1>2. PICK p \in {Truth, "unavailable"} :
        Learn(c, "present", IF p = mem[c].present THEN p ELSE "unavailable")
  BY DEF Agree
<1> DEFINE v == IF p = mem[c].present THEN p ELSE "unavailable"
<1>3. v \in {"unavailable", "registered", "missing"} /\ (v # "unavailable" => v = mem[c].present)
  BY ReaderFacts, Fields
<1>4. PICK s \in {"presence", "reread", "again"} : Goto(c, s)
  BY DEF Agree
<1>5. Learn(c, "present", v)
  BY <1>2
<1> HIDE DEF v
<1> QED BY <1>1, <1>3, <1>4, <1>5, PresenceKeeps

LEMMA ReadRegistrationAgainKeeps ==
  ASSUME IInv, NEW c \in Calls, ReadRegistrationAgain(c)
  PROVE  IInv'
<1> DEFINE v == IF cred = mem[c].reg THEN mem[c].present ELSE "unavailable"
<1>1. pc[c] = "again.read" /\ Quiet /\ Learn(c, "present", v) /\ Goto(c, "reread")
  BY DEF ReadRegistrationAgain, At
<1>2. v \in {"unavailable", "registered", "missing"} /\ (v # "unavailable" => v = mem[c].present)
  BY ReaderFacts, Fields
<1> HIDE DEF v
<1> QED BY <1>1, <1>2, PresenceKeeps

LEMMA ReadIntentAgainKeeps ==
  ASSUME IInv, NEW c \in Calls, ReadIntentAgain(c)
  PROVE  IInv'
<1>1. pc[c] = "reread" /\ Quiet /\ UNCHANGED mem
  BY DEF ReadIntentAgain, At
<1>2. PICK s \in {"answered", "done"} : Goto(c, s)
  BY DEF ReadIntentAgain
<1>3. ReaderIsSo(c)' /\ CheckIsSo(c)'
  BY <1>1, <1>2, ReaderFacts DEF ReaderIsSo, CheckIsSo, Quiet, disk, local, Reporting, Checking
<1>4. /\ s \in (ReaderSteps \cup {"done"}) \ {"opened", "recorded"} /\ pc[c] \in ReaderSteps
      /\ s \notin {"observe", "reg", "reg.read", "present"} /\ Goto(c, s)
  BY <1>1, <1>2 DEF ReaderSteps, Reporting, Checking
<1> QED BY <1>1, <1>3, <1>4, LookKeeps, ReaderFacts

\* A step of a reader, whatever it changes of its own.
LEMMA ReaderArrives ==
  ASSUME IInv, NEW c \in Calls, Acts(c),
         pc'[c] \in (ReaderSteps \cup {"unlock", "done"}),
         pc'[c] = "unlock" => then'[c] \in {"done", "await", "record"},
         pc'[c] \in {"opened", "recorded", "unlock"} => lock' = c,
         pc'[c] \in {"idle", "observe", "reg", "reg.read", "present"} =>
           mem'[c].revision = Unavailable /\ mem'[c].present = "unavailable",
         ReaderIsSo(c)', CheckIsSo(c)', MemoryIsSo(mem[c])'
  PROVE  Arrives(c)
<1>1. pc'[c] \notin UnderSlot \cup {"idle", "select", "archived", "apply", "recompute", "archive", "publish"}
  BY DEF ReaderSteps, Checking, Reporting, UnderSlot
<1>2. SelectionIsSo(c)' /\ CredentialIsSo(c)' /\ ~HoldsSlot(c)'
  BY <1>1 DEF SelectionIsSo, CredentialIsSo, HoldsSlot, UnderSlot
<1>3. pc'[c] \in UnderLock => lock' = c
  BY <1>1 DEF UnderLock, UnderSlot, ReaderSteps, Checking, Reporting
<1>4. ReportIsSo(c)'
  BY DEF ReportIsSo
<1> QED BY <1>2, <1>3, <1>4 DEF Arrives

LEMMA ReadIntentKeeps ==
  ASSUME IInv, NEW c \in Calls, NEW k \in {"check", "report"},
         NEW next \in {"selected", "observe"}, next = "selected" <=> k = "check",
         ReadIntent(c, k, next)
  PROVE  IInv'
<1>1. /\ pc[c] = "idle" /\ kind' = [kind EXCEPT ![c] = k]
      /\ UNCHANGED <<disk, then, want, plan, dead, latest, journal, tested>>
  BY DEF ReadIntent, At, Start
<1>2. mem[c].round = 1 /\ mem[c].revision = Unavailable /\ mem[c].present = "unavailable"
  BY <1>1, ReaderFacts DEF CheckIsSo, ReportIsSo
<1>3. PICK s \in {next, "done"}, m \in Memory :
         /\ Goto(c, s) /\ mem' = [mem EXCEPT ![c] = m]
         /\ m.reg = mem[c].reg /\ m.revision = mem[c].revision /\ m.present = mem[c].present
         /\ m.entry = mem[c].entry /\ m.round = mem[c].round /\ m.verdict = mem[c].verdict
  <2>1. CASE UNCHANGED mem /\ Goto(c, "done")
    <3>1. mem' = [mem EXCEPT ![c] = mem[c]] /\ mem[c] \in Memory
      BY <2>1, ReaderFacts
    <3> QED BY <2>1, <3>1
  <2>2. CASE Learn(c, "intent", intent) /\ Goto(c, next)
    <3> DEFINE m == [mem[c] EXCEPT !.intent = intent]
    <3>1. mem[c] \in Memory /\ intent \in Intent \cup {None}
      BY ReaderFacts DEF ReaderTypeOK, TypeOK
    <3>2. m \in Memory /\ m.reg = mem[c].reg /\ m.revision = mem[c].revision /\ m.present = mem[c].present
          /\ m.entry = mem[c].entry /\ m.round = mem[c].round /\ m.verdict = mem[c].verdict
      BY <3>1, MemoryFields DEF Memory
    <3>3. mem' = [mem EXCEPT ![c] = m]
      BY <2>2 DEF Learn
    <3> HIDE DEF m
    <3> QED BY <2>2, <3>2, <3>3
  <2> QED BY <2>1, <2>2 DEF ReadIntent
<1>4. pc'[c] = s /\ mem'[c] = m /\ kind'[c] = k
  BY <1>1, <1>3, ReaderFacts DEF ReaderTypeOK, TypeOK
<1>5. ReaderTypeOK'
  BY <1>1, <1>3, ReaderFacts
    DEF ReaderTypeOK, TypeOK, disk, Goto, Steps, Afterwards, Reporting, Checking, Kinds
<1>6. Acts(c)
  BY <1>1, <1>3, ReaderFacts DEF Acts, Waits, StoreMoves, ReaderTypeOK, TypeOK, disk, Goto, Over
<1>7. MemoryIsSo(mem[c])'
  <2>1. m.entry # NoObservation => IsSound(m.entry)'
    <3>1. m.entry \in Observation \cup {NoObservation}
      BY DEF Memory
    <3>2. \A o \in Observation : IsSound(o) => IsSound(o)'
      BY <1>6, SoundStays
    <3> QED BY <1>3, <3>1, <3>2, ReaderFacts DEF MemoryIsSo
  <2>2. MemoryIsSo(m)'
    BY <1>1, <1>2, <1>3, <2>1, ReaderFacts DEF MemoryIsSo, IsPast, disk
  <2> QED BY <1>4, <2>2 DEF MemoryIsSo, IsPast, IsSound, Over
<1>8. ReaderIsSo(c)' /\ CheckIsSo(c)'
  BY <1>1, <1>2, <1>3, <1>4, ReaderFacts DEF ReaderIsSo, CheckIsSo, Reporting, Checking
<1>9. Arrives(c)
  BY <1>2, <1>3, <1>4, <1>6, <1>7, <1>8, ReaderArrives DEF ReaderSteps, Reporting, Checking
<1>10. Quietly(c)
  BY <1>1, <1>2, <1>3, <1>4 DEF Quietly, disk
<1> QED BY <1>5, <1>6, <1>9, <1>10, QuietKeeps

LEMMA JournalLockKeeps ==
  ASSUME IInv, NEW c \in Calls, JournalLock(c)
  PROVE  IInv'
<1>1. /\ pc[c] \in {"open", "record"}
      /\ UNCHANGED <<tmps, intent, history, slot, cred, stored, local, dead, latest, journal, mem, tested>>
  BY DEF JournalLock
<1>2. PICK s \in {"opened", "recorded", "done"} :
         /\ Goto(c, s)
         /\ s = "opened" => pc[c] = "open"
         /\ s = "recorded" => pc[c] = "record"
         /\ s # "done" => lock = None /\ lock' = c
         /\ s = "done" => lock' = lock
  BY <1>1 DEF JournalLock
<1>3. pc'[c] = s
  BY <1>2, ReaderFacts
<1>4. ReaderTypeOK'
  <2>1. pc' \in [Calls -> Steps] /\ lock' \in Calls \cup {None}
    BY <1>2, ReaderFacts DEF ReaderTypeOK, TypeOK, Goto, Steps, Checking, Afterwards
  <2> QED BY <1>1, <2>1, ReaderFacts DEF ReaderTypeOK, TypeOK, local
<1>5. Acts(c)
  BY <1>1, <1>2, ReaderFacts DEF Acts, Waits, StoreMoves, ReaderTypeOK, local, Goto, Over
<1>6. ReaderIsSo(c)' /\ CheckIsSo(c)' /\ MemoryIsSo(mem[c])'
  <2>1. MemoryIsSo(mem[c])'
    BY <1>1, <1>5, MemoryKeeps
  <2> QED BY <1>1, <1>2, <1>3, <2>1, ReaderFacts DEF ReaderIsSo, CheckIsSo, local, Reporting, Checking
<1>7. Arrives(c)
  BY <1>2, <1>3, <1>5, <1>6, ReaderArrives DEF ReaderSteps, Checking, Reporting
<1>8. Quietly(c)
  BY <1>1 DEF Quietly, local
<1> QED BY <1>4, <1>5, <1>7, <1>8, QuietKeeps

LEMMA FetchKeeps ==
  ASSUME IInv, NEW c \in Calls, Fetch(c)
  PROVE  IInv'
<1>1. /\ pc[c] = "fetch" /\ mem[c].round = 2 /\ tested' = [tested EXCEPT ![c] = stored]
      /\ mem' = [mem EXCEPT ![c] = NextRound(c)] /\ UNCHANGED <<disk, local, dead, latest, journal>>
  BY ReaderFacts DEF Fetch, At, CheckIsSo
<1>2. PICK n \in Memory :
         /\ mem' = [mem EXCEPT ![c] = n]
         /\ n.reg = mem[c].reg /\ n.revision = mem[c].revision /\ n.present = mem[c].present
         /\ n.entry = mem[c].entry /\ n.round = 3 /\ n.round > 1 /\ n.verdict = mem[c].verdict
  <2> DEFINE r == NextRound(c)
  <2>1. r \in Memory /\ r.reg = mem[c].reg /\ r.revision = mem[c].revision /\ r.present = mem[c].present
        /\ r.entry = mem[c].entry /\ r.round = 3 /\ r.round > 1 /\ r.verdict = mem[c].verdict
    BY <1>1, NextRoundFields
  <2>2. mem' = [mem EXCEPT ![c] = r]
    BY <1>1
  <2> HIDE DEF r
  <2> QED BY <2>1, <2>2
<1>3. PICK s \in {"record", "await"} : Goto(c, s) /\ (s = "await" => stored # None)
  BY DEF Fetch
<1>4. pc'[c] = s /\ mem'[c] = n /\ tested'[c] = stored
  BY <1>1, <1>2, <1>3, ReaderFacts DEF ReaderTypeOK
<1>5. ReaderTypeOK'
  <2>1. pc' \in [Calls -> Steps] /\ tested' \in [Calls -> Calls \cup {None}] /\ mem' \in [Calls -> Memory]
    BY <1>1, <1>2, <1>3, ReaderFacts DEF ReaderTypeOK, TypeOK, Goto, Steps, Checking
  <2> QED BY <1>1, <2>1, ReaderFacts DEF ReaderTypeOK, TypeOK, disk, local
<1>6. Acts(c)
  BY <1>1, <1>2, <1>3, ReaderFacts DEF Acts, Waits, StoreMoves, ReaderTypeOK, disk, local, Goto, Over
<1>7. MemoryIsSo(mem[c])'
  <2>1. n.entry # NoObservation => IsSound(n.entry)'
    <3>1. n.entry \in Observation \cup {NoObservation}
      BY <1>2 DEF Memory
    <3>2. \A o \in Observation : IsSound(o) => IsSound(o)'
      BY <1>6, SoundStays
    <3> QED BY <1>2, <3>1, <3>2, ReaderFacts DEF MemoryIsSo
  <2>2. MemoryIsSo(n)'
    BY <1>1, <1>2, <2>1, ReaderFacts DEF MemoryIsSo, IsPast, disk
  <2> QED BY <1>4, <2>2 DEF MemoryIsSo, IsPast, IsSound, Over
<1>8. ReaderIsSo(c)' /\ CheckIsSo(c)'
  BY <1>1, <1>2, <1>3, <1>4, ReaderFacts DEF ReaderIsSo, CheckIsSo, disk, local, Reporting, Checking
<1>9. Arrives(c)
  BY <1>3, <1>4, <1>6, <1>7, <1>8, ReaderArrives DEF ReaderSteps, Reporting, Checking
<1>10. Quietly(c)
  BY <1>1, <1>2, <1>4 DEF Quietly, disk, local
<1> QED BY <1>5, <1>6, <1>9, <1>10, QuietKeeps

\* The latest observation of an environment is one of the journal's.
LEMMA LatestIsThere ==
  ASSUME ReaderTypeOK, NEW env
  PROVE  \/ LatestObservation(env) = NoObservation
         \/ \E i \in DOMAIN journal : LatestObservation(env) = journal[i]
<1> DEFINE of == {i \in DOMAIN journal : journal[i].env = env}
<1>1. CASE of = {}
  BY <1>1 DEF LatestObservation
<1>2. CASE of # {}
  <2>1. DOMAIN journal = 1 .. Len(journal) /\ Len(journal) \in Nat
    BY DEF ReaderTypeOK
  <2>2. of \in SUBSET Nat /\ IsFiniteSet(of)
    <3>1. IsFiniteSet(1 .. Len(journal))
      BY <2>1, FS_Interval
    <3>2. of \subseteq 1 .. Len(journal)
      BY <2>1
    <3> QED BY <3>1, <3>2, FS_Subset
  <2>3. \E i \in of : \A j \in of : j <= i
    BY <1>2, <2>2, GreatestExists
  <2>4. (CHOOSE i \in of : \A j \in of : j <= i) \in of
    BY <2>3
  <2> QED BY <1>2, <2>4 DEF LatestObservation
<1> QED BY <1>1, <1>2

LEMMA ObserveKeeps ==
  ASSUME IInv, NEW c \in Calls, Observe(c)
  PROVE  IInv'
<1>1. pc[c] = "observe" /\ Quiet
  BY DEF Observe, At
<1>2. PICK s \in {"reg", "reread"} : Goto(c, s)
  BY DEF Observe
<1>3. PICK o : o = LatestObservation(mem[c].intent.env)
  OBVIOUS
<1>4. o \in Observation \cup {NoObservation} /\ (o # NoObservation => IsSound(o))
  BY <1>3, LatestIsThere, Fields, ReaderFacts DEF IInv, JournalIsSo
<1>5. PICK b \in BOOLEAN : b = Readable("journal")
  BY DEF Readable
<1> DEFINE m == [mem[c] EXCEPT !.readable = b, !.entry = o]
<1>6. mem[c] \in Memory /\ mem' = [mem EXCEPT ![c] = m] /\ mem'[c] = m
  BY <1>3, <1>5, ReaderFacts DEF Observe
<1>7. m \in Memory /\ m.reg = mem[c].reg /\ m.revision = mem[c].revision /\ m.present = mem[c].present
      /\ m.entry = o /\ m.round = mem[c].round /\ m.verdict = mem[c].verdict
  BY <1>4, <1>6 DEF Memory
<1> HIDE DEF m
<1>8. MemoryIsSo(m) /\ m.revision = Unavailable /\ m.present = "unavailable"
  BY <1>1, <1>4, <1>7, ReaderFacts DEF MemoryIsSo, ReportIsSo
<1>9. ReaderIsSo(c)' /\ CheckIsSo(c)'
  BY <1>1, <1>2, <1>6, <1>7, ReaderFacts DEF ReaderIsSo, CheckIsSo, Quiet, disk, local, Reporting, Checking
<1>10. s \in (ReaderSteps \cup {"done"}) \ {"opened", "recorded"} /\ pc[c] \in ReaderSteps
  BY <1>1 DEF ReaderSteps, Reporting, Checking
<1> QED BY <1>1, <1>2, <1>6, <1>7, <1>8, <1>9, <1>10, LookKeeps

-----------------------------------------------------------------------------
(* The journal. *)

\* What is retained of a journal is the end of it, within the limit.
LEMMA RetainedIsTheEnd ==
  ASSUME NEW o \in Observation, ReaderTypeOK
  PROVE  /\ Retained(Append(journal, o)) \in Seq(Observation)
         /\ Len(Retained(Append(journal, o))) <= JournalLimit
         /\ \E d \in {0, 1} : \A i \in DOMAIN Retained(Append(journal, o)) :
              /\ i + d \in 1 .. Len(journal) + 1
              /\ Retained(Append(journal, o))[i] = IF i + d = Len(journal) + 1 THEN o ELSE journal[i + d]
<1> DEFINE s == Append(journal, o)
<1>1. journal \in Seq(Observation) /\ Len(journal) \in Nat /\ Len(journal) <= JournalLimit /\ JournalLimit \in Nat
  BY ReportsAssumption DEF ReaderTypeOK
<1>2. /\ s \in Seq(Observation) /\ Len(s) = Len(journal) + 1
      /\ \A i \in 1 .. Len(journal) + 1 : s[i] = IF i = Len(journal) + 1 THEN o ELSE journal[i]
  BY <1>1
<1> HIDE DEF s
<1>3. CASE Len(s) > JournalLimit
  <2>1. Retained(s) = Tail(s)
    BY <1>3 DEF Retained
  <2>2. Tail(s) \in Seq(Observation) /\ Len(Tail(s)) = Len(journal) /\ s # <<>>
    BY <1>1, <1>2
  <2>3. \A i \in 1 .. Len(journal) : Tail(s)[i] = s[i + 1] /\ i + 1 \in 1 .. Len(journal) + 1
    BY <1>1, <1>2, <2>2
  <2>4. DOMAIN Tail(s) = 1 .. Len(journal)
    BY <2>2
  <2>5. \A i \in DOMAIN Tail(s) : i + 1 \in 1 .. Len(journal) + 1
            /\ Tail(s)[i] = IF i + 1 = Len(journal) + 1 THEN o ELSE journal[i + 1]
    BY <1>1, <1>2, <2>3, <2>4
  <2> QED BY <1>1, <2>1, <2>2, <2>5 DEF s
<1>4. CASE ~(Len(s) > JournalLimit)
  <2>1. Retained(s) = s
    BY <1>4 DEF Retained
  <2>2. \A i \in DOMAIN s : i + 0 \in 1 .. Len(journal) + 1 /\ i + 0 = i
    BY <1>1, <1>2
  <2>3. \A i \in DOMAIN s : i + 0 \in 1 .. Len(journal) + 1
            /\ s[i] = IF i + 0 = Len(journal) + 1 THEN o ELSE journal[i + 0]
    BY <1>2, <2>2
  <2>4. Len(s) <= JournalLimit
    BY <1>1, <1>2, <1>4
  <2> QED BY <1>2, <2>1, <2>3, <2>4 DEF s
<1> QED BY <1>3, <1>4

\* A write of the journal that fails.
LEMMA GiveUpKeeps ==
  ASSUME IInv, NEW c \in Calls, pc[c] \in {"opened", "recorded"}, Leave(c, "done"), Spoils("journal"),
         UNCHANGED <<lock, intent, history, slot, cred, stored, kind, want, plan, dead, latest, journal, mem, tested>>
  PROVE  IInv'
<1>1. pc'[c] = "unlock" /\ then'[c] = "done" /\ lock' = c
  BY ReaderFacts DEF Leave, ReaderTypeOK, TypeOK, IInv, StateIsSo, LocksAreHeld, UnderLock
<1>2. ReaderTypeOK'
  BY ReaderFacts DEF ReaderTypeOK, TypeOK, Leave, Goto, Spoils, Files, Steps, UnderLock, Afterwards
<1>3. Acts(c)
  BY ReaderFacts DEF Acts, Waits, StoreMoves, ReaderTypeOK, TypeOK, Leave, Goto, Over
<1>4. ReaderIsSo(c)' /\ CheckIsSo(c)' /\ MemoryIsSo(mem[c])'
  BY <1>1, <1>3, MemoryKeeps, ReaderFacts DEF ReaderIsSo, CheckIsSo, Reporting, Checking
<1>5. Arrives(c)
  BY <1>1, <1>3, <1>4, ReaderArrives
<1>6. Quietly(c)
  BY DEF Quietly
<1> QED BY <1>2, <1>3, <1>5, <1>6, QuietKeeps

LEMMA OpenEntryKeeps ==
  ASSUME IInv, NEW c \in Calls, OpenEntry(c)
  PROVE  IInv'
<1>1. /\ pc[c] = "opened" /\ mem[c].round = 1 /\ kind[c] = "check" /\ lock = c
      /\ mem[c].revision.state = "settled"
      /\ UNCHANGED <<lock, intent, history, slot, cred, stored, kind, want, plan, dead, latest, tested>>
  BY ReaderFacts DEF OpenEntry, At, CheckIsSo, ReaderIsSo, Checking, IInv, StateIsSo, LocksAreHeld, UnderLock
<1>2. mem[c].revision \in Registration /\ mem[c].revision # Unavailable /\ IsPast(mem[c].revision)
  BY <1>1, Fields, ReaderFacts DEF Unavailable, MemoryIsSo
<1>3. CASE /\ "journal" \notin tmps /\ intent # None
           /\ journal' = Retained(Append(journal,
                [NoObservation EXCEPT !.call = c, !.env = intent.env, !.about = mem[c].revision]))
           /\ mem' = [mem EXCEPT ![c] = NextRound(c)]
           /\ UNCHANGED tmps
           /\ Leave(c, IF intent.env = mem[c].intent.env THEN "await" ELSE "record")
  <2>1. PICK o : o = [NoObservation EXCEPT !.call = c, !.env = intent.env, !.about = mem[c].revision]
    OBVIOUS
  <2>2. /\ o \in Observation /\ o.call = c /\ o.about = mem[c].revision
        /\ o.finished = FALSE /\ o.outcome = "unknown"
    <3>1. intent.env \in Envs
      BY <1>3, ReaderFacts DEF ReaderTypeOK, TypeOK, Intent
    <3> QED BY <1>2, <2>1, <3>1 DEF NoObservation, Observation, Outcomes
  <2>3. PICK n \in Memory :
           /\ mem' = [mem EXCEPT ![c] = n]
           /\ n.reg = mem[c].reg /\ n.revision = mem[c].revision /\ n.present = mem[c].present
           /\ n.entry = mem[c].entry /\ n.round = 2 /\ n.round > 1 /\ n.verdict = mem[c].verdict
    <3> DEFINE r == NextRound(c)
    <3>1. r \in Memory /\ r.reg = mem[c].reg /\ r.revision = mem[c].revision /\ r.present = mem[c].present
          /\ r.entry = mem[c].entry /\ r.round = 2 /\ r.round > 1 /\ r.verdict = mem[c].verdict
      BY <1>1, NextRoundFields
    <3>2. mem' = [mem EXCEPT ![c] = r]
      BY <1>3
    <3> HIDE DEF r
    <3> QED BY <3>1, <3>2
  <2>4. PICK t \in {"await", "record"} : Leave(c, t)
    BY <1>3
  <2>5. pc'[c] = "unlock" /\ then'[c] = t /\ mem'[c] = n
    BY <2>3, <2>4, ReaderFacts DEF Leave, ReaderTypeOK, TypeOK
  <2>6. /\ journal' \in Seq(Observation) /\ Len(journal') <= JournalLimit
        /\ \E d \in {0, 1} : \A i \in DOMAIN journal' :
             /\ i + d \in 1 .. Len(journal) + 1
             /\ journal'[i] = IF i + d = Len(journal) + 1 THEN o ELSE journal[i + d]
    <3>1. journal' = Retained(Append(journal, o))
      BY <1>3, <2>1
    <3>2. ReaderTypeOK /\ o \in Observation
      BY <2>2, ReaderFacts
    <3> QED BY <3>1, <3>2, RetainedIsTheEnd
  <2>7. PICK d \in {0, 1} : \A i \in DOMAIN journal' :
             /\ i + d \in 1 .. Len(journal) + 1
             /\ journal'[i] = IF i + d = Len(journal) + 1 THEN o ELSE journal[i + d]
    BY <2>6
  <2>8. /\ DOMAIN journal = 1 .. Len(journal) /\ Len(journal) \in Nat
        /\ DOMAIN journal' = 1 .. Len(journal') /\ Len(journal') \in Nat
    BY <2>6, ReaderFacts DEF ReaderTypeOK
  <2>9. \A i \in DOMAIN journal' : i \in Nat /\ (journal'[i] = o \/ (i + d \in DOMAIN journal /\ journal'[i] = journal[i + d]))
    BY <2>7, <2>8
  <2>10. \A i \in DOMAIN journal : journal[i].call \in Calls \ {c}
    BY <1>1, Fields, ReaderFacts DEF IInv, JournalIsSo, Observation
  <2>11. \A i, j \in DOMAIN journal' : journal'[i].call = journal'[j].call => i = j
    <3> SUFFICES ASSUME NEW i \in DOMAIN journal', NEW j \in DOMAIN journal', journal'[i].call = journal'[j].call
                 PROVE  i = j
      OBVIOUS
    <3>1. i \in Nat /\ j \in Nat /\ i + d \in 1 .. Len(journal) + 1 /\ j + d \in 1 .. Len(journal) + 1
      BY <2>7, <2>9
    <3>2. CASE i + d = Len(journal) + 1 \/ j + d = Len(journal) + 1
      <4>1. i + d = Len(journal) + 1 /\ j + d = Len(journal) + 1
        BY <2>2, <2>7, <2>8, <2>10, <3>1, <3>2
      <4> QED BY <2>8, <3>1, <4>1
    <3>3. CASE i + d # Len(journal) + 1 /\ j + d # Len(journal) + 1
      <4>1. i + d \in DOMAIN journal /\ j + d \in DOMAIN journal
        BY <2>8, <3>1, <3>3
      <4>2. journal[i + d].call = journal[j + d].call
        BY <2>7, <3>3
      <4>3. i + d = j + d
        BY <4>1, <4>2, ReaderFacts DEF ReaderTypeOK
      <4> QED BY <3>1, <4>3
    <3> QED BY <3>2, <3>3
  <2>12. ReaderTypeOK'
    <3>1. pc' \in [Calls -> Steps] /\ then' \in [Calls -> Afterwards] /\ mem' \in [Calls -> Memory]
      BY <2>3, <2>4, ReaderFacts DEF ReaderTypeOK, TypeOK, Leave, Goto, Steps, UnderLock, Afterwards
    <3> QED BY <1>1, <1>3, <2>6, <2>11, <3>1, ReaderFacts DEF ReaderTypeOK, TypeOK
  <2>13. Acts(c)
    BY <1>1, <2>3, <2>4, ReaderFacts DEF Acts, Waits, StoreMoves, ReaderTypeOK, TypeOK, Leave, Goto, Over
  <2>14. MemoryIsSo(mem[c])'
    <3>1. n.entry # NoObservation => IsSound(n.entry)'
      <4>1. n.entry \in Observation \cup {NoObservation}
        BY DEF Memory
      <4>2. \A x \in Observation : IsSound(x) => IsSound(x)'
        BY <2>13, SoundStays
      <4> QED BY <2>3, <4>1, <4>2, ReaderFacts DEF MemoryIsSo
    <3>2. MemoryIsSo(n)'
      BY <1>1, <2>3, <3>1, ReaderFacts DEF MemoryIsSo, IsPast
    <3> QED BY <2>5, <3>2 DEF MemoryIsSo, IsPast, IsSound, Over
  <2>15. ReaderIsSo(c)' /\ CheckIsSo(c)'
    BY <1>1, <2>3, <2>5, ReaderFacts DEF ReaderIsSo, CheckIsSo, Reporting, Checking
  <2>16. Arrives(c)
    BY <1>1, <2>5, <2>13, <2>14, <2>15, ReaderArrives
  <2>17. JournalIsSo'
    <3> SUFFICES ASSUME NEW i \in DOMAIN journal'
                 PROVE  /\ IsSound(journal[i])'
                        /\ (kind[journal[i].call] = "check" /\ mem[journal[i].call].round > 1
                            /\ journal[i].about = mem[journal[i].call].revision)'
      BY DEF JournalIsSo
    <3>1. CASE journal'[i] = o
      <4>1. IsSound(o)'
        BY <1>1, <1>2, <2>2 DEF IsSound, IsPast
      <4>2. IsSound(journal[i])'
        BY <3>1, <4>1 DEF IsSound, IsPast, Over
      <4> QED BY <1>1, <2>2, <2>3, <2>5, <3>1, <4>2
    <3>2. CASE i + d \in DOMAIN journal /\ journal'[i] = journal[i + d]
      <4>1. PICK x \in Observation : x = journal[i + d] /\ x.call \in Calls \ {c}
        BY <2>10, <3>2, Fields, ReaderFacts
      <4>2. /\ IsSound(x) /\ kind[x.call] = "check" /\ mem[x.call].round > 1
            /\ x.about = mem[x.call].revision
        BY <3>2, <4>1 DEF IInv, JournalIsSo
      <4>3. IsSound(x)'
        BY <2>13, <4>2, SoundStays
      <4>4. kind'[x.call] = kind[x.call] /\ mem'[x.call] = mem[x.call]
        BY <2>13, <4>1 DEF Acts, Waits
      <4>5. IsSound(journal[i])'
        BY <3>2, <4>1, <4>3 DEF IsSound, IsPast, Over
      <4> QED BY <3>2, <4>1, <4>2, <4>4, <4>5
    <3> QED BY <2>9, <3>1, <3>2
  <2>18. FilesAreSo' /\ NothingForgotten' /\ SettledNamesTheValue'
    BY <1>1, <2>13, FilesStay, ValueStays
  <2> QED BY <2>12, <2>13, <2>16, <2>17, <2>18, CallKeeps
<1>4. CASE Spoils("journal") /\ UNCHANGED <<journal, mem>> /\ Leave(c, "done")
  BY <1>1, <1>4, GiveUpKeeps
<1> QED BY <1>3, <1>4 DEF OpenEntry

LEMMA RecordVerdictKeeps ==
  ASSUME IInv, NEW c \in Calls, RecordVerdict(c)
  PROVE  IInv'
<1>1. /\ pc[c] = "recorded" /\ mem[c].round > 1 /\ kind[c] = "check" /\ lock = c
      /\ mem[c].verdict # "unknown" => tested[c] = mem[c].revision.by
      /\ Leave(c, "done")
      /\ UNCHANGED <<lock, intent, history, slot, cred, stored, kind, want, plan, dead, latest, mem, tested>>
  BY ReaderFacts DEF RecordVerdict, At, CheckIsSo, ReaderIsSo, Checking, IInv, StateIsSo, LocksAreHeld, UnderLock
<1>2. CASE /\ UNCHANGED tmps
           /\ journal' = [i \in DOMAIN journal |->
                IF journal[i].call = c
                THEN [journal[i] EXCEPT !.finished = TRUE, !.outcome = mem[c].verdict]
                ELSE journal[i]]
  <2>1. PICK v \in Outcomes : v = mem[c].verdict
    BY Fields, ReaderFacts
  <2>2. journal \in Seq(Observation) /\ DOMAIN journal = 1 .. Len(journal) /\ Len(journal) \in Nat
    BY ReaderFacts DEF ReaderTypeOK
  <2>3. \A i \in DOMAIN journal :
           /\ journal[i] \in Observation /\ journal'[i] \in Observation
           /\ journal'[i].call = journal[i].call /\ journal'[i].about = journal[i].about
           /\ journal[i].call # c => journal'[i] = journal[i]
           /\ journal[i].call = c => journal'[i].finished = TRUE /\ journal'[i].outcome = v
    <3> SUFFICES ASSUME NEW i \in DOMAIN journal
                 PROVE  /\ journal[i] \in Observation /\ journal'[i] \in Observation
                        /\ journal'[i].call = journal[i].call /\ journal'[i].about = journal[i].about
                        /\ journal[i].call # c => journal'[i] = journal[i]
                        /\ journal[i].call = c => journal'[i].finished = TRUE /\ journal'[i].outcome = v
      OBVIOUS
    <3>1. PICK x \in Observation : x = journal[i]
      BY Fields, ReaderFacts
    <3>2. journal'[i] = IF x.call = c THEN [x EXCEPT !.finished = TRUE, !.outcome = v] ELSE x
      BY <1>2, <2>1, <3>1
    <3>3. /\ [x EXCEPT !.finished = TRUE, !.outcome = v] \in Observation
          /\ [x EXCEPT !.finished = TRUE, !.outcome = v].call = x.call
          /\ [x EXCEPT !.finished = TRUE, !.outcome = v].about = x.about
          /\ [x EXCEPT !.finished = TRUE, !.outcome = v].finished = TRUE
          /\ [x EXCEPT !.finished = TRUE, !.outcome = v].outcome = v
      BY DEF Observation
    <3> QED BY <3>1, <3>2, <3>3
  <2>4. DOMAIN journal' = 1 .. Len(journal)
    BY <1>2, <2>2
  <2>5. journal' \in [1 .. Len(journal) -> Observation]
    BY <1>2, <2>2, <2>3, <2>4
  <2>6. journal' \in Seq(Observation) /\ Len(journal') = Len(journal)
    BY <2>2, <2>5
  <2>7. pc'[c] = "unlock" /\ then'[c] = "done"
    BY <1>1, ReaderFacts DEF Leave, ReaderTypeOK, TypeOK
  <2>8. ReaderTypeOK'
    <3>1. pc' \in [Calls -> Steps] /\ then' \in [Calls -> Afterwards]
      BY <1>1, ReaderFacts DEF ReaderTypeOK, TypeOK, Leave, Goto, Steps, UnderLock, Afterwards
    <3>2. \A i, j \in DOMAIN journal' : journal'[i].call = journal'[j].call => i = j
      BY <2>2, <2>3, <2>4, ReaderFacts DEF ReaderTypeOK
    <3> QED BY <1>1, <1>2, <2>6, <3>1, <3>2, ReaderFacts DEF ReaderTypeOK, TypeOK
  <2>9. Acts(c)
    BY <1>1, ReaderFacts DEF Acts, Waits, StoreMoves, ReaderTypeOK, TypeOK, Leave, Goto, Over
  <2>10. ReaderIsSo(c)' /\ CheckIsSo(c)' /\ MemoryIsSo(mem[c])'
    BY <1>1, <2>7, <2>9, MemoryKeeps, ReaderFacts DEF ReaderIsSo, CheckIsSo, Reporting, Checking
  <2>11. Arrives(c)
    BY <1>1, <2>7, <2>9, <2>10, ReaderArrives
  <2>12. JournalIsSo'
    <3> SUFFICES ASSUME NEW i \in DOMAIN journal
                 PROVE  /\ IsSound(journal[i])'
                        /\ (kind[journal[i].call] = "check" /\ mem[journal[i].call].round > 1
                            /\ journal[i].about = mem[journal[i].call].revision)'
      BY <2>2, <2>4 DEF JournalIsSo
    <3>1. PICK x \in Observation : x = journal[i]
      BY <2>3
    <3>2. PICK y \in Observation : y = journal'[i]
      BY <2>3
    <3>3. /\ IsSound(x) /\ kind[x.call] = "check" /\ mem[x.call].round > 1
          /\ x.about = mem[x.call].revision
      BY <3>1 DEF IInv, JournalIsSo
    <3>4. IsSound(x)'
      BY <2>9, <3>3, SoundStays
    <3>5. y.call = x.call /\ y.about = x.about
      BY <2>3, <3>1, <3>2
    <3>6. IsSound(y)'
      <4>1. CASE x.call # c
        BY <2>3, <3>1, <3>2, <3>4, <4>1
      <4>2. CASE x.call = c
        <5>1. y.finished = TRUE /\ y.outcome = v
          BY <2>3, <3>1, <3>2, <4>2
        <5>2. v # "unknown" => tested'[c] = y.about.by
          BY <1>1, <2>1, <3>3, <3>5, <4>2
        <5> QED BY <2>7, <3>4, <3>5, <4>2, <5>1, <5>2 DEF IsSound, Over, IsPast
      <4> QED BY <4>1, <4>2
    <3>7. IsSound(journal[i])'
      BY <3>2, <3>6 DEF IsSound, IsPast, Over
    <3> QED BY <1>1, <3>2, <3>3, <3>5, <3>7
  <2>13. FilesAreSo' /\ NothingForgotten' /\ SettledNamesTheValue'
    BY <1>1, <2>9, FilesStay, ValueStays
  <2> QED BY <2>8, <2>9, <2>11, <2>12, <2>13, CallKeeps
<1>3. CASE Spoils("journal") /\ UNCHANGED journal
  BY <1>1, <1>3, GiveUpKeeps
<1> QED BY <1>2, <1>3 DEF RecordVerdict

-----------------------------------------------------------------------------
(* The theorems. *)

LEMMA InitIInv ==
  RInit => IInv
<1> SUFFICES ASSUME RInit PROVE IInv
  OBVIOUS
<1>1. NoMemory \in Memory
  BY DEF NoMemory, Memory, Outcomes
<1>2. ReaderTypeOK
  <2>1. TypeOK
    BY DEF RInit, Init, TypeOK, Files, Archive, Kinds, Afterwards, NoPlan, Shown
  <2>2. <<>> \in Seq(Observation) /\ Len(<<>>) = 0 /\ DOMAIN <<>> = {}
    OBVIOUS
  <2>3. pc \in [Calls -> Steps]
    BY DEF RInit, Init, Steps
  <2>4. Len(journal) <= JournalLimit
    BY <2>2, ReportsAssumption DEF RInit
  <2> QED BY <1>1, <2>1, <2>2, <2>3, <2>4 DEF RInit, ReaderTypeOK
<1>3. StateIsSo
  BY ConnectionAssumption DEF RInit, Init, StateIsSo, LocksAreHeld, HoldsSlot, UnderSlot, UnderLock, FilesAreSo,
       NothingForgotten, SettledNamesTheValue, Unregistered, SelectionIsSo, CredentialIsSo
<1>4. JournalIsSo
  BY DEF RInit, JournalIsSo
<1>5. \A c \in Calls : ReaderIsSo(c) /\ CheckIsSo(c)
  BY DEF RInit, Init, ReaderIsSo, CheckIsSo, Reporting, Checking, NoMemory
<1>6. MemoryIsSo(NoMemory)
  BY DEF MemoryIsSo, NoMemory
<1>7. \A c \in Calls : ReportIsSo(c)
  BY <1>6 DEF RInit, ReportIsSo, NoMemory
<1> QED BY <1>2, <1>3, <1>4, <1>5, <1>7 DEF IInv

LEMMA StutterKeeps ==
  IInv /\ UNCHANGED vars => IInv'
BY DEF IInv, vars, state, disk, local, ReaderTypeOK, TypeOK, StateIsSo, LocksAreHeld, HoldsSlot, FilesAreSo,
       NothingForgotten, SettledNamesTheValue, Value, SelectionIsSo, CredentialIsSo, JournalIsSo, IsSound, IsPast, Over,
       ReaderIsSo, CheckIsSo, ReportIsSo, MemoryIsSo

LEMMA CommandsKeep ==
  ASSUME IInv, NEW c \in Calls, Step(c), UNCHANGED <<journal, mem, tested>>
  PROVE  IInv'
<1>1. CASE SelectionStep(c)
  BY <1>1, SelectKeeps, PlanKeeps, PlanArchivedKeeps, RecomputeKeeps, ArchiveActiveKeeps, PublishKeeps
    DEF SelectionStep
<1>2. CASE CredentialStep(c)
  BY <1>2, CredentialKeeps, TakeSlotKeeps, InvalidateKeeps, AskKeeps, HelperStoresKeeps, HearStoredKeeps,
     DeclineKeeps, DeleteKeeps, SettleKeeps, ReleaseSlotKeeps DEF CredentialStep
<1> QED BY <1>1, <1>2, TakeLockKeeps, NoLockKeeps, UnlockKeeps, CrashKeeps DEF Step

LEMMA ReadersKeep ==
  ASSUME IInv, NEW c \in Calls, ReaderStep(c)
  PROVE  IInv'
<1>1. CASE Check(c) \/ Report(c)
  BY <1>1, ReadIntentKeeps DEF Check, Report
<1> QED BY <1>1, LookAtSlotKeeps, ReadRevisionKeeps, CheckSelectedKeeps, AwaitPresenceKeeps, CheckSelectionKeeps,
           CheckRevisionKeeps, JournalLockKeeps, OpenEntryKeeps, FetchKeeps, ProbeKeeps, RecordVerdictKeeps,
           ObserveKeeps, ReadRegistrationKeeps, ReadPresenceKeeps, AgreeKeeps, ReadRegistrationAgainKeeps,
           ReadIntentAgainKeeps DEF ReaderStep

LEMMA NextKeeps ==
  IInv /\ [RNext]_vars => IInv'
BY CommandsKeep, ReadersKeep, StutterKeeps DEF RNext

\* The invariant: locks are held by whom the step says, the files hold what was
\* selected last, the record stands for the store, and what a reader remembers
\* was so and is so for as long as its revision is the present one.
THEOREM ConnectionInvariant == RSpec => []IInv
BY InitIInv, NextKeeps, PTL DEF RSpec

\* What was last selected for an environment can be returned to, whichever write
\* failed and whichever command died.
THEOREM SelectionsAreKept == RSpec => []NothingForgotten
<1>1. IInv => NothingForgotten
  BY DEF IInv, StateIsSo
<1> QED BY <1>1, ConnectionInvariant, PTL

\* A settled registration stands for what the operating system stores.
THEOREM RegistrationsStandForTheStore == RSpec => []SettledNamesTheValue
<1>1. IInv => SettledNamesTheValue
  BY DEF IInv, StateIsSo
<1> QED BY <1>1, ConnectionInvariant, PTL

\* The journal says of a registration only what the provider said of the value
\* it stands for.
THEOREM ObservationsAreHonest == RSpec => []ChecksAreHonest
<1>1. IInv => ChecksAreHonest
  BY DEF IInv, JournalIsSo, IsSound, ChecksAreHonest
<1> QED BY <1>1, ConnectionInvariant, PTL

-----------------------------------------------------------------------------
\* Only a publication changes the active intent.
LEMMA IntentIsPublished ==
  ASSUME [RNext]_vars, intent' # intent
  PROVE  \E q \in Calls, now \in Clock : Publish(q, now)
<1>1. ASSUME NEW q \in Calls, Step(q) PROVE \E now \in Clock : Publish(q, now)
  <2>1. ~(TakeLock(q) \/ NoLock(q) \/ Unlock(q) \/ Crash(q))
    BY DEF TakeLock, NoLock, Unlock, Crash, disk
  <2>2. ~CredentialStep(q)
    BY DEF CredentialStep, Credential, TakeSlot, Ask, HelperStores, HearStored, Invalidate, Decline, Delete,
           Settle, ReleaseSlot, disk
  <2>3. SelectionStep(q) => \E now \in Clock : Publish(q, now)
    BY DEF SelectionStep, Select, Plan, PlanArchived, Recompute, ArchiveActive, disk
  <2> QED BY <1>1, <2>1, <2>2, <2>3 DEF Step
<1>2. ASSUME NEW q \in Calls PROVE ~ReaderStep(q)
  <2>1. ~Quiet
    BY DEF Quiet, disk
  <2> QED BY <2>1 DEF ReaderStep, LookAtSlot, ReadRevision, Check, Report, ReadIntent, CheckSelected, AwaitPresence,
        CheckSelection, CheckRevision, JournalLock, OpenEntry, Fetch, Probe, RecordVerdict, Observe,
        ReadRegistration, ReadPresence, Agree, ReadRegistrationAgain, ReadIntentAgain, disk
<1>3. ~UNCHANGED vars
  BY DEF vars, state, disk
<1> QED BY <1>1, <1>2, <1>3 DEF RNext

\* A resume publishes what was shown, and only as the last selection that was
\* made for its environment: whoever publishes holds the lock under which it
\* planned again.
THEOREM ResumesPublishWhatWasShown == RSpec => ResumeIsAsReviewed
<1> DEFINE Reviewed == \A c \in Calls : pc[c] = "publish" /\ kind[c] = "resume" /\ intent' # intent =>
             SameSelection(plan[c].selected, intent') /\ plan[c].selected = latest[intent'.env]
<1>1. IInv /\ [RNext]_vars => [Reviewed]_state
  <2> SUFFICES ASSUME IInv, [RNext]_vars, NEW c \in Calls,
                      pc[c] = "publish", kind[c] = "resume", intent' # intent
               PROVE  SameSelection(plan[c].selected, intent') /\ plan[c].selected = latest[intent'.env]
    OBVIOUS
  <2>1. PICK q \in Calls, now \in Clock : Publish(q, now)
    BY IntentIsPublished
  <2>2. q = c
    BY <2>1 DEF Publish, At, IInv, StateIsSo, LocksAreHeld, UnderLock
  <2>3. intent'.env = want[c].env /\ intent'.route = want[c].route
    BY <2>1, <2>2 DEF Publish
  <2>4. plan[c].selected # None /\ want[c] = plan[c].selected /\ latest[want[c].env] = want[c]
    BY DEF IInv, StateIsSo, SelectionIsSo
  <2>5. intent' # None
    BY <2>1, <2>2, PublicationIsAnIntent DEF Publish
  <2> QED BY <2>3, <2>4, <2>5 DEF SameSelection
<1>2. [][Reviewed]_state => ResumeIsAsReviewed
  BY DEF ResumeIsAsReviewed
<1> QED BY <1>1, <1>2, ConnectionInvariant, PTL DEF RSpec

\* Only its second reading of the registration takes a report from there.
LEMMA AgainIsRead ==
  ASSUME IInv, [RNext]_vars, NEW c \in Calls, pc[c] = "again.read", pc'[c] # pc[c]
  PROVE  ReadRegistrationAgain(c)
<1>0. \A q, s : Goto(q, s) => q = c
  BY DEF Goto, IInv, ReaderTypeOK
<1>1. ASSUME NEW q \in Calls PROVE ~Step(q)
  <2>1. ~(TakeLock(q) \/ NoLock(q) \/ Unlock(q) \/ Crash(q))
    BY <1>0 DEF TakeLock, NoLock, Unlock, Crash, At, Leave, Inside
  <2>2. ~CredentialStep(q)
    BY <1>0 DEF CredentialStep, Credential, TakeSlot, Ask, HelperStores, HearStored, Invalidate, Decline, Delete,
           Settle, ReleaseSlot, At, Leave
  <2>3. ~SelectionStep(q)
    BY <1>0 DEF SelectionStep, Select, Plan, PlanArchived, Recompute, ArchiveActive, Publish, At, Leave
  <2> QED BY <2>1, <2>2, <2>3 DEF Step
<1>2. ASSUME NEW q \in Calls, ReaderStep(q) PROVE ReadRegistrationAgain(c)
  BY <1>0, <1>2 DEF ReaderStep, LookAtSlot, SlotThen, ReadRevision, Check, Report, ReadIntent, CheckSelected,
        AwaitPresence, CheckSelection, CheckRevision, Stop, JournalLock, OpenEntry, Fetch, Probe, RecordVerdict, Observe,
        ReadRegistration, ReadPresence, Agree, ReadRegistrationAgain, ReadIntentAgain, At, Leave
<1>3. ~UNCHANGED vars
  BY DEF vars, state
<1> QED BY <1>1, <1>2, <1>3 DEF RNext

\* When a report has read everything again, its presence is the store's, and a
\* credential it calls validated is the value the provider accepted: a record
\* that has the revision that was read is the one that was read, so nothing
\* was stored since.
THEOREM ReportsTellTheTruth == RSpec => ReportsAreTrue
<1> DEFINE Truthful == \A c \in Calls : ReportIsTrue(c)
<1>1. IInv /\ [RNext]_vars => [Truthful]_vars
  <2> SUFFICES ASSUME IInv, [RNext]_vars, NEW c \in Calls,
                      pc[c] = "again.read", pc'[c] # pc[c], mem'[c].present # "unavailable"
               PROVE  /\ (mem'[c].present = "registered") <=> (stored # None)
                      /\ ProviderStatus(mem'[c]) = "passed" => tested[mem'[c].entry.call] = stored
                      /\ Stage(mem'[c]) = "acquire-credential" => stored = None
    BY DEF ReportIsTrue
  <2>1. ReadRegistrationAgain(c)
    BY AgainIsRead
  <2>2. PICK m \in Memory :
           /\ mem'[c] = m /\ MemoryIsSo(m) /\ cred = m.reg /\ m.present # "unavailable"
    <3> DEFINE v == IF cred = mem[c].reg THEN mem[c].present ELSE "unavailable"
               r == [mem[c] EXCEPT !.present = v]
    <3>1. mem'[c] = r
      BY <2>1, ReaderFacts DEF ReadRegistrationAgain, Learn
    <3>2. mem[c] \in Memory /\ r.present = v
      BY ReaderFacts DEF Memory
    <3>3. cred = mem[c].reg /\ v = mem[c].present
      BY <3>1, <3>2
    <3>4. r = mem[c]
      BY <3>2, <3>3 DEF Memory
    <3> HIDE DEF r, v
    <3> QED BY <3>1, <3>2, <3>3, <3>4, ReaderFacts
  <2>3. (m.present = "registered") <=> (stored # None)
    BY <2>2 DEF MemoryIsSo
  <2>4. ASSUME ProviderStatus(m) = "passed" PROVE tested[m.entry.call] = stored
    <3>1. /\ m.present = "registered" /\ m.revision # Unavailable /\ m.entry # NoObservation
          /\ m.entry.about.rev = m.revision.rev /\ m.entry.outcome = "valid"
      BY <2>4, <2>2 DEF ProviderStatus, Memory, Observation, Outcomes
    <3>2. m.reg # Unavailable
      BY <2>2 DEF MemoryIsSo, Unavailable
    <3>3. /\ m.revision.state = "settled" /\ IsPast(m.revision) /\ m.reg.rev <= m.revision.rev
          /\ IsSound(m.entry)
      BY <2>2, <3>1, <3>2 DEF MemoryIsSo
    <3>4. m.revision.rev = cred.rev
      <4>1. m.revision.rev \in Nat /\ cred.rev \in Nat
        BY <2>2, <3>1, Fields, ReaderFacts DEF Memory, Registration, Revision
      <4> QED BY <2>2, <3>3, <4>1 DEF IsPast
    <3>5. m.entry.about = cred /\ cred.state = "settled"
      BY <3>1, <3>3, <3>4 DEF IsSound, IsPast
    <3>6. stored = Value(cred) /\ stored # None
      BY <2>3, <3>1, <3>5 DEF IInv, StateIsSo, SettledNamesTheValue
    <3>7. stored = cred.by
      BY <3>6 DEF Value
    <3> QED BY <3>1, <3>3, <3>5, <3>7 DEF IsSound
  <2>5. ASSUME Stage(m) = "acquire-credential" PROVE stored = None
    <3>1. m.present = "missing"
      BY <2>2, <2>5 DEF Stage, Memory
    <3> QED BY <2>3, <3>1
  <2> QED BY <2>2, <2>3, <2>4, <2>5
<1>2. [][Truthful]_vars => ReportsAreTrue
  BY DEF ReportsAreTrue
<1> QED BY <1>1, <1>2, ConnectionInvariant, PTL DEF RSpec
=============================================================================
