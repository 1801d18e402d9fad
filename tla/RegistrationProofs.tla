-------------------------- MODULE RegistrationProofs --------------------------
(***************************************************************************)
(* What registration promises, for any number of processes, operations,    *)
(* labels and revisions of the catalog.                                    *)
(*                                                                         *)
(* The invariant IInv of Registration joins what a call holds to where it  *)
(* is, and every catalog that some call has read to the catalog as it is:  *)
(* revisions never return, so a catalog at the revision an operation       *)
(* expects is the one the operation was prepared on.                       *)
(***************************************************************************)
EXTENDS Registration, FiniteSetTheorems, TLAPS

\* A call that a step leaves alone; at most it learns that it holds an old record.
Waits(q) ==
  /\ pc'[q] = pc[q] /\ req'[q] = req[q] /\ names'[q] = names[q] /\ snap'[q] = snap[q]
  /\ held'[q].op = held[q].op /\ held'[q].state = held[q].state
  /\ held'[q].fresh => held[q].fresh /\ ops'[held[q].op].state = ops[held[q].op].state
  /\ pc[q] \in {"ask", "cancel"} => helper'[held[q].op] = helper[held[q].op]

\* A call that a step moves; it asks only about an operation it just recorded.
Moves(q) ==
  /\ Holds(q)' /\ MayPrepare(q)' /\ StagedIsSo(q)' /\ OpensHelper(q)'
  /\ pc'[q] = "ask" => ops[held'[q].op] = None
  /\ snap'[q] \in {snap[q], catalog', NoCatalog}

\* What the records in O and the published generations in P say of a catalog.
TitlesIn(O, cat) == {O[cat.active[c]].label.title : c \in {d \in Creds : cat.active[d] # None}}

BasedIn(O, o, cat) ==
  O[o] # None /\ cat.revision = O[o].expected =>
    /\ cat.active[O[o].cred] = O[o].previous
    /\ O[o].previous = None => O[o].label.title \notin TitlesIn(O, cat)

GenuineIn(O, P, cat) ==
  /\ cat.revision = -1 => cat = NoCatalog
  /\ \A o \in Ops : BasedIn(O, o, cat)
  /\ \A c \in Ops : cat.active[c] # None => cat.active[c] \in P /\ O[cat.active[c]].cred = c

AllowedIn(O, r, cat) ==
  /\ cat.revision >= 0
  /\ IF r.replace = None THEN r.label.title \notin TitlesIn(O, cat) ELSE cat.active[r.replace] # None

\* Records keep everything but their state, and nothing is unpublished.
RecordsStay ==
  /\ \A o \in Ops : ops[o] # None =>
       /\ ops'[o] # None
       /\ ops'[o].cred = ops[o].cred /\ ops'[o].label = ops[o].label
       /\ ops'[o].previous = ops[o].previous /\ ops'[o].expected = ops[o].expected
  /\ published \subseteq published' /\ slots \subseteq slots'

\* The catalog is left alone or replaced by the next one.
CatalogGrows ==
  \/ catalog' = catalog
  \/ catalog'.revision = catalog.revision + 1 /\ Genuine(catalog)'

-----------------------------------------------------------------------------
\* The fields of an operation that is recorded, of a request and of what a
\* process holds.
LEMMA Fields ==
  ASSUME TypeOK
  PROVE  /\ \A o \in Ops : ops[o] # None =>
              /\ ops[o] \in Operation
              /\ ops[o].cred \in Ops /\ ops[o].label \in Labels /\ ops[o].previous \in Ops \cup {None}
              /\ ops[o].expected \in Nat /\ ops[o].state \in States
         /\ \A p \in Procs :
              /\ held[p].op \in Ops \cup {None} /\ held[p].state \in States \cup {"none"}
              /\ held[p].fresh \in BOOLEAN
              /\ req[p].replace \in Ops \cup {None} /\ req[p].label \in Labels \cup {None}
              /\ snap[p] \in Catalogs /\ names[p] \subseteq Ops
<1>1. \A o \in Ops : ops[o] # None =>
              /\ ops[o] \in Operation
              /\ ops[o].cred \in Ops /\ ops[o].label \in Labels /\ ops[o].previous \in Ops \cup {None}
              /\ ops[o].expected \in Nat /\ ops[o].state \in States
  BY RegistrationAssumption DEF TypeOK, Operation, Creds
<1>2. \A p \in Procs :
              /\ held[p].op \in Ops \cup {None} /\ held[p].state \in States \cup {"none"}
              /\ held[p].fresh \in BOOLEAN
              /\ snap[p] \in Catalogs /\ names[p] \subseteq Ops
  BY DEF TypeOK
<1>3. ASSUME NEW p \in Procs
      PROVE  req[p].replace \in Ops \cup {None} /\ req[p].label \in Labels \cup {None}
  <2>1. req[p] \in Requests \cup {NoRequest}
    BY DEF TypeOK
  <2> QED BY <2>1 DEF Requests, NoRequest, Creds
<1> QED BY <1>1, <1>2, <1>3

\* The revision and the entries of a catalog.
LEMMA CatalogFields ==
  ASSUME NEW cat \in Catalogs
  PROVE  /\ cat.revision \in Int /\ cat.revision >= -1
         /\ \A c \in Ops : cat.active[c] \in Ops \cup {None}
         /\ cat.active \in [Ops -> Ops \cup {None}]
BY RegistrationAssumption DEF Catalogs, Creds

\* No catalog at all is a catalog that names nothing.
LEMMA Nothing == NoCatalog \in Catalogs /\ NoCatalog.revision = -1 /\ \A c \in Ops : NoCatalog.active[c] = None
BY RegistrationAssumption DEF NoCatalog, Catalogs, Creds

LEMMA NothingIsGenuine == ASSUME TypeOK PROVE Genuine(NoCatalog)
<1>1. \A o \in Ops : ops[o] # None => ops[o].expected # -1
  BY Fields
<1> QED BY <1>1, Nothing DEF Genuine, BasedOn, Creds

\* Initially nothing is recorded and nobody calls.
LEMMA InitIInv == Init => IInv
<1> SUFFICES ASSUME Init PROVE IInv
  OBVIOUS
<1>1. /\ NoHold \in [op : Ops \cup {None}, state : States \cup {"none"}, fresh : BOOLEAN]
      /\ NoHold.op = None /\ NoHold.state = "none" /\ NoHold.fresh = FALSE
  BY DEF NoHold
<1>2. TypeOK
  BY <1>1, Nothing DEF Init, TypeOK, Steps
<1>3. Genuine(NoCatalog)
  BY <1>2, NothingIsGenuine
<1>4. ASSUME NEW p \in Procs
      PROVE  /\ Holds(p) /\ MayPrepare(p) /\ OpensHelper(p) /\ StagedIsSo(p)
             /\ Genuine(snap[p]) /\ IsPast(snap[p])
  <2>1. pc[p] = "idle" /\ held[p] = NoHold /\ req[p] = NoRequest /\ names[p] = {} /\ snap[p] = NoCatalog
    BY DEF Init
  <2>2. Holds(p)
    BY <1>1, <2>1 DEF Holds, Searching, Requesting, NoRequest
  <2>3. IsPast(snap[p])
    BY <2>1, Nothing DEF IsPast, Init
  <2> QED BY <1>3, <2>1, <2>2, <2>3 DEF MayPrepare, OpensHelper, StagedIsSo
<1>5. PairsAgree
  BY DEF Init, PairsAgree, OnlyOneAsks
<1>6. RecordsAreSo
  BY <1>3 DEF Init, RecordsAreSo, NamesCredential, HelperIsRecorded, ToldIsRecorded
<1>7. NoSecretIsForgotten /\ CatalogIsBacked
  BY Nothing, RegistrationAssumption DEF Init, NoSecretIsForgotten, CatalogIsBacked, Creds
<1> QED BY <1>2, <1>4, <1>5, <1>6, <1>7 DEF IInv, CallsAreSo

-----------------------------------------------------------------------------
\* The parts of the invariant that look at a catalog, before and after a step.
LEMMA Readings ==
  /\ Genuine(catalog) <=> GenuineIn(ops, published, catalog)
  /\ Genuine(catalog)' <=> GenuineIn(ops', published', catalog')
  /\ \A p \in Procs :
       /\ Genuine(snap[p]) <=> GenuineIn(ops, published, snap[p])
       /\ Genuine(snap[p])' <=> GenuineIn(ops', published', snap'[p])
       /\ MayPrepare(p) <=> (pc[p] \in {"check", "prepare"} => AllowedIn(ops, req[p], snap[p]))
       /\ MayPrepare(p)' <=> (pc'[p] \in {"check", "prepare"} => AllowedIn(ops', req'[p], snap'[p]))
<1>1. \A cat : TitlesOf(cat) = TitlesIn(ops, cat)
  BY DEF TitlesOf, TitlesIn
<1>2. \A p \in Procs : TitlesOf(snap[p])' = TitlesIn(ops', snap'[p])
  BY DEF TitlesOf, TitlesIn
<1>3. TitlesOf(catalog)' = TitlesIn(ops', catalog')
  BY DEF TitlesOf, TitlesIn
<1>4. \A p \in Procs :
       /\ MayPrepare(p) <=> (pc[p] \in {"check", "prepare"} => AllowedIn(ops, req[p], snap[p]))
       /\ MayPrepare(p)' <=> (pc'[p] \in {"check", "prepare"} => AllowedIn(ops', req'[p], snap'[p]))
  BY <1>1, <1>2 DEF MayPrepare, AllowedIn
<1>5. /\ Genuine(catalog) <=> GenuineIn(ops, published, catalog)
      /\ \A p \in Procs : Genuine(snap[p]) <=> GenuineIn(ops, published, snap[p])
  BY <1>1 DEF Genuine, GenuineIn, BasedOn, BasedIn, Creds
<1>6. Genuine(catalog)' <=> GenuineIn(ops', published', catalog')
  BY <1>3 DEF Genuine, GenuineIn, BasedOn, BasedIn, Creds
<1>7. \A p \in Procs : Genuine(snap[p])' <=> GenuineIn(ops', published', snap'[p])
  BY <1>2 DEF Genuine, GenuineIn, BasedOn, BasedIn, Creds
<1> QED BY <1>4, <1>5, <1>6, <1>7

\* The labels a catalog names, and what it says of the operations recorded so
\* far, stay as they are while records keep everything but their state.
LEMMA CatalogStays ==
  ASSUME TypeOK, CatalogIsBacked, RecordsStay, NEW cat \in Catalogs, GenuineIn(ops, published, cat)
  PROVE  /\ TitlesIn(ops', cat) = TitlesIn(ops, cat)
         /\ \A o \in Ops : ops[o] # None => BasedIn(ops', o, cat)
         /\ \A c \in Ops : cat.active[c] # None =>
              cat.active[c] \in published' /\ ops'[cat.active[c]].cred = c
<1>1. \A c \in Ops : cat.active[c] # None =>
        /\ cat.active[c] \in published /\ ops[cat.active[c]] # None
        /\ ops'[cat.active[c]].cred = c
        /\ ops'[cat.active[c]].label = ops[cat.active[c]].label
  BY CatalogFields DEF GenuineIn, CatalogIsBacked, RecordsStay
<1>2. TitlesIn(ops', cat) = TitlesIn(ops, cat)
  BY <1>1 DEF TitlesIn, Creds
<1>3. ASSUME NEW o \in Ops, ops[o] # None PROVE BasedIn(ops', o, cat)
  BY <1>2, <1>3 DEF GenuineIn, BasedIn, RecordsStay
<1> QED BY <1>1, <1>2, <1>3 DEF RecordsStay

\* What the records say of a catalog that is or was, once an operation recorded
\* by the step agrees with it.
LEMMA GenuineStays ==
  ASSUME TypeOK, CatalogIsBacked, RecordsStay, NEW cat \in Catalogs, GenuineIn(ops, published, cat),
         \A o \in Ops : ops[o] = None => BasedIn(ops', o, cat)
  PROVE  GenuineIn(ops', published', cat)
BY CatalogStays DEF GenuineIn

\* The catalogs that calls have read remain earlier ones.
LEMMA PastsStay ==
  ASSUME TypeOK, TypeOK', CallsAreSo, PairsAgree, Genuine(catalog), CatalogGrows,
         \A q \in Procs : snap'[q] \in {snap[q], catalog', NoCatalog}
  PROVE  \A p, q \in Procs :
           IsPast(snap[p])' /\ (snap'[p].revision = snap'[q].revision => snap'[p] = snap'[q])
<1>1. /\ catalog.revision \in Int /\ catalog'.revision \in Int /\ catalog.revision >= -1
      /\ catalog.revision = -1 => catalog = NoCatalog
  BY CatalogFields DEF TypeOK, Genuine, Catalogs
<1>2. \A p \in Procs :
        /\ snap[p].revision \in Int /\ snap[p].revision <= catalog.revision
        /\ snap[p].revision = catalog.revision => snap[p] = catalog
        /\ snap[p].revision = -1 => snap[p] = NoCatalog
  BY Fields, CatalogFields DEF CallsAreSo, IsPast, Genuine
<1>3. \A p, q \in Procs : snap[p].revision = snap[q].revision => snap[p] = snap[q]
  BY DEF PairsAgree
<1>4. \/ catalog' = catalog
      \/ catalog'.revision = catalog.revision + 1
  BY DEF CatalogGrows
<1>5. \A p \in Procs : IsPast(snap[p])'
  BY <1>1, <1>2, <1>4, Nothing DEF IsPast
<1>6. ASSUME NEW p \in Procs, NEW q \in Procs, snap'[p].revision = snap'[q].revision
      PROVE  snap'[p] = snap'[q]
  BY <1>1, <1>2, <1>3, <1>4, <1>6, Nothing
<1> QED BY <1>5, <1>6

\* A call that a step leaves alone keeps what is known of it.
LEMMA WaitsKeeps ==
  ASSUME IInv, RecordsStay, NEW q \in Procs, Waits(q)
  PROVE  Holds(q)' /\ MayPrepare(q)' /\ StagedIsSo(q)' /\ OpensHelper(q)'
<1>1. /\ TypeOK /\ Holds(q) /\ MayPrepare(q) /\ StagedIsSo(q) /\ OpensHelper(q) /\ Genuine(snap[q])
      /\ CatalogIsBacked
  BY DEF IInv, CallsAreSo
<1>2. /\ held[q].op \in Ops \cup {None} /\ names[q] \subseteq Ops /\ snap[q] \in Catalogs
      /\ req[q].replace \in Ops \cup {None}
  BY <1>1, Fields
<1>3. Holds(q)'
  BY <1>1, <1>2 DEF Holds, Waits, RecordsStay
<1>4. TitlesIn(ops', snap[q]) = TitlesIn(ops, snap[q])
  BY <1>1, <1>2, Readings, CatalogStays
<1>5. MayPrepare(q)'
  BY <1>1, <1>4, Readings DEF AllowedIn, Waits
<1>6. pc[q] \in {"stored-uncommitted", "commit", "conflict", "committed", "close"} =>
        held[q].op \in Ops /\ ops[held[q].op] # None
  BY <1>1, <1>2 DEF Holds, Searching
<1>7. StagedIsSo(q)'
  BY <1>1, <1>6 DEF StagedIsSo, Waits, RecordsStay
<1>8. OpensHelper(q)'
  BY <1>1 DEF OpensHelper, Waits
<1> QED BY <1>3, <1>5, <1>7, <1>8

\* What is known of the calls and of the catalogs they read survives a step in
\* which one call moves, or none.
LEMMA CallsKeep ==
  ASSUME IInv, TypeOK', RecordsStay, CatalogGrows,
         NEW p, \A q \in Procs : Waits(q) \/ (q = p /\ Moves(q)),
         \A o \in Ops : ops[o] = None =>
           BasedIn(ops', o, catalog) /\ \A q \in Procs : BasedIn(ops', o, snap[q])
  PROVE  CallsAreSo' /\ PairsAgree' /\ Genuine(catalog)'
<1>1. TypeOK /\ CallsAreSo /\ PairsAgree /\ Genuine(catalog) /\ CatalogIsBacked
  BY DEF IInv, RecordsAreSo
<1>2. \A q \in Procs : snap'[q] \in {snap[q], catalog', NoCatalog}
  BY DEF Waits, Moves
<1>3. \A q \in Procs : Holds(q)' /\ MayPrepare(q)' /\ StagedIsSo(q)' /\ OpensHelper(q)'
  BY WaitsKeeps DEF Moves
<1>4. \A q, r \in Procs :
        IsPast(snap[q])' /\ (snap'[q].revision = snap'[r].revision => snap'[q] = snap'[r])
  BY <1>1, <1>2, PastsStay
<1>5. Genuine(catalog)'
  <2>1. CASE catalog' = catalog
    <3>1. catalog \in Catalogs
      BY <1>1 DEF TypeOK
    <3> QED BY <1>1, <2>1, <3>1, GenuineStays, Readings
  <2> QED BY <2>1 DEF CatalogGrows
<1>6. ASSUME NEW q \in Procs PROVE Genuine(snap[q])'
  <2>1. CASE snap'[q] = snap[q]
    <3>1. snap[q] \in Catalogs /\ Genuine(snap[q])
      BY <1>1, Fields DEF CallsAreSo
    <3> QED BY <1>1, <2>1, <3>1, GenuineStays, Readings
  <2>2. CASE snap'[q] = catalog'
    BY <1>5, <2>2, Readings
  <2>3. CASE snap'[q] = NoCatalog
    <3>1. \A o \in Ops : ops'[o] # None => ops'[o].expected \in Nat
      BY RegistrationAssumption DEF TypeOK, Operation
    <3>2. GenuineIn(ops', published', NoCatalog)
      BY <3>1, Nothing DEF GenuineIn, BasedIn
    <3> QED BY <2>3, <3>2, Readings
  <2> QED BY <1>2, <2>1, <2>2, <2>3
<1>7. ASSUME NEW q \in Procs, NEW r \in Procs PROVE OnlyOneAsks(q, r)'
  <2>1. OnlyOneAsks(q, r) /\ Holds(q) /\ Holds(r)
    BY <1>1 DEF CallsAreSo, PairsAgree
  <2> QED BY <2>1 DEF OnlyOneAsks, Waits, Moves, Holds, Searching
<1> QED BY <1>3, <1>4, <1>5, <1>6, <1>7 DEF CallsAreSo, PairsAgree

-----------------------------------------------------------------------------
\* A step of one call that only reads.
LEMMA CallKeeps ==
  ASSUME IInv, TypeOK', UNCHANGED <<records, helper>>,
         NEW p, \A q \in Procs : Waits(q) \/ (q = p /\ Moves(q)),
         \A o \in Ops : ToldIsRecorded(o)'
  PROVE  IInv'
<1>1. TypeOK /\ RecordsAreSo /\ NoSecretIsForgotten /\ CatalogIsBacked
  BY DEF IInv
<1>2. RecordsStay /\ CatalogGrows
  BY DEF RecordsStay, CatalogGrows, records
<1>3. \A o \in Ops : ops[o] = None => \A cat : BasedIn(ops', o, cat)
  BY DEF BasedIn, records
<1>4. CallsAreSo' /\ PairsAgree' /\ Genuine(catalog)'
  BY <1>2, <1>3, CallsKeep
<1>5. \A o \in Ops : NamesCredential(o)' /\ HelperIsRecorded(o)' /\ (ops'[o] # None => ops'[o].expected <= catalog'.revision)
  BY <1>1 DEF RecordsAreSo, NamesCredential, HelperIsRecorded, records
<1>6. NoSecretIsForgotten' /\ CatalogIsBacked'
  BY <1>1 DEF NoSecretIsForgotten, CatalogIsBacked, records
<1> QED BY <1>4, <1>5, <1>6 DEF IInv, RecordsAreSo

\* What holds of every call and operation, taken apart.
LEMMA Parts ==
  ASSUME IInv
  PROVE  /\ TypeOK /\ NoSecretIsForgotten /\ CatalogIsBacked /\ Genuine(catalog)
         /\ \A p \in Procs : /\ Holds(p) /\ MayPrepare(p) /\ OpensHelper(p) /\ StagedIsSo(p)
                             /\ Genuine(snap[p]) /\ IsPast(snap[p])
         /\ \A p, q \in Procs : OnlyOneAsks(p, q) /\ (snap[p].revision = snap[q].revision => snap[p] = snap[q])
         /\ \A o \in Ops : /\ NamesCredential(o) /\ HelperIsRecorded(o) /\ ToldIsRecorded(o)
                           /\ ops[o] # None => ops[o].expected <= catalog.revision
BY DEF IInv, CallsAreSo, PairsAgree, RecordsAreSo

\* An idle call holds nothing.
LEMMA IdleIsSo ==
  ASSUME NEW q \in Procs, pc'[q] = "idle", held'[q] = NoHold, req'[q] = NoRequest, names'[q] = {}, snap'[q] = NoCatalog
  PROVE  Moves(q)
<1>1. NoHold.op = None /\ NoHold.state = "none" /\ NoHold.fresh = FALSE /\ NoRequest.replace = None
  BY DEF NoHold, NoRequest
<1>2. Holds(q)'
  BY <1>1 DEF Holds, Searching, Requesting
<1> QED BY <1>2 DEF Moves, MayPrepare, StagedIsSo, OpensHelper

\* A call that returns an outcome or none forgets what it held, and says only
\* what is recorded.
LEMMA EndKeeps ==
  ASSUME IInv, UNCHANGED <<records, helper>>, NEW p \in Procs, Forget(p),
         held' = [held EXCEPT ![p] = NoHold],
         told' \in [Ops -> SUBSET Answers], \A o \in Ops : ToldIsRecorded(o)'
  PROVE  IInv'
<1>1. TypeOK
  BY DEF IInv
<1>2. TypeOK'
  <2>1. /\ NoHold \in [op : Ops \cup {None}, state : States \cup {"none"}, fresh : BOOLEAN]
        /\ "idle" \in Steps
    BY DEF NoHold, Steps
  <2> QED BY <1>1, <2>1, Nothing DEF TypeOK, Forget, records
<1>3. Moves(p)
  BY <1>1, IdleIsSo DEF Forget, TypeOK
<1>4. \A q \in Procs \ {p} : Waits(q)
  BY <1>1 DEF Waits, Forget, TypeOK, records
<1> QED BY <1>2, <1>3, <1>4, CallKeeps

\* What is heard of an outcome is an answer.
LEMMA HeardAnswers == \A s : Heard(s) \subseteq Answers
<1> SUFFICES ASSUME NEW s, NEW a \in Heard(s) PROVE a \in Answers
  OBVIOUS
<1>1. PICK x \in {s} \cap Final : a = [status |-> x, fits |-> TRUE]
  BY DEF Heard
<1>2. x \in Final /\ TRUE \in BOOLEAN
  OBVIOUS
<1> QED BY <1>1, <1>2 DEF Answers

\* A call returns nothing, or the process dies.
LEMMA ReturnKeeps ==
  ASSUME IInv, UNCHANGED <<records, helper>>, NEW p \in Procs, Return(p)
  PROVE  IInv'
<1>1. told' \in [Ops -> SUBSET Answers] /\ \A o \in Ops : ToldIsRecorded(o)'
  BY Parts DEF TypeOK, Return, ToldIsRecorded, records
<1> QED BY <1>1, EndKeeps DEF Return

\* A request that the operation does not fit is refused.
LEMMA RefuseKeeps ==
  ASSUME IInv, UNCHANGED <<records, helper>>, NEW p \in Procs, NEW o \in Ops, ops[o] # None, Refuse(p, o)
  PROVE  IInv'
<1>1. /\ Forget(p) /\ held' = [held EXCEPT ![p] = NoHold]
      /\ told' = [told EXCEPT ![o] = @ \cup {[status |-> "conflict", fits |-> FALSE]}]
  BY DEF Refuse
<1>2. TypeOK /\ [status |-> "conflict", fits |-> FALSE] \in Answers
  BY Parts DEF Answers, Final
<1>3. told' \in [Ops -> SUBSET Answers]
  BY <1>1, <1>2 DEF TypeOK
<1>4. \A x \in Ops : ToldIsRecorded(x)'
  BY <1>1, <1>2, Parts DEF TypeOK, ToldIsRecorded, records
<1> QED BY <1>1, <1>3, <1>4, EndKeeps

\* A call that read a record returns its outcome or recovers it.
LEMMA HoldKeeps ==
  ASSUME IInv, UNCHANGED <<records, helper>>, NEW p \in Procs, NEW o \in Ops, ops[o] # None,
         pc[p] \in {"idle", "recall"}, Hold(p, o)
  PROVE  IInv'
<1>1. TypeOK /\ Holds(p) /\ ops[o].state \in States /\ Genuine(snap[p]) /\ IsPast(snap[p])
  BY Parts, Fields
<1>2. CASE ops[o].state \in Final
  <2>1. /\ Forget(p) /\ held' = [held EXCEPT ![p] = NoHold]
        /\ told' = [told EXCEPT ![o] = @ \cup Heard(ops[o].state)]
    BY <1>2 DEF Hold, Tell
  <2>2. told' \in [Ops -> SUBSET Answers]
    BY <1>1, <2>1, HeardAnswers DEF TypeOK
  <2>3. \A x \in Ops : ToldIsRecorded(x)'
    <3>1. \A a \in Heard(ops[o].state) : a.fits /\ a.status = ops[o].state
      BY DEF Heard
    <3> QED BY <1>1, <2>1, <3>1, Parts DEF TypeOK, ToldIsRecorded, records
  <2> QED BY <2>1, <2>2, <2>3, EndKeeps
<1>3. CASE ops[o].state \notin Final
  <2>1. /\ held' = [held EXCEPT ![p] = [op |-> o, state |-> ops[o].state, fresh |-> TRUE]]
        /\ pc' = [pc EXCEPT ![p] = "recover"] /\ req' = [req EXCEPT ![p] = NoRequest]
        /\ UNCHANGED <<names, snap, told>>
    BY <1>3 DEF Hold, Goto
  <2>2. TypeOK'
    BY <1>1, <2>1 DEF TypeOK, Steps, records
  <2>3. pc'[p] = "recover" /\ held'[p] = [op |-> o, state |-> ops[o].state, fresh |-> TRUE] /\ req'[p] = NoRequest
    BY <1>1, <2>1 DEF TypeOK
  <2>4. Holds(p)'
    BY <1>1, <2>1, <2>3, RegistrationAssumption DEF Holds, Searching, Requesting, NoRequest, States, Final, records
  <2>5. Moves(p)
    BY <2>1, <2>3, <2>4 DEF Moves, MayPrepare, StagedIsSo, OpensHelper
  <2>6. \A q \in Procs \ {p} : Waits(q)
    BY <1>1, <2>1 DEF Waits, TypeOK, records
  <2>7. \A x \in Ops : ToldIsRecorded(x)'
    BY <2>1, Parts DEF ToldIsRecorded, records
  <2> QED BY <2>2, <2>5, <2>6, <2>7, CallKeeps
<1> QED BY <1>2, <1>3

-----------------------------------------------------------------------------
\* The steps of a call that only read, one lemma each.

\* A call lists the recorded operations; it names a credential that is recorded.
LEMMA CallStep == ASSUME IInv, NEW p \in Procs, NEW r \in Requests, Call(p, r) PROVE IInv'
<1>1. TypeOK /\ Holds(p) /\ pc[p] = "idle"
  BY Parts DEF Call
<1>2. TypeOK'
  BY <1>1 DEF Call, Goto, TypeOK, Steps, records
<1>3. /\ pc'[p] = "search" /\ req'[p] = r /\ names'[p] = {o \in Ops : ops[o] # None}
      /\ held' = held /\ snap' = snap /\ ops' = ops
  BY <1>1 DEF Call, Goto, TypeOK, records
<1>4. Holds(p)'
  BY <1>1, <1>3 DEF Call, Holds, Searching, Requesting
<1>5. Moves(p)
  BY <1>3, <1>4 DEF Moves, MayPrepare, StagedIsSo, OpensHelper
<1>6. \A q \in Procs \ {p} : Waits(q)
  BY <1>1 DEF Call, Goto, Waits, TypeOK, records
<1>7. \A o \in Ops : ToldIsRecorded(o)'
  BY Parts DEF Call, ToldIsRecorded, records
<1> QED BY <1>2, <1>5, <1>6, <1>7, CallKeeps DEF Call

\* It finds one unfinished operation, several, or none.
LEMMA SearchStep == ASSUME IInv, NEW p \in Procs, Search(p) PROVE IInv'
<1> DEFINE found == Unfinished(req[p], names[p])
<1>1. TypeOK /\ Holds(p) /\ pc[p] = "search" /\ Genuine(snap[p]) /\ held[p].op = None /\ held[p].state = "none"
  BY Parts DEF Search, Holds, Searching
<1>2. UNCHANGED <<records, helper>> /\ \A o \in Ops : told' = told => ToldIsRecorded(o)'
  BY Parts DEF Search, ToldIsRecorded, records
<1>3. \A q \in Procs \ {p} : told' = told /\ Search(p) => Waits(q)
  BY <1>1 DEF Search, Goto, Return, Forget, Waits, TypeOK, records
<1>4. CASE Return(p)
  BY <1>2, <1>4, ReturnKeeps
<1>5. ASSUME Cardinality(found) = 1,
             held' = [held EXCEPT ![p].op = CHOOSE o \in found : TRUE],
             Goto(p, "recall"), names' = [names EXCEPT ![p] = {}], UNCHANGED <<req, snap, told>>
      PROVE  IInv'
  <2> DEFINE o == CHOOSE x \in found : TRUE
  <2>1. found # {}
    BY <1>5, FS_EmptySet
  <2>2. o \in Ops /\ ops[o] # None
    <3>1. o \in found /\ found \subseteq names[p]
      BY <2>1 DEF Unfinished
    <3> QED BY <1>1, <3>1, Fields DEF Holds
  <2>3. TypeOK'
    <3> DEFINE Held == [op : Ops \cup {None}, state : States \cup {"none"}, fresh : BOOLEAN]
    <3>1. held \in [Procs -> Held] /\ held[p] \in Held
      BY <1>1 DEF TypeOK
    <3>2. [held[p] EXCEPT !.op = o] \in Held
      BY <2>2, <3>1
    <3>3. held' \in [Procs -> Held]
      BY <1>5, <3>1, <3>2
    <3> QED BY <1>1, <1>2, <1>5, <3>3 DEF TypeOK, Goto, Steps, records
  <2>4. /\ pc'[p] = "recall" /\ held'[p].op = o /\ held'[p].state = "none" /\ held'[p].fresh = held[p].fresh
        /\ names'[p] = {}
    BY <1>1, <1>5 DEF TypeOK, Goto
  <2>5. Holds(p)'
    BY <1>1, <1>2, <1>5, <2>2, <2>4, RegistrationAssumption DEF Holds, Searching, Requesting, records
  <2>6. Moves(p)
    BY <1>5, <2>4, <2>5 DEF Moves, MayPrepare, StagedIsSo, OpensHelper
  <2> QED BY <1>2, <1>3, <1>5, <2>3, <2>6, CallKeeps
<1>6. ASSUME Goto(p, "catalog"), names' = [names EXCEPT ![p] = {}], UNCHANGED <<req, snap, held, told>>
      PROVE  IInv'
  <2>1. TypeOK'
    BY <1>1, <1>2, <1>6 DEF TypeOK, Goto, Steps, records
  <2>2. pc'[p] = "catalog" /\ names'[p] = {}
    BY <1>1, <1>6 DEF TypeOK, Goto
  <2>3. Moves(p)
    BY <1>1, <1>2, <1>6, <2>2 DEF Moves, Holds, MayPrepare, StagedIsSo, OpensHelper, Searching, Requesting, records
  <2> QED BY <1>2, <1>3, <1>6, <2>1, <2>3, CallKeeps
<1> QED BY <1>4, <1>5, <1>6 DEF Search

\* The operation is read again.
LEMMA RecallStep == ASSUME IInv, NEW p \in Procs, Recall(p) PROVE IInv'
<1>1. UNCHANGED <<records, helper>> /\ pc[p] = "recall"
  BY DEF Recall
<1>2. held[p].op \in Ops /\ ops[held[p].op] # None
  BY <1>1, Parts, Fields DEF Holds, Searching
<1> QED BY <1>1, <1>2, RefuseKeeps, HoldKeeps DEF Recall

\* A request names a recorded operation.
LEMMA ResumeStep ==
  ASSUME IInv, NEW p \in Procs, NEW o \in Ops, NEW r \in Resumptions, Resume(p, o, r) PROVE IInv'
BY RefuseKeeps, HoldKeeps DEF Resume

\* A process dies or an access throws.
LEMMA ThrowStep == ASSUME IInv, NEW p \in Procs, Throw(p) PROVE IInv'
BY ReturnKeeps DEF Throw

\* A step that only takes a call to another place, or reads the catalog as well.
LEMMA GoKeeps ==
  ASSUME IInv, UNCHANGED <<records, helper, req, names, held, told>>, NEW p \in Procs,
         NEW step \in Steps \cup States, Goto(p, step), step # "ask",
         snap' = snap \/ snap' = [snap EXCEPT ![p] = catalog],
         Holds(p)', MayPrepare(p)', StagedIsSo(p)', OpensHelper(p)'
  PROVE  IInv'
<1>1. TypeOK
  BY DEF IInv
<1>2. TypeOK'
  BY <1>1 DEF TypeOK, Goto, records
<1>3. Moves(p)
  BY <1>1 DEF Moves, Goto, TypeOK, records
<1>4. \A q \in Procs \ {p} : Waits(q)
  BY <1>1 DEF Waits, Goto, TypeOK, records
<1>5. \A o \in Ops : ToldIsRecorded(o)'
  BY Parts DEF ToldIsRecorded, records
<1> QED BY <1>2, <1>3, <1>4, <1>5, CallKeeps

\* A call reads the catalog the new operation is based on, or finds none.
LEMMA ReadCatalogStep == ASSUME IInv, NEW p \in Procs, ReadCatalog(p) PROVE IInv'
<1>1. /\ TypeOK /\ Holds(p) /\ pc[p] = "catalog" /\ Genuine(catalog) /\ req[p] \in Requests
      /\ UNCHANGED <<records, helper>>
  BY Parts DEF ReadCatalog, Holds, Requesting
<1>2. CASE Return(p)
  BY <1>1, <1>2, ReturnKeeps
<1>3. CASE Goto(p, "create") /\ UNCHANGED <<locals, held, told>>
  <2>1. pc'[p] = "create" /\ "create" \in Steps
    BY <1>1, <1>3 DEF TypeOK, Goto, Steps
  <2>2. Holds(p)' /\ MayPrepare(p)' /\ StagedIsSo(p)' /\ OpensHelper(p)'
    BY <1>1, <1>3, <2>1 DEF locals, records, Holds, MayPrepare, StagedIsSo, OpensHelper, Searching, Requesting
  <2> QED BY <1>1, <1>3, <2>1, <2>2, GoKeeps DEF locals
<1>4. ASSUME catalog # NoCatalog, NEW step \in {"prepare", "check"}, Goto(p, step),
             IF req[p].replace = None THEN req[p].label.title \notin TitlesOf(catalog)
             ELSE catalog.active[req[p].replace] # None,
             snap' = [snap EXCEPT ![p] = catalog], UNCHANGED <<req, names, held, told>>
      PROVE  IInv'
  <2>1. pc'[p] = step /\ step \in Steps /\ snap'[p] = catalog
    BY <1>1, <1>4 DEF TypeOK, Goto, Steps
  <2>2. Holds(p)' /\ StagedIsSo(p)' /\ OpensHelper(p)'
    BY <1>1, <1>4, <2>1 DEF records, Holds, StagedIsSo, OpensHelper, Searching, Requesting
  <2>3. catalog.revision >= 0
    <3>1. catalog.revision \in Int /\ catalog.revision >= -1 /\ catalog.revision # -1
      BY <1>1, <1>4, CatalogFields DEF TypeOK, Genuine
    <3> QED BY <3>1
  <2>4. req[p].label.title \notin TitlesIn(ops, catalog) \/ req[p].replace # None
    BY <1>4 DEF TitlesOf, TitlesIn
  <2>5. MayPrepare(p)'
    BY <1>1, <1>4, <2>1, <2>3, <2>4, Readings DEF AllowedIn, records
  <2> QED BY <1>1, <1>4, <2>1, <2>2, <2>5, GoKeeps
<1> QED BY <1>2, <1>3, <1>4 DEF ReadCatalog, Based

\* It looks at the secret of the generation it is to replace.
LEMMA CheckPreviousStep == ASSUME IInv, NEW p \in Procs, CheckPrevious(p) PROVE IInv'
<1>1. TypeOK /\ Holds(p) /\ MayPrepare(p) /\ pc[p] = "check" /\ UNCHANGED <<records, helper>>
  BY Parts DEF CheckPrevious
<1>2. CASE Return(p)
  BY <1>1, <1>2, ReturnKeeps
<1>3. CASE Goto(p, "prepare") /\ UNCHANGED <<locals, held, told>>
  <2>1. pc'[p] = "prepare" /\ "prepare" \in Steps
    BY <1>1, <1>3 DEF TypeOK, Goto, Steps
  <2>2. Holds(p)' /\ StagedIsSo(p)' /\ OpensHelper(p)'
    BY <1>1, <1>3, <2>1 DEF locals, records, Holds, StagedIsSo, OpensHelper, Searching, Requesting
  <2>3. MayPrepare(p)'
    BY <1>1, <1>3, Readings DEF locals, records
  <2> QED BY <1>1, <1>3, <2>1, <2>2, <2>3, GoKeeps DEF locals
<1> QED BY <1>2, <1>3 DEF CheckPrevious

\* It hears from the helper that ended.
LEMMA HearStep == ASSUME IInv, NEW p \in Procs, Hear(p) PROVE IInv'
<1>1. TypeOK /\ Holds(p) /\ pc[p] = "asking" /\ UNCHANGED <<records, helper, locals, held, told>>
  BY Parts DEF Hear
<1>2. PICK step \in {"cancel", "recover"} : Goto(p, step) /\ (step = "cancel" => helper[held[p].op] = "cancelled")
  BY DEF Hear, HearsCancelled
<1>3. pc'[p] = step /\ step \in Steps
  BY <1>1, <1>2 DEF TypeOK, Goto, Steps
<1>4. Holds(p)' /\ MayPrepare(p)' /\ StagedIsSo(p)' /\ OpensHelper(p)'
  BY <1>1, <1>2, <1>3 DEF locals, records, Holds, MayPrepare, StagedIsSo, OpensHelper, Searching, Requesting
<1> QED BY <1>1, <1>2, <1>3, <1>4, GoKeeps DEF locals

\* It reads the catalog to reconcile with.
LEMMA RecoverStep == ASSUME IInv, NEW p \in Procs, Recover(p) PROVE IInv'
<1>1. TypeOK /\ Holds(p) /\ pc[p] = "recover" /\ UNCHANGED <<records, helper, req, names, held, told>>
  BY Parts DEF Recover
<1>2. pc'[p] = "probe" /\ "probe" \in Steps
  BY <1>1 DEF Recover, TypeOK, Goto, Steps
<1>3. Holds(p)' /\ MayPrepare(p)' /\ StagedIsSo(p)' /\ OpensHelper(p)'
  BY <1>1, <1>2 DEF records, Holds, MayPrepare, StagedIsSo, OpensHelper, Searching, Requesting
<1> QED BY <1>1, <1>2, <1>3, GoKeeps DEF Recover

\* It stages what the presence of the secret and the catalog say.
LEMMA ProbeStep == ASSUME IInv, NEW p \in Procs, Probe(p) PROVE IInv'
<1> DEFINE o == held[p].op
<1>1. /\ TypeOK /\ Holds(p) /\ Genuine(snap[p]) /\ pc[p] = "probe"
      /\ UNCHANGED <<records, helper, locals, held, told>>
  BY Parts DEF Probe
<1>2. o \in Ops /\ ops[o] # None /\ ops[o].cred \in Ops
  BY <1>1, Fields DEF Holds, Searching
<1>3. PICK presence \in Presences(o) : Goto(p, Reconciled(o, snap[p], presence))
  BY DEF Probe
<1> DEFINE step == Reconciled(o, snap[p], presence)
           active == snap[p].active[ops[o].cred] = o /\ snap[p].revision > ops[o].expected
<1>4. presence = "present" => o \in slots
  BY <1>3 DEF Presences
<1>5. active => o \in published
  BY <1>1, <1>2, RegistrationAssumption DEF Genuine, Creds
<1>6. \/ step = "unresolved"
      \/ step = "committed" /\ active
      \/ step = "stored-uncommitted" /\ presence = "present" /\ snap[p].revision = ops[o].expected
      \/ step = "conflict" /\ presence = "present"
  BY DEF Reconciled
<1>7. pc'[p] = step /\ step \in States /\ step # "ask"
  BY <1>1, <1>3, <1>6 DEF TypeOK, Goto, States, Final
<1>8. Holds(p)' /\ MayPrepare(p)' /\ OpensHelper(p)'
  BY <1>1, <1>6, <1>7 DEF locals, records, Holds, MayPrepare, OpensHelper, Searching, Requesting
<1>9. StagedIsSo(p)'
  BY <1>1, <1>4, <1>5, <1>6, <1>7 DEF locals, records, StagedIsSo
<1> QED BY <1>1, <1>3, <1>7, <1>8, <1>9, GoKeeps DEF locals

\* It opens the helper for the operation it recorded.
LEMMA AskStep == ASSUME IInv, NEW p \in Procs, Ask(p) PROVE IInv'
<1> DEFINE o == held[p].op
<1>1. /\ TypeOK /\ Holds(p) /\ OpensHelper(p) /\ pc[p] = "ask" /\ NoSecretIsForgotten /\ CatalogIsBacked
      /\ UNCHANGED <<records, locals, held, told>> /\ pc' = [pc EXCEPT ![p] = "asking"]
      /\ helper' = [helper EXCEPT ![o] = "open"]
  BY Parts DEF Ask, Goto
<1>2. o \in Ops /\ ops[o] # None /\ helper[o] = "none"
  BY <1>1, Fields DEF Holds, Searching, OpensHelper
<1>3. TypeOK'
  BY <1>1, <1>2 DEF TypeOK, Steps, records, locals
<1>4. RecordsStay /\ CatalogGrows /\ \A x \in Ops : ops[x] = None => \A cat : BasedIn(ops', x, cat)
  BY <1>1 DEF RecordsStay, CatalogGrows, BasedIn, records
<1>5. Moves(p)
  BY <1>1, <1>2 DEF Moves, TypeOK, Holds, MayPrepare, StagedIsSo, OpensHelper, Searching, Requesting, records, locals
<1>6. ASSUME NEW q \in Procs \ {p} PROVE Waits(q)
  <2>1. pc[q] \in {"ask", "cancel"} => held[q].op # o
    BY <1>1, <1>2, Parts DEF OnlyOneAsks, OpensHelper
  <2> QED BY <1>1, <2>1 DEF Waits, TypeOK, records, locals
<1>7. CallsAreSo' /\ PairsAgree' /\ Genuine(catalog)'
  BY <1>3, <1>4, <1>5, <1>6, CallsKeep
<1>8. ASSUME NEW x \in Ops
      PROVE  NamesCredential(x)' /\ HelperIsRecorded(x)' /\ ToldIsRecorded(x)' /\ (ops'[x] # None => ops'[x].expected <= catalog'.revision)
  BY <1>1, <1>2, Parts DEF TypeOK, NamesCredential, HelperIsRecorded, ToldIsRecorded, records
<1>9. NoSecretIsForgotten' /\ CatalogIsBacked'
  BY <1>1, <1>2, Parts DEF TypeOK, NoSecretIsForgotten, CatalogIsBacked, HelperIsRecorded, records
<1> QED BY <1>3, <1>7, <1>8, <1>9 DEF IInv, RecordsAreSo

-----------------------------------------------------------------------------
\* The person and the helper.

\* A step of the helper: nobody moves.
LEMMA HelperKeeps ==
  ASSUME IInv, NEW o \in Ops, helper[o] = "open", NEW end \in {"saved", "cancelled", "failed"},
         helper' = [helper EXCEPT ![o] = end],
         slots' = IF end = "saved" THEN slots \cup {o} ELSE slots,
         UNCHANGED <<catalog, ops, published, pc, locals, held, told>>
  PROVE  IInv'
<1>1. TypeOK /\ CatalogIsBacked /\ NoSecretIsForgotten
  BY Parts
<1>2. TypeOK'
  BY <1>1 DEF TypeOK, locals
<1>3. RecordsStay /\ CatalogGrows /\ \A x \in Ops : ops[x] = None => \A cat : BasedIn(ops', x, cat)
  BY DEF RecordsStay, CatalogGrows, BasedIn
<1>4. \A q \in Procs : Waits(q)
  BY <1>1, Parts DEF Waits, OpensHelper, TypeOK, locals
<1>5. CallsAreSo' /\ PairsAgree' /\ Genuine(catalog)'
  BY <1>2, <1>3, <1>4, CallsKeep
<1>6. ASSUME NEW x \in Ops
      PROVE  NamesCredential(x)' /\ HelperIsRecorded(x)' /\ ToldIsRecorded(x)' /\ (ops'[x] # None => ops'[x].expected <= catalog'.revision)
  BY <1>1, Parts DEF TypeOK, NamesCredential, HelperIsRecorded, ToldIsRecorded
<1>7. NoSecretIsForgotten' /\ CatalogIsBacked'
  BY <1>1, Parts DEF TypeOK, NoSecretIsForgotten, CatalogIsBacked, HelperIsRecorded
<1> QED BY <1>2, <1>5, <1>6, <1>7 DEF IInv, RecordsAreSo

\* The person answers or declines, whether or not the caller still lives.
LEMMA HumanStep == ASSUME IInv, NEW o \in Ops, HumanSaves(o) \/ HumanDeclines(o) PROVE IInv'
BY HelperKeeps DEF HumanSaves, HumanDeclines, records

-----------------------------------------------------------------------------
\* Saving a record.

\* One who holds the latest version of a record saves a state it may take.
LEMMA SaveKeeps ==
  ASSUME IInv, TypeOK', NEW p \in Procs, NEW o \in Ops, held[p].op = o, NEW state \in States,
         pc[p] \notin Searching \cup {"recall"}, CanSave(p, state),
         ops' = [ops EXCEPT ![o].state = state],
         UNCHANGED <<catalog, slots, published, helper>>,
         told' = [told EXCEPT ![o] = @ \cup Heard(state)],
         state = "cancelled" => helper[o] = "cancelled",
         state = "committed" => o \in published,
         Moves(p),
         \A q \in Procs \ {p} :
           /\ pc'[q] = pc[q] /\ req'[q] = req[q] /\ names'[q] = names[q] /\ snap'[q] = snap[q]
           /\ held'[q] = IF held[q].op = o THEN [held[q] EXCEPT !.fresh = FALSE] ELSE held[q]
  PROVE  IInv'
<1>1. TypeOK /\ CatalogIsBacked /\ NoSecretIsForgotten /\ Holds(p)
  BY Parts
<1>2. o \in Ops /\ ops[o] # None /\ held[p].fresh /\ held[p].state = ops[o].state
  BY <1>1, Fields DEF Holds, CanSave
<1>3. ops[o] \in Operation /\ ops'[o] = [ops[o] EXCEPT !.state = state]
  BY <1>1, <1>2, Fields DEF TypeOK
<1>4. /\ ops'[o] # None /\ ops'[o].state = state /\ ops'[o].cred = ops[o].cred /\ ops'[o].label = ops[o].label
      /\ ops'[o].previous = ops[o].previous /\ ops'[o].expected = ops[o].expected
      /\ \A x \in Ops : x # o => ops'[x] = ops[x]
  <2>1. ops'[o] \in Operation
    BY <1>3 DEF Operation
  <2> QED BY <1>1, <1>2, <1>3, <2>1, RegistrationAssumption DEF TypeOK, Operation
<1>5. RecordsStay /\ CatalogGrows
  BY <1>4 DEF RecordsStay, CatalogGrows
<1>6. \A x \in Ops : ops[x] = None => \A cat : BasedIn(ops', x, cat)
  BY <1>2, <1>4 DEF BasedIn
<1>7. ASSUME NEW q \in Procs \ {p} PROVE Waits(q)
  <2>1. CASE held[q].op = o
    <3>1. held[q] \in [op : Ops \cup {None}, state : States \cup {"none"}, fresh : BOOLEAN]
      BY <1>1 DEF TypeOK
    <3>2. held'[q].op = held[q].op /\ held'[q].state = held[q].state /\ held'[q].fresh = FALSE
      BY <2>1, <3>1
    <3> QED BY <3>2 DEF Waits
  <2>2. CASE held[q].op # o
    <3>1. held'[q] = held[q] /\ held[q].op \in Ops \cup {None}
      BY <1>1, <2>2, Fields
    <3>2. held[q].fresh => held[q].op \in Ops
      BY <3>1, Parts DEF Holds
    <3> QED BY <1>4, <2>2, <3>1, <3>2 DEF Waits
  <2> QED BY <2>1, <2>2
<1>8. CallsAreSo' /\ PairsAgree' /\ Genuine(catalog)'
  BY <1>5, <1>6, <1>7, CallsKeep
<1>9. \A x \in Ops : ToldIsRecorded(x)'
  <2>1. ASSUME NEW a \in told[o] PROVE a.status = IF a.fits THEN state ELSE "conflict"
    <3>1. a.status = (IF a.fits THEN ops[o].state ELSE "conflict") /\ a.status \in Final
      BY <1>1, <1>2, <2>1, Parts DEF ToldIsRecorded, TypeOK, Answers
    <3>2. ops[o].state \in Final => state = ops[o].state
      BY <1>2 DEF CanSave
    <3> QED BY <3>1, <3>2
  <2>2. ASSUME NEW x \in Ops, x # o PROVE ToldIsRecorded(x)'
    <3>1. told'[x] = told[x]
      BY <1>1, <2>2 DEF TypeOK
    <3> QED BY <1>4, <2>2, <3>1, Parts DEF ToldIsRecorded
  <2>3. told'[o] = told[o] \cup Heard(state) /\ \A a \in Heard(state) : a.fits /\ a.status = state
    BY <1>1, <1>2 DEF TypeOK, Heard
  <2>4. ToldIsRecorded(o)'
    BY <1>4, <2>1, <2>3 DEF ToldIsRecorded
  <2> QED BY <2>2, <2>4
<1>10. ASSUME NEW x \in Ops
       PROVE  NamesCredential(x)' /\ HelperIsRecorded(x)' /\ (ops'[x] # None => ops'[x].expected <= catalog'.revision)
  BY <1>1, <1>2, <1>4, Parts, Fields DEF NamesCredential, HelperIsRecorded
<1>11. NoSecretIsForgotten'
  BY <1>1, <1>2, <1>4, Parts DEF NoSecretIsForgotten, HelperIsRecorded
<1>12. CatalogIsBacked'
  BY <1>1, <1>2, <1>4 DEF CatalogIsBacked
<1> QED BY <1>8, <1>9, <1>10, <1>11, <1>12 DEF IInv, RecordsAreSo

\* A record is saved and its state returned.
LEMMA SaveAndReturnKeeps ==
  ASSUME IInv, NEW p \in Procs, NEW o \in Ops, held[p].op = o, NEW state \in States,
         pc[p] \notin Searching \cup {"recall"},
         SaveAndReturn(p, state), UNCHANGED <<catalog, slots, published, helper>>,
         state = "cancelled" => helper[o] = "cancelled",
         state = "committed" => o \in published
  PROVE  IInv'
<1> DEFINE Held == [op : Ops \cup {None}, state : States \cup {"none"}, fresh : BOOLEAN]
<1>1. TypeOK /\ o \in Ops /\ ops[o] # None /\ held \in [Procs -> Held]
  BY Parts, Fields DEF Holds, TypeOK
<1>2. /\ CanSave(p, state) /\ ops' = [ops EXCEPT ![o].state = state] /\ Forget(p)
      /\ held' = [q \in Procs |-> IF q = p THEN NoHold
                    ELSE IF held[q].op = o THEN [held[q] EXCEPT !.fresh = FALSE] ELSE held[q]]
      /\ told' = [told EXCEPT ![o] = @ \cup Heard(state)]
  BY DEF SaveAndReturn, Tell
<1>3. TypeOK'
  <2>1. held' \in [Procs -> Held]
    <3>1. NoHold \in Held /\ \A q \in Procs : [held[q] EXCEPT !.fresh = FALSE] \in Held
      BY <1>1 DEF NoHold
    <3> QED BY <1>1, <1>2, <3>1
  <2>2. ops' \in [Ops -> {None} \cup Operation]
    <3>1. ops[o] \in Operation
      BY <1>1, Fields
    <3>2. [ops[o] EXCEPT !.state = state] \in Operation
      BY <3>1 DEF Operation
    <3> QED BY <1>1, <1>2, <3>2 DEF TypeOK
  <2>3. told' \in [Ops -> SUBSET Answers]
    BY <1>1, <1>2, HeardAnswers DEF TypeOK
  <2>4. /\ pc' \in [Procs -> Steps \cup States] /\ req' \in [Procs -> Requests \cup {NoRequest}]
        /\ names' \in [Procs -> SUBSET Ops] /\ snap' \in [Procs -> Catalogs]
    BY <1>1, <1>2, Nothing DEF TypeOK, Forget, Steps
  <2> QED BY <1>1, <2>1, <2>2, <2>3, <2>4 DEF TypeOK
<1>4. Moves(p)
  <2>1. pc'[p] = "idle" /\ held'[p] = NoHold /\ req'[p] = NoRequest /\ names'[p] = {} /\ snap'[p] = NoCatalog
    BY <1>1, <1>2 DEF Forget, TypeOK
  <2> QED BY <2>1, IdleIsSo
<1>5. \A q \in Procs \ {p} :
        /\ pc'[q] = pc[q] /\ req'[q] = req[q] /\ names'[q] = names[q] /\ snap'[q] = snap[q]
        /\ held'[q] = IF held[q].op = o THEN [held[q] EXCEPT !.fresh = FALSE] ELSE held[q]
  BY <1>1, <1>2 DEF Forget, TypeOK
<1>6. /\ CanSave(p, state) /\ ops' = [ops EXCEPT ![o].state = state]
      /\ told' = [told EXCEPT ![o] = @ \cup Heard(state)]
  BY <1>2
<1> HIDE DEF Held
<1> QED BY <1>3, <1>4, <1>5, <1>6, SaveKeeps

\* A cancelled operation is recorded as such, a published one as committed.
LEMMA CancelStep == ASSUME IInv, NEW p \in Procs, Cancel(p) PROVE IInv'
<1>1. /\ held[p].op \in Ops /\ helper[held[p].op] = "cancelled" /\ "cancelled" \in States
      /\ pc[p] \notin Searching \cup {"recall"} /\ SaveAndReturn(p, "cancelled")
      /\ UNCHANGED <<catalog, slots, published, helper>>
  BY Parts, Fields DEF Cancel, Holds, OpensHelper, Searching, States, Final
<1> QED BY <1>1, SaveAndReturnKeeps

LEMMA CloseStep == ASSUME IInv, NEW p \in Procs, Close(p) PROVE IInv'
<1>1. /\ held[p].op \in published /\ published \subseteq Ops /\ "committed" \in States
      /\ pc[p] \notin Searching \cup {"recall"} /\ SaveAndReturn(p, "committed")
      /\ UNCHANGED <<catalog, slots, published, helper>>
  BY Parts DEF TypeOK, Close, StagedIsSo, Searching, States, Final
<1> QED BY <1>1, SaveAndReturnKeeps

\* What reconciliation decided is recorded; a stored generation is to be published.
LEMMA StageStep == ASSUME IInv, NEW p \in Procs, Stage(p) PROVE IInv'
<1>1. /\ pc[p] \in States /\ pc[p] \notin Searching \cup {"recall"} /\ pc[p] # "cancelled"
      /\ UNCHANGED <<catalog, slots, published, helper>>
  BY Parts DEF Stage, StagedIsSo, Searching, States, Final
<1>2. /\ TypeOK /\ Holds(p) /\ StagedIsSo(p) /\ held[p].op \in Ops /\ ops[held[p].op] # None
  BY <1>1, Parts, Fields DEF Holds
<1>3. CASE SaveAndReturn(p, pc[p])
  <2>1. \A o \in Ops, state \in States :
          o = held[p].op /\ state = pc[p] => (state = "committed" => o \in published)
    BY <1>2 DEF StagedIsSo
  <2> QED BY <1>1, <1>2, <1>3, <2>1, SaveAndReturnKeeps
<1>4. ASSUME pc[p] = "stored-uncommitted", Save(p, pc[p]), Goto(p, "commit"), UNCHANGED <<locals, told>>,
             NEW o \in Ops, o = held[p].op
      PROVE  IInv'
  <2> DEFINE Held == [op : Ops \cup {None}, state : States \cup {"none"}, fresh : BOOLEAN]
             state == "stored-uncommitted"
  <2>1. /\ CanSave(p, state) /\ ops' = [ops EXCEPT ![o].state = state] /\ pc' = [pc EXCEPT ![p] = "commit"]
        /\ held' = [q \in Procs |-> IF q = p THEN [held[p] EXCEPT !.state = state]
                      ELSE IF held[q].op = o THEN [held[q] EXCEPT !.fresh = FALSE] ELSE held[q]]
    BY <1>4 DEF Save, Goto
  <2>2. held \in [Procs -> Held] /\ state \in States
    BY <1>2 DEF TypeOK, States
  <2>3. held' \in [Procs -> Held]
    <3>1. [held[p] EXCEPT !.state = state] \in Held /\ \A q \in Procs : [held[q] EXCEPT !.fresh = FALSE] \in Held
      BY <2>2
    <3> QED BY <2>1, <2>2, <3>1
  <2>4. ops' \in [Ops -> {None} \cup Operation] /\ ops'[o] # None /\ ops'[o].state = state /\ ops'[o].expected = ops[o].expected
    <3>1. ops[o] \in Operation
      BY <1>2, <1>4, Fields
    <3>2. [ops[o] EXCEPT !.state = state] \in Operation
      BY <3>1 DEF Operation, States
    <3> QED BY <1>2, <2>1, <3>1, <3>2, RegistrationAssumption DEF TypeOK, Operation
  <2>5. TypeOK'
    BY <1>1, <1>2, <1>4, <2>1, <2>3, <2>4 DEF TypeOK, Steps, locals
  <2>6. pc'[p] = "commit" /\ held'[p].op = o /\ held'[p].state = state
    BY <1>2, <1>4, <2>1, <2>2 DEF TypeOK
  <2>7. Holds(p)'
    <3>1. \A x \in Ops : ops[x] # None => ops'[x] # None
      BY <1>2, <2>1, <2>4 DEF TypeOK
    <3> QED BY <1>1, <1>2, <1>4, <2>4, <2>6, <3>1, RegistrationAssumption, Fields
            DEF Holds, Searching, Requesting, locals
  <2>8. Moves(p)
    BY <1>1, <1>2, <1>4, <2>4, <2>6, <2>7 DEF Moves, MayPrepare, StagedIsSo, OpensHelper, locals
  <2>9. \A q \in Procs \ {p} :
          /\ pc'[q] = pc[q] /\ req'[q] = req[q] /\ names'[q] = names[q] /\ snap'[q] = snap[q]
          /\ held'[q] = IF held[q].op = o THEN [held[q] EXCEPT !.fresh = FALSE] ELSE held[q]
    BY <1>2, <1>4, <2>1 DEF TypeOK, locals
  <2>10. told' = [told EXCEPT ![o] = @ \cup Heard(state)]
    <3>1. Heard("stored-uncommitted") = {}
      BY DEF Heard, Final
    <3> QED BY <1>2, <1>4, <2>1, <3>1 DEF TypeOK
  <2>11. CanSave(p, state) /\ ops' = [ops EXCEPT ![o].state = state] /\ state # "cancelled" /\ state # "committed"
    BY <2>1
  <2> HIDE DEF Held, state
  <2> QED BY <1>1, <1>4, <2>2, <2>5, <2>8, <2>9, <2>10, <2>11, SaveKeeps
<1> QED BY <1>2, <1>3, <1>4 DEF Stage

-----------------------------------------------------------------------------
\* A new operation is recorded: nothing was recorded, stored or said of it, and
\* every catalog at the revision it expects is the one its call had read.
LEMMA PrepareStep == ASSUME IInv, NEW p \in Procs, NEW o \in Ops, Prepare(p, o) PROVE IInv'
<1> DEFINE r == req[p]
           Held == [op : Ops \cup {None}, state : States \cup {"none"}, fresh : BOOLEAN]
           cred == IF r.replace = None THEN o ELSE r.replace
           previous == IF r.replace = None THEN None ELSE snap[p].active[r.replace]
           record == [cred |-> cred, label |-> r.label, previous |-> previous,
                      expected |-> snap[p].revision, state |-> "prepared"]
           mine == [op |-> o, state |-> "prepared", fresh |-> TRUE]
<1>1. /\ TypeOK /\ Holds(p) /\ pc[p] = "prepare" /\ AllowedIn(ops, r, snap[p]) /\ IsPast(snap[p])
      /\ GenuineIn(ops, published, snap[p]) /\ CatalogIsBacked /\ NoSecretIsForgotten
      /\ snap[p] \in Catalogs /\ catalog \in Catalogs
  BY Parts, Readings DEF Prepare, TypeOK
<1>2. /\ ops[o] = None /\ ops' = [ops EXCEPT ![o] = record] /\ held' = [held EXCEPT ![p] = mine]
      /\ pc' = [pc EXCEPT ![p] = "ask"] /\ req' = [req EXCEPT ![p] = NoRequest]
      /\ snap' = [snap EXCEPT ![p] = NoCatalog]
      /\ UNCHANGED <<catalog, slots, published, helper, names, told>>
  BY DEF Prepare, Goto
<1>3. r \in Requests /\ (r.replace # None => r.replace \in Ops /\ ops[r.replace] # None /\ r.replace # o)
  BY <1>1, <1>2, Fields DEF Holds, Requesting
<1>4. r.label \in Labels
  BY <1>3 DEF Requests
<1>5. snap[p].revision \in 0 .. MaxRevision /\ previous \in Ops \cup {None} /\ cred \in Ops
  BY <1>1, <1>3, CatalogFields DEF AllowedIn, Catalogs
<1>6. record \in Operation
  BY <1>4, <1>5 DEF Operation, Creds, States
<1> HIDE DEF cred, previous
<1>7. /\ ops'[o] # None /\ ops'[o].cred = cred /\ ops'[o].previous = previous /\ ops'[o].label = r.label
      /\ ops'[o].expected = snap[p].revision /\ ops'[o].state = "prepared"
      /\ \A x \in Ops : x # o => ops'[x] = ops[x]
  BY <1>1, <1>2, <1>6, RegistrationAssumption DEF TypeOK
<1>8. TypeOK'
  <2>1. held' \in [Procs -> Held]
    BY <1>1, <1>2 DEF TypeOK, States
  <2>2. ops' \in [Ops -> {None} \cup Operation]
    BY <1>1, <1>2, <1>6 DEF TypeOK
  <2>3. /\ pc' \in [Procs -> Steps \cup States] /\ req' \in [Procs -> Requests \cup {NoRequest}]
        /\ snap' \in [Procs -> Catalogs]
    BY <1>1, <1>2, Nothing DEF TypeOK, Steps
  <2> QED BY <1>1, <1>2, <2>1, <2>2, <2>3 DEF TypeOK
<1> HIDE DEF record
<1>9. RecordsStay /\ CatalogGrows
  BY <1>2, <1>7 DEF RecordsStay, CatalogGrows
<1>10. BasedIn(ops', o, snap[p])
  <2>1. TitlesIn(ops', snap[p]) = TitlesIn(ops, snap[p])
    BY <1>1, <1>9, CatalogStays
  <2>2. snap[p].active[o] = None
    <3>1. \A x \in Ops : snap[p].active[o] = x => ops[x] # None /\ ops[x].cred = o
      BY <1>1, RegistrationAssumption DEF GenuineIn, CatalogIsBacked
    <3> QED BY <1>1, <1>2, <3>1, CatalogFields, Parts DEF NamesCredential
  <2> QED BY <1>1, <1>7, <2>1, <2>2 DEF BasedIn, AllowedIn, cred, previous
<1>11. \A x \in Ops : ops[x] = None =>
         BasedIn(ops', x, catalog) /\ \A q \in Procs : BasedIn(ops', x, snap[q])
  <2>1. \A q \in Procs : snap[q].revision = snap[p].revision => snap[q] = snap[p]
    BY Parts
  <2>2. snap[p].revision = catalog.revision => snap[p] = catalog
    BY <1>1 DEF IsPast
  <2>3. ASSUME NEW cat, cat.revision = snap[p].revision => cat = snap[p] PROVE BasedIn(ops', o, cat)
    BY <1>7, <1>10, <2>3 DEF BasedIn
  <2>4. ASSUME NEW x \in Ops, x # o, ops[x] = None, NEW cat PROVE BasedIn(ops', x, cat)
    BY <1>7, <2>4 DEF BasedIn
  <2> QED BY <2>1, <2>2, <2>3, <2>4
<1>12. /\ pc'[p] = "ask" /\ held'[p] = mine /\ req'[p] = NoRequest /\ names'[p] = names[p]
       /\ snap'[p] = NoCatalog
  BY <1>1, <1>2 DEF TypeOK
<1>13. Moves(p)
  <2>1. helper[o] = "none"
    BY <1>2, Parts DEF HelperIsRecorded
  <2>2. Holds(p)'
    BY <1>1, <1>7, <1>12, RegistrationAssumption, Fields DEF Holds, Searching, Requesting, NoRequest
  <2> QED BY <1>2, <1>12, <2>1, <2>2 DEF Moves, MayPrepare, StagedIsSo, OpensHelper
<1>14. ASSUME NEW q \in Procs \ {p} PROVE Waits(q)
  <2>1. held[q].fresh => held[q].op \in Ops /\ held[q].op # o
    BY <1>2, Parts, Fields DEF Holds
  <2> QED BY <1>1, <1>2, <1>7, <2>1 DEF Waits, TypeOK
<1>15. CallsAreSo' /\ PairsAgree' /\ Genuine(catalog)'
  BY <1>8, <1>9, <1>11, <1>13, <1>14, CallsKeep
<1>16. ASSUME NEW x \in Ops
       PROVE  NamesCredential(x)' /\ HelperIsRecorded(x)' /\ ToldIsRecorded(x)' /\ (ops'[x] # None => ops'[x].expected <= catalog'.revision)
  <2>1. CASE x # o
    BY <1>2, <1>7, <2>1, Parts, Fields DEF NamesCredential, HelperIsRecorded, ToldIsRecorded
  <2>2. CASE x = o
    <3>1. helper[o] = "none" /\ o \notin slots /\ told[o] = {}
      BY <1>2, Parts DEF HelperIsRecorded, ToldIsRecorded
    <3>2. NamesCredential(o)'
      BY <1>1, <1>3, <1>7 DEF NamesCredential, AllowedIn, cred, previous
    <3>3. snap[p].revision <= catalog.revision
      BY <1>1 DEF IsPast
    <3> QED BY <1>2, <1>7, <2>2, <3>1, <3>2, <3>3 DEF HelperIsRecorded, ToldIsRecorded
  <2> QED BY <2>1, <2>2
<1>17. NoSecretIsForgotten' /\ CatalogIsBacked'
  BY <1>1, <1>2, <1>7 DEF NoSecretIsForgotten, CatalogIsBacked
<1> QED BY <1>8, <1>15, <1>16, <1>17 DEF IInv, RecordsAreSo

-----------------------------------------------------------------------------
\* Replacing the catalog.

\* A catalog at a revision no operation knows yet is genuine, when it names what
\* is published.
LEMMA NextIsGenuine ==
  ASSUME IInv, UNCHANGED ops, catalog'.revision = catalog.revision + 1,
         \A c \in Ops : catalog'.active[c] # None =>
           catalog'.active[c] \in published' /\ ops[catalog'.active[c]].cred = c
  PROVE  Genuine(catalog)'
<1>1. catalog.revision \in Int /\ catalog.revision >= -1
  BY Parts, CatalogFields DEF TypeOK
<1>2. \A o \in Ops : BasedIn(ops', o, catalog')
  BY <1>1, Parts, Fields DEF BasedIn
<1>3. GenuineIn(ops', published', catalog')
  BY <1>1, <1>2 DEF GenuineIn
<1> QED BY <1>3, Readings

\* The next catalog is published, and one call moves or none.
LEMMA CatalogKeeps ==
  ASSUME IInv, TypeOK', UNCHANGED <<ops, slots, helper, told>>,
         catalog'.revision = catalog.revision + 1, Genuine(catalog)', CatalogIsBacked',
         published \subseteq published',
         NEW p, \A q \in Procs : Waits(q) \/ (q = p /\ Moves(q))
  PROVE  IInv'
<1>1. RecordsStay /\ CatalogGrows /\ \A x \in Ops : ops[x] = None => \A cat : BasedIn(ops', x, cat)
  BY DEF RecordsStay, CatalogGrows, BasedIn
<1>2. CallsAreSo' /\ PairsAgree' /\ Genuine(catalog)'
  BY <1>1, CallsKeep
<1>3. ASSUME NEW x \in Ops
      PROVE  NamesCredential(x)' /\ HelperIsRecorded(x)' /\ ToldIsRecorded(x)'
  BY Parts DEF NamesCredential, HelperIsRecorded, ToldIsRecorded
<1>4. \A x \in Ops : ops'[x] # None => ops'[x].expected <= catalog'.revision
  <2>1. catalog.revision \in Int
    BY Parts, CatalogFields DEF TypeOK
  <2> QED BY <2>1, Parts, Fields
<1>5. NoSecretIsForgotten'
  BY Parts DEF NoSecretIsForgotten
<1> QED BY <1>2, <1>3, <1>4, <1>5 DEF IInv, RecordsAreSo

\* A call creates the empty catalog and bases its operation on it.
LEMMA CreateCatalogStep == ASSUME IInv, NEW p \in Procs, CreateCatalog(p) PROVE IInv'
<1>1. /\ TypeOK /\ Holds(p) /\ pc[p] = "create" /\ CatalogIsBacked /\ catalog = NoCatalog
      /\ catalog' = [NoCatalog EXCEPT !.revision = 0] /\ Based(p, catalog')
      /\ UNCHANGED <<ops, slots, published, helper>> /\ req[p] \in Requests
  BY Parts DEF CreateCatalog, Holds, Requesting
<1>2. /\ catalog'.revision = 0 /\ catalog'.revision = catalog.revision + 1 /\ catalog' \in Catalogs
      /\ \A c \in Ops : catalog'.active[c] = None
  BY <1>1, Nothing, RegistrationAssumption DEF NoCatalog, Catalogs, Creds
<1>3. Genuine(catalog)' /\ CatalogIsBacked'
  <2>1. Genuine(catalog)'
    BY <1>1, <1>2, NextIsGenuine
  <2> QED BY <1>1, <1>2, <2>1, RegistrationAssumption DEF CatalogIsBacked, Creds
<1>4. \A q \in Procs \ {p} : Waits(q)
  BY <1>1 DEF Based, Return, Forget, Goto, Waits, TypeOK
<1>5. CASE Return(p)
  <2>1. TypeOK'
    <3>1. NoHold \in [op : Ops \cup {None}, state : States \cup {"none"}, fresh : BOOLEAN]
      BY DEF NoHold
    <3> QED BY <1>1, <1>2, <1>5, <3>1, Nothing DEF TypeOK, Return, Forget, Steps
  <2>2. Moves(p) /\ told' = told
    BY <1>1, <1>5, IdleIsSo DEF Return, Forget, TypeOK
  <2> QED BY <1>1, <1>2, <1>3, <1>4, <2>1, <2>2, CatalogKeeps
<1>6. ASSUME NEW step \in {"prepare", "check"}, Goto(p, step), snap' = [snap EXCEPT ![p] = catalog'],
             IF req[p].replace = None THEN req[p].label.title \notin TitlesOf(catalog')
             ELSE catalog'.active[req[p].replace] # None,
             UNCHANGED <<req, names, held, told>>
      PROVE  IInv'
  <2>1. TypeOK'
    BY <1>1, <1>2, <1>6 DEF TypeOK, Goto, Steps
  <2>2. pc'[p] = step /\ snap'[p] = catalog'
    BY <1>1, <1>6 DEF TypeOK, Goto
  <2>3. req[p].replace = None => req[p].label.title \notin TitlesIn(ops', catalog')
    BY <1>1, <1>6 DEF TitlesOf, TitlesIn
  <2>4. MayPrepare(p)'
    BY <1>2, <1>6, <2>2, <2>3, Readings DEF AllowedIn
  <2>5. Moves(p)
    BY <1>1, <1>6, <2>2, <2>4 DEF Moves, Holds, StagedIsSo, OpensHelper, Searching, Requesting
  <2> QED BY <1>1, <1>2, <1>3, <1>4, <1>6, <2>1, <2>5, CatalogKeeps
<1> QED BY <1>1, <1>5, <1>6 DEF Based

\* A stored generation is published over the catalog it was staged on.
LEMMA CommitStep == ASSUME IInv, NEW p \in Procs, Commit(p) PROVE IInv'
<1>1. PICK o \in Ops : o = held[p].op /\ ops[o] # None
  BY Parts, Fields DEF Commit, Holds, Searching
<1>2. /\ TypeOK /\ Holds(p) /\ CatalogIsBacked /\ pc[p] = "commit" /\ o \in slots /\ ops[o].cred \in Ops
      /\ catalog.revision < MaxRevision
      /\ catalog' = [revision |-> catalog.revision + 1,
                     active   |-> [catalog.active EXCEPT ![ops[o].cred] = o]]
      /\ published' = published \cup {o} /\ pc' = [pc EXCEPT ![p] = "close"]
      /\ snap' = [snap EXCEPT ![p] = NoCatalog] /\ UNCHANGED <<ops, slots, helper, req, names, held, told>>
  BY <1>1, Parts, Fields DEF Commit, Goto, StagedIsSo
<1>3. catalog.revision \in Int /\ catalog.revision >= -1 /\ catalog.active \in [Ops -> Ops \cup {None}]
  BY <1>2, CatalogFields DEF TypeOK
<1>4. /\ catalog' \in Catalogs /\ catalog'.revision = catalog.revision + 1
      /\ catalog'.active[ops[o].cred] = o
      /\ \A c \in Ops : c # ops[o].cred => catalog'.active[c] = catalog.active[c]
  BY <1>2, <1>3, RegistrationAssumption DEF Catalogs, Creds
<1>5. TypeOK'
  BY <1>2, <1>4, Nothing DEF TypeOK, Steps
<1>6. CatalogIsBacked'
  BY <1>1, <1>2, <1>4 DEF CatalogIsBacked, Creds
<1>7. Genuine(catalog)'
  <2>1. \A c \in Ops : catalog'.active[c] # None => catalog'.active[c] \in published' /\ ops[catalog'.active[c]].cred = c
    BY <1>2, <1>3, <1>4 DEF CatalogIsBacked, Creds
  <2> QED BY <1>2, <1>4, <2>1, NextIsGenuine
<1>8. Moves(p)
  <2>1. pc'[p] = "close" /\ snap'[p] = NoCatalog
    BY <1>2 DEF TypeOK
  <2> QED BY <1>1, <1>2, <2>1 DEF Moves, Holds, MayPrepare, StagedIsSo, OpensHelper, Searching, Requesting
<1>9. \A q \in Procs \ {p} : Waits(q)
  BY <1>2 DEF Waits, TypeOK
<1> QED BY <1>2, <1>4, <1>5, <1>6, <1>7, <1>8, <1>9, CatalogKeeps

\* Something else in the catalog changes.
LEMMA OtherChangeStep == ASSUME IInv, OtherChange PROVE IInv'
<1>1. /\ TypeOK /\ CatalogIsBacked /\ catalog.revision < MaxRevision
      /\ catalog' = [catalog EXCEPT !.revision = @ + 1]
      /\ UNCHANGED <<ops, slots, published, helper, pc, locals, held, told>>
  BY Parts DEF OtherChange
<1>2. catalog.revision \in Int /\ catalog.revision >= -1 /\ catalog.active \in [Ops -> Ops \cup {None}]
  BY <1>1, CatalogFields DEF TypeOK
<1>3. catalog' \in Catalogs /\ catalog'.revision = catalog.revision + 1 /\ catalog'.active = catalog.active
  <2>1. catalog \in Catalogs /\ catalog.revision + 1 \in -1 .. MaxRevision
    BY <1>1, <1>2, RegistrationAssumption DEF TypeOK
  <2> QED BY <1>1, <2>1 DEF Catalogs
<1>4. TypeOK' /\ CatalogIsBacked'
  BY <1>1, <1>3 DEF TypeOK, CatalogIsBacked, locals
<1>5. Genuine(catalog)'
  BY <1>1, <1>2, <1>3, NextIsGenuine DEF CatalogIsBacked, Creds
<1>6. \A q \in Procs : Waits(q)
  BY <1>1 DEF Waits, locals
<1> QED BY <1>1, <1>3, <1>4, <1>5, <1>6, CatalogKeeps

-----------------------------------------------------------------------------
\* Every step keeps the invariant.
LEMMA IInvStep == IInv /\ [Next]_vars => IInv'
<1> SUFFICES ASSUME IInv, [Next]_vars PROVE IInv'
  OBVIOUS
<1>1. ASSUME NEW p \in Procs, NEW r \in Requests, Call(p, r) PROVE IInv'
  BY <1>1, CallStep
<1>2. ASSUME NEW p \in Procs, Search(p) \/ Recall(p) \/ Throw(p) PROVE IInv'
  BY <1>2, SearchStep, RecallStep, ThrowStep
<1>3. ASSUME NEW p \in Procs, NEW o \in Ops,
             Prepare(p, o) \/ \E r \in Resumptions : Resume(p, o, r)
      PROVE  IInv'
  BY <1>3, ResumeStep, PrepareStep
<1>4. ASSUME NEW p \in Procs, ReadCatalog(p) \/ CreateCatalog(p) \/ CheckPrevious(p) PROVE IInv'
  BY <1>4, ReadCatalogStep, CreateCatalogStep, CheckPreviousStep
<1>5. ASSUME NEW p \in Procs, Ask(p) \/ Hear(p) \/ Cancel(p) PROVE IInv'
  BY <1>5, AskStep, HearStep, CancelStep
<1>6. ASSUME NEW p \in Procs, Recover(p) \/ Probe(p) \/ Stage(p) \/ Commit(p) \/ Close(p) PROVE IInv'
  BY <1>6, RecoverStep, ProbeStep, StageStep, CommitStep, CloseStep
<1>7. ASSUME NEW o \in Ops, HumanSaves(o) \/ HumanDeclines(o) PROVE IInv'
  BY <1>7, HumanStep
<1>8. CASE OtherChange
  BY <1>8, OtherChangeStep
<1>9. CASE UNCHANGED vars
  <2>1. /\ UNCHANGED <<records, helper>> /\ TypeOK' /\ \A q \in Procs : Waits(q)
        /\ \A o \in Ops : ToldIsRecorded(o)'
    BY <1>9, Parts DEF vars, records, locals, TypeOK, Waits, ToldIsRecorded
  <2> QED BY <2>1, CallKeeps
<1> QED BY <1>1, <1>2, <1>3, <1>4, <1>5, <1>6, <1>7, <1>8, <1>9 DEF Next

\* The calls, the records, the stored secrets and the catalog agree, and every
\* catalog a call has read is an earlier one (input.ts, registerCredential;
\* registration.ts, reconcile).
THEOREM RegistrationInvariant == Spec => []IInv
BY InitIInv, IInvStep, PTL DEF Spec

\* No stored secret is without a record, and none appears after a cancellation:
\* whatever call asked for it, died, or was overtaken (input.ts, registerCredential).
THEOREM SecretsAreRecorded == Spec => []NoSecretIsForgotten
<1>1. IInv => NoSecretIsForgotten
  BY DEF IInv
<1> QED BY <1>1, RegistrationInvariant, PTL

\* The catalog names only recorded generations with a stored secret, and a record
\* says committed only of a generation that was published (input.ts, commitStored).
THEOREM CatalogNamesStoredSecrets == Spec => []CatalogIsBacked
<1>1. IInv => CatalogIsBacked
  BY DEF IInv
<1> QED BY <1>1, RegistrationInvariant, PTL

\* An outcome a caller was told stays true: committed was published, cancelled
\* stored nothing and never will; all who asked for an operation hear one outcome,
\* a conflict only if it is recorded, although others were refused meanwhile
\* (input.ts, registerCredential and result).
THEOREM CallersAreToldTheTruth == Spec => []AnswersAreTruthful
<1>1. IInv => AnswersAreTruthful
  <2> SUFFICES ASSUME IInv, NEW o \in Ops, NEW a \in told[o]
               PROVE  /\ a.status = "committed" => o \in published
                      /\ a.status = "cancelled" => o \notin slots \cup published /\ helper[o] # "open"
                      /\ a.status = "conflict" /\ a.fits => ops[o].state = "conflict"
                      /\ \A b \in told[o] : a.fits /\ b.fits => a.status = b.status
    BY DEF AnswersAreTruthful
  <2>1. /\ \A b \in told[o] : ops[o] # None /\ b.status = IF b.fits THEN ops[o].state ELSE "conflict"
        /\ NoSecretIsForgotten /\ CatalogIsBacked
    BY Parts DEF ToldIsRecorded
  <2>2. a.status = "committed" => o \in published
    BY <2>1 DEF CatalogIsBacked
  <2>3. a.status = "cancelled" => o \notin slots \cup published /\ helper[o] # "open"
    BY <2>1 DEF CatalogIsBacked, NoSecretIsForgotten
  <2> QED BY <2>1, <2>2, <2>3
<1> QED BY <1>1, RegistrationInvariant, PTL

-----------------------------------------------------------------------------
\* What a step may change of the catalog and of a record.

\* Only a commit changes what the catalog names.
LEMMA OnlyCommitsPublish ==
  ASSUME IInv, Next
  PROVE  catalog'.active = catalog.active \/ \E p \in Procs : Commit(p)
<1>1. ASSUME NEW p \in Procs, CreateCatalog(p) PROVE catalog'.active = catalog.active
  BY <1>1 DEF CreateCatalog, NoCatalog
<1>2. ASSUME OtherChange PROVE catalog'.active = catalog.active
  <2>1. catalog \in Catalogs
    BY Parts DEF TypeOK
  <2> QED BY <1>2, <2>1 DEF OtherChange, Catalogs
<1>3. ASSUME NEW p \in Procs, NEW r, NEW o,
             \/ Call(p, r) \/ Search(p) \/ Recall(p) \/ Resume(p, o, r) \/ ReadCatalog(p) \/ CheckPrevious(p)
             \/ Prepare(p, o) \/ Ask(p) \/ Hear(p) \/ Cancel(p) \/ Recover(p) \/ Probe(p) \/ Stage(p)
             \/ Close(p) \/ Throw(p) \/ HumanSaves(o) \/ HumanDeclines(o)
      PROVE  catalog' = catalog
  BY <1>3 DEF Call, Search, Recall, Resume, ReadCatalog, CheckPrevious, Prepare, Ask, Hear, Cancel,
              Recover, Probe, Stage, Close, Throw, HumanSaves, HumanDeclines, records
<1>4. CASE \E p \in Procs : \/ \E r \in Requests : Call(p, r)
                            \/ Search(p) \/ Recall(p)
                            \/ \E o \in Ops, r \in Resumptions : Resume(p, o, r)
                            \/ ReadCatalog(p) \/ CreateCatalog(p) \/ CheckPrevious(p)
                            \/ \E o \in Ops : Prepare(p, o)
                            \/ Ask(p) \/ Hear(p) \/ Cancel(p)
                            \/ Recover(p) \/ Probe(p) \/ Stage(p) \/ Commit(p) \/ Close(p)
                            \/ Throw(p)
  BY <1>1, <1>3, <1>4
<1>5. CASE \E o \in Ops : HumanSaves(o) \/ HumanDeclines(o)
  BY <1>5 DEF HumanSaves, HumanDeclines, records
<1> QED BY <1>2, <1>4, <1>5 DEF Next

\* A commit replaces, of the credential the operation names, exactly what the
\* operation was prepared to replace, and the label of a new one is not in use.
LEMMA CommitFollows ==
  ASSUME IInv, NEW p \in Procs, Commit(p), NEW c \in Creds, catalog'.active[c] # catalog.active[c]
  PROVE  /\ catalog'.active[c] \in Ops
         /\ ops[catalog'.active[c]].cred = c /\ ops[catalog'.active[c]].previous = catalog.active[c]
         /\ catalog.active[c] = None => catalog'.active[c] = c /\ ops[c].label.title \notin TitlesOf(catalog)
<1>1. PICK o \in Ops : o = held[p].op /\ ops[o] # None
  BY Parts, Fields DEF Commit, Holds, Searching
<1>2. /\ pc[p] = "commit" /\ catalog = snap[p]
      /\ catalog' = [revision |-> catalog.revision + 1,
                     active   |-> [catalog.active EXCEPT ![ops[o].cred] = o]]
  BY <1>1 DEF Commit
<1>3. catalog.active \in [Ops -> Ops \cup {None}] /\ ops[o].cred \in Ops
  BY <1>1, Parts, Fields, CatalogFields DEF TypeOK
<1>4. c = ops[o].cred /\ catalog'.active[c] = o
  BY <1>2, <1>3 DEF Creds
<1>5. catalog.revision = ops[o].expected
  BY <1>1, <1>2, Parts DEF StagedIsSo
<1>6. /\ catalog.active[c] = ops[o].previous
      /\ ops[o].previous = None => ops[o].label.title \notin TitlesOf(catalog)
  BY <1>1, <1>4, <1>5, Parts DEF Genuine, BasedOn
<1>7. ops[o].previous = None => c = o
  BY <1>1, <1>4, Parts DEF NamesCredential
<1> QED BY <1>4, <1>6, <1>7

\* A generation only replaces the one its operation was prepared to replace, so
\* no rotation undoes another one (input.ts, commitStored's compare-and-swap).
THEOREM RotationsFollow == Spec => RotationsFollowTheirPrevious
<1>1. ASSUME IInv, Next
      PROVE  \A c \in Creds : catalog'.active[c] # catalog.active[c] =>
               LET o == catalog'.active[c] IN ops[o].cred = c /\ ops[o].previous = catalog.active[c]
  BY <1>1, OnlyCommitsPublish, CommitFollows
<1>2. IInv /\ [Next]_vars =>
        [\A c \in Creds : catalog'.active[c] # catalog.active[c] =>
           LET o == catalog'.active[c] IN ops[o].cred = c /\ ops[o].previous = catalog.active[c]]_vars
  BY <1>1
<1> QED BY <1>2, RegistrationInvariant, PTL DEF Spec, RotationsFollowTheirPrevious

\* A new credential appears only beside labels it differs from, although they were
\* read before the person was asked (registration.ts, prepareRegistration).
THEOREM LabelsStayDistinct == Spec => NewLabelsDiffer
<1>1. ASSUME IInv, Next
      PROVE  \A c \in Creds : catalog.active[c] = None /\ catalog'.active[c] # None =>
               ops[c].label.title \notin TitlesOf(catalog)
  BY <1>1, OnlyCommitsPublish, CommitFollows
<1>2. IInv /\ [Next]_vars =>
        [\A c \in Creds : catalog.active[c] = None /\ catalog'.active[c] # None =>
           ops[c].label.title \notin TitlesOf(catalog)]_vars
  BY <1>1
<1> QED BY <1>2, RegistrationInvariant, PTL DEF Spec, NewLabelsDiffer

\* A saver leaves a final record as it is.
LEMMA SavesKeepOutcomes ==
  ASSUME IInv, NEW p \in Procs, NEW state, CanSave(p, state), pc[p] \notin Searching \cup {"recall"},
         ops' = [ops EXCEPT ![held[p].op].state = state]
  PROVE  \A o \in Ops : ops[o] # None /\ ops[o].state \in Final => ops'[o] = ops[o]
<1>1. /\ held[p].op \in Ops /\ ops[held[p].op] \in Operation /\ held[p].state = ops[held[p].op].state
      /\ TypeOK
  BY Parts, Fields DEF Holds, CanSave
<1>2. \A o \in Ops : o # held[p].op => ops'[o] = ops[o]
  BY <1>1 DEF TypeOK
<1>3. ASSUME ops[held[p].op].state \in Final PROVE ops'[held[p].op] = ops[held[p].op]
  <2>1. state = ops[held[p].op].state
    BY <1>1, <1>3 DEF CanSave
  <2>2. ops'[held[p].op] = [ops[held[p].op] EXCEPT !.state = ops[held[p].op].state]
    BY <1>1, <2>1 DEF TypeOK
  <2> QED BY <1>1, <2>2 DEF Operation
<1> QED BY <1>2, <1>3

\* A recorded outcome is never revised, although calls that read the record
\* before still run (store.ts, the version check of a save).
THEOREM OutcomesAreFinal == Spec => OutcomesStay
<1> DEFINE Stays == \A o \in Ops : ops[o] # None /\ ops[o].state \in Final => ops'[o] = ops[o]
<1>1. ASSUME IInv, NEW p \in Procs, Cancel(p) \/ Close(p) PROVE Stays
  <2>1. PICK state : CanSave(p, state) /\ ops' = [ops EXCEPT ![held[p].op].state = state]
    BY <1>1 DEF Cancel, Close, SaveAndReturn
  <2>2. pc[p] \notin Searching \cup {"recall"}
    BY <1>1 DEF Cancel, Close, Searching
  <2> QED BY <1>1, <2>1, <2>2, SavesKeepOutcomes
<1>2. ASSUME IInv, NEW p \in Procs, Stage(p) PROVE Stays
  <2>1. CanSave(p, pc[p]) /\ ops' = [ops EXCEPT ![held[p].op].state = pc[p]]
    BY <1>2 DEF Stage, Save, SaveAndReturn
  <2>2. pc[p] \notin Searching \cup {"recall"}
    BY <1>2 DEF Stage, States, Final, Searching
  <2> QED BY <1>2, <2>1, <2>2, SavesKeepOutcomes
<1>3. ASSUME IInv, NEW p \in Procs, NEW o \in Ops, Prepare(p, o) PROVE Stays
  <2>1. ops[o] = None /\ \A x \in Ops : x # o => ops'[x] = ops[x]
    BY <1>3, Parts DEF Prepare, TypeOK
  <2> QED BY <2>1
<1>4. ASSUME NEW p \in Procs, NEW r, NEW o,
             \/ Call(p, r) \/ Search(p) \/ Recall(p) \/ Resume(p, o, r) \/ ReadCatalog(p) \/ CheckPrevious(p)
             \/ CreateCatalog(p) \/ Ask(p) \/ Hear(p) \/ Recover(p) \/ Probe(p) \/ Commit(p) \/ Throw(p)
      PROVE  ops' = ops
  BY <1>4 DEF Call, Search, Recall, Resume, ReadCatalog, CheckPrevious, CreateCatalog, Ask, Hear,
              Recover, Probe, Commit, Throw, records
<1>5. ASSUME (\E o \in Ops : HumanSaves(o) \/ HumanDeclines(o)) \/ OtherChange PROVE ops' = ops
  BY <1>5 DEF HumanSaves, HumanDeclines, OtherChange, records
<1>6. ASSUME IInv, Next PROVE Stays
  BY <1>1, <1>2, <1>3, <1>4, <1>5, <1>6 DEF Next
<1>7. IInv /\ [Next]_vars => [Stays]_vars
  BY <1>6
<1> QED BY <1>7, RegistrationInvariant, PTL DEF Spec, OutcomesStay
=============================================================================
