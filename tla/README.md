# Verification of api-key-case

`api-key-case` lets coding agents work with API keys without ever seeing them.
A person enters a secret in a dialog of the operating system, the secret is kept
in the OS secret store, and the program hands it to a provider's command line
tool (`wrangler`, `vercel`, `gh`) or to a local process once a person approved
the destination.  What makes it correct is bookkeeping under failure: several
processes share journals, catalogs and locks on disk, any call may throw, any
process may die, dialogs and provider tools outlive the call that started them,
and a person may remove a lock that looks abandoned.

This directory models that bookkeeping in TLA+, checks it with TLC on small
instances and proves its main results with TLAPS for every instance.  Paths
below are relative to `src/packages/core/` unless they start elsewhere.

- [1. The system](#1-the-system)
- [2. The modules](#2-the-modules)
- [3. Runs, bounds and fairness](#3-runs-bounds-and-fairness)
- [4. Proofs](#4-proofs)
- [5. Findings](#5-findings)
- [6. Abstractions, and what is not modelled](#6-abstractions-and-what-is-not-modelled)
- [7. Plan](#7-plan)

## 1. The system

### Components, their state and their operations

| Component | State it keeps | Operations |
|---|---|---|
| Deployment history (`deploy/history.ts`) | `history.json`, `history.tmp`, a lock directory per project | `begin*`, `finish*`, `read`; a person's cleanup after a crash |
| Catalog store (`vnext/files.ts`) | `catalog.json`, one file per operation, one temporary file and lock directory each, a lock directory per use | `readCatalog`, `compareAndSwap`, `saveOperation`, `readOperation`, `listOperations`, `withUseLock` |
| Credential registration (`vnext/input.ts`, `registration.ts`) | operation records, the catalog, slots of the OS store | `registerCredential`: prepare, ask, store, commit, and recovery of an earlier call |
| Use of a binding (`vnext/use.ts`, `hosted-use.ts`) | operation records of a use, its lock | `applyUse`, `applyHostedUse`, the read-only status |
| Deploy engine (`deploy/engine.ts`, `destination.ts`) | trust records (exact destination, slot) in the OS store; all else is in the history | `runDeployEngine` |
| Secret handoff (`deploy/handoff.ts`) | none; a child process that may outlive it | `performSecretHandoff` and its variants for connections, preparations, hosted uses and local launches |
| Snapshots (`deploy/snapshot.ts`, `which.ts`) | none; identities of files, tool and account | `createTrustedExecutionSnapshot`, `matchesTrustedExecution` |
| Lifecycle (`lifecycle.ts`) | none of its own | `runForgetDestinationTrust`, `runRemoveSecret` |
| Catalog changes (`vnext/binding.ts`, `manage.ts`, `launch.ts`) | the catalog, operation records | `applyBinding`, `applyManagement`, `registerProfile`, `recoverBinding` |
| Connection state (`agent/connection-state.ts`, `connection-credential.ts`) | the selection (intent) and its archive, credential revisions, the journal of observations, a slot lock held across a dialog | select, resume, save, replace, remove, begin and finish an observation |
| Check and report (`agent/connection-check.ts`, `next.ts`) | none; they read the connection state | `checkResendConnection`, `buildNextReport` |
| Local session (`deploy/handoff.ts`, `local/windows-owner.ts`) | a session receipt and its lock; a helper process that owns the application | trial, cancellation, time limit, a person's review |
| Local launch (`vnext/launch.ts`) | operation records and the use lock of a profile | `applyLaunch`, `launchOperationStatus` |
| Vault (`vault/`) | the OS secret store beside an index file | save, remove, list |
| License exchange (`license-exchange.ts`, `src/workers/license-exchange`) | one token; the worker keeps nothing | exchange |
| Human plane (`human/`) | a dialog process | ask for approval, ask for a secret |
| Adapters, other observations, guidance, scanner, telemetry, CLI and MCP | none, or best-effort files | plans, probes, text |

`PROJECT.json` lists each with its sources and what is left out of it.

### How they interact

- The CLI and the MCP server run the operations above in processes of their own;
  nothing serialises them but the files.  Every operation is asynchronous code:
  between two awaited accesses anything may happen.
- **Deploy**: the engine reads the trust records, asks the human plane, calls
  the history's `begin`, hands the secret over, calls `finish`, and writes the
  trust records.  It reads the history again in its checks.
- **Register**: `registerCredential` lists operation records, reads the catalog,
  writes an operation, opens the dialog whose *helper* stores the secret, probes
  the OS store, swaps the catalog and writes the operation again.
- **Use**: `applyUse` claims a directory lock, lists operation records, asks,
  writes a receipt, runs the tool, writes the result and releases the lock.
- **Change the catalog**: a command plans from the catalog it read, asks, plans again,
  writes an operation, swaps the catalog and completes the operation; any process may
  recover an operation at any time.
- **Connect**: a credential command takes the slot's lock, makes the revision pending, opens
  the dialog whose helper stores or deletes, and settles the revision.  Selections and resumes
  rewrite the intent and its archive.  The provider check and the report read all of it
  without a lock while they await probes, and read it again afterwards.
- **Try and launch**: a trial claims the session lock, starts a helper, hands it the secret by a pipe
  and hears its lines; the helper owns the application's processes.  A launch does the same
  under the lock of its profile and records operations instead of a receipt.
- **Forget**: `runForgetDestinationTrust` deletes the trust records that a running
  deploy may be about to write.

### What is hard, and what correct means

| Component | Hard behaviour | Correct means |
|---|---|---|
| History | crash between any two system calls, leftover lock and temporary file, retention evicting an open attempt, readers without a lock | no acknowledged start is lost except by retention; a result is its own attempt's; schemas never go back; no call waits |
| Catalog store | lock removed under a live owner, failure after the rename, answer read back after another rename | compare-and-swap; nobody removes a successor's lock; a truthful snapshot |
| Registration | lost response of the helper, two recoveries of one operation, replacement racing replacement, stale listing | no stored secret without a record; nothing published unrecorded; final states stay; labels differ |
| Use | everything between approval and tool: expiry, change of catalog, removed lock, dead process, surviving tool | a secret is not handed over twice unless the first is known complete; the journal never denies an effect |
| Catalog changes | a plan that is outdated when it is applied, a crash around the swap, a recovery beside its command | what is published is what was confirmed, on the catalog that was shown; completed means published |
| Connection state | two files for one selection, a dialog that outlives its command, readers that await between reads | no selection is lost; a settled revision names the stored value; checks and reports speak of one moment |
| Local session | command and helper die or hang separately, timers, lines in flight | one application at a time; a receipt never claims an end that has not come; helpers end |
| Local launch | locks removed by hand, failed saves of the running state | one application per profile; the status never denies one |
| Vault | an index without a lock, written in place | a revision stands for one value |
| Engine | start without a tool, tool without a result, change during a deploy, trust written while it is forgotten | nothing placed unannounced or unapproved; "nothing was written" is true; receipts are honest |

The hazards these come from are listed one by one, with the line where each
bites, under `hazards` in `PROJECT.json`.

## 2. The modules

```
JournalData ── AtomicJournal ──────────────── DeployEngine
     │              ▲                              │
     │              │ refines                 DeployEngineProofs
     └──── DeploymentHistory
                                  AtomicCatalog ◄── refines ── CatalogStore
Registration, CatalogChanges  (use the catalog as that register)
UseDelivery, LocalLaunch      (use the catalog as a basis that changes)

ConnectionState ◄── extends ── ConnectionReports
LocalSession ····· its promise is the handoff of LocalLaunch
VaultRegistry
```

Each module with a specification has an `MC` module (constants, symmetry and constraints for
TLC) with one or more `.cfg` files, and an `XProofs` where its theorems are (CatalogProofs for both CatalogStore and CatalogChanges,
ConnectionReportsProofs for ConnectionState too).  Operators marked *Fault*
are plausible bugs; nothing in a specification uses them.  They are what each
property is tested against: with the fault in place of the operator it replaces,
TLC finds the property violated.

**JournalData** is the value of `history.json` and the two edits of it: append a
start and retain the last `LIMIT`, close a start.  A receipt is its attempt, the
schema version its shape needs, and its outcome.

**AtomicJournal** is what the history promises: a start or a result takes effect
at once or not at all, success is answered only after it, and nothing is taken
back except by retention.

**DeploymentHistory** is `DeploymentHistory.change` and `read`, one file system
call per action: `TakeLock` (mkdir), `Load` (lstat of the temporary file, read,
edit), `OpenTemporary` (`wx`), `WriteTemporary`, `Rename`, `UnlinkTemporary`,
`ReleaseLock`; `LockFails`, `ChangeFails` for any call that throws; `Crash`;
`ReviewStorage`, the person's cleanup; `ReadLock` to `ReadOpen` of a reader that
takes no lock.  `Abstract` instantiates AtomicJournal with `file` as the journal
and, as a deploy's phase, what its own program counter and result say.

**AtomicCatalog** is a compare-and-swap register; **CatalogStore** is
`readCatalog` and `compareAndSwap` (and so `saveOperation`, which is the same
`claim` and `replace`) by file system call, with a person who removes a lock under
a live owner (`RemoveLock`) or cleans up when nobody works.  A release looks whose the lock is
(`Release`) and removes it by its path (`RemoveOwnLock`), whoever's it is by then.  A file's identity is
the rename that put it there, so `versions` is the sequence of catalogs ever
renamed into place.  Its specification is `StoreSpec`, its steps are `stage`: the names that CatalogChanges has too differ, so that
one module can hold the theorems of both.

**Registration** is `registerCredential`: `search` (list the records), `catalog`
(read), `create`, `check`, `prepare`, `ask`, the helper that runs by itself,
probing, `commit` and the saves of each outcome.  Two processes may hold the same
operation; `held[p].fresh` is the file identity check of `saveOperation`.  A label is its `title` (what remains
when case is folded) and its `form` (the case of its letters, and the classification): a search finds an unfinished operation by title
alone, and `Recall` and `Resume` refuse the caller whose whole request it does not fit.  `told` holds what callers heard of an
operation and whether it fits what they asked for.

**UseDelivery** is `applyUse` and `applyHostedUse` with `withUseLock`, the journal's
listing, the consent record, the approval and its age, the receipt, the handoff
and the result, with the lock's identity checked where the code checks it.

**DeployEngine** is `runDeployEngine` from the binding of the destination to its
answer, with `performSecretHandoff` (`CheckPrestep`, `Prestep`, `CheckRead`,
`Spawn`, `Hear`), the trust records (`ReadTrust`, `RecordSlot`, `RecordExact`) and
`runForgetDestinationTrust` (`Resolve` to `DeleteSlot`).  It EXTENDS AtomicJournal:
its `BeginHistory`, `HistoryBegan`, `HistoryUnavailable` and `FinishHistory` are the
history's calls, so that the composition with DeploymentHistory is the refinement
proved there and `EngineDrivesTheJournal` proved here.

**CatalogChanges** is `applyBinding`, `applyManagement` and `registerProfile` with
`recoverBinding`.  `Proposed` is what each plan makes of a catalog (`Bound`, `Unlinked`,
`Relinked`, `Classified`, `Profiled`), `Plan` to `Complete` the steps from the first reading to the
completed operation, `Create` the empty catalog the first binding makes, `Recover` to `Mark` a recovery.  `published` is the
history of CatalogStore's register, `base` and `snap` are positions in it: what a plan was made from, and the file its
swap expects.

**ConnectionState** is `ConnectionStateStore` with the commands that change it: `Select`; `Plan`
and `Recompute` of a resume; `TakeSlot`, `Invalidate`, `Ask`, `HelperStores`, `Settle` and `ReleaseSlot` of a credential
command.  Every change holds the directory lock (`TakeLock` to `Unlock`) and replaces a file by way of a temporary
one (`Writing`, `Spoils`).  **ConnectionReports** adds the readers: `checkResendConnection` (`Check` to
`RecordVerdict`, with the journal of observations) and `buildNextReport` (`Report` to `ReadIntentAgain`).

**LocalSession** is a trial: `prepareLocalExecution` (`Prepare` to `Leave`), `performLocalApplicationHandoff` (`Hear`, `Secret`,
`Release`, `Started`, `Terminal`, `Close`, with the timers `Deadline` and `Timeout`), the session's receipt and lock
(`BeginSession`, `FinishSession`, `ReleaseSession`), and the helper (`Owner...`) at the other end of two pipes (`told`, `said`).
`tree` is the application's processes, which the operating system ends when their owner ends.

**LocalLaunch** is `applyLaunch` and `executeLaunch`: `Claim` the lock of the profile, `List` its operations,
`Record`, `Approve`, the handoff (`Create`, `Launched`, `Return`), `Finish`; `CleanUp` is a person who removes the lock
of a command that died.

**VaultRegistry** is `saveSecret` (`Store`, `Upsert`, `Open`, `Write`) and `runRemoveSecret` (`Probe` to `Drop`) on the store and
its index.  `Open` empties the file before `Write` fills it, and an index that is read in between counts as empty.

## 3. Runs, bounds and fairness

| Run | Question | Instance |
|---|---|---|
| `deployment_history` | does the file protocol implement the journal whatever fails, what may a reader without a lock claim, and does every call return? | 2 deploys, 1 reader, `LIMIT` 1, two schema kinds, two outcomes |
| `catalog_store` | is the store a compare-and-swap register with locks removed by hand? | 3 processes, 2 swaps, 2 removed locks |
| `registration` | is anything stored forgotten, published unseen, or undone by a rotation that had not seen it? | 2 processes, 3 operations, 1 label in 2 forms, revisions to 2, of one credential to 3 |
| `registration_overtaken` | *(violation)* is a published generation ever called a conflict? | 2 processes, 3 operations on one credential, 1 label, revisions to 3 |
| `use_delivery` | can a secret be handed over twice, on a stale basis or an expired approval? | 3 processes, 2 operations, 1 change, 2 removed locks |
| `deploy_engine` | is every answer, receipt and placement of the engine justified? | 2 deploys of any kind, `LIMIT` 1, 2 destinations, 1 forgetting, 1 change |
| `deploy_forgotten` | *(violation)* does the next deploy ask again after a forgetting? | 2 automatic deploys |
| `connection_reports` | is a selection lost, does a settled revision name another value, does a check or a report mix two moments? | 4 commands, 1 dies, 2 environments, 2 routes, room for one observation, a clock that stands |
| `local_session` | do two applications overlap, does a receipt claim too much, does every helper end? | 2 trials, 1 change of their basis |
| `catalog_changes` | is anything published that nobody confirmed, or called completed that was not published? | 4 commands of which 1 dies, at most 3 changes, 1 binding, 2 credentials |
| `local_launch` | can a profile have two applications, or a status deny one? | 3 launches, 1 change of their basis |
| `vault_revisions` | *(violation)* does every save get a revision of its own? | 3 calls, 2 secrets, 2 ticks |

Why these bounds reach what matters:

- *Retention*: `LIMIT` is one less than the number of deploys, so a start is
  evicted while its attempt is still open, and its finish finds nothing.
- *Locks*: two removals let a lock be removed under its owner, be taken by a
  second process and be removed again; with three processes a late releaser, a
  current owner and a third contender exist at once, so a release that looked at its own lock removes its successor's.
- *Catalog*: two swaps give a loser a file that changed between its check and
  its rename, and a winner one that changed before its read back.
- *Registration*: three operations are a first registration and two rotations;
  two processes are enough for every pair of a stale holder and a fresh one.
  Two forms of one label are one that fits a recorded operation and one that is found by it and refused.
- *Use*: two operations are one whose outcome is in doubt and the one that
  must not replay it.
- *Engine*: one change lies before or after every check of both deploys; two
  destinations distinguish the bound one from the current one.

`deploy_engine` explores forgetting only beside two legacy automatic deploys with
no other change (`ForgettingApart`), and only pairs of deploys in which one may
repeat (`SomeoneRepeats`): the trust records are read and written by the same
actions for every kind, and the proofs below have no such restriction.
`LaterArePlain` in `registration` explores two operations in full up to the first revision after the empty catalog, and three if
they are of one credential; from the second revision on, two credentials only without cancelled dialogs and failed probes, and the third
change of one credential only (with one label a second credential can no longer be published once the first is).  A second form of the
label is explored up to the first revision: with one operation in full, refused callers included, and with two where nothing is cancelled,
no probe fails and nobody is refused.  A refusal changes nothing but what its caller was told, so what follows it is what
follows without it, and the proofs have no such bound.  Deploys, processes, operations, labels,
destinations and commands are symmetric wherever the run has only safety properties; the runs
with a liveness property use no symmetry.

Further bounds: in `connection_reports`, `Story` lets either four selections and resumes run, or one selection
and three commands that change the credential or read; two checks are enough for a journal that evicts the
entry of one that is open, and a clock that stands is the worst case for revisions.  In `catalog_changes`, four
commands are two changes that race, a third that is between them or a recovery, and, once one has died, a
recovery of it; two credentials make a rebinding.  In `local_session`, two trials are one whose end is in doubt and the one that must not
start beside it; in `local_launch` the third comes when two have left their traces in lock and journal.

Deadlock is not checked, because every system here may really stop: each deploy,
operation, command and removal happens a bounded number of times, and processes die.

**Fairness** is assumed in two runs.  In `deployment_history`: weak fairness of
`ChangeStep(d)`.  `change` is synchronous code (`mkdirSync`, `renameSync`, ...), so
a process that does not die runs it to its end.  `ChangeReturns` then says that a
call never waits for a lock or a temporary file that a dead process left.  In `local_session`: a command that lives
goes on, a helper that neither died nor hangs reacts, timers that are set fire (`deploy/handoff.ts:580`, `:618`, `:621`), and
the operating system ends the processes of a job whose owner is gone.  `TrialsEnd` then says that a helper comes to its end
with all it owns, although no application has to end and no person has to answer; the exception it names is a hung
helper whose command died, which nobody is left to stop.  No
fairness is assumed of dialogs, provider tools or callers: nothing makes them end.

## 4. Proofs

Eight modules hold the theorems, one for each component with a specification of its own except that the two of the
catalog share one.  Each specification rests on one inductive invariant, `IInv` (`StoreIInv` in CatalogStore).  For
DeploymentHistory, CatalogStore, Registration, UseDelivery, DeployEngine and ConnectionReports it is also an
invariant of the corresponding run; for CatalogChanges, LocalSession and LocalLaunch it is in the proof module, and TLC
found it to hold on instances of two and three commands before it was proved.  Every invariant and every action
property that a passing run checks is a theorem.

**DeploymentHistoryProofs**.  The
contents of the journal (`RetainedStarts`) are preserved by a rename only if what is
renamed is the edit of the journal *as it is*: `EditIsCurrent`.  That needs that no one
else renamed meanwhile: `LockIsExclusive`, which a crash does not break because the lock
stays with the dead process, and cleanup does not because it waits for the living.
`StartsAreRenames` ties results to renames, `ResultIsDecided` to the program counter.
From it: `JournalKeepsStarts` (`NoStartLost`), `ReceiptsAreHonest`, `JournalNeverTakesBack`,
`OneWriter`, and `HistoryImplementsAtomicJournal`, the refinement.  `RetainAppend` is the
fact about data behind the first: retaining early loses nothing.  A reader that holds no lock read a file that held the last
`LIMIT` starts when it opened it, and all that it relies on (`ReadersRely`: what was acknowledged before it began) had taken effect by
then: `ReadersSeeStarts` (`ReadersSeeAcknowledgedStarts`).

**CatalogProofs**, of the store.  The lock cannot be the mutex, since a person may remove it.
The temporary file is: it is opened exclusively and only its writer's rename removes it
(`TemporaryIsMine`).  A process that verified the expected file while the temporary file was its
own therefore renames over exactly that file (`PublishesFromCurrent`); `SnapshotsArePast` bounds
what it may answer.  `RobbedByHand` counts the calls that work without their lock: a claim adds none, a removal by hand at most
one, and a call that removes its successor's lock was counted itself and leaves.  From it: `NoChangeIsLost`,
`SwapsAreTruthful`, `RobbedOnlyByHand` and `StoreImplementsAtomicCatalog`, the refinement.

**CatalogProofs**, of the changes made through it.  A proposal is a function of the catalog it was planned from, and the
invariant carries it (`Proposing`: a command that goes on proposes exactly what it was asked for, of the catalog at `base`, and what it
expects to replace has the same content) through every step to the swap, which requires the very file.  So the published catalogs
form a chain (`Chain`), each the confirmed change of the one before, and each consistent: no profile names a
binding that is gone.  `Recovering`, `Marked` and `Answered` say what a recovery, a completed operation and an answer have behind
them.  `Goes` and `Puts` name the two ways in which a command may step, so that each action needs one lemma.
From it: `ChangesArePublishedAsConfirmed`, `ChangesAnswerTruly`.

**RegistrationProofs**.  A commit compares the catalog it read with the revision its operation expects, perhaps long after the
operation was recorded and by another process.  Revisions never return, and every catalog that a call still holds is the present one or
an earlier one (`IsPast`); so a catalog at the revision an operation expects is the one the operation was prepared on (`BasedOn`), in
which its label was free and its credential had the generation it replaces.  That makes a rotation follow its
previous generation and a new label differ from all others, for catalogs that calls hold as for the one that is there (`Genuine`).
The invariant further says what each step of a call has behind it: a record before the helper opens
(`HelperIsRecorded`), a stored secret before a commit (`StagedIsSo`), one asker for an operation (`OnlyOneAsks`), and that a
caller who asked for an operation is told the state that is recorded (`ToldIsRecorded`).  Saves meet in one lemma, `SaveKeeps`: a call saves only over the record it last
saw, and no state that was final.  From it: `SecretsAreRecorded` (`NoSecretIsForgotten`), `CatalogNamesStoredSecrets`
(`CatalogIsBacked`), `CallersAreToldTheTruth` (`AnswersAreTruthful`: committed and cancelled are so, and one outcome is heard by
all who asked for that operation; a refused caller hears a conflict, of which nothing is claimed), `RotationsFollow`
(`RotationsFollowTheirPrevious`), `LabelsStayDistinct` (`NewLabelsDiffer`), `OutcomesAreFinal` (`OutcomesStay`).

**UseDeliveryProofs**.  With locks removed under live owners, mutual exclusion is a property
of lock *and* journal together: `OneMayHand` says that of two calls past the journal one is
excluded (it lost the lock and will fail its next check), and that one which is not has no
earlier operation before it that could still have an effect.  `HeldIsRecorded`, `ResultIsKnown` and
`ToolsAreReceipted` say what each step has behind it.  From it: `ReceiptsAreHonest`
(`EffectHasReceipt`), `CompletionIsCurrent`, `HandoverIsNotReplayed` (`NoReplay`),
`HandoverIsApproved` (`ApprovalIsFresh`).

**DeployEngineProofs**.  A completed connection was placed on its bound basis although nothing
locks the world between the last check and the tool: `BoundToThePast` says that a placement on
anything else was caused by a later change, so that the check after the tool
sees it (versions never return).  `StepsAreKnown` says what phase of the history, tool and pre-step
each program counter has behind it, `OutcomeIsKnown` what it may record, `ResultsAreFinished`
that a receipt has a result only by its own finish.  From it: `WritesAreJournaledAlways`,
`NothingIsNothingAlways`, `JournalIsHonestAlways`, `TrustIsHumanAlways`, `PlacementIsConfirmedAlways`,
and `EngineDrivesTheJournal`, which says that the engine's calls are a behaviour of AtomicJournal.

**ConnectionReportsProofs**, of ConnectionState and ConnectionReports.  Two facts carry it.  What is done under a lock is done by its owner
(`LocksAreHeld`): the files change only in the hands of whoever holds the metadata lock, the record and the store only in the
hands of whoever holds the slot, or of that command's dialog, which may outlive it.  And the record is pending while a dialog may still change
the store (`CredentialIsSo`), with a revision that never returns (`NextRevisionIsLater`, whatever the clock says).  A reader holds
no lock, so what it remembers may be outdated; but a record it read and finds again at the same revision was there all the
time (`IsPast`), and so was the value (`MemoryIsSo`: the presence it read is the store's for as long as its registration is the
present one).  Observations name settled records of the past, and what they say of them is final (`IsSound`).  `Acts` says what a step may do to
the other calls and `Arrives` what it must establish for its own; every action has one lemma that it does both.  From it:
`SelectionsAreKept` (`NothingForgotten`), `RegistrationsStandForTheStore` (`SettledNamesTheValue`), `ObservationsAreHonest`
(`ChecksAreHonest`), `ResumesPublishWhatWasShown` (`ResumeIsAsReviewed`), `ReportsTellTheTruth` (`ReportsAreTrue`).

**LocalSessionProofs**.  The invariant says for each trial what command, helper, pipes and processes can be together at
each step: the lines in flight, the promises the helper has made, and who holds the lock.  A lock is given back only after the
helper's last line *and* its end were seen, and that line is written only after the tree was stopped; a command that knows
less keeps the lock.  From it: `TrialsNeverOverlap`, `ReceiptsNeverLie`.

**LocalLaunchProofs**.  Locks are removed under this protocol, so the operation must exclude: a launch whose application may
have been created has an operation with a possible effect on disk before it, and one that passed the listing while holding the lock
found none.  From it: `ProfileHasOneApplication`.

The assumptions are those of the modules: bounds are natural numbers, `LIMIT` and `JournalLimit` are positive, the clock tells
natural numbers, environments are finitely many, sentinels (`Nobody`, `None`, `Free`, `Orphan`) are not members of the sets they
stand outside of (nor equal to a record), requests have the shapes the adapters produce.  No fairness is used by any theorem.

*Only model-checked*: the two liveness properties, `ChangeReturns` and `TrialsEnd`, and what the three runs with a violation
refute.  Liveness under fairness is out of the prover's reach; so are `ENABLED` and induction over recursively defined data, of
which nothing here has need.

## 5. Findings

**A published credential is recorded as a conflict** (`registration_overtaken`,
`PublishedIsNeverConflict`).  Two replacements of one credential overlap: the second
lists the operation records before the first one's is there (`vnext/input.ts:48`) and
reads the catalog after the first one swapped it (`:62`), while the first dies or fails
before it saved `committed` (`:100`).  The second replaces the published generation,
rightly.  When the first is recovered it finds another generation active and
records `conflict` with a preserved candidate, although it was published; and since a
conflict is not filtered from the unfinished operations (`:50`), every later replacement of
the credential answers with it.  The comment at `:101` and `tests/vnext-input.mjs:103`
expect such a call to recover as committed.

**A forgotten destination comes back** (`deploy_forgotten`, `ForgottenAsksAgain`).  A
deploy that was approved records its trust when it ends (`deploy/engine.ts:653` and `:674`)
without looking whether the destination was forgotten since.  The person was told that the
target "will ask for approval again on the next deploy" (`packages/cli/index.ts:1551`), and the
next automatic deploy does not.  `PlacementIsConfirmed` still holds: a person did approve
that destination once.

**Two saves get one revision** (`vault_revisions`, `RevisionsAreUnique`).  The index's `updatedAt` is "the
non-secret credential revision used to invalidate observations. Keep it unique even when two saves happen in one
clock tick" (`vault/registry.ts:58`).  It is unique only against the row that was read, and nothing locks the index: two
processes that save one secret in one tick both read the index before the other wrote it, or while it is empty because
the other is writing it, and give the same revision.  A deploy's receipt that recorded the first (`deploy/history.ts:422`) is then
not shown as `update-recorded` although the value changed.

## 6. Abstractions, and what is not modelled

In all modules names, labels, digests and messages are model values, and the
classification of a damaged file is a failing read.  A process that dies stops between two
actions; what it wrote stays.

- *Files*.  A claim's `mkdir` and the `lstat` that learns the new lock's identity are one
  step.  In CatalogStore the look at the lock and its `rmdir` are two: "Never remove a foreign/replaced/uncertain lock"
  (`vnext/files.ts:151`) holds but for the window between them.  In UseDelivery and LocalLaunch the end of `withUseLock`
  (`:272`), the same look and `rmdir`, is one step: in UseDelivery a successor's lock that it would remove is one that `RemoveLock`
  removes at that moment, and the theorems hold for any number of those; in LocalLaunch a person removes only the lock of a command
  that died, so no lock is made again under a live owner.  `listOperations` is one step in UseDelivery and two (names, then contents) in
  Registration, where a record may change in between.  Directory identity and permission
  repair are left out.
- *Registration*.  Fingerprints are revisions, since the catalog is a compare-and-swap
  register.  `unknown` and `recovery-required` are one state, `unresolved`: they differ in what
  they tell a reader.  Of an answer the status is modelled and not `storageEffect`: a caller who is refused reads "none" after naming an
  operation (`vnext/input.ts:42`) and "candidate-preserved" after finding one (`:59`), the latter also what a recorded conflict reads,
  so such an answer does not tell a conflict from an operation that may yet commit.  Slots of the OS store are never deleted here.  A presence probe that
  fails answers "unavailable".
- *Use*.  What the plan's fingerprint covers (catalog, project, target, tool) is a
  number that grows.  The handoff's own first check is folded into the caller's.  A
  presence probe that fails is a failing check.
- *Engine*.  `Call` stands for the request's validation, the credential's revision, the
  probe and the binding, each of which may end the call.  Consecutive checks with
  nothing between them are one.  The unconfirmed and the changed destination (the slot
  record) differ only in what the person is shown.  Dry runs are left out.  A child that is
  killed ends as failed, unheard.  A credential is replaced as `beginCredentialMutation` starts;
  what is pending then is a check that fails, which any check may.  `placed` compares the whole
  basis, also what a legacy operation does not bind.  A legacy completion is not checked
  after the tool, because the code checks only connections and preparations there; so
  `JournalIsHonest` claims the basis only for those.  A throw of a connection before its handoff
  is answered as possible by the code; the model never answers less.
- *Versions never return*.  Basis, version and revisions only grow: the snapshots hold
  inode, size and modification times, so that a file changed back is not the file that
  was there.

- *Catalog changes*.  One project and environment; of a profile, which bindings it uses and who registered it.  A project
  that cannot be inspected is a refused or changed plan, which a plan may be at any time.  A request that
  is refused at once has no effect and is explored only once a catalog is there.
- *Connection state*.  One environment's slot is tracked (`Tracked`); the others have selections only.  The profiles for
  native and managed routes are of one shape, and one of them is modelled.  Observations of native routes
  (`recordApplicationObservation`) and damaged files, which are failing reads, are left out.
- *Local session*.  `change` is one step here, since its own steps are in ConnectionState; it may fail before and after its
  effect, and leave the metadata locked.  Past receipts and the receipt of a preparation are left out.  A person reviews
  a lock only when no process of the application is left (`Review`).
- *Local launch*.  The handoff is what LocalSession shows of it: a confirmed end only when nothing is left, and the callback
  once the application runs.  A person removes the locks of commands that died (`CleanUp`), also while the application still runs.
- *Vault*.  Saves may overwrite; one scope and project.  A dialog lasts at least a tick.

Not modelled, each with its reason in `PROJECT.json`: license exchange and its worker (stateless), scanner, telemetry, CLI and
MCP, which keep no state that the others rely on; and in the components that are modelled partly, what has no state of its own:
guidance, the parsing of projects, configurations and reports, the scripts and layout of dialogs (`human/`), argument
vectors of tools (`adapters/`), output scrubbing.  These are most of the repository's lines: large pure functions from files
to text, which the tests compare with expected text and about which a state machine says nothing.  What such a function decides enters
the models as its possible results.

## 7. Plan

Done: history, catalog store, registration, use, engine, connection state with check and report, catalog changes, local
session, local launch and the vault's index, with the proofs above.  What would come next, most important first:

1. **Composition** of ConnectionState with DeployEngine, whose `cred` is the revision there, and of LocalSession with LocalLaunch as
   a refinement: the launch's handoff as the abstract specification of the session's.
2. **VaultRegistry** with a run of its own for what does hold of it (a removal deletes only what a person confirmed, answers of
   removals are true).
3. **Observations of native routes** beside the provider check, and the history of session receipts.
