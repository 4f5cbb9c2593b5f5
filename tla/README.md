# A verification development for the Hermes agent blueprint

The repository is a blueprint for an autonomous operator agent: prose (skills,
contracts, templates, documentation) and about 11,000 lines of Python tools that keep
its promises about effects, credentials, incidents, tasks, artifacts and installations.
This directory models those tools in TLA+, checks the models with TLC and proves their
safety properties with TLAPS. Every definition is translated from the code;
`PROJECT.json` ("map") names the lines of each.

    tlc -workers 2 -config MCWatchdog.cfg MCWatchdog.tla
    tlapm ActionBrokerProofs.tla

## 1. Inventory

Most state of the system is in small SQLite databases and JSON files that several
processes open at once: the agent's profiles, the web application, cron jobs and the
operator's commands. No long-lived server owns the state, so what is hard is always the
same: who else runs between two writes, and what is left when a process dies between them.

| component | code | state | operations | correct when | module |
|---|---|---|---|---|---|
| Action broker | `tools/operator-control/broker.py`, `store.py`, `plugins/operator-control/policy.py` | operations, approvals and their uses, revocation preparations, acceptances, policy versions, `control_state` | execute, reconcile, issue / revoke / two-phase revoke, publish / revoke policy, prepare rollback | one effect per operation key, under the authority it was checked against | `ActionBroker` |
| Managed dispatch | `plugins/operator-control/managed.py` | leases and generations, provider fences and effects, budget reservations | dispatch, replace_active_run | one writer per target, in lease order, within the budget | `ManagedDispatch` |
| Secure drops | `tools/secure-credentials/.../store.py`, `app.py`, `cli.py` | drops, delivery outbox, private files | create, submit, flush, reveal, consume, recover, revoke, clean up | the secret gets out once, and is wiped | `SecureDrop` |
| Website watchdog | `tools/website-watchdog/watchdog.py`, `incident.py`, `repair.py` | state file, event log, incident files, occurrence claims | run, lease / resolve / fail / release, repair | one incident per outage, one repairer, bounded attempts, every run replayable | `Watchdog` |
| Corrections | `plugins/operator-control/corrections.py`, `correction_adapters.py` | journal, claim authority, card markers, broker preparations | record, compensate | all of it, none of it, or blocked for an operator (a replay after a final withdrawal is not: section 4) | `CorrectionSaga` |
| Daily use | `tools/operator-state/daily_use.py` | operation journal, in memory and on disk | apply, run, reconcile | an approved request is sent once, and what the journal says of it is true and stays | `DailyUse` |
| Operator state | `tools/operator-state/operator_state.py` | commitments, focus stack, events, backups | upsert, checkpoint, focus, set_status, backup, restore | the focus stack agrees with the statuses; a restore loses nothing unsaved | `OperatorState` |
| Task reconciliation | `tools/task-reconciliation/reconcile.py` | comments and status of a Kanban card | reconcile an observation | fields follow the newest event; an accepted card gets completed; one acknowledgment | `Reconciler` |
| Artifact storage | `tools/artifact-storage/artifact_storage.py` | records, keys, unknown outcomes, deletion audit; stored files; signed policies | upload, readback, revoke, delete, reconcile unknown | idempotent uploads, audited deletions | `ArtifactStorage` |
| Installer | `scripts/install_blueprint.py` | profile, lock file, reports, exports | apply (install, update), rollback | one operator at a time, who deletes only what it made | `ProfileInstaller` |
| Vault, dead-man switch, registry, notifications, voice profile, acceptance evaluator, integration contract, other scripts, prose | | single statements, or none | validate, render | | (section 6) |

How they interact. `ManagedController.dispatch` is the handler of `ActionBroker.execute`
in managed mode and runs inside the broker's writer transaction, over three other
databases. Corrections of an approval go through the broker's two-phase revocation: of the
broker, `CorrectionSaga` has the approval, its preparations and an operation that races
them. A repair reads the broker's authorization again at each boundary; `Watchdog` has it
as one bit, `authorized`. The broker asks for an acceptance, which the acceptance evaluator
and the reconciler decide on. The drops, the daily engines, the operator state, the
artifact store and the installer share no state with the others.

`PROJECT.json` lists the hazards of this code, each at the line where it bites.

## 2. Plan

The modules of section 1 are written, in the order of the table, the abstract
specifications `EffectLedger` (of the broker) and `IncidentLife` (of the watchdog) with
them. What is left, most important first:

1. The retirement saga of managed dispatch (`managed.py`, 643 to 752), over the leases and
   fences `ManagedDispatch` already has.
2. The claim history that `NativeKanbanAuthority` keeps on a card, as a second authority
   of `CorrectionSaga`.
3. Recommendations of the reconciler, which are cards of their own.
4. Theorems about the abstract specifications themselves: what `EffectLedger` and
   `IncidentLife` imply, and with the refinements the broker and the watchdog.

## 3. Modules

| module | is |
|---|---|
| `ActionBroker` | the broker: one database, several workers, an external provider |
| `EffectLedger` | what the broker promises of each operation key |
| `ActionBrokerLedger` | the broker as an implementation of the ledger |
| `ActionBrokerProofs` | theorems about the broker, and the refinement |
| `ManagedDispatch` | calls of dispatch and replace_active_run over leases, budget, provider |
| `ManagedDispatchProofs` | theorems about managed dispatch |
| `SecureDrop` | the life of one drop, its outbox row and its files |
| `SecureDropProofs` | theorems about the drop |
| `Watchdog` | collector runs, incident files and the workers that repair |
| `IncidentLife` | what the watchdog promises of each incident |
| `WatchdogProofs` | theorems about the watchdog, and the refinement |
| `CorrectionSaga` | calls of record, forwards and backwards |
| `CorrectionSagaProofs` | theorems about corrections |
| `DailyUse` | calendar writes and briefs over one journal file |
| `OperatorState` | commitments, the focus stack, backup and restore |
| `Reconciler` | calls of reconcile on one card |
| `ReconcilerProofs` | theorems about the reconciler |
| `ArtifactStorage` | an adapter of either kind, and the policy authority |
| `ArtifactStorageProofs` | theorems about both adapters |
| `ProfileInstaller` | installer processes, one profile, one lock file |
| `StandaloneProofs` | theorems about `ProfileInstaller`, `DailyUse` and `OperatorState` |
| `MC...` | constants of the small instances |

An operator with an underscore in its name (`Fresh_OrUnknown`) is a faulty variant of the
operator before the underscore; no specification uses it. `PROJECT.json` ("mutants") pairs
each property with a variant that breaks it. `StandaloneProofs` extends three modules at
once; so `DailyUse` and `OperatorState` name their specifications `DailySpec` and `DbSpec`,
and the other names they would share alike.

### ActionBroker

One worker is one process or thread with a call in progress; `session[w]` are the
call's locals, `at` is where it stands between two visible steps. A step is a
transaction, or the part of one up to the next point where another process, the
provider or a crash can be seen. `execute` therefore is `Connect` (reads
`operations_blocked`, once), `Reserve` (BEGIN IMMEDIATE, every check, the uncommitted
INSERTs), one of `DispatchConfirmed`, `DispatchUnconfirmed` and `HandlerRaises`
(managed mode only), and `CommitFence`; `Crash` is the death of the process, or a failing
COMMIT, with the transaction open, which SQLite rolls back. `writer` is SQLite's writer lock.
`reconcile` opens no transaction: its SELECT and its UPDATE are two steps.
`issue_approval` and `publish_policy` read before they write, and so do the model's.

Data that no property tells apart is abstracted: an intent is a name with its operation
key, an approval has the fields that `policy.check` compares (`Binds`: the intents it
agrees with field by field), a policy is its digest, the clock is the one bit `late`.
`scope` counts `scope_version` from 1. `applied`, `lost` and `effects` are history: what
the provider did, and which of it lost its transaction.

### EffectLedger and the refinement

The ledger knows operation keys only: free, in flight, on record as unknown or settled.
At most one key is in flight; a delivery happens only in flight; what is on record is
never delivered again. `ActionBrokerLedger` maps the row of a key, or the fence of the
worker that holds it, to its entry. TLC checks `ImplementsLedger` with fairness;
`BrokerImplementsLedger` proves the safety part.

### ManagedDispatch

Each method of `SQLiteBudgetLedger`, `SQLiteLeaseRegistry` and
`LocalSQLiteManagedWriteAdapter` is one transaction and one action; a call of `dispatch`
is the sequence `Admit`, `ReserveBudget`, `Acquire`, `ArmFence`, `CheckBoundary`,
`Mutate`, `Consume`, `Commit`, with `Release` for the `finally` clause. As `dispatch`
runs inside `execute`, a call holds the writer lock of its broker from `Admit` to
`Commit`. The shipped wiring has one broker over one registry; the registry and the
provider are written for several processes ("Transactional exact-target leases shared by
profile processes"), and the model has several brokers. A replacement writes with the lease
`replace_active_run` returned, as `tests/test_managed_hardening.py` does. The token of a
lease is its generation: `_delete` compares both and the registry never issues a
generation of a target twice (which `LeaseIsNewest` and `WritesAdvance` rest on and the
proofs establish). Reservations of a failed call are kept, as in the code; amounts are
whole units of the budget, and `Reserved` counts the units.

### SecureDrop

The rows of `drops` are independent of each other, so one drop stands for all. Clients
submit, flush, reveal, consume and revoke, janitors recover and clean up; both are any
number of processes. Transactions and autocommit statements are actions, and files are
written and read between them. A write of the plaintext may fail before the file is in
place, or after it (`ensure_private_file` and `fsync_directory` come last in
`_atomic_private_text`): `WriteRaises`, `WriteRaisesLate`. `claim_id` is the number of the
claim. `disclosed` counts the times the plaintext got out, `lost` the claims that were given
back when it might have.

### Watchdog and IncidentLife

There is one collector at a time (`main` holds the lock of the state file), whose run is
`Start` (claim of the occurrence, configuration and state are read), `Retire` for the sites
no longer enabled, `ProbeSite` for the others, then for each of them `Apply` (`observe`, and
the event, appended once) and `FileIncident` or `ResolveRecovered`, at the end `Save` and
`Complete`. `RunDies` may happen at any of these points; the scheduler starts the same
occurrence again, or the next one. Identities made with `uuid5` are the tuples they are
made from: an incident is the occurrence and the site of its failure. A probe says
"ok", "http", or what is wrong with the path of the monitor; when it is the path for all of
two sites or more, nothing is concluded (`SharedFailure`).

Workers run `incident.py`, each command of which is one locked step, and `repair.py`, which
keeps the lock from `RepairStart` to its end and is a step per boundary, since time passes
and authority goes meanwhile. Only the worker's death gives the lock up early. A lease that
runs out is marked by `LeaseExpires`; the next lease of the incident gets a new token.
`RecoveryRaises` is the run that meets a failed incident of a recovered site: the
transition table has no failed -> resolved, the run raises before it saves, and so does
the next one, until a worker leases the incident or the site is taken from the
configuration. A site probed only through a bad path stays `unknown`; `Retire` passes it
over where the code would call it retired, and nothing tells the two apart. The events
`site_retired`, which no rule reads, are left out.

`IncidentLife` is filing, leasing, repairing, closing, with the number of repairs
bounded over all leases. `ImplementsLife` maps the status of an incident file to the phase and the
actions that were applied (not the attempts on file) to the repairs.

### CorrectionSaga

A call of `record` is the chain `Begin`, `PrepareWithdrawal`, `SavePreparation`,
`SaveApplying`, `ApplyClaim`, `Readback`, then for each consumer `CommentImpact`,
`BlockCard`, `SaveImpact`, then `CommitWithdrawal` and `SaveCommitted`; what raises goes to
`CancelWithdrawal`, `RollbackImpact`, `RestoreClaim` and `SaveRolledBack`, and what raises
there to `SaveBlocked`. `Crash` ends the call anywhere; the same record may be replayed.
Corrections cite an original claim or the claim of another correction (`PriorOf`; `InForce`
says that a claim holds, or a correction of it), owners move cards, and an operation may be reserved under
the approval. The id of a correction stands for the id of its replacement; the entry is
written at each step that writes it (`Write`). Calls are serial, because journal and claims
are files that are read and rewritten without a lock: two at a time would simply lose one
another's writes. What raises after the withdrawal goes to `NoWayBack`, the entry "blocked",
because the call knows that it cannot be undone (`withdrawal_committed`). Only the call knows:
the broker may commit and fail to read its own answer (`WithdrawalUnanswered`), and the call
may die before the entry is written. `orphans` is history, what a call did and its journal
does not know: the cards it blocked, and the correction itself if its withdrawal was made
final. These are what a rollback may leave behind.

### DailyUse

`OperationStore` reads its file once and writes all of it at each `put`: `memory[e]` is the
store of an engine, `file` the disk. `Intend` is `apply` or `run` up to the durable intent,
`Dispatch` the call of the provider with its outcome done, done and lost, or not done yet,
`Readback` the verification, `Reconcile` the later settling of an unknown outcome,
`Arrive` the provider getting to it. A readback may find the effect, find a refusal, or find
nothing that agrees in every field (`Found`), and then the outcome stays unknown, for good if
the provider never shows it: only a caller ever calls `reconcile`. So nothing is claimed to
happen eventually. `Earlier` are briefs the provider delivered under a
journal that is gone; `AdoptPreexisting` finds them. Several engines over one file would
each send (`SentOnce` fails for two): the code is written for one.

### OperatorState

A call of the database is one transaction and one action. Positions and statuses are kept
as they are in the tables; an event is its number. `upsert_commitment`, `add_checkpoint` and
`set_status` to focused write a status without touching the stack; `around` remembers which
commitments that may have put at odds with it, and `_validate_database_readonly` refuses
such a database, as `Valid` does. `restore_database` holds no lock of the database between
copying the candidate (`RestoreCopy`), saving the present file (`RestoreSave`), replacing it
(`RestoreReplace`) and verifying the result (`RestoreDone`, `RestoreUndo`), so calls run in
between. `dropped` and `late` are history: the events a restore took away, and those of
calls that came after its safety copy.

### Reconciler

The durable state of a card is its last state comment. A call reads it (`Read`, with the
merge of its event), decides (`Accept`, `Reject`), delivers the acknowledgment (`Intend`,
`Look`, `Send`, `Receipt`), writes the state (`Save`) and moves the card (`Review`,
`Complete`, `Move`). Nothing locks the card between these commands, so calls overwrite
each other's state. An event has an order (timestamp, then sequence) and the fields it
mentions. The trusted control store has a requirement version and the time it is effective
from; the attestation is a free choice. `unknown` and `lost` count the sends whose outcome,
or receipt, got lost.

### ArtifactStorage

A behaviour is the life of one adapter. The synthetic adapter does every operation in one
step over its `memory` and replaces its `journal` at the end; the replacement may fail, which
leaves memory ahead of the file (`unsaved`) until the next call that saves. The local adapter
stores a file, then registers it (`StoreFile`, `FinishUpload`), saves a tombstone, then
removes the file (`SaveTombstone`, `FinishDelete`); records and keys are in memory only, so
that `Restart` keeps the files and the audit. The authority issues signed
decisions at any time, and the resolver reads the newest. A denied upload may leave or take
away the record of its object in memory (`denied`), because the record is made before the
policy is read. The model lets a write fail before the replacement; the fsync of the
directory, after it, does not fail.

### ProfileInstaller

`profile_lock` is eight steps, each a system call: `CreateLock`, `LockExists`, `LookAtLock`,
`JudgeLock`, `ConfirmLock`, `RemoveLock`, `WriteLock`, `Unlock`. A lock file has an inode
number, which is given out again once nobody has the removed file open, and a payload, which
is not there yet between its creation and `WriteLock`. Under the lock, `apply` is the
native commands and checks one by one, with a marker of the run in a profile that it
created; `rollback` compares the marker and the report of its run (`Undoable`) and
deletes. `Edit` is the owner, or Hermes running the profile, at any time. `raced` is
set when a takeover removes a lock other than the one it had judged.

## 4. Runs

| run | cfg | instance | shows |
|---|---|---|---|
| broker_effects | `MCBrokerEffects.cfg` | two workers, two keys, a one-off and a standing approval, one lost transaction | `EffectsAccounted`, `OneOffOneKey`, `OvershootBounded`, `RecordedNeverRedispatched`, `BlockedDrains` |
| broker_authority | `MCBrokerAuthority.cfg` | two workers, one key, two policies, a correction, managed mode | `FenceFreezesAuthority`, `RevocationExcludesOperation`, and `ImplementsLedger` under `FairSpec`, so that every call that reserves gets on record or loses its transaction |
| managed | `MCManaged.cfg` | two callers of two brokers on one target, two operations of which the budget affords either, one reassignment, one death | `LeaseIsNewest`, `FenceAhead`, `OneWriterPerFence`, `BudgetRespected`, `ConfirmedWasWritten`, `ReplacedNeverWrites` |
| drop | `MCDrop.cfg` | two attempts at the drop, one janitor, one death | `CopiesAccounted`, `ConsumedWasDisclosed`, `WipedDrains`, `EventuallyWiped` under `FairSpec` |
| watchdog | `MCWatchdog.cfg` | two sites, two workers, two occurrences, one death | `OutageOnRecord`, `RepairIsExclusive`, `ImplementsLife` |
| correction | `MCCorrection.cfg` | a correction and a correction of it under one approval, two cards, one exception, one death, one move of a card | `CommittedIsComplete`, `RolledBackIsClean`, `Settles` under `FairSpec` |
| operator_tools | `MCOperatorTools.cfg` | `DailyUse`: one engine, a new brief, one delivered earlier, two calendar writes that clash, one of them in two versions; two deaths. `OperatorState`: two commitments, three calls, a backup, a restore, one fault | `SentOnce`, `JournalIsTrue`, `RecordsKept`; `FocusConsistent`, `DroppedIsSaved`, `NoAccidentalFocus` |
| reconciler | `MCReconciler.cfg` | two concurrent calls, two events in either order, a revision, a failure | `FieldsAreNewest`, `SendsAccounted`, `AcceptedCompletes` under `FairSpec` |
| artifacts | `MCArtifactStorage.cfg` | either adapter, two objects, contents, policies and keys, three uploads, two decisions, two failed writes, two restarts | `EffectOnce`, `TombstonesAccounted`, `JournalIsCurrent`, `LocalAnswersHold` |
| installer | `MCInstaller.cfg` | three processes, two inode numbers, two versions, one edit, one death, two failures | `LockExcludes`, `OwnProfileDeleted`, `UpdateIsBackedUp` |
| correction_replay | `MCCorrectionReplay.cfg` | one correction of an approval, one card, one death, no exceptions | `WithdrawalStays` does not hold |
| installer_lock | `MCInstallerLock.cfg` | the instance of `installer` without failures | `LiveLockKept` does not hold |

`MCOperatorTools` checks two modules in one run. They share no state, so their interleavings
would only multiply the states: a variable `tool`, chosen at the beginning, says which of the
two takes the steps, and the state space is the sum of the two.

The type invariant of a module is a conjunct of a property of its run or is proved (section 5). A state
space is complete in every run that passes: TLC ends with nothing left to visit.

Two runs end in a counterexample.

`installer_lock`. `tests/test_installer.py:559` says "live lock
must not be recovered". `profile_lock` compares the lock file with the one it judged
(`install_blueprint.py:520-522`) and then removes whatever has its name: two processes
judge the same stale lock, both confirm it, one removes it and creates its own, and the
other removes that one. Comparing inode numbers does not close it either, since the new
file may have the number of the old one. `LockExcludes`, `OwnProfileDeleted` and
`UpdateIsBackedUp` say what holds otherwise: as long as this has not happened (`raced`).

`correction_replay`. `tests/test_correction_persistence.py:295` says that a failure after the
withdrawal "never rolls back claim away from revocation", and `corrections.py:202` raises
"irreversible broker withdrawal committed; reconciliation required". Whether the withdrawal
was committed is a local variable of the call (157, 189). A process that dies after
`commit_withdrawal` (188) and before the entry is written as committed (196) leaves an
entry "impacting" with its preparation; the replay finds the replacement in force, asks
for the withdrawal again, is denied since the preparation is not "prepared" any more
(`broker.py:307`), does not cancel since the approval is revoked (203-206), and compensates:
the claim is taken back, the cards are unblocked, the journal says `rolled_back`, and the
approval stays revoked. `RolledBackIsClean` says what holds otherwise: this happens
only if a call died or lost the answer of the broker there (`orphans`).

Other places where the code does less than a reader may expect, as the properties that hold
say exactly how much less:

- a lost transaction of the broker adds one application of the key (`EffectsAccounted`);
  racing reconcilers add less than one attempt each (`OvershootBounded`); a call connected
  before the rollback block still runs (`BlockedDrains`: no new ones, and these end);
- a drop's released claim adds one copy of the secret (`CopiesAccounted`);
- an operation overwritten at the provider by another one may be applied again, though never
  under a lease that is not newer (`WritesAdvance`);
- a run of the watchdog that meets a failed incident of a recovered site raises each time
  (`RecoveryRaises`), and saves nothing;
- a correction that dies between a block and its journal entry leaves the block behind when
  it is rolled back by a later call (`RolledBackIsClean`, `orphans`);
- a correction of an approval that was rolled back before its withdrawal keeps the cancelled
  preparation in its journal (`corrections.py:155-162`), so that no replay can commit it
  (`Begin` prepares only without one), only be rolled back again;
- an outcome that the provider never shows exactly stays unknown (`Found`), and no request
  gets its key (`RecordsKept`);
- calls that run during a restore are lost with the file it replaces (`DroppedIsSaved`);
- an acknowledgment goes out again when its call failed before the receipt
  (`SendsAccounted`), and an acceptance whose call failed after the state comment does
  not complete the card: the event counts as observed (`AcceptedCompletes` asks for a
  history without failures);
- a key of the local artifact adapter is forgotten with the process (`EffectOnce`);
- an installer that dies before it has written its lock's payload locks the profile for good
  (`JudgeLock` leaves such a lock alone);
- an edit its owner makes between the pristine check and the delete of a rollback
  (`install_blueprint.py:948-950`) is deleted too: `OwnProfileDeleted` is about whose profile
  it is, not about what is in it.

### Bounds

Every bound is a constant named `Max...` and a guard of the actions it bounds. Two actors
are enough for each hazard listed, three for a takeover that races another takeover of a
lock (`Proc`). One crash allows a death at any point and a replay; two (`DailyUse`,
`ArtifactStorage`) a death during the replay. `MaxApplied` 2: the second application of a
key is what `EffectsAccounted` is about. `MaxReconciliationAttempts` 1: two reconcilers race
for the last attempt. `MaxGeneration` 3: an acquisition, an expiry with a second one, and a
replacement. `MaxClaims` 2: a claim given back and the next one. `MaxOccurrence` 2: an
occurrence, its replay and the next. `MaxLeases` 2 and `MaxRepairs` 1: an incident that is
leased again after its only repair. The first site of `MCWatchdog` is down on the first
failure, so that outages happen within two occurrences; the other one stays suspect.
`MaxUploads` 3 with two keys: an upload, a retry and a second name. Symmetry is used where
no liveness is checked and no constant tells the elements apart. Deadlock is not checked:
the work the bounds allow comes to an end, and an idle system is no error.

### Fairness

`ActionBroker`: a call that has reserved is dispatched, and what was dispatched is
committed (`WF` of the three actions together): the handler is a plain call in the same
thread; that it returns is the assumption. `Leave` is weakly fair because a call that waits
for the lock gives up after SQLite's busy timeout. Nothing is assumed of new calls.
`SecureDrop`: time passes, and cron starts both commands again and again (`SF` of their
first steps, since a drop may change state between two runs) and lets them finish; nothing
is assumed of clients. `CorrectionSaga`: a call that has begun goes on (`WF`), and a record is
replayed again and again (`SF` of `Begin`, since other calls come in between); exceptions and
deaths are not fair and bounded. `Reconciler`: a call goes on, and a source delivers
its event until it is observed. Crashes, failures, configuration and owners are never fair.
`Watchdog`, `DailyUse`, `OperatorState`, `ArtifactStorage` and `ProfileInstaller` are checked
for safety only: no scheduling of the code makes their calls come.

## 5. Proofs

Every safety property the runs check, except the two that do not hold, is proved: for
any sets of workers, keys, approvals, callers, targets, clients, sites, cards, requests,
events, objects, processes and commitments, and every value of the bounds. Assumptions are
the named ASSUMEs of the modules, which TLC evaluates in every run: functions have the types
the comments say, `None` is none of the others, the sets whose cardinality is taken are
finite, the ids of corrections are not statuses of cards. The theorems about `DailyUse` have
the hypothesis `Alone`, one engine per journal file, without which `SentOnce` is false.
Each proof rests on an inductive invariant that TLC had found to hold on the instance of
the run.

`ActionBrokerProofs`. The inductive invariant of the effect theorems is `Fence`: the
shape of the state, `LockHolder` (a worker is in the fence only while it holds the lock),
`RowsOK` (a row has an intent of its key), `FencedFresh` (the key of the worker in the
fence has no row), `FenceFreezesAuthority` and `EffectsAccounted`. Without `LockHolder` a
commit of one worker could overwrite the row or the authority of another; without
`FencedFresh` a commit could merge two applications into one row. `Revocations` adds that a committed
preparation has its approval revoked with a raised scope; `ScopeRespected` that an
effect's approval covers its key; `RetiredPublished` that only published versions are
retired. `OvershootBounded` is inductive by itself; its proof counts the reconcilers of a
key with the cardinality lemmas of the library. `BrokerImplementsLedger` maps each
action to an action of the ledger or a stutter.

`ManagedDispatchProofs`. `Dispatching` is the inductive invariant: `LeaseIsNewest`,
`Issuance` (a call's generation was issued), `FenceAhead`, `ProviderFence` (at most one
call in flight carries the fence's generation, and it has not written under it yet),
`RowsWritten`, `ConfirmedWasWritten`. It is needed because the provider and the registry
change in different transactions: `OneWriterPerFence` alone does not exclude that an
acquisition hands out the generation a replacement has already armed. `BudgetHolds` has an
invariant of its own, `Budgeted`: the units reserved are finitely many and within the
budget; a new reservation adds exactly its amount because it was not among them
(`ReservedGrows`).

`SecureDropProofs`. `Shape` adds to `TypeOK` that a call about to claim or to write names a
destination. For the copies of the plaintext every step is one of `Obtained`,
`Disclosed`, `GivenBack`, `Lost` and `Quiet` (`CopySteps`); each keeps the balance of
`CopiesAccounted`, and only the first adds a holder, which a wiped or expired drop rules
out (`WipedDrains`). `ConsumedWasDisclosed` needs `Evident`: a file, a finished write and a
destination that recovery verified all mean that the plaintext has been disclosed.
`LinkReachable` needs `LinkInv`: a call that clears the token belongs to a vault's drop, a
flush that is about to acknowledge has its file in place unless the row is gone, and a
cleanup that listed the row finds it expired and unclaimed, then deleted: without the last
it could unlink the file of a drop that a release made readable again. `WipedStaysWiped`
follows from the single steps. All six safety properties of the drop are proved.

`WatchdogProofs`. `Watching` is `Shape` (the types; the site a file names is down; a run
that files has an event), `OnRecord`, `Repairers` and `Counted`. `OutageOnRecord` is about the
state file only. It becomes inductive with the same of the state a run carries, where
the incident may still be about to be filed (`RunOnRecord`, `Filing`): a run that dies takes
its own state with it, and its replay finds the event by its id. `Repairers` is inductive
because `incident_lock` is held from the first check of a repair to its end.
`Counted` is what the refinement needs: the actions of an incident never exceed the attempts
on file, and are one short of them while a worker acts. `WatchdogImplementsLife` then
maps every action to one of `IncidentLife` or a stutter.

`CorrectionSagaProofs`. `Correcting` says in `Chain` that the superseded claims are one chain
from the original to the claim in force; in `Journaled` that the journal has what is needed
to take back each link; in `Final` what a withdrawal entails; in `Known` that a card
blocked by a correction is in its journal, in its running call, or an orphan; and in
`Recording`, per step of a call, how far the call, the journal and the authority may be
apart. `Chain` is what a replayed correction needs whose claim another one has corrected
since: since: without it a rollback could restore a claim that is no longer the prior one.
`Irrevocable` is what `RolledBackIsClean` says of the broker, for every state of an entry: a
withdrawal that is final is in the journal (committed or blocked), or about to be written
there by the call that made it final, or that call is an orphan. It is inductive given
`Correcting`, since only a running call writes its entry, and what it writes then is one of
those two. a claim that is no longer the prior one.

`ReconcilerProofs`. A call overwrites the state others have written, so `FieldsAreNewest` of
the card is inductive only with the same of every state a call carries, and with the order
a field is fresh by (`Newest`, `AllNewest`). `Tally` balances the acknowledgments of a
version: without a receipt, what was sent is what got unknown, what got lost, and the calls
about to write the receipt; with one, only calls that had looked before can still send.

`ArtifactStorageProofs`. `Storing` holds of either adapter: `Apart` says what each of
them never uses; `Uploading` that the file of an upload under way is in place under a
name no key has; `Audited` that the tombstones on disk are at least those in memory,
and these at least the deletions; `Counted` that a key has been sent once and once more
for each restart at most.

`StandaloneProofs`, installer. `Operating` adds to `LockExcludes` that who is about
to remove a lock has judged a process that is dead (`JudgedDead`), and what a process knows
of the profile where it deletes or updates (`OwnAtDelete`, `SavedAtUpdate`), both as long as
no takeover went wrong (`raced`), for then two processes are at work.

Daily use. `Journaled` says that memory and file are the same, that a call in progress
has an unknown outcome on file before it sends (`Underway`), that a call that has not sent is
the first of its key (`Unsent`), and that a result in the journal is the provider's
(`Settled`). `RecordsKept` follows step by step: the engine writes the file from its memory,
which is the file, and binds only a key without a record.

Operator state. `Keeping` has the density of the focus stack as a statement about each
place (`Dense`) and, for each step of a restore, where the events of the file at the path
can be found (`Replacing`). That `focus` and `normalize_focus` renumber densely is the lemma
`Renumbering`: numbered by how many come before it, the commitments of a stack have
different numbers, no more than there are commitments, hence all of them. The action
property `NoAccidentalFocus` follows call by call (`Spared`).

The type invariants of most modules, `OneCommittedRevocation`, `CurrentPolicyAuthoritative`,
`WritesAdvance`, `LinkReachable` and `WipedStaysWiped` are proved here and are not
repeated in a run, and neither are the inductive invariants that carry the proofs; the
other theorems state properties that a run checks as well.

Only model-checked: all of liveness (`Settles`, `AcceptedCompletes`,
`EventuallyWiped`) and the fairness part of `ImplementsLedger`, which are beyond this prover.

## 6. Not modelled

Parsing, schema validation, signatures and cryptography are taken as the checks they
make and appear as guards or not at all. Migrations and backups of the broker's databases
copy files. Credential handles, evidence, review and exception records are single INSERTs
of records nothing here reads. `observe_kanban_transition` only records. The vault's
operations are single statements. The dead-man switch reads the age of a file. The voice
profile, the acceptance evaluator, the integration contract, the registry and the
notifications of the watchdog, the validation, preflight, audit and conformance scripts
validate and render. Prose and declarative files change no state.

In components that are modelled partly: the retirement saga, the adapter registry and the
in-memory lease registry of `managed.py`; the claim history of `NativeKanbanAuthority`; the
hash chain of the operator events, workstreams and exports; recommendations and manual
resumption of the reconciler; document generation, `disable` and temporary shares of the
artifact store.

In the model `publish_policy` reads the source and tests the block in one step; the code
reads the files first and connects after it. Nothing distinguishes the two orders: the
read sees any content the source may have, and the block is tested before the commit.
The budget a board reports as spent is not tied to the reservations; the code adds both,
which may count an operation twice and errs on the safe side. An agent that deletes a
delivered file before recovery has looked at it is not modelled. `JudgeLock` reads the payload of the lock
and asks for its process in one step; a lock that changes between the two is one that
`ConfirmLock` finds changed, or the race that `raced` is about. Changes of the watchdog's
configuration and authority are made where they are next read.
