# Kavi: durable execution, modelled and proved

Kavi is an assistant application for phones (React Native, with native Android
and iOS parts). It runs an agent that calls tools, some of which change the
world: a message is sent, a workflow is started at a remote provider, an action
is tapped on the phone's screen. The application can be killed by the operating
system at any instruction. Its *durable execution* code makes that survivable:
it keeps a journal of what was launched, and files and stores of what was said.

This directory holds TLA+ models of that code, the TLC runs that check them on
small instances, and proofs, checked by TLAPS, of their safety properties for
every value of the constants. Paths below are relative to the repository;
`EJ/` abbreviates `src/services/executionJournal/`. `PROJECT.json` maps every
definition to the lines it models, and lists runs, mutants (a plausible bug in
a definition, and the property that catches it), hazards, findings and theorems.

1. [The system](#1-the-system): components, state, operations, hazards
2. [The models](#2-the-models): modules, and how they correspond to the code
3. [The runs](#3-the-runs): what TLC checks, bounds, fairness
4. [The proofs](#4-the-proofs): theorems, assumptions, invariants
5. [Findings](#5-findings): where the code and its own comments disagree
6. [What is left out](#6-what-is-left-out), and why
7. [Plan](#7-plan): what comes next

## 1. The system

### How the parts interact

```
 user, agent engine, scheduler           recovery wakes (app start, WorkManager, BGTask)
        |                                             |
 dispatchAuthorizedToolEffect               executeExactRecoveryAttempt
        |                                             |
 effect barrier (memory, per run)           recovery coordinator: plan, fence, claim,
        |                                   inspect the provider, complete
 effect dispatch: prepare, claim,                     |
 execute, settle ------------------+                  |
        |                          |                  |
        |                 tool results that name an   |
        |                 external operation          |
        v                          v                  v
 +-------------------- execution journal (SQLite, one connection) ----------------+
 | runs, effects, receipts, recovery controls, external handles, monitors,        |
 | recovery dispatches, checkpoints                                               |
 +--------------------------------------------------------------------------------+
        ^                          ^                               ^
 mobile-controller outcomes   recovery cancellation          retention at start

 Zustand stores --> throttled storage (memory) --> persisted file generations (files)
```

Every transaction of the journal is synchronous JavaScript, so it is atomic with
respect to everything else in the process. Interleaving happens at `await`s:
between transactions, around executors and providers, and around the calls of
the file system. The process may die at each of these points, and inside a file
operation.

### Components

**Durable tool-effect dispatch** (`EJ/toolEffectDispatchLifecycle.ts`,
`effectDispatchCoordinator.ts`, `effectDispatchPolicy.ts`,
`toolEffectDispatchStore.ts`, `toolEffectDispatchJournalState.ts`,
`effectDispatchReceiptClassification.ts`).
*State*: rows of a run, its effect, its control and its receipt; in memory, the
calls under way with the snapshot they read.
*Operations*: prepare a planned effect whose identity is a digest of the tool
call, claim it (compare the snapshot, mark it started), run the executor, settle
the receipt or mark the effect ambiguous, and answer duplicates.
*Hard*: two calls for the same tool call; cancellation between any two steps;
failures after the executor ran; the only mark of a claim is a millisecond;
retention deletes runs whose identity comes back.
*Correct when*: the executor runs at most once; one call writes an outcome;
rows agree; a settled effect is final; what was withdrawn never ran; a restart
never takes an executed effect for one that was not.

**Execution-run effect barrier** (`EJ/executionRunEffectBarrier.ts`).
*State*: one chain of promises per execution run, in memory; the journal.
*Operations*: queue a call, read the journal when it is at the head, turn it away
while an effect of its execution run is unresolved, release the next one.
*Hard*: what is read once is relied upon across many awaits; the chain dies with
the process; a tail that is never released blocks an execution run for ever.
*Correct when*: an execution run never has two unresolved effects; what the
barrier read stays true; every call returns.

**Mobile-controller handoffs** (`EJ/mobileControllerHandoffStore.ts`,
`mobileControllerOutcomeStore.ts`). A claimed effect is parked while the native
side performs it; its outcome arrives later, perhaps after a restart.
*Hard*: the outcome races duplicates and cancellation.
*Correct when*: a parked effect is settled once, by the same rules.

**Terminal retention and restart disposition** (`EJ/terminalExecutionRetention.ts`,
`toolEffectRestartDisposition.ts`, `toolEffectRestartProjection.ts`): which runs
may be deleted; what a restarted process says of an effect it finds.
*Correct when*: an unresolved effect is never forgotten, so never launched again.

**Execution recovery** (`EJ/recoveryControlStore.ts`, `recoveryCoordinator.ts`,
`productionRecovery.ts`, `externalHandleReconciliation*.ts`,
`externalToolObservationStore.ts`, `recoveryCandidates.ts`, `recoveryPlanner.ts`,
`monitorRecords.ts`, `recoveryAttention.ts`, `recoveryCancellation.ts`).
*State*: run, control, handle, effect, monitor and checkpoint rows of an
operation that runs at a remote provider; a recovery dispatch row per snapshot
digest, with a leased fence.
*Operations*: list candidates; query, revalidate, acquire the fence, claim it,
inspect the provider, complete; report by a tool call; request cancellation or
attention.
*Hard*: five transactions per attempt with anything in between; a lease that
runs out under a live attempt; a crash with the fence in hand; two writers that
share five tables.
*Correct when*: the tables always agree; a snapshot is inspected by one attempt
per lease and settled once; a closed run is final; an outcome is recorded in the
end.

**Foreground turns** (`src/engine/graph/foregroundRun/` (`FR/` below),
`src/store/modelProjectionOwnership.ts`, `EJ/foregroundModelExecution*.ts`,
`EJ/foregroundExecutionProjectionCleanup.ts`, `src/services/startupRecovery.ts`).
*State*: the conversation in the chat store, with its owner and the reply of each
turn, in memory and on disk; a run of the agent in the journal; in memory only,
the request the registry holds for the conversation, the runs this process owns,
and the recovery sweep.
*Operations*: a request waits for the sweep and for the conversation, reserves it
with a placeholder, opens and activates a run, generates, flushes its reply,
closes the run, releases the conversation; the sweep closes the runs and releases
the conversations of a dead process, and only then; stop, clear, come back to the
foreground.
*Hard*: two stores that are not written together, with a failure or the death of
the process between any two writes; a new request that supersedes a live one; a
history cleared under a turn; a sweep that fails half-way and is tried again
beside live turns.
*Correct when*: a succeeded run has its answer on disk; an open run has its
conversation to itself; a restart reclaims whatever the dead process held and
leaves no bare placeholder; nothing but the turn itself touches a live turn; every
request ends. The cancellation of external recoveries
(`EJ/foregroundExternalRecoveryCancellation.ts`), a retry loop over generations,
is not modelled.

**Journal schema, retention policy, unused mutations** (`EJ/schemaDefinitions.ts`,
`mutations.ts`, `retention.ts`): constraints the models start from; the last two
have no caller outside tests.

**Persisted file generations** (`src/store/persistedFileGenerations.ts`).
*State*: three files per key: primary, backup, temp; each a numbered envelope
with a checksum. *Operations*: read the latest, commit, commit a tombstone;
each begins with a recovery of whatever the last one left.
*Hard*: every file operation may fail, take effect and then fail, stop half-way,
or be the last thing the process does. *Correct when*: a commit takes effect at
once or not at all; numbers are unambiguous; what was returned is never lost; a
removal erases.

**Throttled storage** (`src/store/throttledStorage.ts`).
*State*, in memory: a pending value per key with a timer, a chain of mutations,
drains. *Operations*: set, remove, flush on a timer, drain when the application
goes to the background. *Hard*: a flush ends after a newer value, a removal or
a drain changed what it began with; failures re-arm timers. *Correct when*: no
value is stranded, an older value never replaces a newer one, a drain that
resolves is a barrier.

**Scheduler** (`src/services/scheduler/`; `SC/` below).
*State*: jobs with the claim of a running attempt, and an outbox of terminal
reports, in a store that moves in memory first and is written whole by a chain
of writes (`persistence.ts`); in memory only, an operation lock, recovery timers,
execution slots and a recovery barrier.
*Operations*: claim an attempt, fence hooks that no journal covers, execute, mark
the attempt unsafe before a tool has an effect, record the completion, settle,
recover a settlement that could not be saved, reconcile stranded attempts at the
start; edit, enable and disable a job; deliver and acknowledge reports.
*Hard*: every caller moves memory and then waits for its own write, which may
fail with or without having reached the disk, behind and in front of the writes
of others; what failed is taken back in memory; the process may die between any
two of these; edits change the definition under a running attempt.
*Correct when*: an occurrence that had an effect is never executed again; an
attempt is executed on a durable claim only; a completed attempt is a success for
ever; an attempt is in one hand, does not vanish without a report, and ends.

**Sub-agents and agent runs** (`src/services/agents/`), **agent engine and tool
execution** (`src/engine/`), **memory** (`src/services/memory/`, which has a TLA+
model of its own under `docs/formal`), **context budget**, **remote, MCP, LLM,
SSH, Python and voice clients**, **native durable execution** (Kotlin and Swift
adapters that schedule wakes), **user interface, i18n, benchmarks, scripts**:
listed in `PROJECT.json` with the reason each is not modelled.

### Hazards

`PROJECT.json` lists them at the line where they bite, with the properties that
would catch each. Three things that can go wrong have no property, because nothing
in the code sets out to prevent them: a mobile handoff nobody answers keeps its
effect started and its execution run blocked (`EJ/mobileControllerOutcomeStore.ts:237`);
a run whose cancellation was requested is no recovery candidate any more, although
reconciling it would settle it (`EJ/recoveryCandidates.ts:187`); and a deferral of
a scheduled attempt may repeat its hooks (see [Findings](#5-findings)).

## 2. The models

| Module | Models | Uses |
|---|---|---|
| `EffectContract` | abstract: what the dispatch promises for one effect | |
| `EffectDispatch` | the durable dispatch, mobile outcomes, retention, restart | implements `EffectContract` |
| `EffectBarrier` | the dispatch behind the barrier of execution runs | extends `EffectDispatch` |
| `ObservedOperation` | abstract: what the journal promises of a remote operation | |
| `ExternalReconciliation` | recovery attempts and tool calls over one operation | implements `ObservedOperation` |
| `PersistedRegister` | abstract: a register whose contents are numbered | |
| `PersistedGenerations` | the three files of a key, file operation by file operation | implements `PersistedRegister` |
| `ThrottledStorage` | the write-behind in front of it | relies on `PersistedRegister`: a commit is one step |
| `ScheduledOccurrences` | abstract: what the scheduler promises of the occurrences of a job | |
| `ScheduledAttempts` | the attempts of a scheduled job over a store that is written later | implements `ScheduledOccurrences` |
| `ForegroundTurns` | the turns of a conversation over chat store and journal, and the recovery sweep | |
| `*Proofs` | theorems and proofs about the module of that name | |
| `MC*` | finite instances for TLC | |

### EffectDispatch

The journal of one effect `e` (a run with one effect, as
`insertPlannedJournal` makes it) is `effect[e]`, `run[e]`, `control[e]`,
`receipt[e]`, `updatedAt[e]` and `startedAt[e]`: columns of the same names.
A call `c` of `dispatchAuthorizedToolEffect` has `pc[c]`, the effect it is for
(`target`), the timestamp it read and then claimed with (`stamp`), the receipt it
is settling (`answer`) and what it returned (`reply`). `executions[e]` counts
executor invocations since the run was inserted; it is the outside world.

| Action | Code |
|---|---|
| `Call`, `Refuse` | entry, and the early returns before the dispatch |
| `PrepareAndPlan`, `PrepareAndFindClaim`, `PrepareThenUnavailable` | `prepareToolEffectDispatchState`, `planEffectDispatch`, and a failed read |
| `ClaimUnauthorized`, `ClaimExisting`, `ClaimGenerationChanged`, `ClaimCancelled`, `ClaimAndStart`, `ClaimFails` | the exits of `claimWithinTransaction`, in its order |
| `Execute`, `ExecutorReports`, `CallbackThrows`, `Defer` | the dispatch callback of the lifecycle |
| `Settle`, `SettleReplayed`, `SettlementFails`, `MarkAmbiguous`, `MarkNothing` | settlement, and what is tried when it fails |
| `RequestCancellation`, `SettleMobileControllerOutcome`, `Prune`, `Crash` | the rest of the application |

A transaction is one action. A receipt is its disposition, the value
`classifyEffectDispatchReceipt` computes. Time is a counter per effect: a
journal write moves it forward or stays in the same millisecond, for the code
takes the maximum of the clock and the row's own times. `Prune` is how an
identity becomes dispatchable again; `MaxPrunes` bounds it. Every callback and
port (authority, clock, digest, database) may fail each time it is used.

### EffectBarrier

Adds `queue[r]`, the chain of promises of execution run `r`, and `inside`, the
calls that found the barrier clear. `Admit` and `TurnAway` are
`inspectExecutionRunEffectBarrier` at the head of the chain; `Work` is a step of
the dispatch by an admitted call, which releases the next one when it returns.
A step of this specification is a step of `EffectDispatch` or a stutter, so
everything said of the dispatch holds behind the barrier (theorem
`BarrierRefines`).

### ExternalReconciliation

`journal` is the row of each of run, control, handle, effect, monitor and
checkpoint, with `generation`, a counter of the writes of the run: the code keys
a recovery dispatch by the digest of the snapshot, and every write moves
`updatedAt` forward, so digests and generations correspond. `dispatches[g]` is the
recovery dispatch of generation `g` with the attempt that holds its fence.
`reconciler[r]` is an attempt: where it stands, the generation it works on and
what it has read. `observer[o]` is a tool call with the status it carries.
`remote` is the operation at its provider, and `spent` is how much of the bounds
is used. Leases and the legal interval of a monitor are reduced to whether they
have run out (`expired`) or come (`due`).

An attempt goes through `Schedule`, `Query`, `Revalidate`,
`AcquireDispatchFence`, `Claim`, `InspectOutcome` or `InspectUnresolved`, and
`Complete`, one action per transaction or provider call; `Query` and
`Revalidate` each put two reads of the code in one step, because the next
transaction makes both tests again. A test that fails sends the attempt to
`Defer`, and `Release` ends it; `RequireAttention` hands the run to its user.
`PersistObservation` is `persistExternalToolObservation`, including its throws.

### PersistedGenerations

`disk[s]` is the file of slot `s`: its generation number and content, missing, or
damaged. The operation under way has `pc`, the file operation it makes next,
`request`, the generation it is `placing`, whether that is the requested one or
one it recovers first (`committing`), and whether the primary file becomes the
backup (`shelving`). `generationOperations` runs the operations of a key one at
a time, so there is one. `Fail` and `Crash` may happen at every step, with the
file operation done, not done or half-done: a truncated write, or a move that
left both files. `Lose` is damage at rest. `returned` is what callers know.

### ThrottledStorage

`pending` is the entry of `pendingWrites` (revision, timer, `flushingRevision`),
`chain` is `inFlightMutations`, `settled` are flushes whose mutation is done and
that have yet to run their continuation, `drain[d]` is where a drain waits.
Calls of `setItem` and `removeItem` are numbered; the number is the revision and
stands for the value. `durable` is the last call that took effect on disk.
`goal[d]` is a history variable: the call drain `d` was called for. A
`Mutate(FALSE)` may have taken effect, which is what a failed commit of
`PersistedGenerations` may do.

### ScheduledAttempts

One job; jobs share the operation lock and the chain of writes, and what another
job does with these is in `Touch` (a write queued by somebody else) and in every
step that waits for the lock. `mem` is the store in memory, `disk` what was last
written, `writes` the chain `mutationTail` with the client that waits for each
write, and `answer[c]` what the write of client `c` came to: `Save` is a zustand
`set()`, `WriteEnds` the end of the first write, which may fail with or without
having reached the disk. `lock` is the holder of `withSchedulerOperationLock`.

| Actor | State | Actions | Code |
|---|---|---|---|
| engine | `engine` | `Claim` to `FenceEnds` | `SC/engine.ts`, claim, release, hook fence |
| | | `Start`, `MarkUnsafe` to `CompleteEnds`, `Background` | `SC/jobExecutor*.ts`, `executionLifecycle.ts` |
| | | `Throw`, `Settle`, `SettleEnds` | `SC/engine.ts`, the catch and its settlements |
| recovery | `timers`, `recovery` | `RecoveryFires` to `ReconcileEnds` | `SC/attemptRecovery.ts` |
| user | `command` | `Command`, `CommandEnds`, `FailClosedEnds` | `SC/commands.ts` |
| saver | `saver` | `SaverFires`, `SaverEnds` | `SC/statePersistenceRecovery.ts` |
| drain | `drain` | `Deliver`, `Acknowledge`, `AcknowledgeEnds` | `SC/terminalReportProcessor.ts` |
| start | `boot`, `unsaved` | `Boot`, `BootEnds`, `Crash` | `SC/runtimeReadiness.ts`, `store.ts` |

A job has the fields an attempt depends on: `running`, `runRev`, `number`,
`risk`, `occ` and `done` are `runningAttemptId`, `runningDefinitionRevision`,
`runningAttemptNumber`, `runningEffectRisk`, `runningOccurrenceId` and
`runningCompletion`; `retries` and `retryOcc` are `retryAttempts` and
`retryOccurrenceId`. Attempt ids are random in the code and drawn in order here.
`dispatched`, `proven`, `delivered`, `occOf`, `revOf` and `disableKept` are
history: the world outside, and what was claimed for what. An execution is
`Start`, any number of `MarkUnsafe` (`beforeEffectDispatch`) with its effect in
`MarkEnds`, and then `Complete` or `Throw`; the errors it throws are the four the
engine tells apart. A drain that has taken up a report keeps it in `drain`,
however the store moves.

`ScheduledOccurrences` is what remains of this for the world outside, which sees
neither stores nor locks: attempts are claimed in order, each at an occurrence of
its own or at an earlier one that is not over (no attempt at it had an effect or has
its output on disk); only the last attempt acts, and not after its outcome was told
or recorded; only the last attempt at an occurrence is recorded; a report
contradicts neither the record (a success) nor the effects (it is not retried) of
its attempt. It does not promise that a success was recorded before it is told:
a report may be delivered while its settlement is still to be written, and the
process may die then.

### ForegroundTurns

One conversation. `chat` is what the chat store holds of it in memory and `disk`
what is persisted: whether it exists, its `modelProjectionOwner`, and of each
turn's assistant message whether it is open, final, parked (the turn waits for
other work, or was a command) or marked as incomplete. `journal[t]` is
the status of the run of turn `t`, whose id is the id of the request; a journal
transaction is durable at once. `current` is the entry of the request registry and
`aborted` the signals that are set; `mine` is `currentProcessModelRunIds`; `sweep`,
`todo` and `plan` are where the recovery sweep is, what it has listed and what it
settles; `reconciled` and `ready` are the two flags of `startupRecovery.ts`.
`troubled` is a history variable: in this process an operation failed, or a turn
lost its conversation while it was closing.

| Actions | Code |
|---|---|
| `Send` to `Refuse`, `Reserve` | `FR/execution.ts` to the reservation, `FR/requestRegistry.ts`, `waitForModelProjectionAvailability`, `claimModelProjection` |
| `PersistReservation`, `Abandon` to `PersistRelease` | `FR/projectionReservation.ts` and its callers |
| `CreateRun`, `CheckRun`, `Activate`, `Start`, `Generate` | `FR/execution.ts`, `EJ/foregroundModelExecutionJournal.ts`, `FR/terminalLifecycle.ts` |
| `PersistReply` to `EndTurn`; `PersistUnowned`, `CompleteUnowned` | `closeModelGeneration`, with an owner and without one |
| `Open`, `Resolve`, `EndSweep` | `recoverPersistedAgentStateForSource` |
| `RecoverOwned`, `RecoverUnowned`, `AbortRecovery`, `PersistPlan`, `Settle`, `PersistSettled` | `recoverInterruptedForegroundModelExecutions` |
| `Clean` to `PersistCleaned` | `releaseStaleForegroundExecutionProjectionOwners` |
| `Foreground`, `Stop`, `ClearHistory`, `Checkpoint`, `Crash` | the rest of the application |

A step is the code between two awaits. A flush that succeeds makes `disk` what
`chat` is then (`Land`); one that fails leaves it (`Fault`), and `Checkpoint`, the
throttled write, may bring it level at any time. `Fault` also stands for a journal
operation that fails, for a turn whose final reply cannot be resolved and for a
read of the sweep that throws. `CheckRun` and `Generate` pick what the orchestrator
and the user may have done meanwhile.

## 3. The runs

`tlc -workers 2 -config X.cfg M`, from this directory.

| Run | Checks | Shows |
|---|---|---|
| `dispatch` | `ExecutedAtMostOnce`, `RunTellsEffect`, `RestartNeverForgetsAnExecution`, `Inv`, `SettledIsFinal`, `ImplementsContract` | exactly-once dispatch under races, failures, crashes and deletion |
| `barrier` | `BarrierInv`, `OneUnresolvedEffectPerRun`, `RejectedNeverExecuted`, `EveryCallReturns` | one unresolved effect per execution run; a rejection is the truth; no call is left behind in the chain |
| `generations` | `ReturnedSurvives`, `GenerationsInv`, `CommitKeepsPrior`, `RemovalErases`, `ImplementsRegister` | files implement an atomic register |
| `throttled` | `ThrottledInv`, `NoStrandedWrite`, `LaterCallsWin`, `DrainIsABarrier`, `LastWriteLands`, `DrainsEnd` | write-behind loses, strands and reorders nothing; the last value lands; drains end |
| `recovery` | `ReconciliationInv`, `OneInspectorPerLease`, `SettlesTheCurrentSnapshotOnce`, `ClosedIsFinal`, `ImplementsOperation` | tables agree, fences exclude, snapshots settle once |
| `recovery_live` | `OutcomeIsRecorded` | no fence of a dead attempt keeps an outcome out |
| `attempts` | `AttemptsInv`, `ImplementsOccurrences`, `OneOwner`, `ProvenIsSuccess`, `NothingVanishes`, `AttemptEnds` | no effect is replayed, no success is lost, no report is false, no attempt vanishes or hangs |
| `foreground` | `ForegroundInv`, `SucceededIsDurable`, `RestartReclaims`, `RecoveredRepliesAreMarked`, `OnlyOwnStepsMove`, `TurnsEnd`, `ReservationsEnd` | two stores stay in step; a restart reclaims; live turns are left alone; every request ends |
| `dispatch_reconciliation`, `dispatch_returned`, `recovery_refused`, `attempts_disable` | one statement of the sources each | a violation: see [Findings](#5-findings) |

Each `*Inv` is the inductive invariant of its proofs and a conjunction of named
parts, so checking it checks them: `ChainOK`, `OneClaimHolder`,
`WithdrawnNeverRan`, `NeverCollides`, `RecordsAgree`, `DurableClaim`, `NoReplay`,
`PendingRunIsOwned` and the type invariants (some of them follow from the parts).
These have theorems of their own.

### Bounds, and why they are enough

- `dispatch`: one effect, three calls, one deletion. Effects share no row and no
  variable, so one is enough (the barrier, where they do interact, has two).
  Three calls are a claimer, a rival that read the same snapshot, and a
  duplicate that comes later; one deletion lets a call outlive the run it claimed.
- `barrier`: two effects of one execution run, one of them mobile (it can stay
  started without a call inside), two calls, each of which may come back when it
  has returned. Execution runs share nothing. Two calls are one at the head of the
  chain and one behind it; a longer chain repeats the same hand-over, and the safety
  properties are proved for any. No deletion: an unresolved effect is never deleted.
- `generations`: two payloads, to give one number to two contents if that can be;
  four generations, so that a value, its removal and two more commits can each be
  interrupted and retried; two files lost. The code's bound is
  `MAX_SAFE_INTEGER`, and `MaxGeneration` is checked the same way.
- `throttled`: three calls are a write, one that overtakes its flush, and a
  removal or a write after it; two drains can start a flush and wait for each
  other's. One crash, after which calls may still come. The invariant is proved
  for every number of calls, drains and crashes.
- `recovery`: two attempts and one tool call, four writes of the run, one
  inspection that finds nothing, one lease that runs out under a live attempt.
  Four writes let a snapshot be overtaken by each kind of writer, and settled by
  an attempt whose answer is old. Of the provider's final states one is enough
  there, for the code treats them alike but for the columns they are copied to.
  Crashes are left to `recovery_live` and to the proofs, whose theorems, the
  refinement among them, hold for any number of them;
  `recovery_live` and `recovery_refused` have a cancelled operation too.
- `recovery_live`: one attempt slot and one crash. `MaxGeneration = 7` is never
  reached: creation, the two statuses a tool call can still report, one
  inspection, attention, cancellation and the outcome are at most seven writes,
  so the property does not hold because a write was refused by the bound.
- `attempts`: two attempts, one retry, and two events out of failed writes,
  crashes, commands, writes of others and failed releases of the conversation.
  Two attempts are one that goes wrong and the one that would replay it. Two
  events are a failure and a second one in its recovery: a claim that fails and
  its release that fails, a settlement that fails and a crash before it is
  recovered, a completion whose record fails and a crash. The job repeats and its
  prompt is no command (`OneShot`, `SlashPrompt` are FALSE), which leaves every
  branch of the settlement but two possible; the safety properties are proved for
  both kinds of job and any numbers. `attempts_disable` needs a command and two
  failed writes, or one, and has three events.

- `foreground`: two turns, one failure and one crash, at any step. Two turns are a
  live one and the one that supersedes it, or one the dead process left and the one
  that comes after; a third would meet the same states of the conversation, which
  has one owner at a time. One failure with one crash is a sweep that fails and is
  tried again beside turns, a close that fails and a restart that cleans up after
  it, and a flush that fails in the recovery itself. The safety properties are
  proved for any numbers of the three. Sends, stops, returns to the foreground and
  checkpoints are not bounded otherwise.

`CHECK_DEADLOCK FALSE` is given where the system may stop: all calls made and
everything written (`throttled`), the run closed (`recovery*`), all attempt ids
used (`attempts*`), or all turns over (`foreground`). The dispatch,
the barrier and the generations never stop, and their runs check that.

Symmetry is used over calls, payloads, drains and attempts, in runs without
liveness properties only; no definition names one of them.

### Fairness

- `barrier`: weak fairness of the progress of each call. An awaited promise
  settles and its continuation runs; the executor's promise is assumed to settle
  (tools carry timeouts of their own). Nobody has to call, cancel, report or crash.
- `throttled`: timers fire, mutations settle, continuations and drains go on
  (weak); a mutation that is tried again and again succeeds in the end (strong:
  it is enabled and disabled with every failure). Calls need not come.
- `recovery_live`: started attempts and tool calls run to their end; clocks
  advance (`MonitorFallsDue`, `LeaseRunsOut`); a candidate is scheduled again,
  because every start of the application lists candidates
  (`EJ/recoveryCandidates.ts`). Nothing makes the provider, the user or the
  platform act.
- `attempts`: a queued write ends (weak), whether it fails or not; events are
  bounded, so writes do not fail for ever. The engine, the recovery, a command
  and the saver go on (weak): promises settle, timers fire, and the operation lock
  is a FIFO chain of promises, so who asked for it gets it. An execution ends
  (strong fairness of `Complete \/ Throw`): the orchestrator is bounded in its
  turns, so it does not mark effects for ever. The start goes on (weak). Nothing
  makes the user act, the application go to the background, a job fall due, or a
  drain begin.
- `foreground`: weak fairness of the steps of each turn and of the sweep. What they
  await settles: flushes and transactions, with or without success, provider
  preflight and the model's answer (both have timeouts), and the wait for the
  conversation, which the code ends after 30 seconds
  (`src/store/modelProjectionOwnership.ts:86`). Nobody has to send, stop, clear the
  history or come back to the foreground, and the throttled checkpoint need not run.

## 4. The proofs

`tlapm M.tla` for each `*Proofs` module. All eight are proved to the last leaf,
for any sets and numbers that satisfy the assumptions:

- `ConstantsAssumption` (`EffectDispatch`): mobile effects are effects, the bound
  is a number, the two null values are distinct from what they are null for.
- `RunOfAssumption` (`EffectBarrier`): every effect belongs to an execution run.
- `GenerationsAssumption` (`PersistedGenerations`): bounds are numbers; the
  tombstone is no payload, and "no content" is neither.
- `ThrottlingAssumption` (`ThrottledStorage`): bounds are numbers; "no write" is no
  write.
- `ReconciliationAssumption` (`ExternalReconciliation`): the provider's states are
  among those the code knows and include "pending"; at least one write.
- `AttemptsAssumption` (`ScheduledAttempts`): bounds are numbers, the kinds of job
  are Booleans.

- `TurnsAssumption`, `BoundsAssumption` (`ForegroundTurns`): "no turn" is no turn;
  bounds are numbers.

Each of them is evaluated by TLC in the runs of its module.

| Module | Inductive invariant | Theorems |
|---|---|---|
| `EffectDispatchProofs` | `Inv` | `Invariance`, `TypeCorrectness`, `AtMostOnce`, `SingleClaimHolder`, `RunAndEffectAgree`, `WithdrawalIsSafe`, `RestartIsSafe`, `SettledFinality`, `ImplementsTheContract` |
| `EffectBarrierProofs` | `BarrierInv` | `BarrierRefines`, `ChainInvariance`, `BarrierInvariance`, `OneUnresolved`, `RejectionIsTrue` |
| `PersistedGenerationsProofs` | `GenerationsInv` | `GenerationsInvariance`, `GenerationsTypeCorrectness`, `NumbersAreUnambiguous`, `Durability`, `PriorIsKept`, `RemovalIsComplete`, `ImplementsTheRegister` |
| `ThrottledStorageProofs` | `ThrottledInv` | `ThrottledInvariance`, `NoWriteIsStranded`, `DiskFollowsCalls`, `DrainsAreBarriers` |
| `ExternalReconciliationProofs` | `ReconciliationInv` | `ReconciliationInvariance`, `TablesAgree`, `FencesAreExclusive`, `SnapshotsSettleOnce`, `ClosedRunsAreFinal`, `ImplementsTheOperation` |
| `ScheduledAttemptsProofs` | `ReplayInv` | `AttemptsReplayInv`, `AttemptsNoReplay`, `AttemptsDurableClaim`, `AttemptsOneOwner` |
| `ScheduledOutcomesProofs` | `AttemptsInv` | `AttemptsInvariant`, `AttemptsProvenIsSuccess`, `AttemptsNothingVanishes`, `AttemptsImplementOccurrences` |
| `ForegroundTurnsProofs` | `ForegroundInv` | `ForegroundInvariance`, `PendingRunIsOwnedAlways`, `SucceededIsDurableAlways`, `RestartReclaimsAlways`, `RecoveredRepliesAreMarkedAlways`, `OnlyOwnStepsMoveAlways` |

Why the invariants are needed:

- **`Inv`.** At-most-once is not inductive: it needs that a call which may still
  execute holds the claim of the row as it stands (`ClaimIntact`). The claim is
  recognised by a millisecond only, and a claim kept across the deletion of its
  run could be mistaken for a later one. The invariant says why it cannot: such
  a stamp is older than anything the next run is given, because insertion and
  claim move strictly forward. `RowsAgree` ties the columns to the number of
  executions, which makes withdrawal, restart and the contract follow.
- **`BarrierInv`.** That an execution run has one unresolved effect is kept only
  because an admitted call is the only one inside (`ChainOK`) and the rest of its
  execution run is still resolved (`Alone`), a fact read several awaits ago. The
  proof shows that everything others may do only resolves effects (`Calm`).
- **`GenerationsInv`.** The newest generation must survive each file operation,
  so the invariant says, for every place in the algorithm, in which slots the
  generation being placed already is (`PlacingOK`) and what its predecessor is
  (`CommittingOK`). Then removing or damaging anything else changes nothing
  (`ShrinkingIsSafe`), whatever part of an operation took effect.
- **`ThrottledInv`.** That no write is stranded depends on `flushing` being set
  exactly while a flush of that revision is in the chain or has yet to go on
  (`PendingOK`), each revision being flushed at most once at a time (`ChainOK`).
  `DrainOK` carries what a drain was called for across its turns.
- **`ReconciliationInv`.** A completion is legal only if its snapshot is still
  current, so an attempt's memory must be right about *current* snapshots
  (`AttemptsOK`), dispatches may be settled only for past ones (`DispatchesOK`),
  and an outcome anybody carries must be true (`OutcomesAreTrue`): the provider
  never takes an outcome back. `FencesOK` is exclusion, as long as no lease ran
  out under a live attempt.
- **`ReplayInv`.** Any state that is queued may become the disk, and the disk may
  become the memory, so what rules out a replay must hold of *every* version of
  the store: in memory, on disk, in each queued write and in each snapshot that
  may be put back (`Everywhere(Safe)`, `ClosedOK`). A version is safe if an attempt
  that had an effect either runs in it, marked unsafe, or has an occurrence that
  neither runs nor is to be retried. At the moment the effect happens all versions
  become subject to that at once, and it holds because the engine waited for its
  own write and the versions behind it were made from the marked one
  (`OwnWriteOK`, `WaitsFor`); the same argument gives the durable claim. `LockOK`,
  `BootOK` and `OwnerOK` say who may move the store meanwhile: `OwnerOK` is
  `OneOwner` with what the hands hold while nothing runs. `EngineOK` says that an
  attempt that may still be deferred or is settled to be retried has had no effect.
- **`AttemptsInv`.** What was recorded or told once must be kept by what comes after,
  and only by that: a write queued *before* the record still says that the attempt
  runs without one, and will be the disk for a while. So the invariant orders the
  copies of the store, disk, queued writes, memory (`Stage`), and speaks of pairs in
  that order (`Successions`). `RecordsOK`: a copy behind one with the recorded output
  of an attempt keeps it (`Kept`), and so do the memory and every snapshot that may be
  put back (`Held`), for an output that is recorded anywhere (`Recorded`), while the
  disk may be behind until the record is proven. `AnswersOK`: a copy behind one that
  tells of an attempt, by running it or by a report, answers for it
  (`Answers`): it still tells of it, its report was delivered, or the definition moved
  on or is disabled. That a report put back by a drain is not a stale one needs what
  the drain carries in both. `FreshOK` keeps attempts not yet claimed out of every
  copy, `RetriesOK` keeps the report of a retry out of every copy for an attempt that
  had an effect (when it acts, no copy has a report of it yet), and `CompletionOK`
  says that the engine settles as a success exactly what it
  recorded. The proof reduces all steps of the system to six moves of the memory
  (`Moves`: an attempt is claimed, edited, completed, closed, put back, or its report
  acknowledged), a write that ends and a crash, and shows once for each what becomes
  of the copies (`SetCopies`, `WriteCopies`, `CrashCopies`).
- **`ForegroundInv`.** A crash makes the disk the memory, so what holds of the
  conversation in memory must hold of the disk too (`OwnersOK`,
  `PendingRunIsOwned`): a run exists only after its reservation was flushed, and the
  reservation goes only after the run is closed. `AnswersOK` carries an answer from
  its generation over its flush to the journal. `RunsOK` ties the run to where its
  turn is, and says that a restarted process has no turn under way until its initial
  sweep is over, which is why the sweep cannot meet a live run. `SweepReclaims`
  follows what the dead process left through the steps of the sweep to its end, as
  long as nothing fails.

A refinement theorem (`ImplementsTheContract`, `ImplementsTheRegister`,
`ImplementsTheOperation`, `AttemptsImplementOccurrences`)
shows that initial states map to initial states and,
under the invariant, every step to a step of the abstract specification or a
stutter.

Only model-checked: liveness under fairness (`EveryCallReturns`, `LastWriteLands`,
`DrainsEnd`, `OutcomeIsRecorded`, `AttemptEnds`, `TurnsEnd`, `ReservationsEnd`) and
the four violations, which are out of the prover's reach or about a single trace.
Every safety property of the runs is proved.

## 5. Findings

Four places where a run shows that the code does not do what its own comments or
tests say. The first three cost accuracy of a report; the fourth undoes a command.

1. `dispatch_reconciliation`. An effect whose claim was rejected is closed as
   cancelled with `started_at` set and no outcome digest. `classifyRow` wants an
   outcome digest of a cancelled row, so after a restart the effect reads as
   `reconciliation_required`, an ambiguous dispatch, though it never ran
   (`EJ/toolEffectRestartDisposition.ts:125`).
2. `dispatch_returned`. The mobile outcome store closes the run of a *returned*
   effect as ambiguous where the dispatch store closes it as succeeded; after a
   restart it reads as requiring reconciliation, and retention never deletes it
   (`EJ/mobileControllerOutcomeStore.ts:91`).
3. `recovery_refused`. After an inspection blocked the monitor, or attention
   blocked the run, a tool call that reports the outcome throws: the report is
   rolled back and the finished call is presented as failed
   (`EJ/externalToolObservationStore.ts:482`).
4. `attempts_disable`. A settlement that cannot be saved is taken back by putting
   back the job as it was read *before* the operation lock was waited for
   (`SC/engine.ts:340`, `backgroundAbortSettlement.ts:48`; `attemptRecovery.ts:50`
   reads it before an await of its own). A disable that has the lock in between and
   is durably acknowledged is undone with it: the job is enabled again, with its
   old definition (`SC/store.ts:452`). The tests promise that an acknowledged
   disable stays (`src/__tests__/services/schedulerCommands.test.ts:149`, `:169`).

More came up in modelling that no run claims, because no text of the repository
denies it, or only one whose wording may mean something else. In the scheduler:

- A busy conversation defers an attempt whatever its risk (`SC/engine.ts:310`),
  after the hooks of `task_run` ran behind their fence. They run again with the
  next attempt; a test forbids that only after a transient failure of the executor.
- An attempt that failed for good, but whose settlement could not be saved, is
  reconciled by its risk alone; if it had no effect it is deferred and executed
  again, beyond the number of its retries.

And in the foreground turns:

- `EJ/foregroundModelExecutionJournal.ts:154` creates a generation "before its
  assistant projection may be persisted"; the caller flushes the reservation with
  its placeholder first, and the cleanup of owners without a run
  (`EJ/foregroundExecutionProjectionCleanup.ts:28`) relies on that order.
- `startupRecovery.ts:189` retries "the complete reconciliation transaction" on a
  return to the foreground; that sweep leaves the journal runs and the owners alone,
  which is what `OnlyOwnStepsMove` needs. So a turn whose close failed keeps its
  conversation until the process restarts: every later request waits 30 seconds and
  is refused. `RestartReclaims` and `ReservationsEnd` except such processes
  (`troubled`).
- A history cleared in memory and not yet written when the sweep closes the unowned
  run, followed by a crash, brings back a conversation whose placeholder nobody
  fills; the next sweep releases its owner. `RecoveredRepliesAreMarked` is about
  conversations that exist.

## 6. What is left out

- *Of the dispatch*: leases, evidence digests and expiry of mobile handoffs
  (they refuse; the model lets any settlement fail); quotas and ages of
  retention (the model may delete any run the code could).
- *Of recovery*: runs with several handles, which no code creates; the other
  commands of the planner (`recoveryPlanner.ts`), which such runs never get; the
  validation of a snapshot, whose answer is what `RecordsAgree` states; native
  wake schedulers, whose effect is that any candidate may be woken at any time;
  execution authority and the control epoch, constant for these runs; the
  refusal of an observation whose identity or conversation is not that of its run
  (`EJ/externalToolObservationStore.ts:431`), which writes nothing, and no property
  depends on it.
- *Of storage*: `schedulePendingStorageFlush` (a drain called later), the drain of
  all keys, and the `beforeCommit` side write.
- *Of the scheduler*: creation and deletion of jobs, schedules and due times (a job
  that is not running may be due at any time), wakes, reminders and traces; the
  order of reports and the cap on them; warnings about their delivery; slots
  and the recovery barrier; the transcript, whose checkpoints are writes of
  another store, so that a failed one is one of the errors an execution throws;
  concurrent marks. A parallel batch (`src/engine/toolExecution/toolExecutionBatch.ts:54`)
  can mark one attempt for several calls at once
  (`src/engine/toolExecution/toolCallLifecycle.ts:125`), and a mark that fails puts
  back the risk it read (`src/services/scheduler/jobExecutorPersistence.ts:71`),
  which is stale when another call's mark was saved meanwhile. `MarkUnsafe` takes
  one mark at a time, because a batch is parallel only if every tool in it is declared
  without side effects (`src/engine/graph/toolBatchExecutionPolicy.ts:27`): a risk put back too
  early hides no effect. The guarantees about effects hold as far as those
  declarations are true.
- *Of the foreground turns*: other conversations; owners that are scheduled jobs,
  and the intents and the operation lock that keep the scheduler away; the outcome
  of tools in a reply (a reply with a tool that did not end is not "final" in the
  model); the deletion of closed foreground runs from the journal; agent runs
  and the memory of turns; messages deleted under an owner, which the chat store
  protects, so that `RecoverUnowned` has the permanent blocks of the recovery only
  where the owner is gone, and not its branches for an owned row whose request or
  reply is missing (`EJ/foregroundModelExecutionRecovery.ts:129`); messages the
  user deletes or rewinds after a turn is over, of which `SucceededIsDurable` says
  nothing; a stop that waits for the external recoveries of its run. A write of
  the chat store that is under way when memory moves on is an earlier `Checkpoint`.
- *Time*: a clock that goes back between the deletion of a run and its next
  insertion is not modelled.
- *Components*: pure computation (context budget), protocol clients and I/O
  (remote, MCP, LLM, SSH, Python, voice), rendering and tooling, and the native
  adapters; memory capture has a TLA+ model in `docs/formal`.

## 7. Plan

Done, in this order: dispatch and its contract; the barrier; proofs of both;
file generations and their register; throttled storage; their proofs; external
reconciliation, its abstract operation and its proofs; scheduled attempts, their
abstract occurrences and their proofs; foreground turns and their proofs.

Next, by importance:

1. **`ScheduledAttempts`, further**: creation and deletion of a job while an attempt
   runs.
2. **`SchedulerOperationLock`**. Slots, lock and recovery barrier: no execution
   overlaps a recovery, every waiter is released.
3. **`ForegroundTurns`, further**: an abstract specification of a turn (a reply that
   is final, marked, or gone with its conversation) and the refinement; scheduled
   owners beside foreground ones; the cancellation loop of external recoveries with
   its bounded number of generation races.
4. **Barrier and observations together**: runs of external observations carry the
   execution run of their conversation turn and count in its barrier.
5. **`RecoveryPlanner`** as an operator over bounded snapshots: total, and equal to
   a reference table of commands; `RecordsAgree` implies that it accepts.
6. **Sub-agents**: launch, restart recovery and finalization.
