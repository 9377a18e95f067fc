-------------------------- MODULE ScheduledAttempts --------------------------
(* One scheduled job of src/services/scheduler: the engine that claims an      *)
(* attempt, executes it and settles it, the timer that recovers an attempt     *)
(* whose settlement could not be saved, the commands of the user, the terminal *)
(* report outbox, and the store under them.  The store moves in memory first:  *)
(* every set() queues a write of the whole state and only some callers wait    *)
(* for the write of their own.  Writes may fail, the process may die at any    *)
(* step, and it comes back with what reached the disk.                         *)
EXTENDS Naturals, Sequences

CONSTANTS
    MaxAttempts,   \* attempt ids that may be claimed
    MaxRetries,    \* maxRetriesForScheduledJob
    OneShot,       \* shouldDisableAfterRun: an 'at' or deleteAfterRun job
    SlashPrompt,   \* the prompt starts with '/': unsafe from the claim on
    MaxEvents      \* bound on failures, process deaths, commands and foreign writes

ASSUME AttemptsAssumption ==
    /\ {MaxAttempts, MaxRetries, MaxEvents} \subseteq Nat
    /\ {OneShot, SlashPrompt} \subseteq BOOLEAN

Attempts == 1 .. MaxAttempts
None == 0                       \* no attempt; attempt ids are drawn in order
AttemptOrNone == 0 .. MaxAttempts

(* ---------------------------- the persisted state ------------------------- *)

Risks == {"none", "safe", "unsafe"}
Statuses == {"success", "error", "retrying"}

\* CronJob, as far as the life of an attempt needs it.  retryOcc stands for
\* nextRetryAtMs together with retryOccurrenceId, done for runningCompletion.
Jobs == [enabled : BOOLEAN, rev : Nat, retries : Nat, retryOcc : AttemptOrNone,
         running : AttemptOrNone, runRev : Nat, number : Nat, risk : Risks,
         occ : AttemptOrNone, done : BOOLEAN]

\* The store: the job, and the outbox as the status of each attempt's report.
Stores == [job : Jobs, reports : [Attempts -> Statuses \cup {"none"}]]

\* Who waits for a write.
Clients == {"engine", "recovery", "command", "drain", "saver", "startup"}
Writes == [state : Stores, by : Clients \cup {"nobody"}]

VARIABLES
    mem,         \* the store in memory
    disk,        \* the store last written
    writes,      \* mutationTail: the queued writes, first first
    answer,      \* what the waiting client's own write came to
    lock,        \* withSchedulerOperationLock: its holder, or "free"
    engine,      \* executeJobExclusive
    timers,      \* recoveryTimers of scheduleAmbiguousSettlementRecovery
    recovery,    \* the recovery that such a timer started
    command,     \* the command in progress
    saver,       \* scheduleSchedulerStatePersistenceRecovery
    drain,       \* drainReports
    boot,        \* initializeSchedulerState
    unsaved,     \* it has reconciled attempts and not saved that yet
    nextId,      \* the next attempt id
    occOf,       \* history: the occurrence each attempt executes
    revOf,       \* history: the revision of the definition it was claimed for
    dispatched,  \* history: attempts that dispatched a tool effect
    proven,      \* history: attempts whose completion reached the disk
    delivered,   \* history: <<attempt, status>> reports traced and notified
    disableKept, \* history: the last acknowledged command disabled the job
    events       \* how many of the events that MaxEvents bounds have happened

storeVars == <<mem, disk, writes, answer>>
claimVars == <<nextId, occOf, revOf>>
historyVars == <<dispatched, proven, delivered>>
vars == <<storeVars, lock, engine, timers, recovery, command, saver, drain, boot,
          unsaved, claimVars, historyVars, disableKept, events>>

NewJob == [enabled |-> TRUE, rev |-> 1, retries |-> 0, retryOcc |-> None,
           running |-> None, runRev |-> 0, number |-> 0, risk |-> "none",
           occ |-> None, done |-> FALSE]
NewStore == [job |-> NewJob, reports |-> [a \in Attempts |-> "none"]]

\* executeJobExclusive: where it is, the attempt it executes, how it is about to
\* settle it, its claimSnapshot, its previousRisk, and whether the execution was
\* aborted because the app went to the background.
Plans == {"success", "final", "retry", "defer"}
Engines == [pc : {"idle", "claiming", "unclaimed", "releasing", "claimed", "fencing",
                  "ready", "running", "marking", "unmarking", "completing",
                  "settling", "saving"},
            of : AttemptOrNone, plan : Plans, snap : Jobs, prev : Risks,
            aborted : BOOLEAN]
NoEngine == [pc |-> "idle", of |-> None, plan |-> "final", snap |-> NewJob,
             prev |-> "none", aborted |-> FALSE]

Recoveries == [pc : {"idle", "releasing", "saving"}, of : AttemptOrNone, snap : Jobs]
NoRecovery == [pc |-> "idle", of |-> None, snap |-> NewJob]

\* The drain keeps the report it took up: its attempt and its status then.
Drains == [pc : {"idle", "delivered", "saving"}, of : AttemptOrNone,
           status : Statuses \cup {"none"}]
NoDrain == [pc |-> "idle", of |-> None, status |-> "none"]

Kinds == {"update", "enable", "disable"}
Commands == [pc : {"idle", "saving", "closing"}, kind : Kinds \cup {"none"}]
NoCommand == [pc |-> "idle", kind |-> "none"]

(* ------------------------------ the store model --------------------------- *)

ClearRunning(job) ==
    [job EXCEPT !.running = None, !.runRev = 0, !.number = 0, !.risk = "none",
                !.occ = None, !.done = FALSE]

ClearRetry(job) == [job EXCEPT !.retries = 0, !.retryOcc = None]

\* A one-shot job is disabled once it ran, unless its definition was replaced.
Ran(job) ==
    [job EXCEPT !.enabled = @ /\ ~(OneShot /\ job.rev = job.runRev)]

\* settleScheduledRunSuccess and completeStrandedAttempt.
Succeed(job) == ClearRunning(ClearRetry(Ran(job)))

\* settleScheduledRunFailure with final, and terminalizeStrandedAttempt.
Terminalize(job) == ClearRunning(ClearRetry(Ran(job)))

\* settleScheduledRunFailure without final, for an attempt that may be replayed.
RetryLater(job) ==
    IF job.risk = "unsafe" THEN Terminalize(job)
    ELSE IF job.rev # job.runRev THEN ClearRunning(ClearRetry(job))
    ELSE ClearRunning([job EXCEPT !.retries = job.number, !.retryOcc = job.occ])

CanRetrySafely(job) == job.enabled /\ job.runRev = job.rev

\* deferSafelyInterruptedAttempt: the attempt does not count as a retry.
Defer(job) ==
    ClearRunning(IF CanRetrySafely(job)
                 THEN [job EXCEPT !.retryOcc = job.occ]
                 ELSE ClearRetry(job))

\* appendTerminalReport: an attempt has at most one report.
Append1(reports, a, status) == [reports EXCEPT ![a] = status]

\* The settlement the engine stages, with its report, in one set().
Settled(s, a, how) ==
    CASE how = "success" -> [job |-> Succeed(s.job),
                             reports |-> Append1(s.reports, a, "success")]
      [] how = "final" -> [job |-> Terminalize(s.job),
                           reports |-> Append1(s.reports, a, "error")]
      [] how = "retry" -> [job |-> RetryLater(s.job),
                           reports |-> Append1(s.reports, a, "retrying")]
      [] how = "defer" -> [job |-> Defer(s.job),
                           reports |-> IF CanRetrySafely(s.job)
                                       THEN Append1(s.reports, a, "retrying")
                                       ELSE s.reports]

\* Mutant: a recorded completion is not looked at.
ReconciledByRisk(s) ==
    Settled(s, s.job.running, IF s.job.risk = "safe" THEN "defer" ELSE "final")

\* reconcileScheduledAttempt: what becomes of an attempt nobody executes any more.
Reconciled(s) ==
    Settled(s, s.job.running,
            IF s.job.done THEN "success"
            ELSE IF s.job.risk = "safe" THEN "defer" ELSE "final")

\* Mutant: the claim is taken back without a report.
ReleasedQuietly(s, a) == [job |-> ClearRunning(s.job), reports |-> s.reports]

\* releaseJobAttemptClaim: the claim that could not be saved is taken back.
Released(s, a) ==
    [job |-> ClearRunning(s.job), reports |-> Append1(s.reports, a, "retrying")]

\* restoreJobAttemptClaim: the settlement that could not be saved is taken back.
Restored(s, a, snapshot, completed) ==
    [job |-> IF s.job.running = None
             THEN [snapshot EXCEPT !.done = @ \/ completed]
             ELSE s.job,
     reports |-> Append1(s.reports, a, "none")]

WithRisk(s, risk) == [s EXCEPT !.job.risk = risk]

(* ------------------------------- persistence ------------------------------ *)

\* set() moves the memory and queues the write of the whole state.
Save(s, client) ==
    /\ mem' = s
    /\ writes' = Append(writes, [state |-> s, by |-> client])

Happens == events < MaxEvents /\ events' = events + 1

\* A client waits for its own write, and consumes what it came to.
Told(client, outcome) ==
    /\ answer[client] = outcome
    /\ answer' = [answer EXCEPT ![client] = "none"]

ToldAnything(client) == \E outcome \in {"ok", "failed"} : Told(client, outcome)

Take(client) == lock = "free" /\ lock' = client
Leave(client) == lock = client /\ lock' = "free"

\* persistAttemptMutation, up to the wait: nothing happens to a job that does not
\* run the attempt any more.
Mutate(client, a, s) ==
    /\ lock = "free"
    /\ IF mem.job.running = a THEN lock' = client /\ Save(s, client)
                              ELSE UNCHANGED <<lock, mem, writes>>

\* The first queued write ends.  One that fails may have reached the disk or not.
WriteEnds ==
    /\ writes # <<>>
    /\ LET write == Head(writes) IN
       \E ok \in BOOLEAN, applied \in BOOLEAN :
          /\ ok => applied
          /\ IF ok THEN UNCHANGED events ELSE Happens
          /\ disk' = IF applied THEN write.state ELSE disk
          /\ answer' = IF write.by = "nobody" THEN answer
                       ELSE [answer EXCEPT ![write.by] = IF ok THEN "ok" ELSE "failed"]
          /\ proven' = IF applied /\ write.state.job.done
                       THEN proven \cup {write.state.job.running} ELSE proven
    /\ writes' = Tail(writes)
    /\ UNCHANGED <<mem, lock, engine, timers, recovery, command, saver, drain, boot,
                   unsaved, claimVars, dispatched, delivered, disableKept>>

\* A set() that leaves this state as it is: another job's, a wake notification's,
\* the attempt's conversation pointer.
Touch ==
    /\ boot = "done"
    /\ Happens
    /\ Save(mem, "nobody")
    /\ UNCHANGED <<disk, answer, lock, engine, timers, recovery, command, saver, drain,
                   boot, unsaved, claimVars, historyVars, disableKept>>

(* ---------------------- the engine: claim, fence, execute ----------------- *)

At(place) == engine.pc = place
Go(place) == engine' = [engine EXCEPT !.pc = place]
Return == engine' = NoEngine

\* What the engine's steps leave alone.
EngineOnly ==
    UNCHANGED <<disk, recovery, command, drain, boot, unsaved, proven, delivered,
                disableKept>>

\* tryClaimJobAttempt under the operation lock.  The clock is left out: a job that
\* is not running may be due at any time, and if disabled, the user may force it.
Claim ==
    /\ boot = "done" /\ At("idle") /\ nextId \in Attempts
    /\ mem.job.running = None
    /\ Take("engine")
    /\ LET occ == IF mem.job.retryOcc = None THEN nextId ELSE mem.job.retryOcc IN
       /\ Save([mem EXCEPT !.job.running = nextId,
                           !.job.runRev = mem.job.rev,
                           !.job.number = mem.job.retries + 1,
                           !.job.risk = IF SlashPrompt THEN "unsafe" ELSE "safe",
                           !.job.occ = occ,
                           !.job.done = FALSE], "engine")
       /\ occOf' = [occOf EXCEPT ![nextId] = occ]
       /\ revOf' = [revOf EXCEPT ![nextId] = mem.job.rev]
    /\ engine' = [NoEngine EXCEPT !.pc = "claiming", !.of = nextId]
    /\ nextId' = nextId + 1
    /\ UNCHANGED <<answer, timers, saver, dispatched, events>>
    /\ EngineOnly

\* Mutant: the attempt is executed whether its claim was saved or not.
ClaimEndsAnyway ==
    /\ At("claiming") /\ Leave("engine") /\ ToldAnything("engine")
    /\ Go("claimed")
    /\ UNCHANGED <<mem, writes, timers, saver, claimVars, dispatched, events>>
    /\ EngineOnly

ClaimEnds ==
    /\ At("claiming") /\ Leave("engine")
    /\ \/ Told("engine", "ok") /\ Go("claimed")
       \/ Told("engine", "failed") /\ Go("unclaimed")
    /\ UNCHANGED <<mem, writes, timers, saver, claimVars, dispatched, events>>
    /\ EngineOnly

\* The claim could not be saved: releaseJobAttemptClaim.
Release ==
    /\ At("unclaimed")
    /\ Mutate("engine", engine.of, Released(mem, engine.of))
    /\ IF mem.job.running = engine.of THEN Go("releasing") ELSE Return
    /\ UNCHANGED <<answer, timers, saver, claimVars, dispatched, events>>
    /\ EngineOnly

\* Mutant: a release that was not saved is forgotten.
ReleaseForgotten ==
    /\ At("releasing") /\ Leave("engine") /\ ToldAnything("engine")
    /\ Return
    /\ UNCHANGED <<mem, writes, timers, saver, claimVars, dispatched, events>>
    /\ EngineOnly

\* Nothing is restored when the release fails: the latest state is saved later.
ReleaseEnds ==
    /\ At("releasing") /\ Leave("engine")
    /\ \/ Told("engine", "ok") /\ UNCHANGED saver
       \/ Told("engine", "failed") /\ saver' = IF saver = "off" THEN "armed" ELSE saver
    /\ Return
    /\ UNCHANGED <<mem, writes, timers, claimVars, dispatched, events>>
    /\ EngineOnly

\* fenceUnjournaledScheduledHooks: without such a hook, task_run runs nothing.
NoHooks ==
    /\ At("claimed")
    /\ Go("ready")
    /\ UNCHANGED <<mem, writes, answer, lock, timers, saver, claimVars, dispatched,
                   events>>
    /\ EngineOnly

FenceHooks ==
    /\ At("claimed")
    /\ Mutate("engine", engine.of, WithRisk(mem, "unsafe"))
    /\ IF mem.job.running = engine.of
       THEN engine' = [engine EXCEPT !.pc = "fencing", !.prev = mem.job.risk]
       ELSE Return
    /\ UNCHANGED <<answer, timers, saver, claimVars, dispatched, events>>
    /\ EngineOnly

\* Mutant: an attempt whose fence was not saved is left to nobody.
FenceEndsUnowned ==
    /\ At("fencing") /\ Leave("engine")
    /\ \/ /\ Told("engine", "ok")
          /\ engine' = [engine EXCEPT !.pc = "ready", !.prev = "none"]
          /\ UNCHANGED <<mem, writes>>
       \/ /\ Told("engine", "failed")
          /\ Save(WithRisk(mem, engine.prev), "nobody")
          /\ Return
    /\ UNCHANGED <<timers, saver, claimVars, dispatched, events>>
    /\ EngineOnly

\* The hooks run behind the saved fence.  Without it the previous risk is put back.
FenceEnds ==
    /\ At("fencing") /\ Leave("engine")
    /\ \/ /\ Told("engine", "ok")
          /\ engine' = [engine EXCEPT !.pc = "ready", !.prev = "none"]
          /\ UNCHANGED <<mem, writes, timers>>
       \/ /\ Told("engine", "failed")
          /\ Save(WithRisk(mem, engine.prev), "nobody")
          /\ timers' = timers \cup {engine.of}
          /\ Return
    /\ UNCHANGED <<saver, claimVars, dispatched, events>>
    /\ EngineOnly

\* The app goes to the background: abortAllScheduledJobExecutions.  An execution that
\* has not got so far notices it here too.
Background ==
    /\ engine.pc \in {"ready", "running", "marking", "unmarking"}
    /\ ~engine.aborted
    /\ engine' = [engine EXCEPT !.aborted = TRUE]
    /\ UNCHANGED <<mem, writes, answer, lock, timers, saver, claimVars, dispatched,
                   events>>
    /\ EngineOnly

\* The executor owns the conversation and starts the orchestrator.
Start ==
    /\ At("ready") /\ ~engine.aborted
    /\ Go("running")
    /\ UNCHANGED <<mem, writes, answer, lock, timers, saver, claimVars, dispatched,
                   events>>
    /\ EngineOnly

\* markScheduledAttemptEffectUnsafe, before a tool may have an effect.  It does
\* not take the operation lock; what it throws is an error of the tool call.  One
\* call marks at a time: only tools without side effects run in parallel.
MarkUnsafe ==
    /\ At("running") /\ ~engine.aborted
    /\ mem.job.running = engine.of
    /\ Save(WithRisk(mem, "unsafe"), "engine")
    /\ engine' = [engine EXCEPT !.pc = "marking", !.prev = mem.job.risk]
    /\ UNCHANGED <<answer, lock, timers, saver, claimVars, dispatched, events>>
    /\ EngineOnly

\* Mutant: the effect is dispatched although its mark could not be saved.
MarkEndsAnyway ==
    /\ At("marking")
    /\ dispatched' = IF engine.aborted THEN dispatched ELSE dispatched \cup {engine.of}
    /\ \/ /\ Told("engine", "ok")
          /\ engine' = [engine EXCEPT !.pc = "running", !.prev = "none"]
          /\ UNCHANGED <<mem, writes>>
       \/ /\ Told("engine", "failed")
          /\ Save(WithRisk(mem, engine.prev), "engine")
          /\ engine' = [engine EXCEPT !.pc = "unmarking", !.prev = "none"]
    /\ UNCHANGED <<lock, timers, saver, claimVars, events>>
    /\ EngineOnly

\* The effect is dispatched behind the saved mark, unless the execution was
\* aborted meanwhile.  Without the mark the previous risk is put back.
MarkEnds ==
    /\ At("marking")
    /\ \/ /\ Told("engine", "ok")
          /\ dispatched' = IF engine.aborted THEN dispatched
                           ELSE dispatched \cup {engine.of}
          /\ engine' = [engine EXCEPT !.pc = "running", !.prev = "none"]
          /\ UNCHANGED <<mem, writes>>
       \/ /\ Told("engine", "failed")
          /\ Save(WithRisk(mem, engine.prev), "engine")
          /\ engine' = [engine EXCEPT !.pc = "unmarking", !.prev = "none"]
          /\ UNCHANGED dispatched
    /\ UNCHANGED <<lock, timers, saver, claimVars, events>>
    /\ EngineOnly

UnmarkEnds ==
    /\ At("unmarking")
    /\ ToldAnything("engine")
    /\ Go("running")
    /\ UNCHANGED <<mem, writes, lock, timers, saver, claimVars, dispatched, events>>
    /\ EngineOnly

\* checkpointScheduledAttemptCompletion: the output is final, and recorded before
\* the attempt is settled.
Complete ==
    /\ At("running")
    /\ IF mem.job.running = engine.of
       THEN /\ Save([mem EXCEPT !.job.done = TRUE], "engine")
            /\ engine' = [engine EXCEPT !.pc = "completing", !.aborted = FALSE]
            /\ UNCHANGED timers
       ELSE /\ Return
            /\ timers' = timers \cup {engine.of}
            /\ UNCHANGED <<mem, writes>>
    /\ UNCHANGED <<answer, lock, saver, claimVars, dispatched, events>>
    /\ EngineOnly

(* ------------------------- the engine: settlement ------------------------- *)

\* The engine is about to settle its attempt, from what it reads now.
Conclude(how) ==
    engine' = [engine EXCEPT !.pc = "settling", !.plan = how, !.snap = mem.job,
                             !.aborted = FALSE]

\* The conversation is released after the completion: if that fails, or the
\* completion was not saved, the attempt is left to the recovery timer.
CompleteEnds ==
    /\ At("completing")
    /\ \/ /\ Told("engine", "ok")
          /\ Conclude("success")
          /\ UNCHANGED <<timers, events>>
       \/ /\ \/ Told("engine", "failed") /\ UNCHANGED events
             \/ Told("engine", "ok") /\ Happens
          /\ timers' = timers \cup {engine.of}
          /\ Return
    /\ UNCHANGED <<mem, writes, lock, saver, claimVars, dispatched>>
    /\ EngineOnly

\* How executeJobExclusive settles an attempt that threw.
PlanFor(job, error) ==
    IF error = "busy" \/ (error = "background" /\ job.risk = "safe") THEN "defer"
    ELSE IF /\ error = "transient"
            /\ job.risk # "unsafe"
            /\ job.rev = job.runRev /\ job.enabled
            /\ job.number <= MaxRetries
         THEN "retry"
         ELSE "final"

\* The execution throws.  The conversation may be busy only before the executor
\* started; background is the abort, unless a later error replaces it.
Throw ==
    /\ engine.pc \in {"ready", "running"}
    /\ \E error \in {"busy", "background", "transient", "final"} :
          /\ error = "busy" => At("ready") /\ ~engine.aborted
          /\ error = "background" => engine.aborted
          /\ Conclude(PlanFor(mem.job, error))
    /\ UNCHANGED <<mem, writes, answer, lock, timers, saver, claimVars, dispatched,
                   events>>
    /\ EngineOnly

\* recordRun, recordRunFailure or recordRunDeferral, under the operation lock.
Settle ==
    /\ At("settling")
    /\ Mutate("engine", engine.of, Settled(mem, engine.of, engine.plan))
    /\ IF mem.job.running = engine.of THEN Go("saving") ELSE Return
    /\ UNCHANGED <<answer, timers, saver, claimVars, dispatched, events>>
    /\ EngineOnly

\* A settlement that was not saved is taken back, from the snapshot read before
\* the lock was asked for, and left to the recovery timer.
SettleEnds ==
    /\ At("saving") /\ Leave("engine")
    /\ \/ /\ Told("engine", "ok")
          /\ UNCHANGED <<mem, writes, timers>>
       \/ /\ Told("engine", "failed")
          /\ Save(Restored(mem, engine.of, engine.snap, engine.plan = "success"), "nobody")
          /\ timers' = timers \cup {engine.of}
    /\ Return
    /\ UNCHANGED <<saver, claimVars, dispatched, events>>
    /\ EngineOnly

(* ------------------- the recovery of a settlement not saved --------------- *)

RecoveryOnly ==
    UNCHANGED <<disk, engine, command, saver, drain, boot, unsaved, claimVars, historyVars,
                disableKept>>

\* The timer reads the job, then waits for the conversation to be released.
RecoveryFires ==
    /\ recovery.pc = "idle"
    /\ \E a \in timers :
          /\ timers' = timers \ {a}
          /\ recovery' = IF mem.job.running = a
                         THEN [pc |-> "releasing", of |-> a, snap |-> mem.job]
                         ELSE recovery
    /\ UNCHANGED <<mem, writes, answer, lock, events>>
    /\ RecoveryOnly

\* releaseScheduledProjectionForJob fails: try again later.
RecoveryDelayed ==
    /\ recovery.pc = "releasing"
    /\ Happens
    /\ timers' = timers \cup {recovery.of}
    /\ recovery' = NoRecovery
    /\ UNCHANGED <<mem, writes, answer, lock>>
    /\ RecoveryOnly

Reconcile ==
    /\ recovery.pc = "releasing"
    /\ Mutate("recovery", recovery.of, Reconciled(mem))
    /\ recovery' = IF mem.job.running = recovery.of
                   THEN [recovery EXCEPT !.pc = "saving"] ELSE NoRecovery
    /\ UNCHANGED <<answer, timers, events>>
    /\ RecoveryOnly

ReconcileEnds ==
    /\ recovery.pc = "saving" /\ Leave("recovery")
    /\ \/ /\ Told("recovery", "ok")
          /\ UNCHANGED <<mem, writes, timers>>
       \/ /\ Told("recovery", "failed")
          /\ Save(Restored(mem, recovery.of, recovery.snap, FALSE), "nobody")
          /\ timers' = timers \cup {recovery.of}
    /\ recovery' = NoRecovery
    /\ UNCHANGED events
    /\ RecoveryOnly

(* ------------------------- commands and the saver ------------------------- *)

CommandOnly ==
    UNCHANGED <<disk, engine, timers, recovery, drain, boot, unsaved, claimVars, historyVars>>

Changed(job) == ClearRetry([job EXCEPT !.rev = @ + 1])

\* updateJob and setJobEnabled of the store.
Commanded(job, kind) ==
    CASE kind = "update" -> Changed(job)
      [] kind = "enable" -> IF job.enabled THEN job
                            ELSE [Changed(job) EXCEPT !.enabled = TRUE]
      [] kind = "disable" -> IF job.enabled THEN [Changed(job) EXCEPT !.enabled = FALSE]
                             ELSE job

\* updateScheduledJob and setScheduledJobEnabled, also while the job runs.
Command ==
    /\ boot = "done" /\ command.pc = "idle" /\ Happens
    /\ Take("command")
    /\ \E kind \in Kinds :
          /\ command' = [pc |-> "saving", kind |-> kind]
          /\ disableKept' = (disableKept /\ kind = "disable")
          /\ Save([mem EXCEPT !.job = Commanded(@, kind)], "command")
    /\ UNCHANGED <<answer, saver>>
    /\ CommandOnly

\* A command that was not saved fails closed: the job is disabled, in memory at
\* once and on disk as soon as a write succeeds.
CommandEnds ==
    /\ command.pc = "saving"
    /\ \/ /\ Told("command", "ok") /\ Leave("command")
          /\ disableKept' = (command.kind = "disable")
          /\ command' = NoCommand
          /\ UNCHANGED <<mem, writes>>
       \/ /\ Told("command", "failed")
          /\ Save([mem EXCEPT !.job = Commanded(@, "disable")], "command")
          /\ command' = [command EXCEPT !.pc = "closing"]
          /\ UNCHANGED <<lock, disableKept>>
    /\ UNCHANGED <<saver, events>>
    /\ CommandOnly

\* The second write of a disable acknowledges it.
FailClosedEnds ==
    /\ command.pc = "closing" /\ Leave("command")
    /\ \/ /\ Told("command", "ok")
          /\ disableKept' = (disableKept \/ command.kind = "disable")
          /\ UNCHANGED saver
       \/ /\ Told("command", "failed")
          /\ saver' = IF saver = "off" THEN "armed" ELSE saver
          /\ UNCHANGED disableKept
    /\ command' = NoCommand
    /\ UNCHANGED <<mem, writes, events>>
    /\ CommandOnly

\* scheduleSchedulerStatePersistenceRecovery: save the latest state again.
SaverFires ==
    /\ saver = "armed"
    /\ Take("saver")
    /\ Save(mem, "saver")
    /\ saver' = "saving"
    /\ UNCHANGED <<answer, command, disableKept, events>>
    /\ CommandOnly

SaverEnds ==
    /\ saver = "saving" /\ Leave("saver")
    /\ \/ Told("saver", "ok") /\ saver' = "off"
       \/ Told("saver", "failed") /\ saver' = "armed"
    /\ UNCHANGED <<mem, writes, command, disableKept, events>>
    /\ CommandOnly

(* --------------------------- the report outbox ---------------------------- *)

DrainOnly ==
    UNCHANGED <<disk, engine, timers, recovery, command, saver, boot, unsaved, claimVars,
                dispatched, proven, disableKept, events>>

\* processTerminalReport: trace and notify first.  A drain may run at any time: each
\* settlement of any job asks for one.
Deliver ==
    /\ boot = "done" /\ drain.pc = "idle"
    /\ \E a \in Attempts :
          /\ mem.reports[a] # "none"
          /\ drain' = [pc |-> "delivered", of |-> a, status |-> mem.reports[a]]
          /\ delivered' = delivered \cup {<<a, mem.reports[a]>>}
    /\ UNCHANGED <<mem, writes, answer, lock>>
    /\ DrainOnly

\* acknowledgeTerminalReport, by the id of the report.
Acknowledge ==
    /\ drain.pc = "delivered" /\ lock = "free"
    /\ IF mem.reports[drain.of] # "none"
       THEN /\ lock' = "drain"
            /\ Save([mem EXCEPT !.reports[drain.of] = "none"], "drain")
            /\ drain' = [drain EXCEPT !.pc = "saving"]
       ELSE /\ drain' = NoDrain
            /\ UNCHANGED <<lock, mem, writes>>
    /\ UNCHANGED <<answer, delivered>>
    /\ DrainOnly

\* The report that was read when the drain took it up is put back.
AcknowledgeEnds ==
    /\ drain.pc = "saving" /\ Leave("drain")
    /\ \/ /\ Told("drain", "ok")
          /\ UNCHANGED <<mem, writes>>
       \/ /\ Told("drain", "failed")
          /\ Save([mem EXCEPT !.reports[drain.of] = drain.status], "nobody")
    /\ drain' = NoDrain
    /\ UNCHANGED delivered
    /\ DrainOnly

(* ---------------------------- start and crash ----------------------------- *)

\* initializeSchedulerState: attempts of an earlier process are reconciled, and
\* nothing else may use the store before that is saved.
Boot ==
    /\ boot = "down"
    /\ IF mem.job.running # None
       THEN Save(Reconciled(mem), "startup") /\ unsaved' = TRUE
       ELSE /\ unsaved' = unsaved
            /\ IF unsaved THEN Save(mem, "startup") ELSE UNCHANGED <<mem, writes>>
    /\ boot' = IF unsaved' THEN "saving" ELSE "done"
    /\ UNCHANGED <<disk, answer, lock, engine, timers, recovery, command, saver, drain,
                   claimVars, historyVars, disableKept, events>>

BootEnds ==
    /\ boot = "saving"
    /\ \/ Told("startup", "ok") /\ boot' = "done" /\ unsaved' = FALSE
       \/ Told("startup", "failed") /\ boot' = "down" /\ unsaved' = TRUE
    /\ UNCHANGED <<mem, disk, writes, lock, engine, timers, recovery, command, saver,
                   drain, claimVars, historyVars, disableKept, events>>

\* The process dies, and another starts from what reached the disk.
Crash ==
    /\ Happens
    /\ mem' = disk
    /\ writes' = <<>> /\ answer' = [c \in Clients |-> "none"] /\ lock' = "free"
    /\ engine' = NoEngine /\ timers' = {} /\ recovery' = NoRecovery
    /\ command' = NoCommand /\ saver' = "off" /\ drain' = NoDrain
    /\ boot' = "down" /\ unsaved' = FALSE
    /\ UNCHANGED <<disk, claimVars, historyVars, disableKept>>

(* ------------------------------ specification ----------------------------- *)

Init ==
    /\ mem = NewStore /\ disk = NewStore /\ writes = <<>>
    /\ answer = [c \in Clients |-> "none"] /\ lock = "free"
    /\ engine = NoEngine /\ timers = {} /\ recovery = NoRecovery
    /\ command = NoCommand /\ saver = "off" /\ drain = NoDrain
    /\ boot = "down" /\ unsaved = FALSE
    /\ nextId = 1 /\ occOf = [a \in Attempts |-> None]
    /\ revOf = [a \in Attempts |-> 0]
    /\ dispatched = {} /\ proven = {} /\ delivered = {} /\ disableKept = FALSE
    /\ events = 0

EngineNext ==
    \/ ClaimEnds \/ Release \/ ReleaseEnds \/ NoHooks \/ FenceHooks \/ FenceEnds
    \/ Start \/ MarkEnds \/ UnmarkEnds \/ Complete \/ CompleteEnds
    \/ Throw \/ Settle \/ SettleEnds
RecoveryNext == RecoveryFires \/ RecoveryDelayed \/ Reconcile \/ ReconcileEnds
CommandNext == CommandEnds \/ FailClosedEnds
SaverNext == SaverFires \/ SaverEnds
DrainNext == Deliver \/ Acknowledge \/ AcknowledgeEnds
BootNext == Boot \/ BootEnds

Next ==
    \/ WriteEnds \/ Touch \/ Claim \/ Background \/ MarkUnsafe \/ Command \/ Crash
    \/ EngineNext \/ RecoveryNext \/ CommandNext \/ SaverNext \/ DrainNext \/ BootNext

Spec == Init /\ [][Next]_vars

\* Writes, timers and the lock come in the end, and an execution ends: it does not
\* call tools for ever.  Nothing is assumed of the user, of the background, or of
\* drains that have not started.
Fairness ==
    /\ WF_vars(WriteEnds)
    /\ WF_vars(EngineNext) /\ SF_vars(Complete \/ Throw)
    /\ WF_vars(RecoveryNext) /\ WF_vars(CommandNext) /\ WF_vars(SaverNext)
    /\ WF_vars(Acknowledge \/ AcknowledgeEnds) /\ WF_vars(BootNext)

FairSpec == Spec /\ Fairness

(* -------------------------------- properties ------------------------------ *)

TypeOK ==
    /\ mem \in Stores /\ disk \in Stores /\ writes \in Seq(Writes)
    /\ answer \in [Clients -> {"none", "ok", "failed"}]
    /\ lock \in Clients \cup {"free"}
    /\ engine \in Engines /\ timers \subseteq Attempts /\ recovery \in Recoveries
    /\ command \in Commands /\ saver \in {"off", "armed", "saving"} /\ drain \in Drains
    /\ boot \in {"down", "saving", "done"} /\ unsaved \in BOOLEAN
    /\ nextId \in 1 .. MaxAttempts + 1
    /\ occOf \in [Attempts -> AttemptOrNone] /\ revOf \in [Attempts -> Nat]
    /\ dispatched \subseteq Attempts /\ proven \subseteq AttemptOrNone
    /\ delivered \subseteq Attempts \X (Statuses \cup {"none"})
    /\ disableKept \in BOOLEAN /\ events \in Nat

\* No later attempt executes the occurrence of this one.
NotRetried(a) == \A b \in Attempts : occOf[b] = occOf[a] => b <= a

\* An occurrence whose attempt dispatched a tool effect is never executed again:
\* the mark is on disk before the effect and in every state that may replace it
\* there, whatever settlement fails, is restored, is recovered or dies half-way.
NoReplay == \A a \in dispatched : NotRetried(a)

\* What the memory, the disk and every queued write say of the job.
Everywhere(S) ==
    /\ mem.job \in S /\ disk.job \in S
    /\ \A i \in DOMAIN writes : writes[i].state.job \in S
RunningIs(a) == {job \in Jobs : job.running = a}

\* An attempt is executed behind a durable claim: the disk, and every queued write,
\* says that it runs, so a process that dies then leaves it to be reconciled.
Executing == {"claimed", "fencing", "ready", "running", "marking", "unmarking",
              "completing", "settling"}
DurableClaim == engine.pc \in Executing => Everywhere(RunningIs(engine.of))

\* While the scheduler works, a running attempt is in exactly one hand: the engine's,
\* a recovery timer's or a recovery's.  In none it would block its job, in two it
\* would be settled under an execution.
OneOwner ==
    LET a == mem.job.running IN
    boot = "done" /\ a # None =>
       /\ engine.of = a \/ recovery.of = a \/ a \in timers
       /\ engine.of = a => recovery.of # a /\ a \notin timers
       /\ recovery.of = a => a \notin timers

\* An attempt whose output was recorded on disk is a success for ever: it is neither
\* retried nor reported as anything else, although its settlement may fail and be
\* taken back, or another process may reconcile it.
ProvenIsSuccess ==
    \A a \in proven :
       /\ NotRetried(a)
       /\ mem.reports[a] \in {"none", "success"}
       /\ \A status \in Statuses : <<a, status>> \in delivered => status = "success"

\* An attempt that was once on disk does not vanish: it still runs there, has a
\* report there, or a report of it was delivered; only the deferral of a job that
\* the user edited or disabled goes without.
Accounted(s, a) ==
    \/ s.job.running = a \/ s.reports[a] # "none"
    \/ \E status \in Statuses : <<a, status>> \in delivered
NothingVanishes ==
    [][\A a \in Attempts :
          Accounted(disk, a) =>
             Accounted(disk, a)' \/ disk'.job.rev # revOf[a] \/ ~disk'.job.enabled]_vars

\* The scheduler implements its promise to the world outside: what is attempted again,
\* which attempt acts, what is recorded and what is told.
Occurrences == INSTANCE ScheduledOccurrences
                   WITH occurrence <- occOf, acted <- dispatched, recorded <- proven,
                        told <- delivered
ImplementsOccurrences == Occurrences!Spec

\* Every attempt is in the end off the disk for good (one that is never claimed is
\* never on it), so that its job may run again, whatever fails and dies on the way.
AttemptEnds == \A a \in Attempts : <>[](disk.job.running # a)

\* "keeps a job disabled", "acknowledges a disable only after a fresh snapshot
\* confirms it": after an acknowledged disable the job stays disabled.
DisableKept == disableKept => ~mem.job.enabled

(* ------------------------- the inductive invariant ------------------------ *)

\* The lock is held exactly where the code is inside withSchedulerOperationLock.
LockOK ==
    /\ lock = "engine" <=> engine.pc \in {"claiming", "releasing", "fencing", "saving"}
    /\ lock = "recovery" <=> recovery.pc = "saving"
    /\ lock = "command" <=> command.pc # "idle"
    /\ lock = "saver" <=> saver = "saving"
    /\ lock = "drain" <=> drain.pc = "saving"
    /\ lock # "startup"

\* Before the start is over nothing else uses the store.
BootOK ==
    /\ boot # "done" =>
          /\ engine = NoEngine /\ timers = {} /\ recovery = NoRecovery
          /\ lock = "free" /\ saver = "off" /\ drain.pc = "idle"
    /\ boot = "saving" => mem.job.running = None

\* OneOwner, with what the hands hold while the store says that nothing runs.
OwnerOK ==
    /\ engine.pc = "idle" <=> engine.of = None
    /\ engine.pc \notin {"idle", "releasing", "saving"} => mem.job.running = engine.of
    /\ engine.pc \in {"releasing", "saving"} => mem.job.running = None
    /\ engine.pc \in {"settling", "saving"} => engine.snap.running = engine.of
    /\ engine.pc # "idle" => recovery.pc = "idle" /\ timers = {}
    /\ recovery.pc = "idle" <=> recovery.of = None
    /\ recovery.pc = "releasing" => mem.job.running = recovery.of
    /\ recovery.pc = "saving" => mem.job.running = None
    /\ recovery.pc # "idle" => recovery.snap.running = recovery.of /\ timers = {}
    /\ timers \subseteq {mem.job.running}
    /\ boot = "done" /\ mem.job.running # None =>
          engine.pc # "idle" \/ recovery.pc # "idle" \/ mem.job.running \in timers

\* Attempt ids and occurrences are used in order.
IdsOK ==
    /\ \A a \in Attempts :
          /\ a < nextId => occOf[a] \in 1 .. a
          /\ a >= nextId => occOf[a] = None
    /\ engine.pc # "idle" => engine.of = nextId - 1
    /\ \A a \in dispatched : a < nextId

\* A state of the store that rules a replay out: an attempt that dispatched an effect
\* is running and marked, or its occurrence is neither running nor to be retried.
Closed(job) ==
    \A a \in dispatched :
       IF job.running = a THEN job.risk = "unsafe"
       ELSE occOf[a] \notin {job.retryOcc, job.occ}

\* What a stored state says of its own attempt.
Named(job) ==
    /\ job.retryOcc < nextId
    /\ job.running < nextId
    /\ job.running # None => job.occ = occOf[job.running]

Safe == {job \in Jobs : Closed(job) /\ Named(job)}

ClosedOK ==
    /\ Everywhere(Safe)
    /\ engine.pc \in {"settling", "saving"} => engine.snap \in Safe
    /\ recovery.pc # "idle" => recovery.snap \in Safe

\* Before it marks its attempt, and when it settles one to be executed again, the engine
\* has dispatched nothing, and the risk it would put back is the mark if it has.
EngineOK ==
    /\ \/ engine.pc \in {"claiming", "unclaimed", "releasing", "claimed", "fencing", "ready"}
       \/ engine.pc \in {"settling", "saving"} /\ engine.plan \in {"defer", "retry"}
       => engine.of \notin dispatched
    /\ engine.pc = "marking" /\ engine.of \in dispatched => engine.prev = "unsafe"

\* The engine waits for one write of its own.  States from that write on are in S, and
\* all of them are when it has succeeded.
OwnWrites == {i \in DOMAIN writes : writes[i].by = "engine"}
WaitsFor(S) ==
    /\ mem.job \in S
    /\ \A i \in OwnWrites, j \in DOMAIN writes : i <= j => writes[j].state.job \in S
    /\ answer["engine"] = "ok" => Everywhere(S)

Waiting == {"claiming", "releasing", "fencing", "marking", "unmarking", "completing",
            "saving"}
Marked == {job \in Jobs : job.risk = "unsafe"}

OwnWriteOK ==
    /\ \A i, j \in OwnWrites : i = j
    /\ answer["engine"] # "none" => OwnWrites = {}
    /\ engine.pc \notin Waiting => OwnWrites = {} /\ answer["engine"] = "none"
    /\ engine.pc = "claiming" => WaitsFor(RunningIs(engine.of))
    /\ engine.pc = "marking" => WaitsFor(Marked)

ReplayInv ==
    /\ TypeOK /\ LockOK /\ BootOK /\ OwnerOK /\ IdsOK /\ ClosedOK /\ EngineOK
    /\ OwnWriteOK /\ NoReplay /\ DurableClaim

(* ----------------- the inductive invariant: the outcomes ------------------ *)

\* The copies of the store in the order in which they were set: the disk, the queued
\* writes, the memory.
Stages == 0 .. Len(writes) + 1
Stage(i) == IF i = 0 THEN disk
            ELSE IF i \in DOMAIN writes THEN writes[i].state ELSE mem
Copies == {Stage(i) : i \in Stages}
Successions == {<<Stage(i[1]), Stage(i[2])>> :
                   i \in {j \in Stages \X Stages : j[1] <= j[2]}}

\* The jobs a settlement that is not saved is taken back to.
Held == {job \in {engine.snap} : engine.pc \in {"settling", "saving"}}
        \cup {job \in {recovery.snap} : recovery.pc # "idle"}

Reported(a) == \E status \in Statuses : <<a, status>> \in delivered

\* Attempts that are not claimed yet have left no trace.
FreshOK ==
    /\ \A s \in Copies, a \in Attempts : a >= nextId => s.reports[a] = "none"
    /\ \A a \in Attempts : Reported(a) => a < nextId
    /\ drain.of < nextId
    /\ drain.pc # "idle" => Reported(drain.of)

\* Until its output is recorded an attempt has no report, and the engine settles it as
\* a success exactly if its output was recorded.
Early == {"claiming", "unclaimed", "claimed", "fencing", "ready", "running", "marking",
          "unmarking"}
CompletionOK ==
    /\ engine.pc \in Early =>
          /\ ~mem.job.done /\ \A s \in Copies : s.reports[engine.of] = "none"
          /\ ~Reported(engine.of) /\ drain.of # engine.of
    /\ engine.pc = "completing" => mem.job.done
    /\ engine.pc = "settling" => mem.job.done = engine.snap.done
    /\ engine.pc \in {"settling", "saving"} =>
          (engine.snap.done <=> engine.plan = "success")
    /\ \A s \in Copies : s.job.done => s.job.running # None

\* A state that keeps the recorded output of an attempt: it runs and the record is
\* there, or its occurrence is neither running nor to be retried.
KeptIn(job, a) ==
    IF job.running = a THEN job.done ELSE occOf[a] \notin {job.retryOcc, job.occ}
Kept(s, a) == KeptIn(s.job, a) /\ s.reports[a] \in {"none", "success"}

\* The output of the attempt is recorded somewhere it may be read again.
RecordedBy(job, a) == job.done /\ job.running = a
Recorded(a) ==
    \/ a \in proven
    \/ \E job \in {s.job : s \in Copies} \cup Held : RecordedBy(job, a)

\* Whatever is recorded is kept from there on: in the memory, in what may be put back
\* into it, in the reports, and in every state queued behind the record.
RecordsOK ==
    /\ \A a \in Attempts : Recorded(a) =>
          /\ NotRetried(a) /\ Kept(mem, a)
          /\ \A job \in Held : KeptIn(job, a)
          /\ \A status \in Statuses : <<a, status>> \in delivered => status = "success"
          /\ drain.of = a => drain.status = "success"
    /\ proven \subseteq 1 .. nextId - 1
    /\ \A a \in proven, s \in Copies : Kept(s, a)
    /\ \A p \in Successions, a \in Attempts : RecordedBy(p[1].job, a) => Kept(p[2], a)
    /\ disk.job.done => disk.job.running \in proven

\* An attempt that dispatched an effect is nowhere reported as one that is retried.
RetriesOK ==
    \A a \in dispatched :
       /\ \A s \in Copies : s.reports[a] # "retrying"
       /\ <<a, "retrying">> \notin delivered
       /\ drain.of = a => drain.status # "retrying"

\* A copy tells of an attempt: it runs there or has a report there.
Tells(s, a) == s.job.running = a \/ s.reports[a] # "none"

\* What a copy owes to an attempt that an earlier one tells of.
Answers(s, a) ==
    /\ revOf[a] <= s.job.rev
    /\ Accounted(s, a) \/ s.job.rev # revOf[a] \/ ~s.job.enabled

\* The memory, and what may be put back into it, answer for every attempt that some
\* copy tells of, and so does each copy behind that one.
AnswersOK ==
    /\ \A job \in {s.job : s \in Copies} \cup Held :
          job.running # None => job.runRev = revOf[job.running]
    /\ \A a \in Attempts :
          \/ \E s \in Copies : Tells(s, a)
          \/ \E job \in Held : job.running = a
          \/ drain.of = a
          => /\ Answers(mem, a)
             /\ \A job \in Held : Answers([mem EXCEPT !.job = job], a)
    /\ \A p \in Successions, a \in Attempts : Tells(p[1], a) => Answers(p[2], a)

AttemptsInv ==
    ReplayInv /\ FreshOK /\ CompletionOK /\ RecordsOK /\ RetriesOK /\ AnswersOK
=============================================================================
