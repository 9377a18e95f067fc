------------------------ MODULE ExternalReconciliation ------------------------
(***************************************************************************)
(* One operation that runs at a remote provider, and the two ways its      *)
(* status reaches the execution journal: results of tool calls             *)
(* (externalToolObservationStore.ts) and recovery attempts that the        *)
(* platform wakes (productionRecovery.ts, recoveryCoordinator.ts,          *)
(* recoveryControlStore.ts, externalHandleReconciliationStore.ts).  An     *)
(* attempt plans on a snapshot, takes a leased fence for it, claims the    *)
(* fence, asks the provider, and records the answer; every one of these    *)
(* is a transaction of its own with other attempts, tool calls,            *)
(* cancellation and a crash in between.                                    *)
(*                                                                         *)
(* Simplifications.  A run has one effect, one handle and one monitor, as  *)
(* the only code that creates such runs makes them.  Every write moves     *)
(* run.updatedAt forward, so the snapshot digest, and with it the key of a *)
(* dispatch row, is the generation: a counter of writes.  Clocks are       *)
(* reduced to whether a lease has run out and whether the monitor is due.  *)
(* A fence is named by the attempt that holds it, for a reconciler has one *)
(* attempt at a time.  Execution authority and the control epoch never     *)
(* change for such a run, and are left out.  The native schedulers are     *)
(* left out: any candidate may be woken at any time.                       *)
(***************************************************************************)
EXTENDS Naturals

CONSTANTS
    RemoteStates,    \* what the operation may do at the provider
    Reconcilers,     \* recovery attempts that may run at once
    Observers,       \* tool calls that report the operation
    MaxGeneration,   \* bound: writes of the run
    MaxChecks,       \* bound: inspections that do not find the outcome
    MaxSlow,         \* bound: leases that run out under a live attempt
    MaxCrashes       \* bound: crashes of the application

ASSUME ReconciliationAssumption ==
    /\ RemoteStates \subseteq {"pending", "running", "needs_action",
                               "succeeded", "failed", "cancelled"}
    /\ "pending" \in RemoteStates
    /\ MaxGeneration \in Nat \ {0}
    /\ MaxChecks \in Nat
    /\ MaxSlow \in Nat
    /\ MaxCrashes \in Nat

Outcomes == {"succeeded", "failed", "cancelled"}
Unresolved == {"unknown", "pending", "running"}
HandleStatuses == Unresolved \cup Outcomes

\* transitions.ts: where a handle, and a run that is not closed, may move.
CanTransitionHandle(from, to) ==
    \/ from \in Unresolved /\ to \in Outcomes
    \/ from = "unknown" /\ to \in {"pending", "running"}
    \/ from = "pending" /\ to \in {"unknown", "running"}
    \/ from = "running" /\ to = "unknown"

CanTransitionRun(from, to) ==
    \/ from = "waiting" /\ to \in {"blocked"} \cup Outcomes
    \/ from = "blocked" /\ to \in {"failed", "cancelled"}

Open == {"acquired", "claimed"}
Settled == {"completed", "pending", "blocked"}

VARIABLES
    remote,        \* where the operation stands at the provider
    journal,       \* the rows of the run: run, control, handle, effect, monitor
    due,           \* the next legal check of the monitor has come
    dispatches,    \* generation -> the recovery dispatch of that snapshot
    reconciler,    \* attempt -> where it stands and what it has read
    observer,      \* tool call -> the status it carries, what became of it
    spent          \* how much of the bounds is used

vars == <<remote, journal, due, dispatches, reconciler, observer, spent>>

Generations == 0 .. MaxGeneration

Journals ==
    [status : {"absent", "waiting", "blocked"} \cup Outcomes,
     generation : Generations,
     cancellation : {"active", "cancel_requested", "cancelled"},
     attention : BOOLEAN,
     handle : {"none"} \cup HandleStatuses,
     effect : {"none", "started", "applied", "verified"},
     monitor : {"none", "armed", "acted", "blocked"},
     lastObserved : {"none"} \cup HandleStatuses,
     boundary : {"none", "waiting_external", "terminal"}]

Dispatches ==
    [state : {"none"} \cup Open \cup Settled,
     fence : Reconcilers \cup {"nobody"},
     cancellation : {"active", "cancel_requested", "cancelled"},
     expired : BOOLEAN]

Attempts ==
    [pc : {"idle", "scheduled", "planned", "authorized",
           "fenced", "claimed", "inspected", "deferred"},
     generation : Generations,
     cancellation : {"active", "cancel_requested", "cancelled"},
     expected : {"none"} \cup HandleStatuses,
     seen : {"none"} \cup HandleStatuses,
     disposition : {"none"} \cup Settled]

Observations ==
    [seen : {"none"} \cup HandleStatuses, refused : BOOLEAN]

NoRun ==
    [status |-> "absent", generation |-> 0, cancellation |-> "active",
     attention |-> FALSE, handle |-> "none", effect |-> "none",
     monitor |-> "none", lastObserved |-> "none", boundary |-> "none"]

NoDispatch ==
    [state |-> "none", fence |-> "nobody", cancellation |-> "active", expired |-> FALSE]

\* An attempt that has read nothing but the generation it works on.
AttemptAt(pc, generation) ==
    [pc |-> pc, generation |-> generation, cancellation |-> "active",
     expected |-> "none", seen |-> "none", disposition |-> "none"]

Idle == AttemptAt("idle", 0)

Init ==
    /\ remote = "pending"
    /\ journal = NoRun
    /\ due = FALSE
    /\ dispatches = [g \in Generations |-> NoDispatch]
    /\ reconciler = [r \in Reconcilers |-> Idle]
    /\ observer = [o \in Observers |-> [seen |-> "none", refused |-> FALSE]]
    /\ spent = [checks |-> 0, slow |-> 0, crashes |-> 0]

-----------------------------------------------------------------------------
(* The journal *)

Closed == journal.status \in Outcomes

\* The planner reconciles a valid snapshot as long as its handle is unresolved.
ReconcilePlanned ==
    /\ journal.status \in {"waiting", "blocked"}
    /\ journal.handle \in Unresolved

CanWrite == journal.generation < MaxGeneration

\* The rows a first observation inserts.
Created(s) ==
    LET closed == s \in Outcomes IN
    [status |-> IF closed THEN s ELSE "waiting",
     generation |-> 1,
     cancellation |-> IF s = "cancelled" THEN "cancelled" ELSE "active",
     attention |-> FALSE,
     handle |-> s,
     effect |-> IF closed THEN "verified" ELSE "started",
     monitor |-> IF closed THEN "acted" ELSE "armed",
     lastObserved |-> s,
     boundary |-> IF closed THEN "terminal" ELSE "waiting_external"]

\* The rows once the outcome is recorded.
ClosedWith(s) ==
    [journal EXCEPT
        !.status = s,
        !.generation = @ + 1,
        !.cancellation = IF s = "cancelled" THEN "cancelled" ELSE @,
        !.handle = s,
        !.effect = "verified",
        !.monitor = "acted",
        !.lastObserved = s,
        !.boundary = "terminal"]

\* Mutant: the monitor is not told.
AdvancedUnmonitored(s) ==
    [journal EXCEPT !.generation = @ + 1, !.handle = s]

\* A tool call reports that the operation still runs, with another status.
Advanced(s) ==
    [journal EXCEPT !.generation = @ + 1, !.handle = s, !.lastObserved = s]

\* An inspection that did not find the outcome; s is "none" when it saw nothing.
Checked(s, disposition) ==
    [journal EXCEPT
        !.generation = @ + 1,
        !.handle = IF s = "none" THEN @ ELSE s,
        !.effect = IF s # "none" /\ @ = "started" THEN "applied" ELSE @,
        !.monitor = IF disposition = "blocked" THEN "blocked" ELSE "armed",
        !.lastObserved = IF s = "none" THEN @ ELSE s]

-----------------------------------------------------------------------------
(* Tool calls: the status is read at the provider, and persisted later *)

\* Mutant: an operation that waits for its user is taken for a failed one.
ReportedAsFailed ==
    IF remote \in Outcomes THEN {remote}
    ELSE IF remote = "needs_action" THEN {"failed"}
    ELSE {remote, "unknown"}

\* What the result of a tool may say of the operation.
Reported ==
    IF remote \in Outcomes THEN {remote}
    ELSE IF remote = "needs_action" THEN Unresolved
    ELSE {remote, "unknown"}

Observe(o) ==
    /\ observer[o].seen = "none"
    /\ \E s \in Reported : observer' = [observer EXCEPT ![o] = [seen |-> s, refused |-> FALSE]]
    /\ UNCHANGED <<remote, journal, due, dispatches, reconciler, spent>>

ObservationIsNews(s) ==
    /\ s \notin {journal.handle, "unknown"}
    /\ CanTransitionHandle(journal.handle, s)

\* The observation throws, and its transaction is rolled back.
ObservationIsRefused(s) ==
    \/ journal.handle \in Outcomes /\ s \in Outcomes /\ s # journal.handle
    \/ /\ ObservationIsNews(s)
       /\ \/ journal.monitor # "armed"
          \/ s \in Outcomes /\ ~CanTransitionRun(journal.status, s)

ObservationResult(s) ==
    CASE journal.status = "absent" -> "created"
      [] journal.status # "absent" /\ ObservationIsRefused(s) -> "refused"
      [] journal.handle \in Outcomes /\ ~ObservationIsRefused(s) -> "already_terminal"
      [] journal.handle \in Unresolved /\ ~ObservationIsNews(s) -> "unchanged"
      [] OTHER -> "advanced"

PersistObservation(o) ==
    LET s == observer[o].seen
        result == ObservationResult(s)
    IN /\ s # "none"
       /\ result \in {"created", "advanced"} => CanWrite
       /\ journal' = CASE result = "created" -> Created(s)
                       [] result = "advanced" /\ s \in Outcomes -> ClosedWith(s)
                       [] result = "advanced" /\ s \notin Outcomes -> Advanced(s)
                       [] OTHER -> journal
       /\ due' = IF result \in {"created", "advanced"} THEN s \notin Outcomes ELSE due
       /\ observer' = [observer EXCEPT ![o] = [seen |-> "none", refused |-> result = "refused"]]
       /\ UNCHANGED <<remote, dispatches, reconciler, spent>>

-----------------------------------------------------------------------------
(* Recovery attempts *)

At(r, pc) == reconciler[r].pc = pc

IsCurrent(r) == journal.generation = reconciler[r].generation

\* The last write of the run was not a receipt that ends its recovery.
ReceiptAllows ==
    \A g \in Generations :
        journal.generation = g + 1 => dispatches[g].state \notin {"completed", "blocked"}

\* A candidate is handed to the platform, with the generation it was read at.
Schedule(r) ==
    /\ At(r, "idle")
    /\ journal.cancellation = "active"
    /\ ~journal.attention
    /\ ReconcilePlanned
    /\ ReceiptAllows
    /\ journal.monitor = "armed"
    /\ reconciler' = [reconciler EXCEPT ![r] = AttemptAt("scheduled", journal.generation)]
    /\ UNCHANGED <<remote, journal, due, dispatches, observer, spent>>

Defer(r) ==
    reconciler' = [reconciler EXCEPT ![r] = AttemptAt("deferred", reconciler[r].generation)]

\* The platform wakes the attempt, which queries the exact generation and then reads
\* the schedule of the monitor.  (One step: the claim makes both tests again.)
Query(r) ==
    /\ At(r, "scheduled")
    /\ IF IsCurrent(r) /\ ReconcilePlanned /\ journal.monitor = "armed" /\ due
       THEN reconciler' = [reconciler EXCEPT ![r].pc = "planned"]
       ELSE Defer(r)
    /\ UNCHANGED <<remote, journal, due, dispatches, observer, spent>>

\* The coordinator queries again, and reads the authority of the generation: with
\* reconciling, which settles what exists, a requested cancellation does not
\* interfere.  (One step: both want the same generation, the fence does again.)
Revalidate(r) ==
    /\ At(r, "planned")
    /\ IF IsCurrent(r) /\ ReconcilePlanned
       THEN reconciler' = [reconciler EXCEPT ![r].pc = "authorized",
                                             ![r].cancellation = journal.cancellation]
       ELSE Defer(r)
    /\ UNCHANGED <<remote, journal, due, dispatches, observer, spent>>

\* Mutants: leases are ignored; an attempt that died after its claim keeps its fence.
FenceIsFreeAlways(g) == dispatches[g].state \notin Settled

FenceIsFreeUnclaimed(g) ==
    \/ dispatches[g].state = "none"
    \/ dispatches[g].state = "acquired" /\ dispatches[g].expired

\* The snapshot has no dispatch yet, or one whose lease has run out.
FenceIsFree(g) ==
    \/ dispatches[g].state = "none"
    \/ dispatches[g].state \in Open /\ dispatches[g].expired

AcquireDispatchFence(r) ==
    LET me == reconciler[r]
        g == me.generation
        granted == /\ IsCurrent(r)
                   /\ journal.cancellation = me.cancellation
                   /\ FenceIsFree(g)
    IN /\ At(r, "authorized")
       /\ IF granted
          THEN reconciler' = [reconciler EXCEPT ![r] = AttemptAt("fenced", g)]
          ELSE Defer(r)
       /\ dispatches' =
              IF ~granted THEN dispatches
              ELSE [dispatches EXCEPT ![g] =
                       [state |-> "acquired", fence |-> r, expired |-> FALSE,
                        cancellation |-> IF dispatches[g].state = "none"
                                         THEN me.cancellation
                                         ELSE dispatches[g].cancellation]]
       /\ UNCHANGED <<remote, journal, due, observer, spent>>

ClaimIsLegal(r) ==
    LET row == dispatches[reconciler[r].generation] IN
    /\ row.state = "acquired"
    /\ row.fence = r
    /\ ~row.expired
    /\ IsCurrent(r)
    /\ journal.cancellation = row.cancellation
    /\ journal.monitor = "armed"
    /\ journal.lastObserved = journal.handle
    /\ due

Claim(r) ==
    LET g == reconciler[r].generation IN
    /\ At(r, "fenced")
    /\ IF ClaimIsLegal(r)
       THEN /\ dispatches' = [dispatches EXCEPT ![g].state = "claimed"]
            /\ reconciler' = [reconciler EXCEPT ![r].pc = "claimed",
                                                ![r].expected = journal.handle]
       ELSE /\ Defer(r)
            /\ UNCHANGED dispatches
    /\ UNCHANGED <<remote, journal, due, observer, spent>>

Inspected(r, seen, disposition) ==
    reconciler' = [reconciler EXCEPT ![r].pc = "inspected",
                                     ![r].seen = seen,
                                     ![r].disposition = disposition]

\* The provider names the outcome.
InspectOutcome(r) ==
    /\ At(r, "claimed")
    /\ remote \in Outcomes
    /\ Inspected(r, remote, "completed")
    /\ UNCHANGED <<remote, journal, due, dispatches, observer, spent>>

\* The operation still runs or waits for its user, or the provider is of no help.
InspectUnresolved(r) ==
    /\ At(r, "claimed")
    /\ spent.checks < MaxChecks
    /\ \/ remote \in {"pending", "running"} /\ Inspected(r, remote, "pending")
       \/ remote = "needs_action" /\ Inspected(r, reconciler[r].expected, "blocked")
       \/ \E disposition \in {"pending", "blocked"} : Inspected(r, "none", disposition)
    /\ spent' = [spent EXCEPT !.checks = @ + 1]
    /\ UNCHANGED <<remote, journal, due, dispatches, observer>>

\* Mutant: the generation is not compared again.
CompletionOfAnyGeneration(r) ==
    LET me == reconciler[r]
        row == dispatches[me.generation]
    IN /\ row.state = "claimed"
       /\ row.fence = r
       /\ journal.cancellation = row.cancellation
       /\ journal.handle = me.expected
       /\ me.seen \in {"none", journal.handle} \/ CanTransitionHandle(journal.handle, me.seen)
       /\ journal.monitor = "armed"
       /\ me.disposition = "completed" => CanTransitionRun(journal.status, me.seen)

CompletionIsLegal(r) ==
    LET me == reconciler[r]
        row == dispatches[me.generation]
    IN /\ row.state = "claimed"
       /\ row.fence = r
       /\ IsCurrent(r)
       /\ journal.cancellation = row.cancellation
       /\ journal.handle = me.expected
       /\ me.seen \in {"none", journal.handle} \/ CanTransitionHandle(journal.handle, me.seen)
       /\ journal.monitor = "armed"
       /\ me.disposition = "completed" => CanTransitionRun(journal.status, me.seen)

Complete(r) ==
    LET me == reconciler[r] IN
    /\ At(r, "inspected")
    /\ CompletionIsLegal(r) => CanWrite
    /\ IF CompletionIsLegal(r)
       THEN /\ journal' = IF me.disposition = "completed"
                          THEN ClosedWith(me.seen)
                          ELSE Checked(me.seen, me.disposition)
            /\ dispatches' = [dispatches EXCEPT ![me.generation].state = me.disposition]
            /\ due' = FALSE
            /\ reconciler' = [reconciler EXCEPT ![r] = Idle]
       ELSE /\ Defer(r)
            /\ UNCHANGED <<journal, due, dispatches>>
    /\ UNCHANGED <<remote, observer, spent>>

\* The attempt ends without a receipt; the platform will schedule another.
Release(r) ==
    /\ At(r, "deferred")
    /\ reconciler' = [reconciler EXCEPT ![r] = Idle]
    /\ UNCHANGED <<remote, journal, due, dispatches, observer, spent>>

\* The platform cannot retry the generation, and asks for its user's attention.
RequireAttention(r) ==
    /\ At(r, "scheduled") \/ At(r, "deferred")
    /\ IsCurrent(r)
    /\ ReconcilePlanned
    /\ CanTransitionRun(journal.status, "blocked")
    /\ CanWrite
    /\ journal' = [journal EXCEPT !.status = "blocked", !.attention = TRUE, !.generation = @ + 1]
    /\ reconciler' = [reconciler EXCEPT ![r] = Idle]
    /\ UNCHANGED <<remote, due, dispatches, observer, spent>>

-----------------------------------------------------------------------------
(* The rest of the world *)

\* Mutant: a closed run is cancelled too.
RequestCancellationAnyway ==
    /\ journal.status # "absent"
    /\ journal.cancellation = "active"
    /\ CanWrite
    /\ journal' = [journal EXCEPT !.cancellation = "cancel_requested", !.generation = @ + 1]
    /\ UNCHANGED <<remote, due, dispatches, reconciler, observer, spent>>

RequestCancellation ==
    /\ journal.status \in {"waiting", "blocked"}
    /\ journal.cancellation = "active"
    /\ CanWrite
    /\ journal' = [journal EXCEPT !.cancellation = "cancel_requested", !.generation = @ + 1]
    /\ UNCHANGED <<remote, due, dispatches, reconciler, observer, spent>>

RemoteMoves ==
    /\ remote \notin Outcomes
    /\ remote' \in RemoteStates \ {remote}
    /\ UNCHANGED <<journal, due, dispatches, reconciler, observer, spent>>

MonitorFallsDue ==
    /\ journal.monitor = "armed"
    /\ ~due
    /\ due' = TRUE
    /\ UNCHANGED <<remote, journal, dispatches, reconciler, observer, spent>>

\* An attempt that still runs and has the fence of generation g in its hands.
IsHeld(g) ==
    \E r \in Reconcilers :
        /\ reconciler[r].generation = g
        /\ reconciler[r].pc \in {"fenced", "claimed", "inspected"}
        /\ dispatches[g].fence = r

\* Only the dispatch of the current generation is ever looked up again.
LeaseRunsOut ==
    \E g \in Generations :
        /\ g = journal.generation
        /\ dispatches[g].state \in Open
        /\ ~dispatches[g].expired
        /\ IsHeld(g) => spent.slow < MaxSlow
        /\ dispatches' = [dispatches EXCEPT ![g].expired = TRUE]
        /\ spent' = IF IsHeld(g) THEN [spent EXCEPT !.slow = @ + 1] ELSE spent
        /\ UNCHANGED <<remote, journal, due, reconciler, observer>>

\* The application dies: its attempts and tool calls are gone, the rows stay.
Crash ==
    /\ spent.crashes < MaxCrashes
    /\ reconciler' = [r \in Reconcilers |-> Idle]
    /\ observer' = [o \in Observers |-> [seen |-> "none", refused |-> FALSE]]
    /\ spent' = [spent EXCEPT !.crashes = @ + 1]
    /\ UNCHANGED <<remote, journal, due, dispatches>>

Attempt(r) ==
    \/ Query(r) \/ Revalidate(r) \/ AcquireDispatchFence(r) \/ Claim(r)
    \/ InspectOutcome(r) \/ InspectUnresolved(r) \/ Complete(r) \/ Release(r)

Next ==
    \/ \E o \in Observers : Observe(o) \/ PersistObservation(o)
    \/ \E r \in Reconcilers : Schedule(r) \/ Attempt(r) \/ RequireAttention(r)
    \/ RequestCancellation \/ RemoteMoves \/ MonitorFallsDue \/ LeaseRunsOut \/ Crash

Spec == Init /\ [][Next]_vars

\* The code runs every started attempt and every started observation to its end;
\* clocks advance; and the platform wakes a candidate again, for every start of
\* the application lists them (recoveryCandidates.ts).
Fairness ==
    /\ \A r \in Reconcilers : WF_vars(Schedule(r)) /\ WF_vars(Attempt(r))
    /\ \A o \in Observers : WF_vars(PersistObservation(o))
    /\ WF_vars(MonitorFallsDue)
    /\ WF_vars(LeaseRunsOut)

FairSpec == Spec /\ Fairness

-----------------------------------------------------------------------------
(* Properties *)

\* Every value is one the columns admit.
TypeOK ==
    /\ remote \in RemoteStates
    /\ journal \in Journals
    /\ due \in BOOLEAN
    /\ dispatches \in [Generations -> Dispatches]
    /\ reconciler \in [Reconcilers -> Attempts]
    /\ observer \in [Observers -> Observations]
    /\ spent \in [checks : 0 .. MaxChecks, slow : 0 .. MaxSlow, crashes : 0 .. MaxCrashes]

\* The five tables tell the same story after every transaction of every writer, so
\* that the planner, which refuses a snapshot whose tables disagree
\* (isSnapshotStructurallyValid), always accepts what the writers leave.
RecordsAgree ==
    /\ journal.lastObserved = journal.handle
    /\ (journal.status = "absent" \/ journal.generation = 0) => journal = NoRun
    /\ Closed => /\ journal.handle = journal.status
                 /\ journal.effect = "verified"
                 /\ journal.monitor = "acted"
                 /\ journal.boundary = "terminal"
    /\ journal.status \in {"waiting", "blocked"} =>
           /\ journal.handle \in Unresolved
           /\ journal.effect \in {"started", "applied"}
           /\ journal.monitor \in {"armed", "blocked"}
           /\ journal.boundary = "waiting_external"
    /\ journal.cancellation = "cancelled" <=> journal.status = "cancelled"
    /\ journal.status = "blocked" => journal.attention

\* An outcome that anybody carries or recorded is the outcome of the operation.
OutcomesAreTrue ==
    /\ journal.handle \in Outcomes => journal.handle = remote
    /\ \A o \in Observers : observer[o].seen \in Outcomes => observer[o].seen = remote
    /\ \A r \in Reconcilers : reconciler[r].seen \in Outcomes => reconciler[r].seen = remote

\* A dispatch is open only for a snapshot that was current, and the settlement of
\* a snapshot is always followed by a newer one.
DispatchesOK ==
    \A g \in Generations :
        /\ dispatches[g].state # "none" => g <= journal.generation /\ g > 0
        /\ dispatches[g].state \in Settled => g < journal.generation

\* What an attempt knows of the snapshot it works on.
AttemptsOK ==
    \A r \in Reconcilers :
        /\ reconciler[r].pc # "idle" =>
               /\ reconciler[r].generation > 0
               /\ reconciler[r].generation <= journal.generation
        /\ reconciler[r].pc \in {"claimed", "inspected"} =>
               /\ reconciler[r].expected \in Unresolved
               /\ IsCurrent(r) => reconciler[r].expected = journal.handle
        /\ reconciler[r].pc = "inspected" =>
               /\ reconciler[r].disposition # "none"
               /\ reconciler[r].disposition = "completed" <=> reconciler[r].seen \in Outcomes
               /\ reconciler[r].disposition = "blocked" => reconciler[r].seen \in
                      {"none", reconciler[r].expected}

\* As long as no lease ran out under a live attempt, an attempt past its fence still
\* has it.
FencesOK ==
    spent.slow = 0 =>
        \A r \in Reconcilers :
            reconciler[r].pc \in {"fenced", "claimed", "inspected"} =>
                LET row == dispatches[reconciler[r].generation] IN
                row.state # "none" /\ row.fence = r /\ ~row.expired

\* The inductive invariant.
ReconciliationInv ==
    TypeOK /\ RecordsAgree /\ OutcomesAreTrue /\ DispatchesOK /\ AttemptsOK /\ FencesOK

\* Two attempts ask the provider about the same snapshot at once only after a lease
\* ran out under a live attempt: the fence of acquireDispatchFence is exclusive,
\* whatever crashes and whoever is woken twice.
OneInspectorPerLease ==
    \A r1, r2 \in Reconcilers :
        /\ reconciler[r1].pc \in {"claimed", "inspected"}
        /\ reconciler[r2].pc \in {"claimed", "inspected"}
        /\ reconciler[r1].generation = reconciler[r2].generation
        /\ r1 # r2
        => spent.slow > 0

\* A snapshot is settled at most once, while it is the current one, in the step that
\* makes it past; so a slow attempt whose snapshot was overtaken by a tool call, a
\* cancellation or another attempt records nothing.
SettlesTheCurrentSnapshotOnce ==
    [][\A g \in Generations :
          /\ dispatches[g].state \in Settled => dispatches'[g] = dispatches[g]
          /\ dispatches'[g].state \in Settled /\ dispatches[g].state \notin Settled =>
                 /\ g = journal.generation
                 /\ journal'.generation = g + 1]_vars

\* Nothing touches the rows of a run that is closed: no late inspection, tool call,
\* cancellation or request for attention.
ClosedIsFinal == [][Closed => journal' = journal]_vars

\* The journal implements the register of an observed operation.
Operation == INSTANCE ObservedOperation
    WITH Nothing <- "none", operation <- remote, record <- journal.handle, settled <- Closed

ImplementsOperation == Operation!Spec

\* An outcome reaches the journal, unless the run was handed to its user: by
\* cancellation, by a request for attention, or by a monitor that is blocked.  In
\* particular no fence of a dead attempt keeps it out.
OutcomeIsRecorded ==
    (remote \in Outcomes /\ journal.status # "absent") ~>
        \/ Closed
        \/ journal.cancellation # "active"
        \/ journal.attention
        \/ journal.monitor = "blocked"

\* externalToolObservationStore.ts:543 says of persisting an observation that it
\* materializes or advances it: no observation is refused.
ObservationsAreNotRefused ==
    \A o \in Observers : ~observer[o].refused

=============================================================================
