--------------------------- MODULE EffectDispatch ---------------------------
(***************************************************************************)
(* The durable dispatch of one tool effect: dispatchEffectExactlyOnce      *)
(* (effectDispatchCoordinator.ts) over the ports of                        *)
(* toolEffectDispatchStore.ts, as dispatchAuthorizedToolEffect calls them, *)
(* with the parking and the later outcome of a mobile-controller action,   *)
(* recovery cancellation, retention and process death.                     *)
(*                                                                         *)
(* Every SQLite transaction of the code is synchronous, so it is one       *)
(* action; calls interleave at the awaits between transactions. An effect  *)
(* identity is a digest of the call, so two calls for the same tool call   *)
(* share one effect e, and its journal (one run with one effect, attempt   *)
(* 1, control epoch 0) is the six journal variables at e.                  *)
(*                                                                         *)
(* Abstractions: a receipt is the disposition classifyEffectDispatchReceipt*)
(* gives it. Time is a counter per effect that advances, or stays within   *)
(* the same millisecond, at each journal write: the code takes the maximum *)
(* of the clock and the row's own times. It never goes back between the    *)
(* deletion of a run and its next insertion. A run that does not exist is  *)
(* "absent". Authority callbacks, the clock, digests and the database may  *)
(* fail whenever they are consulted.                                       *)
(***************************************************************************)
EXTENDS Naturals

CONSTANTS
  Effects,         \* identities of tool effects
  MobileEffects,   \* those a mobile controller executes: they may be deferred
  Calls,           \* concurrent calls of dispatchAuthorizedToolEffect
  MaxPrunes,       \* bound: how often retention forgets one effect
  NoEffect,        \* the effect of a call that is not under way
  NoReceipt        \* no receipt row

VARIABLES
  \* The journal: survives the process.
  effect,      \* effect[e]: execution_effects.status
  run,         \* run[e]: execution_runs.status
  control,     \* control[e]: execution_recovery_controls.cancellation_state
  receipt,     \* receipt[e]: the stored receipt (outcome_digest is set with it)
  updatedAt,   \* updatedAt[e]: time of the last write of the run or the effect
  startedAt,   \* startedAt[e]: execution_effects.started_at (0: null)
  prunes,      \* prunes[e]: times retention deleted the run
  \* The calls: lost with the process.
  pc,          \* pc[c]: where the call waits
  target,      \* target[c]: the effect it dispatches
  stamp,       \* stamp[c]: updatedAt it read, then claimedAt of the claim it holds
  answer,      \* answer[c]: the receipt it is settling
  reply,       \* reply[c]: what the last call in slot c returned
  \* The outside world.
  executions   \* executions[e]: executor invocations since the run was inserted

journal == <<effect, run, control, receipt, updatedAt, startedAt, prunes>>
calls   == <<pc, target, stamp, answer, reply>>
vars    == <<journal, calls, executions>>

(***************************************************************************)
(* Values.                                                                 *)
(***************************************************************************)
Settled     == {"returned", "verified", "failed", "cancelled"}
Unresolved  == {"started", "applied", "ambiguous"}
EffectStatuses == {"absent", "planned"} \cup Unresolved \cup Settled

Terminal    == {"succeeded", "failed", "cancelled"}
RunStatuses == {"absent", "running", "waiting", "ambiguous"} \cup Terminal

ControlStates == {"absent", "active", "cancel_requested", "cancelled"}

Dispositions == {"verified", "returned_unverified", "applied_unverified",
                 "failed", "cancelled", "uncertain"}

ASSUME ConstantsAssumption ==
  /\ MobileEffects \subseteq Effects
  /\ MaxPrunes \in Nat
  /\ NoEffect \notin Effects
  /\ NoReceipt \notin Dispositions

\* The outcomes a mobile controller may report: qualifyMobileControllerOutcome
\* admits applied (verified or acknowledged), failed, cancelled and unknown.
MobileDispositions == {"verified", "returned_unverified", "failed", "cancelled", "uncertain"}

Places  == {"idle", "preparing", "planned", "claimed", "executing", "settling", "doubtful"}
Replies == {"none", "unavailable", "rejected", "executed", "deferred",
            "duplicate_suppressed", "reconciliation_required"}

\* nextEffectStatus of a classified receipt.
NextEffectStatus(disposition) ==
  CASE disposition = "verified"            -> "verified"
    [] disposition = "returned_unverified" -> "returned"
    [] disposition = "applied_unverified"  -> "applied"
    [] disposition = "failed"              -> "failed"
    [] disposition = "cancelled"           -> "cancelled"
    [] OTHER                               -> "ambiguous"

\* Mutant of RunTerminalStatusFor: an applied effect counts as a success.
AppliedSucceeds(status) ==
  CASE status \in {"returned", "verified", "applied"} -> "succeeded"
    [] status \in {"failed", "cancelled"}             -> status
    [] OTHER                                          -> "ambiguous"

\* The run's status once its effect settled through the dispatch store ...
RunTerminalStatusFor(status) ==
  CASE status \in {"returned", "verified"} -> "succeeded"
    [] status \in {"failed", "cancelled"}  -> status
    [] OTHER                               -> "ambiguous"

\* ... and through the mobile outcome store, which does not count "returned".
MobileRunStatusFor(status) ==
  CASE status = "verified"                -> "succeeded"
    [] status \in {"failed", "cancelled"} -> status
    [] OTHER                              -> "ambiguous"

Init ==
  /\ effect     = [e \in Effects |-> "absent"]
  /\ run        = [e \in Effects |-> "absent"]
  /\ control    = [e \in Effects |-> "absent"]
  /\ receipt    = [e \in Effects |-> NoReceipt]
  /\ updatedAt  = [e \in Effects |-> 0]
  /\ startedAt  = [e \in Effects |-> 0]
  /\ prunes     = [e \in Effects |-> 0]
  /\ pc         = [c \in Calls |-> "idle"]
  /\ target     = [c \in Calls |-> NoEffect]
  /\ stamp      = [c \in Calls |-> 0]
  /\ answer     = [c \in Calls |-> NoReceipt]
  /\ reply      = [c \in Calls |-> "none"]
  /\ executions = [e \in Effects |-> 0]

(***************************************************************************)
(* Control flow of a call.                                                 *)
(***************************************************************************)
Return(c, r) ==
  /\ pc'     = [pc EXCEPT ![c] = "idle"]
  /\ target' = [target EXCEPT ![c] = NoEffect]
  /\ stamp'  = [stamp EXCEPT ![c] = 0]
  /\ answer' = [answer EXCEPT ![c] = NoReceipt]
  /\ reply'  = [reply EXCEPT ![c] = r]

\* Go on to `place`, remembering the time t and the receipt r.
Proceed(c, place, t, r) ==
  /\ pc'     = [pc EXCEPT ![c] = place]
  /\ stamp'  = [stamp EXCEPT ![c] = t]
  /\ answer' = [answer EXCEPT ![c] = r]
  /\ UNCHANGED <<target, reply>>

Call(c, e) ==
  /\ pc[c] = "idle"
  /\ pc'     = [pc EXCEPT ![c] = "preparing"]
  /\ target' = [target EXCEPT ![c] = e]
  /\ reply'  = [reply EXCEPT ![c] = "none"]
  /\ UNCHANGED <<journal, stamp, answer, executions>>

\* Turned away before the journal is touched: no receipt identity, dispatch
\* identity, clock or database ("unavailable"), or an unresolved effect of the
\* same execution run ("reconciliation_required").
Refuse(c, r) ==
  /\ pc[c] = "preparing"
  /\ Return(c, r)
  /\ UNCHANGED <<journal, executions>>

(***************************************************************************)
(* Preparation: the journal of the effect is inserted or found.            *)
(***************************************************************************)
WriteAt(e, t) == updatedAt' = [updatedAt EXCEPT ![e] = t]

\* A write at the row's own time or later.
Write(e) == \E t \in {updatedAt[e], updatedAt[e] + 1} : WriteAt(e, t)

InsertPlannedJournal(e) ==
  /\ effect'  = [effect EXCEPT ![e] = "planned"]
  /\ run'     = [run EXCEPT ![e] = "running"]
  /\ control' = [control EXCEPT ![e] = "active"]
  /\ WriteAt(e, updatedAt[e] + 1)
  /\ UNCHANGED <<receipt, startedAt, prunes>>

PrepareToolEffectDispatchState(e) ==
  \/ effect[e] = "absent" /\ InsertPlannedJournal(e)
  \/ effect[e] # "absent" /\ UNCHANGED journal

\* readState finds the effect planned: planEffectDispatch lets it be claimed.
PrepareAndPlan(c) ==
  LET e == target[c] IN
  /\ pc[c] = "preparing"
  /\ effect[e] \in {"absent", "planned"}
  /\ PrepareToolEffectDispatchState(e)
  /\ Proceed(c, "planned", updatedAt'[e], NoReceipt)
  /\ UNCHANGED executions

\* classifyExistingClaim: a claim is on record. Without a receipt the call
\* gives up; a receipt is settled once more, which the store can only replay.
ClassifyExistingClaim(c) ==
  LET e == target[c] IN
  \/ receipt[e] = NoReceipt /\ Return(c, "reconciliation_required")
  \/ receipt[e] # NoReceipt /\ Proceed(c, "settling", startedAt[e], receipt[e])

\* readState finds the effect already claimed.
PrepareAndFindClaim(c) ==
  /\ pc[c] = "preparing"
  /\ effect[target[c]] \notin {"absent", "planned"}
  /\ ClassifyExistingClaim(c)
  /\ UNCHANGED <<journal, executions>>

\* The journal is prepared, and then the clock or readState fails.
PrepareThenUnavailable(c) ==
  /\ pc[c] = "preparing"
  /\ PrepareToolEffectDispatchState(target[c])
  /\ Return(c, "unavailable")
  /\ UNCHANGED executions

(***************************************************************************)
(* The atomic claim.                                                       *)
(***************************************************************************)
\* Mutant of IsUnclaimed: the guard forgets the status of the effect.
RunIsOpen(e) == run[e] = "running"

IsUnclaimed(e) == effect[e] = "planned" /\ run[e] = "running"

\* cancelUnclaimedDispatch: the effect passes through "started" inside the
\* transaction, so started_at is set although no claim was ever returned.
CancelUnclaimedDispatch(e) ==
  \/ /\ IsUnclaimed(e)
     /\ effect'    = [effect EXCEPT ![e] = "cancelled"]
     /\ run'       = [run EXCEPT ![e] = "cancelled"]
     /\ control'   = [control EXCEPT ![e] = "cancelled"]
     /\ Write(e)
     /\ startedAt' = [startedAt EXCEPT ![e] = updatedAt'[e]]
     /\ UNCHANGED <<receipt, prunes>>
  \/ ~IsUnclaimed(e) /\ UNCHANGED journal

\* Approval, permission or the execution signal is gone.
ClaimUnauthorized(c) ==
  /\ pc[c] = "planned"
  /\ effect[target[c]] # "absent"
  /\ CancelUnclaimedDispatch(target[c])
  /\ Return(c, "rejected")
  /\ UNCHANGED executions

\* Another call claimed the effect since it was read.
ClaimExisting(c) ==
  /\ pc[c] = "planned"
  /\ effect[target[c]] \notin {"absent", "planned"}
  /\ ClassifyExistingClaim(c)
  /\ UNCHANGED <<journal, executions>>

\* Mutant of CandidateMatchesSnapshot: the time of the read stands for the row.
SameTime(c) == updatedAt[target[c]] = stamp[c]

CandidateMatchesSnapshot(c) ==
  effect[target[c]] = "planned" /\ updatedAt[target[c]] = stamp[c]

\* The run was touched since it was read.
ClaimGenerationChanged(c) ==
  /\ pc[c] = "planned"
  /\ effect[target[c]] = "planned" /\ ~CandidateMatchesSnapshot(c)
  /\ Return(c, "rejected")
  /\ UNCHANGED <<journal, executions>>

\* The recovery control of the run is no longer active.
ClaimCancelled(c) ==
  LET e == target[c] IN
  /\ pc[c] = "planned"
  /\ CandidateMatchesSnapshot(c)
  /\ control[e] # "active"
  /\ CancelUnclaimedDispatch(e)
  /\ Return(c, "rejected")
  /\ UNCHANGED executions

ClaimAndStart(c) ==
  LET e == target[c] IN
  /\ pc[c] = "planned"
  /\ CandidateMatchesSnapshot(c)
  /\ control[e] = "active"
  /\ effect'    = [effect EXCEPT ![e] = "started"]
  /\ Write(e)
  /\ startedAt' = [startedAt EXCEPT ![e] = updatedAt'[e]]
  /\ Proceed(c, "claimed", updatedAt'[e], NoReceipt)
  /\ UNCHANGED <<run, control, receipt, prunes, executions>>

\* claimAndStart throws (the row is gone, the database fails) and rolls back.
ClaimFails(c) ==
  /\ pc[c] = "planned"
  /\ Return(c, "reconciliation_required")
  /\ UNCHANGED <<journal, executions>>

(***************************************************************************)
(* The executor.                                                           *)
(***************************************************************************)
Execute(c) ==
  /\ pc[c] = "claimed"
  /\ executions' = [executions EXCEPT ![target[c]] = @ + 1]
  /\ Proceed(c, "executing", stamp[c], NoReceipt)
  /\ UNCHANGED journal

\* The executor returns or throws, and a receipt of its outcome is built.
ExecutorReports(c, disposition) ==
  /\ pc[c] = "executing"
  /\ Proceed(c, "settling", stamp[c], disposition)
  /\ UNCHANGED <<journal, executions>>

\* No receipt can be built, or a deferred action cannot be parked.
CallbackThrows(c) ==
  /\ pc[c] = "executing"
  /\ Proceed(c, "doubtful", stamp[c], NoReceipt)
  /\ UNCHANGED <<journal, executions>>

\* persistClaimedMobileControllerHandoff: the claimed effect is parked.
Defer(c) ==
  LET e == target[c] IN
  /\ pc[c] = "executing" /\ e \in MobileEffects
  /\ effect[e] = "started" /\ startedAt[e] = stamp[c] /\ receipt[e] = NoReceipt
  /\ run[e] = "running" /\ control[e] = "active"
  /\ run' = [run EXCEPT ![e] = "waiting"]
  /\ Write(e)
  /\ Return(c, "deferred")
  /\ UNCHANGED <<effect, control, receipt, startedAt, prunes, executions>>

(***************************************************************************)
(* Settlement.                                                             *)
(***************************************************************************)
\* The receipt row, the effect and the run are written in one transaction;
\* closing the run as cancelled closes its recovery control too.
RecordSettlement(e, disposition, runStatus) ==
  /\ receipt' = [receipt EXCEPT ![e] = disposition]
  /\ effect'  = [effect EXCEPT ![e] = NextEffectStatus(disposition)]
  /\ run'     = [run EXCEPT ![e] = runStatus]
  /\ control' = IF runStatus = "cancelled" THEN [control EXCEPT ![e] = "cancelled"] ELSE control
  /\ Write(e)
  /\ UNCHANGED <<startedAt, prunes>>

Settle(c) ==
  LET e == target[c] IN
  /\ pc[c] = "settling"
  /\ startedAt[e] = stamp[c] /\ effect[e] = "started" /\ receipt[e] = NoReceipt
  /\ RecordSettlement(e, answer[c], RunTerminalStatusFor(NextEffectStatus(answer[c])))
  /\ Return(c, "executed")
  /\ UNCHANGED executions

SettleReplayed(c) ==
  LET e == target[c] IN
  /\ pc[c] = "settling"
  /\ startedAt[e] = stamp[c] /\ effect[e] # "started" /\ receipt[e] = answer[c]
  /\ Return(c, "duplicate_suppressed")
  /\ UNCHANGED <<journal, executions>>

\* The receipt is invalid, the clock fails, or settle rejects it or throws:
\* always possible, and certain when the claim is stale or the receipt differs.
SettlementFails(c) ==
  /\ pc[c] = "settling"
  /\ Proceed(c, "doubtful", stamp[c], NoReceipt)
  /\ UNCHANGED <<journal, executions>>

\* Mutant of HoldsClaim: the status of the effect is not looked at.
ClaimedThen(c) == startedAt[target[c]] = stamp[c]

\* markAmbiguous changes the journal only for the claim the call holds.
HoldsClaim(c) ==
  /\ startedAt[target[c]] = stamp[c]
  /\ effect[target[c]] \in {"started", "applied"}

MarkAmbiguous(c) ==
  LET e == target[c] IN
  /\ pc[c] = "doubtful"
  /\ HoldsClaim(c)
  /\ effect' = [effect EXCEPT ![e] = "ambiguous"]
  /\ run'    = [run EXCEPT ![e] = IF @ \in Terminal THEN @ ELSE "ambiguous"]
  /\ Write(e)
  /\ Return(c, "reconciliation_required")
  /\ UNCHANGED <<control, receipt, startedAt, prunes, executions>>

\* The claim is not the call's any more, or the write fails and is swallowed.
MarkNothing(c) ==
  /\ pc[c] = "doubtful"
  /\ Return(c, "reconciliation_required")
  /\ UNCHANGED <<journal, executions>>

(***************************************************************************)
(* The rest of the application.                                            *)
(***************************************************************************)
RequestCancellation(e) ==
  /\ run[e] \notin Terminal \cup {"absent"}
  /\ control[e] = "active"
  /\ control' = [control EXCEPT ![e] = "cancel_requested"]
  /\ WriteAt(e, updatedAt[e] + 1)
  /\ UNCHANGED <<effect, run, receipt, startedAt, prunes, calls, executions>>

\* The mobile host reports the outcome of a parked effect.
SettleMobileControllerOutcome(e, disposition) ==
  /\ run[e] = "waiting" /\ effect[e] = "started" /\ receipt[e] = NoReceipt
  /\ RecordSettlement(e, disposition, MobileRunStatusFor(NextEffectStatus(disposition)))
  /\ UNCHANGED <<calls, executions>>

\* Mutant of IsPrunable: a run left ambiguous is pruned with the terminal ones.
NoLongerActive(e) == run[e] \in Terminal \cup {"ambiguous"}

IsPrunable(e) == run[e] \in Terminal

\* Retention deletes a terminal run with everything it owns.
Prune(e) ==
  /\ IsPrunable(e)
  /\ prunes[e] < MaxPrunes
  /\ effect'     = [effect EXCEPT ![e] = "absent"]
  /\ run'        = [run EXCEPT ![e] = "absent"]
  /\ control'    = [control EXCEPT ![e] = "absent"]
  /\ receipt'    = [receipt EXCEPT ![e] = NoReceipt]
  /\ startedAt'  = [startedAt EXCEPT ![e] = 0]
  /\ prunes'     = [prunes EXCEPT ![e] = @ + 1]
  /\ executions' = [executions EXCEPT ![e] = 0]
  /\ UNCHANGED <<updatedAt, calls>>

\* The process dies: every call is lost, the journal stays.
Crash ==
  /\ pc'     = [c \in Calls |-> "idle"]
  /\ target' = [c \in Calls |-> NoEffect]
  /\ stamp'  = [c \in Calls |-> 0]
  /\ answer' = [c \in Calls |-> NoReceipt]
  /\ reply'  = [c \in Calls |-> "none"]
  /\ UNCHANGED <<journal, executions>>

(***************************************************************************)
(* The specification.                                                      *)
(***************************************************************************)
CallPrepares(c) ==
  \/ Refuse(c, "unavailable")
  \/ PrepareAndPlan(c) \/ PrepareAndFindClaim(c) \/ PrepareThenUnavailable(c)

CallClaims(c) ==
  \/ ClaimUnauthorized(c) \/ ClaimExisting(c) \/ ClaimGenerationChanged(c)
  \/ ClaimCancelled(c) \/ ClaimAndStart(c) \/ ClaimFails(c)

CallExecutes(c) ==
  \/ Execute(c) \/ CallbackThrows(c) \/ Defer(c)
  \/ \E d \in Dispositions : ExecutorReports(c, d)

CallSettles(c) ==
  Settle(c) \/ SettleReplayed(c) \/ SettlementFails(c) \/ MarkAmbiguous(c) \/ MarkNothing(c)

\* One step of dispatchAuthorizedToolEffectWithinBarrier.
DispatchStep(c) == CallPrepares(c) \/ CallClaims(c) \/ CallExecutes(c) \/ CallSettles(c)

\* One step of a call that is under way, which the barrier may turn away.
CallStep(c) == Refuse(c, "reconciliation_required") \/ DispatchStep(c)

Environment ==
  \E e \in Effects :
    \/ RequestCancellation(e)
    \/ \E d \in MobileDispositions : SettleMobileControllerOutcome(e, d)
    \/ Prune(e)

Next ==
  \/ \E c \in Calls : CallStep(c) \/ \E e \in Effects : Call(c, e)
  \/ Environment
  \/ Crash

Spec == Init /\ [][Next]_vars

(***************************************************************************)
(* What a restarted process reads about an effect (classifyRow).           *)
(***************************************************************************)
\* Mutant of RestartDisposition: a row without an outcome counts as not run.
OutcomeDecides(e) ==
  IF receipt[e] = NoReceipt THEN "not_dispatched" ELSE "terminal_without_verified_effect"

RestartDisposition(e) ==
  CASE effect[e] \in {"absent", "planned"} -> "not_dispatched"
    [] effect[e] = "verified" /\ run[e] = "succeeded" /\ receipt[e] # NoReceipt -> "verified"
    [] \/ effect[e] = "returned" /\ run[e] = "succeeded" /\ receipt[e] # NoReceipt
       \/ effect[e] \in {"failed", "cancelled"} /\ run[e] = effect[e] /\ receipt[e] # NoReceipt
         -> "terminal_without_verified_effect"
    [] OTHER -> "reconciliation_required"

(***************************************************************************)
(* Properties.                                                             *)
(***************************************************************************)
JournalTypeOK ==
  /\ effect     \in [Effects -> EffectStatuses]
  /\ run        \in [Effects -> RunStatuses]
  /\ control    \in [Effects -> ControlStates]
  /\ receipt    \in [Effects -> Dispositions \cup {NoReceipt}]
  /\ updatedAt  \in [Effects -> Nat]
  /\ startedAt  \in [Effects -> Nat]
  /\ prunes     \in [Effects -> 0..MaxPrunes]
  /\ executions \in [Effects -> Nat]

CallsTypeOK ==
  /\ pc     \in [Calls -> Places]
  /\ target \in [Calls -> Effects \cup {NoEffect}]
  /\ stamp  \in [Calls -> Nat]
  /\ answer \in [Calls -> Dispositions \cup {NoReceipt}]
  /\ reply  \in [Calls -> Replies]
  /\ \A c \in Calls : target[c] = NoEffect <=> pc[c] = "idle"

\* Every row and every call holds values the program can give it, and a call has
\* an effect to dispatch exactly while it is under way.
TypeOK == JournalTypeOK /\ CallsTypeOK

\* However calls for one tool call interleave, are retried or die with the
\* process, its executor runs at most once while its run is retained: the claim
\* (claimAndStart) is what dispatchEffectExactlyOnce is named for.
ExecutedAtMostOnce == \A e \in Effects : executions[e] <= 1

\* A call that may still run the executor or record its outcome.
HoldsOpenClaim(c) ==
  /\ pc[c] \in {"claimed", "executing", "settling", "doubtful"}
  /\ effect[target[c]] = "started"
  /\ startedAt[target[c]] = stamp[c]

\* No two calls hold the claim of one started effect, so an outcome is written
\* by the call that ran the executor: claims are told apart only by the
\* millisecond in started_at, which two claims could share.
OneClaimHolder ==
  \A c, d \in Calls :
    HoldsOpenClaim(c) /\ HoldsOpenClaim(d) /\ target[c] = target[d] => c = d

\* What a run says of its effect is true (runTerminalStatusFor and the statuses of
\* the rejection and of the ambiguity mark).  A closed run has the outcome of its
\* effect and hides none that needs reconciliation; an effect that is verified,
\* failed or cancelled has its run closed; and a run is ambiguous only for an effect
\* that was applied, is in doubt, or returned.  A returned effect does not decide
\* its run: the dispatch store closes it as succeeded, the mobile outcome store
\* leaves it ambiguous.
RunTellsEffect ==
  \A e \in Effects :
    /\ run[e] = "succeeded" => effect[e] \in {"returned", "verified"}
    /\ run[e] \in {"failed", "cancelled"} => effect[e] = run[e]
    /\ effect[e] \in {"verified", "failed", "cancelled"} => run[e] \in Terminal
    /\ effect[e] = "returned" => run[e] \in {"succeeded", "ambiguous"}
    /\ run[e] = "ambiguous" => effect[e] \in {"applied", "ambiguous", "returned"}
    /\ run[e] = "cancelled" => control[e] = "cancelled"

\* An effect closed as cancelled without a receipt was rejected before its claim
\* (cancelUnclaimedDispatch): its executor never ran and no call will run it.
WithdrawnNeverRan ==
  \A e \in Effects :
    effect[e] = "cancelled" /\ receipt[e] = NoReceipt =>
      /\ executions[e] = 0
      /\ \A c \in Calls : target[c] = e => pc[c] \notin {"claimed", "executing"}

\* At whatever point the process dies, a restart never takes an executed effect
\* for one that was not dispatched, and takes an effect for verified only when
\* it ran and a receipt says so.
RestartNeverForgetsAnExecution ==
  \A e \in Effects :
    /\ executions[e] > 0 => RestartDisposition(e) # "not_dispatched"
    /\ RestartDisposition(e) = "verified" => executions[e] = 1 /\ receipt[e] = "verified"

\* A settled effect keeps its status and its receipt until retention deletes it:
\* no late, duplicated or doubtful answer rewrites it.
SettledIsFinal ==
  [][\A e \in Effects :
       effect[e] \in Settled /\ effect'[e] # "absent" =>
         effect'[e] = effect[e] /\ receipt'[e] = receipt[e]]_vars

(***************************************************************************)
(* The inductive invariant behind the safety properties (EffectDispatch-   *)
(* Proofs proves it for every set of effects and calls).                   *)
(***************************************************************************)
\* How the rows of one effect agree with each other and with its executor.
RowsAgree(e) ==
  /\ effect[e] = "absent"  => run[e] = "absent"
  /\ effect[e] = "planned" => run[e] = "running"
  /\ effect[e] = "started" => run[e] \in {"running", "waiting"}
  /\ effect[e] \in {"applied", "ambiguous"} => run[e] = "ambiguous"
  /\ effect[e] = "returned" => run[e] \in {"succeeded", "ambiguous"}
  /\ effect[e] = "verified" => run[e] = "succeeded"
  /\ effect[e] \in {"failed", "cancelled"} => run[e] = effect[e]
  /\ run[e] = "cancelled" => control[e] = "cancelled"
  /\ effect[e] \in {"absent", "planned", "started"} => receipt[e] = NoReceipt
  /\ effect[e] \in {"applied", "returned", "verified", "failed"} => receipt[e] # NoReceipt
  /\ receipt[e] # NoReceipt => effect[e] \in {NextEffectStatus(receipt[e]), "ambiguous"}
  /\ executions[e] \in {0, 1}
  /\ effect[e] \in {"absent", "planned"} => executions[e] = 0
  /\ effect[e] = "cancelled" /\ receipt[e] = NoReceipt => executions[e] = 0
  /\ effect[e] = "ambiguous" \/ receipt[e] # NoReceipt \/ run[e] = "waiting" =>
       executions[e] = 1
  /\ startedAt[e] <= updatedAt[e]

JournalInv == \A e \in Effects : RowsAgree(e)

\* What a call knows: a claim it may still execute is intact, a claim it may still
\* settle was executed, and a claim it kept from a deleted run is older than
\* anything the next run of that identity can be given.
ClaimIntact(c) ==
  /\ pc[c] \in {"claimed", "executing"} => HoldsOpenClaim(c)
  /\ pc[c] = "claimed" => executions[target[c]] = 0
  /\ pc[c] = "executing" => executions[target[c]] = 1
  /\ pc[c] = "settling" => answer[c] # NoReceipt
  /\ HoldsOpenClaim(c) => run[target[c]] = "running"
  /\ pc[c] \in {"settling", "doubtful"} =>
       /\ HoldsOpenClaim(c) => executions[target[c]] = 1
       /\ stamp[c] <= updatedAt[target[c]]
       /\ effect[target[c]] = "planned" => stamp[c] < updatedAt[target[c]]

CallInv == \A c \in Calls : ClaimIntact(c)

\* However calls, cancellations, outcomes, retention and crashes interleave, rows,
\* claims and executions stay in step; the safety properties above follow.
Inv == TypeOK /\ JournalInv /\ CallInv /\ OneClaimHolder

(***************************************************************************)
(* The abstract contract, and how the journal implements it.               *)
(***************************************************************************)
PhaseOf(e) ==
  CASE effect[e] \in {"absent", "planned"}     -> "open"
    [] effect[e] = "started"                   -> "inFlight"
    [] effect[e] \in {"applied", "ambiguous"}  -> "unresolved"
    [] effect[e] = "cancelled" /\ receipt[e] = NoReceipt -> "withdrawn"
    [] OTHER                                   -> "settled"

Contract == INSTANCE EffectContract
              WITH phase <- [e \in Effects |-> PhaseOf(e)], ran <- executions

\* The journal and its calls implement the contract of EffectContract.
ImplementsContract == Contract!Spec

(***************************************************************************)
(* Statements of the source's comments that the code does not keep.        *)
(***************************************************************************)
\* "An ambiguous durable dispatch is the one restart outcome the reader must not
\* retry blindly ... Everything else is a plain interruption"
\* (toolEffectRestartProjection.ts): an effect reported as requiring
\* reconciliation is one that may have been dispatched.
ReconciliationMeansDispatched ==
  \A e \in Effects :
    RestartDisposition(e) = "reconciliation_required" =>
      effect[e] = "started" \/ executions[e] > 0

\* "Only an outcome nobody reported ... needs reconciling"
\* (effectDispatchReceiptClassification.ts): a returned effect needs no
\* reconciliation after a restart.
ReturnedNeedsNoReconciling ==
  \A e \in Effects : effect[e] = "returned" => RestartDisposition(e) # "reconciliation_required"
=============================================================================
