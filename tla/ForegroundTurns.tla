--------------------------- MODULE ForegroundTurns ---------------------------
(***************************************************************************)
(* Foreground turns of one conversation over two stores: the chat store,   *)
(* kept in memory and written to disk as a whole, and the execution        *)
(* journal, whose transactions are durable at once. A turn reserves the    *)
(* conversation in the chat store, opens a run in the journal, generates,  *)
(* closes the run and releases the conversation (execution.ts). After a    *)
(* restart a recovery sweep closes what the dead process left open         *)
(* (startupRecovery.ts, foregroundModelExecutionRecovery.ts). A step is    *)
(* the code between two awaits; any write may fail, and the process may    *)
(* die at any point.                                                       *)
(***************************************************************************)
EXTENDS Integers

CONSTANTS
  Turns,       \* foreground requests; the id of a request names its run
  None,        \* no turn
  MaxFaults,   \* bound: writes and journal operations that fail
  MaxCrashes   \* bound: deaths of the process

ASSUME TurnsAssumption == None \notin Turns
ASSUME BoundsAssumption == MaxFaults \in Nat /\ MaxCrashes \in Nat

VARIABLES
  pc,          \* pc[t]: the await a turn is at
  aborted,     \* turns whose abort signal is set
  current,     \* the request the registry holds for the conversation
  verdict,     \* verdict[t]: the status a run is being closed with
  mine,        \* currentProcessModelRunIds
  chat,        \* the conversation in the chat store
  disk,        \* the conversation in the persisted chat store
  journal,     \* journal[t]: execution_runs.status
  sweep,       \* the await the recovery sweep is at
  todo,        \* pending runs the sweep has listed and not yet handled
  plan,        \* the run or owner the sweep is settling
  reconciled,  \* hasReconciledStartupExecutionOwnership
  ready,       \* hasCompletedInitialRecovery
  faults,      \* operations that failed
  crashes,     \* times the process died
  troubled     \* history: since the process started, an operation failed, or a
               \* turn lost its conversation while it was closing

turnVars  == <<pc, aborted, current, verdict, mine>>
sweepVars == <<sweep, todo, plan, reconciled, ready>>
faultVars == <<faults, troubled>>
vars      == <<turnVars, chat, disk, journal, sweepVars, faultVars, crashes>>

OpenStatuses   == {"queued", "running"}
ClosedStatuses == {"succeeded", "failed", "cancelled"}

\* The assistant message of a turn: a placeholder or an unfinished text, a
\* complete final reply, what a turn leaves that needs no final reply (it waits
\* for other work, or was a command), or a text marked as interrupted.
Replies == {"none", "open", "final", "parked", "incomplete"}
Answers == {"final", "parked"}

Gone == [exists |-> FALSE, owner |-> None, reply |-> [t \in Turns |-> "none"]]

Init ==
  /\ pc         = [t \in Turns |-> "new"]
  /\ aborted    = {}
  /\ current    = None
  /\ verdict    = [t \in Turns |-> "cancelled"]
  /\ mine       = {}
  /\ chat       = [Gone EXCEPT !.exists = TRUE]
  /\ disk       = chat
  /\ journal    = [t \in Turns |-> "none"]
  /\ sweep      = "opening"
  /\ todo       = {}
  /\ plan       = None
  /\ reconciled = FALSE
  /\ ready      = FALSE
  /\ faults     = 0
  /\ crashes    = 0
  /\ troubled   = FALSE

(***************************************************************************)
(* Building blocks.                                                        *)
(***************************************************************************)
IsCurrent(t) == current = t /\ t \notin aborted
Owns(t)      == chat.owner = t

Goto(t, label) == pc' = [pc EXCEPT ![t] = label]

\* clearForegroundRequestIfCurrent.
Clear(t) == current' = IF current = t THEN None ELSE current

\* A flush of the chat store that succeeds.
Land == disk' = chat

\* A write or a journal operation fails.
Fault ==
  /\ faults < MaxFaults
  /\ faults'   = faults + 1
  /\ troubled' = TRUE

\* A text that is no complete or settled final is marked as interrupted.
Marked(r) == IF r \in {"final", "incomplete"} THEN r ELSE "incomplete"

\* The turn returns, and takes its request off the registry.
Finish(t) == Goto(t, "done") /\ Clear(t)

\* The promise of the turn rejects; its request stays registered.
Throw(t) == Goto(t, "done") /\ UNCHANGED current

(***************************************************************************)
(* A turn, up to its reservation.                                          *)
(***************************************************************************)
\* A new request aborts the one before it.
Send(t) ==
  /\ pc[t] = "new"
  /\ Goto(t, "sent")
  /\ aborted' = aborted \cup ({current} \ {None})
  /\ current' = t
  /\ UNCHANGED <<verdict, mine, chat, disk, journal, sweepVars, faultVars, crashes>>

\* Mutant of AwaitReadiness: a turn waits for a sweep under way, and starts none.
AwaitSweepUnderWay(t) ==
  /\ pc[t] = "sent"
  /\ Goto(t, IF sweep = "idle" THEN "waiting" ELSE "joining")
  /\ UNCHANGED <<aborted, current, verdict, mine, chat, disk, journal, sweepVars, faultVars, crashes>>

\* waitForPersistedAgentRecoveryReadiness: join the sweep under way, or start
\* the initial one if it has not completed.
AwaitReadiness(t) ==
  /\ pc[t] = "sent"
  /\ Goto(t, IF sweep = "idle" /\ ready THEN "waiting" ELSE "joining")
  /\ sweep' = IF sweep = "idle" /\ ~ready THEN "opening" ELSE sweep
  /\ UNCHANGED <<aborted, current, verdict, mine, chat, disk, journal,
                 todo, plan, reconciled, ready, faultVars, crashes>>

\* waitForModelProjectionAvailability: the conversation has no owner.
PassWait(t) ==
  /\ pc[t] = "waiting"
  /\ chat.owner = None
  /\ Goto(t, "reserving")
  /\ UNCHANGED <<aborted, current, verdict, mine, chat, disk, journal, sweepVars, faultVars, crashes>>

\* Mutant of GiveUp: the wait has no limit.
GiveUpWhenAborted(t) ==
  /\ pc[t] = "waiting"
  /\ chat.owner # None /\ t \in aborted
  /\ Finish(t)
  /\ UNCHANGED <<aborted, verdict, mine, chat, disk, journal, sweepVars, faultVars, crashes>>

\* The wait is aborted, or takes 30 seconds.
GiveUp(t) ==
  /\ pc[t] = "waiting"
  /\ chat.owner # None
  /\ Finish(t)
  /\ UNCHANGED <<aborted, verdict, mine, chat, disk, journal, sweepVars, faultVars, crashes>>

\* claimModelProjection: the owner, and a placeholder for the reply.
Reserve(t) ==
  /\ pc[t] = "reserving"
  /\ IsCurrent(t)
  /\ chat.exists /\ chat.owner = None
  /\ chat' = [chat EXCEPT !.owner = t, !.reply[t] = "open"]
  /\ Goto(t, "reserved")
  /\ UNCHANGED <<aborted, current, verdict, mine, disk, journal, sweepVars, faultVars, crashes>>

\* The turn is not current any more, the conversation is gone or owned, or the
\* agent run to resume is not available.
Refuse(t) ==
  /\ pc[t] = "reserving"
  /\ Finish(t)
  /\ UNCHANGED <<aborted, verdict, mine, chat, disk, journal, sweepVars, faultVars, crashes>>

\* terminalizeAndReleaseForegroundProjectionReservation, up to its first flush.
Unwind(t) ==
  /\ Owns(t)
  /\ chat' = [chat EXCEPT !.reply[t] = Marked(@)]
  /\ Goto(t, "unwinding")

\* Mutant of PersistReservation: the claim is not flushed.
LeaveUnflushed(t) ==
  /\ pc[t] = "reserved"
  /\ Goto(t, "owning")
  /\ UNCHANGED <<aborted, current, verdict, mine, chat, disk, journal, sweepVars, faultVars, crashes>>

PersistReservation(t) ==
  /\ pc[t] = "reserved"
  /\ \/ Land /\ Goto(t, "owning") /\ UNCHANGED <<current, chat, faultVars>>
     \/ Fault /\ Unwind(t) /\ UNCHANGED <<current, disk>>
     \/ Fault /\ ~Owns(t) /\ Finish(t) /\ UNCHANGED <<chat, disk>>
  /\ UNCHANGED <<aborted, verdict, mine, journal, sweepVars, crashes>>

\* Provider preflight and bootstrap.
Prepare(t) ==
  /\ pc[t] = "owning"
  /\ IsCurrent(t)
  /\ Goto(t, "prepared")
  /\ UNCHANGED <<aborted, current, verdict, mine, chat, disk, journal, sweepVars, faultVars, crashes>>

\* The turn is superseded, no provider admits it or the bootstrap fails; or the
\* reservation is gone, which rejects the turn from closeReservationFailure, and
\* ends it quietly from the check that follows the flush.
Abandon(t) ==
  /\ pc[t] = "owning"
  /\ \/ Unwind(t) /\ UNCHANGED current
     \/ ~Owns(t) /\ Finish(t) /\ UNCHANGED chat
     \/ ~Owns(t) /\ Throw(t) /\ UNCHANGED chat
  /\ UNCHANGED <<aborted, verdict, mine, disk, journal, sweepVars, faultVars, crashes>>

PersistUnwinding(t) ==
  /\ pc[t] = "unwinding"
  /\ \/ Land /\ Goto(t, "unwound") /\ UNCHANGED <<current, faultVars>>
     \/ Fault /\ Throw(t) /\ UNCHANGED disk
  /\ UNCHANGED <<aborted, verdict, mine, chat, journal, sweepVars, crashes>>

ReleaseReservation(t) ==
  /\ pc[t] = "unwound"
  /\ \/ Owns(t) /\ chat' = [chat EXCEPT !.owner = None] /\ Goto(t, "unreserving")
     \/ ~Owns(t) /\ Throw(t) /\ UNCHANGED chat
  /\ UNCHANGED <<aborted, current, verdict, mine, disk, journal, sweepVars, faultVars, crashes>>

PersistRelease(t) ==
  /\ pc[t] = "unreserving"
  /\ \/ Land /\ Finish(t) /\ UNCHANGED faultVars
     \/ Fault /\ Throw(t) /\ UNCHANGED disk
  /\ UNCHANGED <<aborted, verdict, mine, chat, journal, sweepVars, crashes>>

(***************************************************************************)
(* A turn, from its run to its end.                                        *)
(***************************************************************************)
\* closeModelGeneration, after handleCatch or handleDone.
Close(t, v) == Goto(t, "closing") /\ verdict' = [verdict EXCEPT ![t] = v]

\* The reservation is gone: the run is closed as cancelled, without an owner.
CloseUnowned(t) ==
  /\ ~Owns(t)
  /\ Goto(t, "disowned")
  /\ Clear(t)

\* closeModelGeneration fails: it gives the run up, and keeps the reservation.
FailClose(t) ==
  /\ Throw(t)
  /\ mine' = mine \ {t}

\* createForegroundModelExecution.
CreateRun(t) ==
  /\ pc[t] = "prepared"
  /\ \/ /\ journal' = [journal EXCEPT ![t] = "queued"]
        /\ mine' = mine \cup {t}
        /\ Goto(t, "queued")
        /\ UNCHANGED <<current, chat, faultVars>>
     \/ Fault /\ Unwind(t) /\ Clear(t) /\ UNCHANGED <<mine, journal>>
     \/ Fault /\ ~Owns(t) /\ Finish(t) /\ UNCHANGED <<mine, chat, journal>>
  /\ UNCHANGED <<aborted, verdict, disk, sweepVars, crashes>>

\* The run exists: is the turn current, and does it own the conversation?
CheckRun(t) ==
  /\ pc[t] = "queued"
  /\ \/ IsCurrent(t) /\ Owns(t) /\ Goto(t, "activating") /\ UNCHANGED <<current, verdict>>
     \/ IsCurrent(t) /\ CloseUnowned(t) /\ UNCHANGED verdict
     \/ ~IsCurrent(t) /\ Close(t, "cancelled") /\ Clear(t)
  /\ UNCHANGED <<aborted, mine, chat, disk, journal, sweepVars, faultVars, crashes>>

\* activateForegroundModelExecution.
Activate(t) ==
  /\ pc[t] = "activating"
  /\ \/ /\ journal' = [journal EXCEPT ![t] = "running"]
        /\ Goto(t, "active")
        /\ UNCHANGED <<current, verdict, faultVars>>
     \/ Fault /\ Owns(t) /\ Close(t, "failed") /\ Clear(t) /\ UNCHANGED journal
     \/ Fault /\ CloseUnowned(t) /\ UNCHANGED <<verdict, journal>>
  /\ UNCHANGED <<aborted, mine, chat, disk, sweepVars, crashes>>

\* runOrchestrator is called, unless the turn was superseded meanwhile.
Start(t) ==
  /\ pc[t] = "active"
  /\ \/ IsCurrent(t) /\ Goto(t, "generating") /\ UNCHANGED <<current, verdict>>
     \/ ~IsCurrent(t) /\ Close(t, "cancelled") /\ Clear(t)
  /\ UNCHANGED <<aborted, mine, chat, disk, journal, sweepVars, faultVars, crashes>>

\* Callbacks reach the reply only while the turn owns the conversation.
Project(t, r) == chat' = IF Owns(t) THEN [chat EXCEPT !.reply[t] = r] ELSE chat

\* runOrchestrator ends: with an answer, with a failure, cancelled, perhaps after
\* its answer, or by an error when the conversation is no longer owned. handleDone
\* leaves an aborted request registered.
Generate(t) ==
  /\ pc[t] = "generating"
  /\ \/ t \notin aborted /\ Close(t, "succeeded") /\ Clear(t) /\ \E r \in Answers : Project(t, r)
     \/ /\ t \notin aborted /\ Close(t, "failed") /\ Clear(t)
        /\ \E r \in {"open", "final", "incomplete"} : Project(t, r)
     \/ /\ Close(t, "cancelled") /\ \E r \in {"open", "final"} : Project(t, r)
        /\ Clear(t) \/ (t \in aborted /\ UNCHANGED current)
     \/ CloseUnowned(t) /\ UNCHANGED <<verdict, chat>>
  /\ UNCHANGED <<aborted, mine, disk, journal, sweepVars, faultVars, crashes>>

\* Mutant of PersistReply: the journal is told before the reply is on disk.
JournalFirst(t) ==
  /\ pc[t] = "closing"
  /\ Goto(t, "persisted")
  /\ UNCHANGED <<aborted, current, verdict, mine, chat, disk, journal, sweepVars, faultVars, crashes>>

\* The reply is flushed before the journal hears of it. The turn has no reply
\* to close with, or the flush fails, or the conversation is not owned: give up.
PersistReply(t) ==
  /\ pc[t] = "closing"
  /\ \/ Owns(t) /\ Land /\ Goto(t, "persisted") /\ UNCHANGED <<current, mine, faultVars>>
     \/ Owns(t) /\ Fault /\ FailClose(t) /\ UNCHANGED disk
     \/ ~Owns(t) /\ FailClose(t) /\ troubled' = TRUE /\ UNCHANGED <<disk, faults>>
  /\ UNCHANGED <<aborted, verdict, chat, journal, sweepVars, crashes>>

\* The reservation is checked again after the flush.
CheckOwner(t) ==
  /\ pc[t] = "persisted"
  /\ \/ Owns(t) /\ Goto(t, "completing") /\ UNCHANGED <<current, mine, troubled>>
     \/ ~Owns(t) /\ FailClose(t) /\ troubled' = TRUE
  /\ UNCHANGED <<aborted, verdict, chat, disk, journal, sweepVars, faults, crashes>>

\* completeForegroundModelExecution.
Complete(t) ==
  /\ pc[t] = "completing"
  /\ \/ /\ journal' = [journal EXCEPT ![t] = verdict[t]]
        /\ mine' = mine \ {t}
        /\ Goto(t, "completed")
        /\ UNCHANGED <<current, faultVars>>
     \/ Fault /\ FailClose(t) /\ UNCHANGED journal
  /\ UNCHANGED <<aborted, verdict, chat, disk, sweepVars, crashes>>

\* releaseModelProjection.
Release(t) ==
  /\ pc[t] = "completed"
  /\ \/ /\ Owns(t)
        /\ chat' = [chat EXCEPT !.owner = None]
        /\ Goto(t, "released")
        /\ UNCHANGED <<current, mine, faultVars>>
     \/ ~Owns(t) /\ FailClose(t) /\ troubled' = TRUE /\ UNCHANGED <<chat, faults>>
  /\ UNCHANGED <<aborted, verdict, disk, journal, sweepVars, crashes>>

EndTurn(t) ==
  /\ pc[t] = "released"
  /\ \/ Land /\ Throw(t) /\ UNCHANGED <<mine, faultVars>>
     \/ Fault /\ FailClose(t) /\ UNCHANGED disk
  /\ UNCHANGED <<aborted, verdict, chat, journal, sweepVars, crashes>>

PersistUnowned(t) ==
  /\ pc[t] = "disowned"
  /\ \/ Land /\ Goto(t, "cancelling") /\ UNCHANGED <<current, mine, faultVars>>
     \/ Fault /\ FailClose(t) /\ UNCHANGED disk
  /\ UNCHANGED <<aborted, verdict, chat, journal, sweepVars, crashes>>

\* Done or failed, the run is given up.
CompleteUnowned(t) ==
  /\ pc[t] = "cancelling"
  /\ \/ journal' = [journal EXCEPT ![t] = "cancelled"] /\ UNCHANGED faultVars
     \/ Fault /\ UNCHANGED journal
  /\ FailClose(t)
  /\ UNCHANGED <<aborted, verdict, chat, disk, sweepVars, crashes>>

TurnStep(t) ==
  \/ AwaitReadiness(t) \/ PassWait(t) \/ GiveUp(t) \/ Reserve(t) \/ Refuse(t)
  \/ PersistReservation(t) \/ Prepare(t) \/ Abandon(t)
  \/ PersistUnwinding(t) \/ ReleaseReservation(t) \/ PersistRelease(t)
  \/ CreateRun(t) \/ CheckRun(t) \/ Activate(t) \/ Start(t) \/ Generate(t)
  \/ PersistReply(t) \/ CheckOwner(t) \/ Complete(t) \/ Release(t) \/ EndTurn(t)
  \/ PersistUnowned(t) \/ CompleteUnowned(t)

(***************************************************************************)
(* The recovery sweep.                                                     *)
(***************************************************************************)
\* The turns that wait for the sweep go on.
SweepSucceeds ==
  /\ sweep' = "idle"
  /\ ready' = TRUE
  /\ pc'    = [t \in Turns |-> IF pc[t] = "joining" THEN "waiting" ELSE pc[t]]
  /\ UNCHANGED <<current, todo, plan, reconciled>>

\* The promise of the sweep rejects, and with it the turns that wait for it.
SweepFails ==
  /\ sweep'   = "idle"
  /\ pc'      = [t \in Turns |-> IF pc[t] = "joining" THEN "done" ELSE pc[t]]
  /\ current' = IF current \in Turns /\ pc[current] = "joining" THEN None ELSE current
  /\ UNCHANGED <<todo, plan, reconciled, ready>>

\* Both parts of recoverForegroundJournalState swallow their errors: go on.
SkipTo(next) == sweep' = next /\ todo' = {} /\ plan' = None

\* Mutant of Pending: a run that was not activated is not listed.
Activated == {t \in Turns : journal[t] = "running" /\ t \notin mine}

\* listPendingForegroundModelExecutions, without the runs of this process.
Pending == {t \in Turns : journal[t] \in OpenStatuses /\ t \notin mine}

\* Hydration, scheduled owners, sub-agents and the native lifecycle, each of
\* which may fail; then what is left to do of the initial reconciliation.
Open ==
  /\ sweep = "opening"
  /\ \/ /\ sweep' = IF ready \/ reconciled THEN "flushing" ELSE "recovering"
        /\ todo'  = IF ready \/ reconciled THEN {} ELSE Pending
        /\ UNCHANGED <<pc, current, plan, reconciled, ready, faultVars>>
     \/ Fault /\ SweepFails
  /\ UNCHANGED <<aborted, verdict, mine, chat, disk, journal, crashes>>

\* mutateModelProjectionForForegroundRecovery plans the outcome of a run that
\* still owns the conversation, and marks its reply when it is not final.
RecoverOwned(t) ==
  /\ sweep = "recovering" /\ t \in todo /\ Owns(t)
  /\ verdict' = [verdict EXCEPT ![t] = IF chat.reply[t] = "final" THEN "succeeded" ELSE "failed"]
  /\ chat'    = [chat EXCEPT !.reply[t] = IF @ = "final" THEN @ ELSE "incomplete"]
  /\ todo'    = todo \ {t}
  /\ plan'    = t
  /\ UNCHANGED <<pc, aborted, current, mine, disk, journal,
                 sweep, reconciled, ready, faultVars, crashes>>

\* A run that owns nothing is closed without a projection.
RecoverUnowned(t) ==
  /\ sweep = "recovering" /\ t \in todo /\ ~Owns(t)
  /\ \/ /\ journal' = [journal EXCEPT ![t] = IF @ = "queued" THEN "cancelled" ELSE "failed"]
        /\ UNCHANGED faultVars
     \/ Fault /\ UNCHANGED journal
  /\ todo' = todo \ {t}
  /\ UNCHANGED <<turnVars, chat, disk, sweep, plan, reconciled, ready, crashes>>

\* Listing the runs, looking up the effects of one, or reading the run of an owner
\* fails: the sweep goes on with its next part.
AbortRecovery ==
  /\ Fault
  /\ \/ sweep = "recovering" /\ SkipTo("cleaning")
     \/ sweep = "cleaning" /\ SkipTo("resolving")
  /\ UNCHANGED <<turnVars, chat, disk, journal, reconciled, ready, crashes>>

\* Mutant of PersistPlan: a flush that fails does not keep the run open.
PersistPlanAnyway ==
  /\ sweep = "recovering" /\ todo = {}
  /\ \/ plan = None /\ SkipTo("cleaning") /\ UNCHANGED <<disk, faultVars>>
     \/ plan # None /\ Land /\ sweep' = "settling" /\ UNCHANGED <<todo, plan, faultVars>>
     \/ plan # None /\ Fault /\ sweep' = "settling" /\ UNCHANGED <<disk, todo, plan>>
  /\ UNCHANGED <<turnVars, chat, journal, reconciled, ready, crashes>>

\* The marked replies are flushed before a run is closed.
PersistPlan ==
  /\ sweep = "recovering" /\ todo = {}
  /\ \/ plan = None /\ SkipTo("cleaning") /\ UNCHANGED <<disk, faultVars>>
     \/ plan # None /\ Land /\ sweep' = "settling" /\ UNCHANGED <<todo, plan, faultVars>>
     \/ plan # None /\ Fault /\ SkipTo("cleaning") /\ UNCHANGED disk
  /\ UNCHANGED <<turnVars, chat, journal, reconciled, ready, crashes>>

\* The run is closed as planned, and the conversation released.
Settle ==
  /\ sweep = "settling"
  /\ \/ /\ journal' = [journal EXCEPT ![plan] = verdict[plan]]
        /\ IF Owns(plan)
             THEN /\ chat' = [chat EXCEPT !.owner = None]
                  /\ sweep' = "settled" /\ UNCHANGED <<todo, plan>>
             ELSE SkipTo("cleaning") /\ UNCHANGED chat
        /\ UNCHANGED faultVars
     \/ Fault /\ SkipTo("cleaning") /\ UNCHANGED <<chat, journal>>
  /\ UNCHANGED <<turnVars, disk, reconciled, ready, crashes>>

PersistSettled ==
  /\ sweep = "settled"
  /\ \/ Land /\ UNCHANGED faultVars
     \/ Fault /\ UNCHANGED disk
  /\ SkipTo("cleaning")
  /\ UNCHANGED <<turnVars, chat, journal, reconciled, ready, crashes>>

\* Mutant of Clean: an owner that has no run is taken for an active one.
CleanTerminal ==
  /\ sweep = "cleaning"
  /\ LET t == chat.owner IN
     IF t # None /\ journal[t] \in ClosedStatuses
       THEN chat' = [chat EXCEPT !.owner = None] /\ sweep' = "releasing"
       ELSE sweep' = "resolving" /\ UNCHANGED chat
  /\ UNCHANGED <<turnVars, disk, journal, todo, plan, reconciled, ready, faultVars, crashes>>

\* releaseStaleForegroundExecutionProjectionOwners: an owner whose run is open
\* is left alone, one whose run is closed is released, and one that has no run
\* has its placeholder marked first.
Clean ==
  /\ sweep = "cleaning"
  /\ LET t == chat.owner IN
     \/ /\ t # None => journal[t] \in OpenStatuses
        /\ sweep' = "resolving" /\ UNCHANGED <<chat, plan>>
     \/ /\ t # None /\ journal[t] \in ClosedStatuses
        /\ chat' = [chat EXCEPT !.owner = None]
        /\ sweep' = "releasing" /\ UNCHANGED plan
     \/ /\ t # None /\ journal[t] = "none"
        /\ chat' = [chat EXCEPT !.reply[t] = Marked(@)]
        /\ sweep' = "marking" /\ plan' = t
  /\ UNCHANGED <<turnVars, disk, journal, todo, reconciled, ready, faultVars, crashes>>

PersistMark ==
  /\ sweep = "marking"
  /\ \/ Land /\ sweep' = "marked" /\ UNCHANGED <<todo, plan, faultVars>>
     \/ Fault /\ SkipTo("resolving") /\ UNCHANGED disk
  /\ UNCHANGED <<turnVars, chat, journal, reconciled, ready, crashes>>

ReleaseMarked ==
  /\ sweep = "marked"
  /\ IF Owns(plan)
       THEN chat' = [chat EXCEPT !.owner = None] /\ SkipTo("releasing")
       ELSE SkipTo("resolving") /\ UNCHANGED chat
  /\ UNCHANGED <<turnVars, disk, journal, reconciled, ready, faultVars, crashes>>

PersistCleaned ==
  /\ sweep = "releasing"
  /\ \/ Land /\ UNCHANGED faultVars
     \/ Fault /\ UNCHANGED disk
  /\ SkipTo("resolving")
  /\ UNCHANGED <<turnVars, chat, journal, reconciled, ready, crashes>>

\* The effects of the running agent runs are looked up, and the agent runs
\* recovered: the initial reconciliation is done for this process.
Resolve ==
  /\ sweep = "resolving"
  /\ \/ /\ reconciled' = TRUE
        /\ sweep' = "flushing"
        /\ UNCHANGED <<pc, current, todo, plan, ready, faultVars>>
     \/ Fault /\ SweepFails
  /\ UNCHANGED <<aborted, verdict, mine, chat, disk, journal, crashes>>

\* The agent run graphs are repaired, and the chat store is flushed.
EndSweep ==
  /\ sweep = "flushing"
  /\ \/ Land /\ SweepSucceeds /\ UNCHANGED faultVars
     \/ Fault /\ SweepFails /\ UNCHANGED disk
  /\ UNCHANGED <<aborted, verdict, mine, chat, journal, crashes>>

SweepStep ==
  \/ Open \/ AbortRecovery \/ PersistPlan \/ Settle \/ PersistSettled
  \/ Clean \/ PersistMark \/ ReleaseMarked \/ PersistCleaned
  \/ Resolve \/ EndSweep
  \/ \E t \in Turns : RecoverOwned(t) \/ RecoverUnowned(t)

(***************************************************************************)
(* The rest of the application.                                            *)
(***************************************************************************)
\* triggerForegroundPersistedAgentRecovery, on return to the foreground.
Foreground ==
  /\ sweep = "idle"
  /\ sweep' = "opening"
  /\ UNCHANGED <<turnVars, chat, disk, journal, todo, plan, reconciled, ready, faultVars, crashes>>

\* The user stops the turn, or rewinds the conversation.
Stop ==
  /\ current # None
  /\ aborted' = aborted \cup {current}
  /\ current' \in {None, current}
  /\ UNCHANGED <<pc, verdict, mine, chat, disk, journal, sweepVars, faultVars, crashes>>

\* clearChatHistory, also under a turn.
ClearHistory ==
  /\ chat.exists
  /\ chat' = Gone
  /\ UNCHANGED <<turnVars, disk, journal, sweepVars, faultVars, crashes>>

\* The throttled write of the chat store.
Checkpoint ==
  /\ disk # chat
  /\ Land
  /\ UNCHANGED <<turnVars, chat, journal, sweepVars, faultVars, crashes>>

\* The process dies; the next one reads the persisted chat store, and starts its
\* initial sweep.
Crash ==
  /\ crashes < MaxCrashes
  /\ crashes'    = crashes + 1
  /\ pc'         = [t \in Turns |-> IF pc[t] \in {"new", "done"} THEN pc[t] ELSE "killed"]
  /\ aborted'    = {}
  /\ current'    = None
  /\ mine'       = {}
  /\ chat'       = disk
  /\ sweep'      = "opening"
  /\ todo'       = {}
  /\ plan'       = None
  /\ reconciled' = FALSE
  /\ ready'      = FALSE
  /\ troubled'   = FALSE
  /\ UNCHANGED <<verdict, disk, journal, faults>>

Next ==
  \/ \E t \in Turns : Send(t) \/ TurnStep(t)
  \/ SweepStep
  \/ Foreground \/ Stop \/ ClearHistory \/ Checkpoint \/ Crash

Spec == Init /\ [][Next]_vars

\* Awaited promises settle: the flushes, the transactions, the model's answer
\* and the wait of 30 seconds. Nobody has to send, stop, clear or come back.
Fairness == WF_vars(SweepStep) /\ \A t \in Turns : WF_vars(TurnStep(t))

FairSpec == Spec /\ Fairness

(***************************************************************************)
(* Properties.                                                             *)
(***************************************************************************)
\* Where a turn is: before its reservation, with a reservation and no run, with
\* a run in the journal, and closing a run whose conversation is gone.
Early     == {"new", "sent", "joining", "waiting", "reserving"}
Reserving == {"reserved", "owning", "prepared", "unwinding", "unwound", "unreserving"}
Running   == {"queued", "activating", "active", "generating", "closing", "persisted", "completing"}
Unowned   == {"disowned", "cancelling"}
Closed    == {"completed", "released"}
Ended     == {"done", "killed"}
Labels    == Early \cup Reserving \cup Running \cup Unowned \cup Closed \cup Ended

\* Where a turn holds the conversation, and where only the initial sweep goes.
Holding == ((Reserving \cup Running) \ {"unreserving"}) \cup {"completed"}
Working == Reserving \cup Running \cup Unowned \cup Closed
Initial == {"recovering", "settling", "settled", "cleaning", "marking", "marked",
            "releasing", "resolving"}

Conversations == [exists : BOOLEAN, owner : Turns \cup {None}, reply : [Turns -> Replies]]

FaultsOK == faults \in 0..MaxFaults /\ crashes \in 0..MaxCrashes /\ troubled \in BOOLEAN

TypeOK ==
  /\ pc       \in [Turns -> Labels]
  /\ aborted  \subseteq Turns
  /\ current  \in Turns \cup {None}
  /\ verdict  \in [Turns -> ClosedStatuses]
  /\ mine     \subseteq Turns
  /\ chat     \in Conversations
  /\ disk     \in Conversations
  /\ journal  \in [Turns -> {"none"} \cup OpenStatuses \cup ClosedStatuses]
  /\ sweep    \in Initial \cup {"idle", "opening", "flushing"}
  /\ todo     \subseteq Turns
  /\ plan     \in Turns \cup {None}
  /\ reconciled \in BOOLEAN /\ ready \in BOOLEAN
  /\ FaultsOK

\* The run of a turn is where the turn is; a restarted process has no turn under
\* way until its initial sweep is over.
RunsOK ==
  \A t \in Turns :
    /\ pc[t] \in Early \cup Reserving => journal[t] = "none"
    /\ pc[t] \in Running \cup Unowned => journal[t] \in OpenStatuses
    /\ pc[t] \in Closed => journal[t] = verdict[t]
    /\ ~ready => pc[t] \in {"new", "sent", "joining"} \cup Ended

\* A conversation that is gone has no owner and no reply, and stays gone; a turn that holds the
\* conversation owns it, and a turn has its run only after its claim is on disk.
OwnersOK ==
  /\ chat.exists \/ chat = Gone
  /\ disk.exists \/ disk = Gone
  /\ chat.exists => disk.exists
  /\ \A t \in Turns :
       /\ pc[t] \in Holding /\ chat.exists => chat.owner = t
       /\ pc[t] \in {"owning", "prepared"} /\ disk.exists => disk.owner = t
       /\ pc[t] \in Unowned => ~chat.exists
       /\ pc[t] \in Early => chat.owner # t /\ disk.owner # t

\* An open run has the conversation to itself, in memory and on disk, as long as
\* there is a conversation: a restart always finds the reply of a run it has to
\* close, and no other turn writes to it.
PendingRunIsOwned ==
  \A t \in Turns :
    journal[t] \in OpenStatuses =>
      /\ chat.exists => chat.owner = t
      /\ disk.exists => disk.owner = t

\* A run is closed as succeeded only once its answer is on disk ("Close one exact
\* non-resumable generation after its chat projection is durably persisted"), and
\* the answer stays there, whatever fails or dies before or after.  Only a user who
\* clears the history takes it away (disk.exists); single messages that are deleted
\* later, as a rewind does, are outside the model.
SucceededIsDurable ==
  \A t \in Turns : journal[t] = "succeeded" /\ disk.exists => disk.reply[t] \in Answers

\* On the way to "succeeded" the answer is in memory, and from its flush on disk.
AnswersOK ==
  /\ \A t \in Turns :
       /\ journal[t] = "succeeded" /\ chat.exists => chat.reply[t] \in Answers
       /\ verdict[t] = "succeeded" /\ pc[t] \in {"closing", "persisted", "completing"} =>
            /\ chat.exists => chat.reply[t] \in Answers
            /\ pc[t] # "closing" /\ disk.exists => disk.reply[t] \in Answers

\* What the sweep holds: open runs to handle, a planned run whose reply is settled
\* in memory and then on disk, or an owner that never got a run.
SweepOK ==
  /\ sweep \in Initial => ~ready /\ ~reconciled
  /\ ready \/ sweep = "flushing" => reconciled
  /\ sweep # "recovering" => todo = {}
  /\ sweep \in {"settling", "settled", "marking", "marked"} => plan # None
  /\ plan # None => sweep \in {"recovering", "settling", "settled", "marking", "marked"}
  /\ \A t \in todo : journal[t] \in OpenStatuses
  /\ plan # None /\ sweep \in {"recovering", "settling"} =>
       /\ journal[plan] \in OpenStatuses
       /\ plan \notin todo
       /\ LET settled == IF verdict[plan] = "succeeded" THEN "final" ELSE "incomplete" IN
          /\ chat.exists => chat.reply[plan] = settled
          /\ sweep = "settling" /\ disk.exists => disk.reply[plan] = settled
  /\ plan # None /\ sweep \in {"marking", "marked"} => journal[plan] = "none"

\* Once the initial sweep of a process is over, only turns of this process have
\* an open run or the conversation, unless an operation failed: nothing the dead
\* process left, at whatever step it died, locks the conversation.
RestartReclaims ==
  ready /\ ~troubled =>
    \A t \in Turns :
      /\ journal[t] \in OpenStatuses => pc[t] \in Running \cup Unowned
      /\ chat.owner = t => pc[t] \in Holding

\* How the initial sweep gets there, as long as nothing fails: the runs that are open
\* are those it has listed, and once they are closed the owner goes.
SweepReclaims ==
  /\ ~ready => mine = {}
  /\ ~ready /\ ~troubled =>
       /\ sweep # "idle"
       /\ reconciled => sweep = "flushing"
       /\ \A t \in Turns : journal[t] \in OpenStatuses =>
            \/ sweep = "opening"
            \/ sweep = "recovering" /\ (t \in todo \/ t = plan)
            \/ sweep = "settling" /\ t = plan
       /\ sweep \in {"marking", "marked"} => chat.owner \in {None, plan}
       /\ sweep \in {"settled", "releasing", "resolving", "flushing"} => chat.owner = None

\* What keeps the two stores in step whatever fails (the inductive invariant).
ForegroundInv ==
  /\ TypeOK /\ RunsOK /\ OwnersOK /\ PendingRunIsOwned
  /\ SucceededIsDurable /\ AnswersOK /\ SweepOK /\ SweepReclaims /\ RestartReclaims

\* A run that a sweep closes, in a conversation that still exists, has on disk a
\* reply that is complete or marked as interrupted: a crash after it never leaves
\* a placeholder that nobody is going to fill.
RecoveredRepliesAreMarked ==
  [][\A t \in Turns :
       /\ pc[t] \in Ended /\ journal[t] \in OpenStatuses /\ journal'[t] \in ClosedStatuses
       /\ chat.exists
       => disk.reply[t] = IF journal'[t] = "succeeded" THEN "final" ELSE "incomplete"]_vars

\* No sweep and no other turn changes the run of a turn under way, or takes its
\* conversation or rewrites its reply while the conversation exists ("must not race
\* a live model or tool", startupRecovery.ts), whichever sweeps failed before.
OnlyOwnStepsMove ==
  [][\A t \in Turns :
       pc[t] \in Working /\ pc'[t] = pc[t] =>
         /\ journal'[t] = journal[t]
         /\ chat.owner = t /\ chat'.exists =>
              chat'.owner = t /\ chat'.reply[t] = chat.reply[t]]_vars

\* Every request that was sent ends: none waits for ever for a sweep that failed or
\* for a conversation that nobody releases.
TurnsEnd == []<>(\A t \in Turns : pc[t] \in {"new"} \cup Ended)

\* A conversation does not stay reserved, through crashes and restarts, unless an
\* operation failed in this process.
ReservationsEnd == chat.owner # None ~> chat.owner = None \/ troubled
=============================================================================
