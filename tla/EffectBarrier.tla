---------------------------- MODULE EffectBarrier ----------------------------
(***************************************************************************)
(* dispatchAuthorizedToolEffect: the durable dispatch of EffectDispatch    *)
(* behind the barrier of executionRunEffectBarrier.ts. Effects belong to   *)
(* execution runs. Calls for one execution run are serialized by a chain   *)
(* of promises held in memory (a queue), and the head of the chain reads   *)
(* the journal: while an effect of its execution run is started, applied   *)
(* or ambiguous, the call is turned away.                                  *)
(***************************************************************************)
EXTENDS EffectDispatch, Sequences, FiniteSets

CONSTANTS
  ExecutionRuns,  \* execution runs (conversation and run id)
  RunOf           \* RunOf[e]: the execution run effect e belongs to

ASSUME RunOfAssumption == RunOf \in [Effects -> ExecutionRuns]

VARIABLES
  queue,    \* queue[r]: executionEffectTails, the calls of r in order of arrival
  inside    \* the calls that found the barrier clear

barrierVars == <<vars, queue, inside>>

BarrierInit ==
  /\ Init
  /\ queue  = [r \in ExecutionRuns |-> <<>>]
  /\ inside = {}

QueueOf(c) == queue[RunOf[target[c]]]

\* The promise of the call before c has settled.
AtHead(c) == pc[c] # "idle" /\ QueueOf(c) # <<>> /\ Head(QueueOf(c)) = c

\* Mutant of Clear: an applied or ambiguous effect does not block.
NothingInFlight(r) == \A e \in Effects : RunOf[e] = r => effect[e] # "started"

\* inspectExecutionRunEffectBarrier finds no blocking status.
Clear(r) == \A e \in Effects : RunOf[e] = r => effect[e] \notin Unresolved

Arrive(c, e) ==
  /\ Call(c, e)
  /\ queue' = [queue EXCEPT ![RunOf[e]] = Append(@, c)]
  /\ UNCHANGED inside

\* Mutant of Release: a call that returned stays at the head of the chain.
KeepTail(c) == inside' = inside \ {c} /\ UNCHANGED queue

\* serializeExecutionRunEffectDispatch releases the call behind this one.
Release(c) ==
  /\ queue'  = [queue EXCEPT ![RunOf[target[c]]] = Tail(@)]
  /\ inside' = inside \ {c}

\* Mutant of MayEnter: a call does not wait for the one before it.
MayEnterAtOnce(c) == pc[c] # "idle" /\ c \notin inside

\* The call is the next to inspect the barrier.
MayEnter(c) == AtHead(c) /\ c \notin inside

Admit(c) ==
  /\ MayEnter(c)
  /\ Clear(RunOf[target[c]])
  /\ inside' = inside \cup {c}
  /\ UNCHANGED <<vars, queue>>

\* An unresolved effect blocks, or the barrier cannot be read.
TurnAway(c) ==
  /\ MayEnter(c)
  /\ \/ ~Clear(RunOf[target[c]]) /\ Refuse(c, "reconciliation_required")
     \/ Refuse(c, "unavailable")
  /\ Release(c)

\* An admitted call dispatches; when it returns it lets the next one in.
Work(c) ==
  /\ c \in inside
  /\ DispatchStep(c)
  /\ IF pc'[c] = "idle" THEN Release(c) ELSE UNCHANGED <<queue, inside>>

\* The chain of promises dies with the process.
BarrierCrash ==
  /\ Crash
  /\ queue'  = [r \in ExecutionRuns |-> <<>>]
  /\ inside' = {}

BarrierNext ==
  \/ \E c \in Calls : Admit(c) \/ TurnAway(c) \/ Work(c) \/ \E e \in Effects : Arrive(c, e)
  \/ Environment /\ UNCHANGED <<queue, inside>>
  \/ BarrierCrash

BarrierSpec == BarrierInit /\ [][BarrierNext]_barrierVars

\* An awaited promise settles, so a call goes on; the executor's promise is
\* assumed to settle too. Nobody has to call, cancel, report, prune or crash.
CallProgress(c) == Admit(c) \/ TurnAway(c) \/ Work(c)

FairBarrierSpec == BarrierSpec /\ \A c \in Calls : WF_barrierVars(CallProgress(c))

(***************************************************************************)
(* Properties.                                                             *)
(***************************************************************************)
\* The chain holds the calls under way, each once and in the chain of its run,
\* and only the head of a chain is past the barrier.
ChainOK ==
  /\ queue  \in [ExecutionRuns -> Seq(Calls)]
  /\ inside \subseteq Calls
  /\ \A r \in ExecutionRuns : \A i, j \in DOMAIN queue[r] :
       queue[r][i] = queue[r][j] => i = j
  /\ \A c \in Calls : \A r \in ExecutionRuns :
       (\E i \in DOMAIN queue[r] : queue[r][i] = c)
          <=> (pc[c] # "idle" /\ r = RunOf[target[c]])
  /\ \A c \in inside : AtHead(c)
  /\ \A c \in Calls : pc[c] \notin {"idle", "preparing"} => c \in inside

\* An execution run never has two effects that need reconciliation: nothing is
\* launched behind an effect whose outcome is in doubt, although the doubt may
\* arise long after the next call arrived, and outlive the process.
OneUnresolvedEffectPerRun ==
  \A e, f \in Effects :
    RunOf[e] = RunOf[f] /\ effect[e] \in Unresolved /\ effect[f] \in Unresolved => e = f

\* What an admitted call may rely on until it returns: nothing else of its
\* execution run is unresolved, and an effect it found planned stays planned.
Alone(c) ==
  /\ \A f \in Effects : RunOf[f] = RunOf[target[c]] /\ f # target[c] => effect[f] \notin Unresolved
  /\ pc[c] = "planned" => effect[target[c]] = "planned"

\* The chain admits one call of an execution run at a time, so what the barrier
\* read stays true while the call is inside, across cancellations, late mobile
\* outcomes, deletions and crashes (the inductive invariant of the barrier).
BarrierInv == Inv /\ ChainOK /\ OneUnresolvedEffectPerRun /\ \A c \in inside : Alone(c)

\* A call that is told its dispatch was rejected (the answer says that the tool
\* effect was not executed) is told the truth: no rival ran the executor of the
\* same effect between its read and its rejection.
RejectedNeverExecuted ==
  [][\A c \in Calls :
       pc[c] # "idle" /\ reply'[c] = "rejected" => executions'[target[c]] = 0]_barrierVars

\* Every call that arrives returns, and so the calls queued behind it do, however
\* the calls before it end and whatever the rest of the application does.
EveryCallReturns == \A c \in Calls : pc[c] # "idle" ~> pc[c] = "idle"
=============================================================================
