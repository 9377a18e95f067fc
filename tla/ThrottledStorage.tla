-------------------------- MODULE ThrottledStorage --------------------------
(***************************************************************************)
(* The write-behind of one storage key (throttledStorage.ts): setItem only *)
(* remembers the newest value and arms a timer; flushWrite commits it in   *)
(* the key's chain of mutations; removeItem forgets what is pending and    *)
(* commits a tombstone in the same chain; flushPendingStorageWrites drains *)
(* the key.                                                                *)
(*                                                                         *)
(* A commit is atomic (PersistedGenerations implements PersistedRegister), *)
(* so a mutation settles in one step; one that fails may have taken effect.*)
(* Callers interleave at their awaits: a flush whose mutation has settled  *)
(* looks at the pending write again in a later step.                       *)
(*                                                                         *)
(* Calls of setItem and removeItem are numbered in their order: the number *)
(* of a set is its revision (nextWriteRevision), and stands for its value. *)
(***************************************************************************)
EXTENDS Naturals, Sequences

CONSTANTS
  Drains,       \* concurrent calls of flushPendingStorageWrites for the key
  MaxCalls,     \* bound: calls of setItem and removeItem
  MaxCrashes,   \* bound: deaths of the process
  NoWrite       \* no pending write

ASSUME ThrottlingAssumption ==
  /\ MaxCalls \in Nat
  /\ MaxCrashes \in Nat
  /\ NoWrite \notin [revision : Nat, armed : BOOLEAN, flushing : Nat]

VARIABLES
  \* Durable.
  durable,      \* the last call that took effect on disk
  \* In memory: lost with the process.
  pending,      \* pendingWrites: revision, whether a timer is armed, flushingRevision
  chain,        \* inFlightMutations: the mutations not yet settled, oldest first
  settled,      \* flushes whose mutation has settled: they have yet to go on
  drain,        \* drain[d]: where a drain is, and what it awaits
  \* The callers.
  issued,       \* calls of setItem and removeItem so far
  crashes,
  goal          \* goal[d]: the call drain d has to see on disk (history)

memory == <<pending, chain, settled, drain>>
vars   == <<durable, memory, issued, crashes, goal>>

Revisions == 1..MaxCalls
Writes    == [revision : Revisions, armed : BOOLEAN, flushing : 0..MaxCalls]
Mutations == [revision : Revisions, removes : BOOLEAN]
Outcomes  == [revision : Revisions, ok : BOOLEAN]

\* A drain loops, awaits the flush of a revision it started, or awaits a mutation
\* of somebody else.
Loops           == [at |-> "loop", revision |-> 0]
Rests           == [at |-> "idle", revision |-> 0]
Awaits(place, n) == [at |-> place, revision |-> n]
DrainStates     == {Loops, Rests} \cup [at : {"flush", "mutation"}, revision : Revisions]

Init ==
  /\ durable = 0
  /\ pending = NoWrite
  /\ chain   = <<>>
  /\ settled = {}
  /\ drain   = [d \in Drains |-> Rests]
  /\ issued  = 0
  /\ crashes = 0
  /\ goal    = [d \in Drains |-> 0]

(***************************************************************************)
(* The callers.                                                            *)
(***************************************************************************)
Issue == issued < MaxCalls /\ issued' = issued + 1

\* Mutant of QueueWrite: a write that is being flushed keeps its revision.
QueueValueOnly ==
  pending' = IF pending = NoWrite
             THEN [revision |-> issued', armed |-> TRUE, flushing |-> 0]
             ELSE [pending EXCEPT !.revision = IF pending.flushing = 0 THEN issued' ELSE @,
                                  !.armed = TRUE]

\* queueWrite: the newest value replaces the one that waits; a timer is armed.
QueueWrite ==
  pending' = [revision |-> issued', armed |-> TRUE,
              flushing |-> IF pending = NoWrite THEN 0 ELSE pending.flushing]

SetItem ==
  /\ Issue
  /\ QueueWrite
  /\ UNCHANGED <<durable, chain, settled, drain, crashes, goal>>

\* Mutant of RemoveItem: the pending write is not cancelled.
RemoveLater ==
  /\ Issue
  /\ chain' = Append(chain, [revision |-> issued', removes |-> TRUE])
  /\ goal' = [d \in Drains |-> 0]
  /\ UNCHANGED <<durable, pending, settled, drain, crashes>>

RemoveItem ==
  /\ Issue
  /\ pending' = NoWrite
  /\ chain' = Append(chain, [revision |-> issued', removes |-> TRUE])
  /\ goal' = [d \in Drains |-> 0]
  /\ UNCHANGED <<durable, settled, drain, crashes>>

(***************************************************************************)
(* Flushing.                                                               *)
(***************************************************************************)
\* Mutant of NeedsFlush: a write under way is flushed again.
NeedsFlushAlways == pending # NoWrite

\* The pending revision has no flush under way.
NeedsFlush == pending # NoWrite /\ pending.flushing # pending.revision

\* flushWrite up to its await: the timer is spent, the mutation is enqueued.
StartFlush ==
  /\ pending' = [pending EXCEPT !.armed = FALSE, !.flushing = pending.revision]
  /\ chain' = Append(chain, [revision |-> pending.revision, removes |-> FALSE])

TimerFires ==
  /\ pending # NoWrite /\ pending.armed
  /\ IF NeedsFlush THEN StartFlush
                   ELSE pending' = [pending EXCEPT !.armed = FALSE] /\ UNCHANGED chain
  /\ UNCHANGED <<durable, settled, drain, issued, crashes, goal>>

\* Mutant of Wake: drains do not hear that a mutation failed.
WakeAnyway(place, n, ok) ==
  drain' = [d \in Drains |-> IF drain[d] = Awaits(place, n) THEN Loops ELSE drain[d]]

\* Drains of somebody else's mutation go on, or throw, as soon as it has settled.
Wake(place, n, ok) ==
  drain' = [d \in Drains |-> IF drain[d] = Awaits(place, n)
                             THEN IF ok THEN Loops ELSE Rests
                             ELSE drain[d]]

\* The oldest mutation settles.
Mutate(ok) ==
  /\ chain # <<>>
  /\ chain' = Tail(chain)
  /\ durable' \in IF ok THEN {Head(chain).revision} ELSE {durable, Head(chain).revision}
  /\ settled' = IF Head(chain).removes THEN settled
                ELSE settled \cup {[revision |-> Head(chain).revision, ok |-> ok]}
  /\ Wake("mutation", Head(chain).revision, ok)
  /\ UNCHANGED <<pending, issued, crashes, goal>>

\* Mutant of Rearmed: a failed write waits for the next setItem.
NotRearmed(ok) == pending.armed

\* A flush that failed arms the timer again.
Rearmed(ok) == pending.armed \/ ~ok

\* Mutant of AfterFlush: a flush that failed still counts as under way.
KeepFlushing(outcome) ==
  IF pending # NoWrite /\ pending.revision = outcome.revision
  THEN pending' = IF outcome.ok THEN NoWrite
                  ELSE [pending EXCEPT !.armed = Rearmed(outcome.ok)]
  ELSE UNCHANGED pending

\* flushWrite after its await. A write that is no longer the pending one leaves
\* the pending one alone.
AfterFlush(outcome) ==
  IF pending # NoWrite /\ pending.revision = outcome.revision
  THEN pending' = IF outcome.ok THEN NoWrite
                  ELSE [pending EXCEPT !.armed = Rearmed(outcome.ok), !.flushing = 0]
  ELSE IF pending # NoWrite /\ pending.flushing = outcome.revision
    THEN pending' = [pending EXCEPT !.flushing = 0]
    ELSE UNCHANGED pending

FinishFlush(outcome) ==
  /\ outcome \in settled
  /\ settled' = settled \ {outcome}
  /\ AfterFlush(outcome)
  /\ Wake("flush", outcome.revision, outcome.ok)
  /\ UNCHANGED <<durable, chain, issued, crashes, goal>>

(***************************************************************************)
(* Draining.                                                               *)
(***************************************************************************)
\* The newest call whose effect the memory still owes to the disk.
Owed ==
  CASE pending # NoWrite -> pending.revision
    [] pending = NoWrite /\ chain # <<>> -> chain[Len(chain)].revision
    [] OTHER -> 0

Drained == pending = NoWrite /\ chain = <<>>

\* One turn of drainStorageKey: when nothing is left the drain resolves; else the
\* timer is cancelled, and the drain starts a flush, or awaits the newest mutation
\* under way, if there is one.
Turn(d) ==
  \/ /\ Drained
     /\ drain' = [drain EXCEPT ![d] = Rests]
     /\ UNCHANGED <<pending, chain>>
  \/ /\ ~Drained /\ NeedsFlush
     /\ StartFlush
     /\ drain' = [drain EXCEPT ![d] = Awaits("flush", pending.revision)]
  \/ /\ ~Drained /\ ~NeedsFlush
     /\ pending' = IF pending = NoWrite THEN NoWrite ELSE [pending EXCEPT !.armed = FALSE]
     /\ drain' = [drain EXCEPT ![d] = IF chain = <<>> THEN Loops
                                      ELSE Awaits("mutation", chain[Len(chain)].revision)]
     /\ UNCHANGED chain

CallDrain(d) ==
  /\ drain[d] = Rests /\ ~Drained
  /\ Turn(d)
  /\ goal' = [goal EXCEPT ![d] = Owed]
  /\ UNCHANGED <<durable, settled, issued, crashes>>

TurnAgain(d) ==
  /\ drain[d] = Loops
  /\ Turn(d)
  /\ UNCHANGED <<durable, settled, issued, crashes, goal>>

\* The process dies; the mutation under way may have taken effect.
Crash ==
  /\ crashes < MaxCrashes
  /\ crashes' = crashes + 1
  /\ durable' \in {durable} \cup (IF chain = <<>> THEN {} ELSE {Head(chain).revision})
  /\ pending' = NoWrite
  /\ chain' = <<>>
  /\ settled' = {}
  /\ drain' = [d \in Drains |-> Rests]
  /\ UNCHANGED <<issued, goal>>

Next ==
  \/ SetItem \/ RemoveItem \/ TimerFires
  \/ \E ok \in BOOLEAN : Mutate(ok)
  \/ \E outcome \in settled : FinishFlush(outcome)
  \/ \E d \in Drains : CallDrain(d) \/ TurnAgain(d)
  \/ Crash

Spec == Init /\ [][Next]_vars

\* Timers fire, promises settle and what awaits them goes on; the file system may
\* fail any number of times, but not for ever.
Fairness ==
  /\ WF_vars(TimerFires)
  /\ WF_vars(\E ok \in BOOLEAN : Mutate(ok))
  /\ SF_vars(Mutate(TRUE))
  /\ WF_vars(\E outcome \in settled : FinishFlush(outcome))
  /\ \A d \in Drains : WF_vars(TurnAgain(d))

FairSpec == Spec /\ Fairness

(***************************************************************************)
(* Properties.                                                             *)
(***************************************************************************)
TypeOK ==
  /\ durable \in 0..MaxCalls
  /\ pending \in Writes \cup {NoWrite}
  /\ chain   \in Seq(Mutations)
  /\ settled \subseteq Outcomes
  /\ drain   \in [Drains -> DrainStates]
  /\ issued  \in 0..MaxCalls
  /\ crashes \in 0..MaxCrashes
  /\ goal    \in [Drains -> 0..MaxCalls]

\* A flush of revision n is in the chain, or has settled and has yet to go on.
BeingFlushed(n) ==
  \/ \E i \in DOMAIN chain : chain[i] = [revision |-> n, removes |-> FALSE]
  \/ \E outcome \in settled : outcome.revision = n

\* A value that waits to be written is never stranded: a timer is armed for it, or
\* a flush of it is under way, however timers, drains, failures and further calls
\* clear and arm the timer.
NoStrandedWrite ==
  pending # NoWrite =>
    pending.armed \/ (pending.flushing = pending.revision /\ BeingFlushed(pending.revision))

\* Mutations are under way in the order of the calls, each revision in at most one
\* flush at a time, and none is older than the disk or newer than what is pending.
ChainOK ==
  /\ \A i, j \in DOMAIN chain : i < j => chain[i].revision < chain[j].revision
  /\ \A i \in DOMAIN chain : durable <= chain[i].revision /\ chain[i].revision <= issued
  /\ \A o \in settled :
       /\ o.revision <= issued
       /\ o.ok => o.revision <= durable
       /\ \A i \in DOMAIN chain : chain[i].revision # o.revision
       /\ \A other \in settled : other.revision = o.revision => other = o
  /\ durable <= issued

PendingOK ==
  pending # NoWrite =>
    /\ durable <= pending.revision /\ pending.revision <= issued
    /\ \A i \in DOMAIN chain : chain[i].revision <= pending.revision
    /\ pending.flushing <= pending.revision
    /\ BeingFlushed(pending.revision) <=> pending.flushing = pending.revision
    /\ \A i \in DOMAIN chain : chain[i].removes => chain[i].revision < pending.revision

\* What a drain has to see on disk is there, is still pending, or is the mutation
\* that the drain awaits.
DrainOK ==
  \A d \in Drains : drain[d] # Rests =>
    \/ goal[d] <= durable
    \/ pending # NoWrite /\ goal[d] <= pending.revision
    \/ \E i \in DOMAIN chain :
         drain[d] = Awaits("mutation", chain[i].revision) /\ goal[d] <= chain[i].revision

\* The inductive invariant, from which the action properties below follow.
ThrottledInv == TypeOK /\ ChainOK /\ PendingOK /\ NoStrandedWrite /\ DrainOK

\* What is on disk follows the order of the calls: an older value never replaces a
\* newer one and never comes back after its removal.
LaterCallsWin == [][durable' >= durable]_vars

\* "Force-flush any pending throttled writes": when a drain resolves, the newest call
\* that was pending or under way when it was called is durable, or a later one is,
\* unless a removal has called it off.
DrainIsABarrier ==
  [][\A d \in Drains : drain[d] = Loops /\ drain'[d] = Rests /\ crashes' = crashes =>
       durable >= goal[d]]_vars

\* The last value set is eventually durable, if the process does not die before and no
\* further call comes.
LastWriteLands ==
  \A n \in Revisions, k \in 0..MaxCrashes :
     issued = n /\ crashes = k /\ pending # NoWrite
        ~> durable = n \/ issued # n \/ crashes # k

\* A drain resolves or throws: it never turns for ever around a write that no flush
\* is going to settle, nor around the flushes of others.
DrainsEnd == \A d \in Drains : drain[d] # Rests ~> drain[d] = Rests
=============================================================================
