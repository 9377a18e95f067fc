------------------------ MODULE EffectBarrierProofs -------------------------
(***************************************************************************)
(* Proofs about EffectBarrier: behind the barrier the dispatch still is    *)
(* the dispatch of EffectDispatch, the chain of promises stays consistent, *)
(* an execution run has at most one unresolved effect, and a rejection is  *)
(* never a lie.                                                            *)
(***************************************************************************)
EXTENDS EffectBarrier, EffectDispatchProofs

(***************************************************************************)
(* The barrier only restricts the dispatch.                                *)
(***************************************************************************)
LEMMA BarrierStep == [BarrierNext]_barrierVars => [Next]_vars
<1> SUFFICES ASSUME [BarrierNext]_barrierVars PROVE [Next]_vars
  OBVIOUS
<1>1. CASE UNCHANGED barrierVars
  BY <1>1 DEF barrierVars
<1>2. ASSUME NEW c \in Calls, Admit(c) PROVE [Next]_vars
  BY <1>2 DEF Admit
<1>3. ASSUME NEW c \in Calls, TurnAway(c) PROVE CallStep(c)
  BY <1>3 DEF TurnAway, CallStep, DispatchStep, CallPrepares
<1>4. ASSUME NEW c \in Calls, Work(c) PROVE CallStep(c)
  BY <1>4 DEF Work, CallStep
<1>5. ASSUME NEW c \in Calls, NEW e \in Effects, Arrive(c, e) PROVE Call(c, e)
  BY <1>5 DEF Arrive
<1>6. BarrierCrash => Crash
  BY DEF BarrierCrash
<1> QED BY <1>1, <1>2, <1>3, <1>4, <1>5, <1>6 DEF BarrierNext, Next

\* Every behaviour of the dispatch behind the barrier is a behaviour of the
\* dispatch, which therefore has all the properties proved of it.
THEOREM BarrierRefines == BarrierSpec => Spec
<1>1. BarrierInit => Init
  BY DEF BarrierInit
<1> QED BY <1>1, BarrierStep, PTL DEF BarrierSpec, Spec

(***************************************************************************)
(* What a step of one call does to the control state of the calls.         *)
(***************************************************************************)
\* The call returns ...
Leaves(c) == pc' = [pc EXCEPT ![c] = "idle"] /\ target' = [target EXCEPT ![c] = NoEffect]

\* ... or goes on with the same effect.
Goes(c) == target' = target /\ \E p \in Places \ {"idle"} : pc' = [pc EXCEPT ![c] = p]

LEMMA CallFrame ==
  ASSUME NEW c \in Calls, CallStep(c)
  PROVE  pc[c] # "idle" /\ (Leaves(c) \/ Goes(c))
<1>1. ASSUME NEW r, Return(c, r) PROVE Leaves(c)
  BY <1>1 DEF Return, Leaves
<1>2. ASSUME NEW p \in Places \ {"idle"}, NEW t, NEW r, Proceed(c, p, t, r) PROVE Goes(c)
  BY <1>2 DEF Proceed, Goes
<1>3. CASE Refuse(c, "reconciliation_required") \/ CallPrepares(c)
  BY <1>1, <1>2, <1>3 DEF CallPrepares, Refuse, PrepareAndPlan, PrepareAndFindClaim,
     ClassifyExistingClaim, PrepareThenUnavailable, Places
<1>4. CASE CallClaims(c)
  BY <1>1, <1>2, <1>4 DEF CallClaims, ClaimUnauthorized, ClaimExisting, ClassifyExistingClaim,
     ClaimGenerationChanged, ClaimCancelled, ClaimAndStart, ClaimFails, Places
<1>5. CASE CallExecutes(c)
  BY <1>1, <1>2, <1>5 DEF CallExecutes, Execute, CallbackThrows, Defer, ExecutorReports, Places
<1>6. CASE CallSettles(c)
  BY <1>1, <1>2, <1>6 DEF CallSettles, Settle, SettleReplayed, SettlementFails, MarkAmbiguous,
     MarkNothing, Places
<1> QED BY <1>3, <1>4, <1>5, <1>6 DEF CallStep, DispatchStep

(***************************************************************************)
(* The chain of promises.                                                  *)
(***************************************************************************)
\* A call is somewhere in a chain.
In(c, s) == \E i \in DOMAIN s : s[i] = c

\* No call is twice in a chain.
Once(s) == \A i, j \in DOMAIN s : s[i] = s[j] => i = j

LEMMA AppendChain ==
  ASSUME NEW s \in Seq(Calls), Once(s), NEW c \in Calls, ~In(c, s)
  PROVE  /\ Append(s, c) \in Seq(Calls)
         /\ Once(Append(s, c))
         /\ \A d \in Calls : In(d, Append(s, c)) <=> In(d, s) \/ d = c
         /\ s # <<>> => Append(s, c) # <<>> /\ Head(Append(s, c)) = Head(s)
<1> DEFINE t == Append(s, c)
<1>1. /\ t \in Seq(Calls) /\ Len(t) = Len(s) + 1 /\ Len(s) \in Nat
      /\ DOMAIN s = 1..Len(s) /\ DOMAIN t = 1..(Len(s) + 1)
      /\ \A i \in 1..Len(s) : t[i] = s[i]
      /\ t[Len(s) + 1] = c
  OBVIOUS
<1> HIDE DEF t
<1>2. Once(t)
  BY <1>1 DEF Once, In
<1>3. ASSUME NEW d \in Calls PROVE In(d, t) <=> In(d, s) \/ d = c
  <2>1. In(d, t) => In(d, s) \/ d = c
    BY <1>1 DEF In
  <2>2. In(d, s) => In(d, t)
    BY <1>1 DEF In
  <2>3. d = c => In(d, t)
    <3>1. Len(s) + 1 \in DOMAIN t
      BY <1>1
    <3> QED BY <1>1, <3>1 DEF In
  <2> QED BY <2>1, <2>2, <2>3
<1>4. s # <<>> => t # <<>> /\ Head(t) = Head(s)
  <2>1. s # <<>> => 1 \in 1..Len(s)
    OBVIOUS
  <2> QED BY <1>1, <2>1
<1> QED BY <1>1, <1>2, <1>3, <1>4 DEF t

LEMMA TailChain ==
  ASSUME NEW s \in Seq(Calls), Once(s), s # <<>>
  PROVE  /\ Tail(s) \in Seq(Calls)
         /\ Once(Tail(s))
         /\ \A d \in Calls : In(d, Tail(s)) <=> In(d, s) /\ d # Head(s)
<1> DEFINE t == Tail(s)
<1>1. /\ t \in Seq(Calls) /\ Len(s) \in Nat \ {0}
      /\ DOMAIN s = 1..Len(s) /\ DOMAIN t = 1..(Len(s) - 1)
      /\ \A i \in 1..(Len(s) - 1) : t[i] = s[i + 1]
      /\ Head(s) = s[1]
  OBVIOUS
<1> HIDE DEF t
<1>2. Once(t)
  <2> SUFFICES ASSUME NEW i \in DOMAIN t, NEW j \in DOMAIN t, t[i] = t[j] PROVE i = j
    BY DEF Once
  <2>1. i + 1 \in DOMAIN s /\ j + 1 \in DOMAIN s /\ s[i + 1] = s[j + 1]
    BY <1>1
  <2>2. i + 1 = j + 1
    BY <2>1 DEF Once
  <2> QED BY <1>1, <2>2
<1>3. ASSUME NEW d \in Calls PROVE In(d, t) <=> In(d, s) /\ d # Head(s)
  <2>1. ASSUME In(d, t) PROVE In(d, s) /\ d # Head(s)
    <3>1. PICK i \in 1..(Len(s) - 1) : s[i + 1] = d
      BY <1>1, <2>1 DEF In
    <3>2. i + 1 \in DOMAIN s /\ 1 \in DOMAIN s /\ i + 1 # 1
      BY <1>1, <3>1
    <3> QED BY <1>1, <3>1, <3>2 DEF In, Once
  <2>2. ASSUME In(d, s), d # Head(s) PROVE In(d, t)
    <3>1. PICK i \in 1..Len(s) : s[i] = d
      BY <1>1, <2>2 DEF In
    <3>2. i # 1
      BY <1>1, <2>2, <3>1
    <3>3. i - 1 \in DOMAIN t /\ t[i - 1] = s[i]
      BY <1>1, <3>1, <3>2
    <3> QED BY <3>1, <3>3 DEF In
  <2> QED BY <2>1, <2>2
<1> QED BY <1>1, <1>2, <1>3 DEF t

\* ChainOK, in these terms.
LEMMA ChainTerms ==
  ChainOK <=> /\ queue  \in [ExecutionRuns -> Seq(Calls)]
              /\ inside \subseteq Calls
              /\ \A r \in ExecutionRuns : Once(queue[r])
              /\ \A c \in Calls : \A r \in ExecutionRuns :
                   In(c, queue[r]) <=> (pc[c] # "idle" /\ r = RunOf[target[c]])
              /\ \A c \in inside : AtHead(c)
              /\ \A c \in Calls : pc[c] \notin {"idle", "preparing"} => c \in inside
  BY DEF ChainOK, In, Once

LEMMA ArriveChain ==
  ASSUME TypeOK, ChainOK, NEW c \in Calls, NEW e \in Effects, Arrive(c, e)
  PROVE  ChainOK'
<1> DEFINE r == RunOf[e]
           s == queue[r]
<1>1. r \in ExecutionRuns
  BY RunOfAssumption DEF RunOfAssumption
<1>2. /\ pc[c] = "idle" /\ pc' = [pc EXCEPT ![c] = "preparing"]
      /\ target' = [target EXCEPT ![c] = e]
      /\ queue' = [queue EXCEPT ![r] = Append(s, c)] /\ inside' = inside
  BY DEF Arrive, Call
<1>3. s \in Seq(Calls) /\ Once(s) /\ ~In(c, s)
  BY <1>1, <1>2, ChainTerms
<1> HIDE DEF r, s
<1>4. /\ queue \in [ExecutionRuns -> Seq(Calls)] /\ s = queue[r] /\ r = RunOf[e]
      /\ pc \in [Calls -> Places] /\ target \in [Calls -> Effects \cup {NoEffect}]
  BY ChainTerms DEF r, s, TypeOK, CallsTypeOK
<1>5. queue' \in [ExecutionRuns -> Seq(Calls)]
  BY <1>1, <1>2, <1>3, <1>4, AppendChain
<1>6. \A q \in ExecutionRuns : Once(queue'[q])
  BY <1>1, <1>2, <1>3, <1>4, AppendChain, ChainTerms
<1>7. ASSUME NEW d \in Calls, NEW q \in ExecutionRuns
      PROVE  In(d, queue'[q]) <=> (pc'[d] # "idle" /\ q = RunOf[target'[d]])
  <2>1. In(d, queue'[q]) <=> In(d, queue[q]) \/ (d = c /\ q = r)
    BY <1>1, <1>2, <1>3, <1>4, AppendChain
  <2>2. In(d, queue[q]) <=> (pc[d] # "idle" /\ q = RunOf[target[d]])
    BY ChainTerms
  <2> QED BY <1>2, <1>4, <2>1, <2>2
<1>8. ASSUME NEW d \in inside PROVE AtHead(d)'
  <2>1. AtHead(d) /\ d \in Calls
    BY ChainTerms
  <2>2. pc'[d] # "idle" /\ target'[d] = target[d]
    BY <1>2, <1>4, <2>1 DEF AtHead
  <2>3. RunOf[target[d]] \in ExecutionRuns
    BY RunOfAssumption, ActiveTarget, <2>1 DEF RunOfAssumption, AtHead, TypeOK
  <2>4. queue'[RunOf[target[d]]] # <<>> /\ Head(queue'[RunOf[target[d]]]) = d
    BY <1>1, <1>2, <1>3, <1>4, <2>1, <2>3, AppendChain DEF AtHead, QueueOf
  <2> QED BY <2>2, <2>4 DEF AtHead, QueueOf
<1>9. ASSUME NEW d \in Calls, pc'[d] \notin {"idle", "preparing"} PROVE d \in inside'
  BY <1>2, <1>4, <1>9, ChainTerms
<1> QED BY <1>2, <1>5, <1>6, <1>7, <1>8, <1>9, ChainTerms DEF ChainOK, In, Once

\* A call that leaves lets the next one of its chain come to its head.
LEMMA LeaveChain ==
  ASSUME TypeOK, ChainOK, NEW c \in Calls, AtHead(c), Leaves(c), Release(c)
  PROVE  ChainOK'
<1> DEFINE r == RunOf[target[c]]
           s == queue[r]
<1>0. pc[c] # "idle" /\ s # <<>> /\ Head(s) = c
  BY DEF AtHead, QueueOf
<1>1. r \in ExecutionRuns
  BY <1>0, RunOfAssumption, ActiveTarget DEF RunOfAssumption, TypeOK
<1>2. /\ pc' = [pc EXCEPT ![c] = "idle"] /\ target' = [target EXCEPT ![c] = NoEffect]
      /\ queue' = [queue EXCEPT ![r] = Tail(s)] /\ inside' = inside \ {c}
  BY DEF Leaves, Release
<1>3. s \in Seq(Calls) /\ Once(s)
  BY <1>1, ChainTerms
<1>4. /\ queue \in [ExecutionRuns -> Seq(Calls)] /\ s = queue[r] /\ r = RunOf[target[c]]
      /\ pc \in [Calls -> Places] /\ target \in [Calls -> Effects \cup {NoEffect}]
  BY ChainTerms DEF TypeOK, CallsTypeOK
<1> HIDE DEF r, s
<1>5. queue' \in [ExecutionRuns -> Seq(Calls)]
  BY <1>0, <1>1, <1>2, <1>3, <1>4, TailChain
<1>6. \A q \in ExecutionRuns : Once(queue'[q])
  BY <1>0, <1>1, <1>2, <1>3, <1>4, TailChain, ChainTerms
<1>7. ASSUME NEW d \in Calls, NEW q \in ExecutionRuns
      PROVE  In(d, queue'[q]) <=> (pc'[d] # "idle" /\ q = RunOf[target'[d]])
  <2>1. In(d, queue'[q]) <=> In(d, queue[q]) /\ ~(q = r /\ d = c)
    BY <1>0, <1>1, <1>2, <1>3, <1>4, TailChain
  <2>2. In(d, queue[q]) <=> (pc[d] # "idle" /\ q = RunOf[target[d]])
    BY ChainTerms
  <2> QED BY <1>2, <1>4, <2>1, <2>2
<1>8. ASSUME NEW d \in inside \ {c} PROVE AtHead(d)'
  <2>1. AtHead(d) /\ d \in Calls
    BY ChainTerms
  <2>2. pc'[d] # "idle" /\ target'[d] = target[d]
    BY <1>2, <1>4, <1>8, <2>1 DEF AtHead
  <2>3. RunOf[target[d]] # r
    BY <1>0, <1>4, <1>8, <2>1 DEF AtHead, QueueOf
  <2>4. queue'[RunOf[target[d]]] = queue[RunOf[target[d]]]
    BY <1>2, <1>4, <2>1, <2>3, RunOfAssumption, ActiveTarget
       DEF RunOfAssumption, AtHead, TypeOK
  <2> QED BY <2>1, <2>2, <2>4 DEF AtHead, QueueOf
<1>9. ASSUME NEW d \in Calls, pc'[d] \notin {"idle", "preparing"} PROVE d \in inside'
  BY <1>2, <1>4, <1>9, ChainTerms
<1> QED BY <1>2, <1>5, <1>6, <1>7, <1>8, <1>9, ChainTerms DEF ChainOK, In, Once

\* A call that goes on keeps its place.
LEMMA GoChain ==
  ASSUME TypeOK, ChainOK, NEW c \in inside, Goes(c), UNCHANGED <<queue, inside>>
  PROVE  ChainOK'
<1>1. c \in Calls /\ pc[c] # "idle"
  BY ChainTerms DEF AtHead
<1>2. \A d \in Calls : /\ pc'[d] # "idle" <=> pc[d] # "idle"
                       /\ d # c => pc'[d] = pc[d]
  BY <1>1 DEF Goes, TypeOK, CallsTypeOK
<1> QED BY <1>1, <1>2 DEF Goes, ChainOK, AtHead, QueueOf

LEMMA ChainInit == BarrierInit => ChainOK
  BY RunOfAssumption DEF RunOfAssumption, BarrierInit, Init, ChainOK, AtHead

LEMMA ChainStep == TypeOK /\ ChainOK /\ [BarrierNext]_barrierVars => ChainOK'
<1> SUFFICES ASSUME TypeOK, ChainOK, [BarrierNext]_barrierVars PROVE ChainOK'
  OBVIOUS
<1>1. CASE UNCHANGED <<pc, target, queue, inside>>
  BY <1>1 DEF ChainOK, AtHead, QueueOf
<1>2. ASSUME NEW c \in Calls, Admit(c) PROVE ChainOK'
  <2>1. UNCHANGED <<pc, target, queue>> /\ inside' = inside \cup {c} /\ AtHead(c)
    BY <1>2 DEF Admit, MayEnter, vars, calls
  <2> QED BY <2>1 DEF ChainOK, AtHead, QueueOf
<1>3. ASSUME NEW c \in Calls, TurnAway(c) PROVE ChainOK'
  <2>1. Leaves(c) /\ AtHead(c) /\ Release(c)
    BY <1>3 DEF TurnAway, MayEnter, Refuse, Return, Leaves
  <2> QED BY <2>1, LeaveChain
<1>4. ASSUME NEW c \in Calls, Work(c) PROVE ChainOK'
  <2>1. c \in inside /\ CallStep(c) /\ AtHead(c)
    BY <1>4 DEF Work, CallStep, ChainOK
  <2>2. Leaves(c) \/ Goes(c)
    BY <2>1, CallFrame
  <2>3. CASE pc'[c] = "idle"
    <3>1. Leaves(c)
      BY <2>2, <2>3 DEF Goes, TypeOK, CallsTypeOK
    <3> QED BY <1>4, <2>1, <2>3, <3>1, LeaveChain DEF Work
  <2>4. CASE pc'[c] # "idle"
    <3>1. Goes(c)
      BY <2>2, <2>4 DEF Leaves, TypeOK, CallsTypeOK
    <3> QED BY <1>4, <2>1, <2>4, <3>1, GoChain DEF Work
  <2> QED BY <2>3, <2>4
<1>5. ASSUME NEW c \in Calls, NEW e \in Effects, Arrive(c, e) PROVE ChainOK'
  BY <1>5, ArriveChain
<1>6. CASE BarrierCrash
  BY <1>6, RunOfAssumption DEF RunOfAssumption, BarrierCrash, Crash, ChainOK, AtHead
<1>7. CASE Environment /\ UNCHANGED <<queue, inside>>
  BY <1>1, <1>7 DEF Environment, RequestCancellation, SettleMobileControllerOutcome, Prune, calls
<1>8. CASE UNCHANGED barrierVars
  BY <1>1, <1>8 DEF barrierVars, vars, calls
<1> QED BY <1>2, <1>3, <1>4, <1>5, <1>6, <1>7, <1>8 DEF BarrierNext

\* The chain of an execution run lets one call in at a time.
LEMMA OneInside ==
  ASSUME ChainOK, NEW c \in inside, NEW d \in inside, RunOf[target[c]] = RunOf[target[d]]
  PROVE  c = d
  BY DEF ChainOK, AtHead, QueueOf

(***************************************************************************)
(* Who makes an effect unresolved.                                         *)
(***************************************************************************)
\* A call touches no effect but its own, and is at "planned" only with a planned
\* effect.
LEMMA OwnEffect ==
  ASSUME TypeOK, NEW c \in Calls, DispatchStep(c)
  PROVE  /\ \A f \in Effects \ {target[c]} : effect'[f] = effect[f]
         /\ pc'[c] = "planned" => target'[c] = target[c] /\ effect'[target[c]] = "planned"
<1> USE DEF TypeOK, JournalTypeOK, CallsTypeOK
<1> DEFINE e == target[c]
<1>0. pc[c] # "idle" /\ e \in Effects
  BY CallFrame, ActiveTarget DEF CallStep
<1>p. PrepareToolEffectDispatchState(e) => \A f \in Effects \ {e} : effect'[f] = effect[f]
  BY DEF PrepareToolEffectDispatchState, InsertPlannedJournal, journal
<1>w. CancelUnclaimedDispatch(e) => \A f \in Effects \ {e} : effect'[f] = effect[f]
  BY DEF CancelUnclaimedDispatch, journal
<1>r. ASSUME NEW d, NEW s, RecordSettlement(e, d, s)
      PROVE  \A f \in Effects \ {e} : effect'[f] = effect[f]
  BY <1>r DEF RecordSettlement
<1>1. CASE CallPrepares(c)
  <2>1. CASE PrepareAndPlan(c)
    <3>1. effect'[e] = "planned"
      BY <1>0, <2>1 DEF PrepareAndPlan, PrepareToolEffectDispatchState, InsertPlannedJournal,
         journal
    <3> QED BY <1>p, <2>1, <3>1 DEF PrepareAndPlan, Proceed
  <2>2. CASE Refuse(c, "unavailable") \/ PrepareThenUnavailable(c)
    BY <1>p, <2>2 DEF Refuse, PrepareThenUnavailable, Return, journal
  <2>3. CASE PrepareAndFindClaim(c)
    BY <2>3 DEF PrepareAndFindClaim, ClassifyExistingClaim, Return, Proceed, journal
  <2> QED BY <1>1, <2>1, <2>2, <2>3 DEF CallPrepares
<1>2. CASE CallClaims(c)
  <2>1. CASE ClaimAndStart(c)
    BY <2>1 DEF ClaimAndStart, Proceed
  <2>2. CASE ClaimUnauthorized(c) \/ ClaimCancelled(c)
    BY <1>w, <2>2 DEF ClaimUnauthorized, ClaimCancelled, Return
  <2>3. CASE ClaimExisting(c) \/ ClaimGenerationChanged(c) \/ ClaimFails(c)
    BY <2>3 DEF ClaimExisting, ClassifyExistingClaim, ClaimGenerationChanged, ClaimFails,
       Return, Proceed, journal
  <2> QED BY <1>2, <2>1, <2>2, <2>3 DEF CallClaims
<1>3. CASE CallExecutes(c)
  BY <1>3 DEF CallExecutes, Execute, CallbackThrows, Defer, ExecutorReports, Return, Proceed,
     journal
<1>4. CASE CallSettles(c)
  <2>1. CASE Settle(c)
    BY <1>r, <2>1 DEF Settle, Return
  <2>2. CASE MarkAmbiguous(c)
    BY <2>2 DEF MarkAmbiguous, Return
  <2>3. CASE SettleReplayed(c) \/ SettlementFails(c) \/ MarkNothing(c)
    BY <2>3 DEF SettleReplayed, SettlementFails, MarkNothing, Return, Proceed, journal
  <2> QED BY <1>4, <2>1, <2>2, <2>3 DEF CallSettles
<1> QED BY <1>1, <1>2, <1>3, <1>4 DEF DispatchStep

\* No step resolves less, except that of a call.
Calm == \A f \in Effects : /\ effect'[f] \in Unresolved => effect[f] \in Unresolved
                           /\ effect[f] = "planned" => effect'[f] = "planned"

LEMMA EnvironmentIsCalm ==
  ASSUME Inv, Environment
  PROVE  Calm
<1> USE DEF Inv, TypeOK, JournalTypeOK
<1>1. PICK e \in Effects :
        \/ RequestCancellation(e)
        \/ \E d \in MobileDispositions : SettleMobileControllerOutcome(e, d)
        \/ Prune(e)
  BY DEF Environment
<1>2. CASE RequestCancellation(e)
  BY <1>2 DEF RequestCancellation, Calm
<1>3. CASE \E d \in MobileDispositions : SettleMobileControllerOutcome(e, d)
  <2>1. effect[e] = "started" /\ \A f \in Effects \ {e} : effect'[f] = effect[f]
    BY <1>3 DEF SettleMobileControllerOutcome, RecordSettlement
  <2> QED BY <2>1 DEF Calm, Unresolved
<1>4. CASE Prune(e)
  <2>1. effect[e] # "planned"
    BY <1>4 DEF Prune, IsPrunable, Terminal, JournalInv, RowsAgree
  <2>2. effect'[e] = "absent" /\ \A f \in Effects \ {e} : effect'[f] = effect[f]
    BY <1>4 DEF Prune
  <2> QED BY <2>1, <2>2 DEF Calm, Unresolved
<1> QED BY <1>1, <1>2, <1>3, <1>4

(***************************************************************************)
(* At most one unresolved effect in an execution run.                      *)
(***************************************************************************)
LEMMA CalmKeepsOne ==
  ASSUME OneUnresolvedEffectPerRun, Calm
  PROVE  OneUnresolvedEffectPerRun'
  BY DEF OneUnresolvedEffectPerRun, Calm

LEMMA CalmKeepsAlone ==
  ASSUME NEW c \in Calls, target[c] \in Effects, Alone(c), Calm,
         target'[c] = target[c], pc'[c] = pc[c]
  PROVE  Alone(c)'
  BY DEF Alone, Calm

LEMMA InsideTarget ==
  ASSUME TypeOK, ChainOK, NEW c \in inside
  PROVE  c \in Calls /\ pc[c] # "idle" /\ target[c] \in Effects
<1>1. c \in Calls /\ pc[c] # "idle"
  BY DEF ChainOK, AtHead
<1> QED BY <1>1, ActiveTarget DEF TypeOK

\* An admitted call works on the only effect of its run that may be unresolved.
LEMMA WorkKeepsOne ==
  ASSUME TypeOK, ChainOK, OneUnresolvedEffectPerRun, NEW c \in inside, Alone(c), Work(c)
  PROVE  OneUnresolvedEffectPerRun'
<1> DEFINE e == target[c]
<1>1. c \in Calls /\ e \in Effects
  BY InsideTarget
<1>2. \A f \in Effects \ {e} : effect'[f] = effect[f]
  BY <1>1, OwnEffect DEF Work
<1> HIDE DEF e
<1>3. \A f \in Effects : RunOf[f] = RunOf[e] /\ f # e => effect[f] \notin Unresolved
  BY DEF Alone, e
<1> SUFFICES ASSUME NEW f \in Effects, NEW g \in Effects, RunOf[f] = RunOf[g],
                    effect'[f] \in Unresolved, effect'[g] \in Unresolved
             PROVE  f = g
  BY DEF OneUnresolvedEffectPerRun
<1>4. CASE RunOf[f] = RunOf[e]
  BY <1>2, <1>3, <1>4
<1>5. CASE RunOf[f] # RunOf[e]
  BY <1>2, <1>5 DEF OneUnresolvedEffectPerRun
<1> QED BY <1>4, <1>5

LEMMA WorkKeepsAlone ==
  ASSUME TypeOK, ChainOK, \A d \in inside : Alone(d), NEW c \in inside, Work(c),
         NEW d \in inside'
  PROVE  Alone(d)'
<1>1. c \in Calls /\ target[c] \in Effects /\ pc[c] # "idle"
  BY InsideTarget
<1>2. /\ \A f \in Effects \ {target[c]} : effect'[f] = effect[f]
      /\ pc'[c] = "planned" => target'[c] = target[c] /\ effect'[target[c]] = "planned"
  BY <1>1, OwnEffect DEF Work
<1>3. Leaves(c) \/ Goes(c)
  BY <1>1, CallFrame DEF Work, CallStep
<1>4. d \in inside /\ d \in Calls /\ target[d] \in Effects
  <2>1. d \in inside
    BY DEF Work, Release
  <2> QED BY <2>1, InsideTarget
<1>5. CASE d = c
  <2>1. pc'[c] # "idle"
    BY <1>5 DEF Work, Release
  <2>2. target'[c] = target[c]
    BY <1>1, <1>3, <2>1 DEF Leaves, Goes, TypeOK, CallsTypeOK
  <2> QED BY <1>1, <1>2, <1>5, <2>2 DEF Alone
<1>6. CASE d # c
  <2>1. pc'[d] = pc[d] /\ target'[d] = target[d]
    BY <1>1, <1>3, <1>4, <1>6 DEF Leaves, Goes, TypeOK, CallsTypeOK
  <2>2. RunOf[target[d]] # RunOf[target[c]]
    BY <1>4, <1>6, OneInside
  <2>3. \A f \in Effects : RunOf[f] = RunOf[target[d]] => effect'[f] = effect[f]
    BY <1>2, <2>2
  <2> QED BY <1>4, <2>1, <2>3 DEF Alone
<1> QED BY <1>5, <1>6

LEMMA AdmitKeepsAlone ==
  ASSUME TypeOK, ChainOK, \A d \in inside : Alone(d), NEW c \in Calls, Admit(c),
         NEW d \in inside'
  PROVE  Alone(d)'
<1>1. UNCHANGED <<effect, pc, target>> /\ inside' = inside \cup {c}
  BY DEF Admit, vars, journal, calls
<1>2. CASE d = c
  <2>1. pc[c] # "planned"
    BY DEF Admit, MayEnter, ChainOK
  <2> QED BY <1>1, <1>2, <2>1 DEF Admit, Clear, Alone
<1>3. CASE d # c
  BY <1>1, <1>3 DEF Alone
<1> QED BY <1>2, <1>3

LEMMA BarrierInvInit == BarrierInit => BarrierInv
<1>1. BarrierInit => Inv
  BY InitInv DEF BarrierInit
<1>2. BarrierInit => OneUnresolvedEffectPerRun /\ inside = {}
  BY DEF BarrierInit, Init, OneUnresolvedEffectPerRun, Unresolved
<1> QED BY <1>1, <1>2, ChainInit DEF BarrierInv

LEMMA BarrierInvStep == BarrierInv /\ [BarrierNext]_barrierVars => BarrierInv'
<1> SUFFICES ASSUME BarrierInv, [BarrierNext]_barrierVars PROVE BarrierInv'
  OBVIOUS
<1>1. Inv /\ TypeOK /\ ChainOK /\ OneUnresolvedEffectPerRun /\ \A d \in inside : Alone(d)
  BY DEF BarrierInv, Inv
<1>2. Inv' /\ ChainOK'
  BY <1>1, BarrierStep, NextInv, ChainStep
<1>3. \A d \in inside : d \in Calls /\ pc[d] # "idle" /\ target[d] \in Effects
  BY <1>1, InsideTarget
<1> SUFFICES OneUnresolvedEffectPerRun' /\ \A d \in inside' : Alone(d)'
  BY <1>2 DEF BarrierInv
<1>4. ASSUME Calm, inside' \subseteq inside,
             \A d \in inside' : pc'[d] = pc[d] /\ target'[d] = target[d]
      PROVE  OneUnresolvedEffectPerRun' /\ \A d \in inside' : Alone(d)'
  BY <1>1, <1>3, <1>4, CalmKeepsOne, CalmKeepsAlone
<1>5. UNCHANGED effect => Calm
  BY DEF Calm
<1>6. ASSUME NEW c \in Calls, Admit(c)
      PROVE  OneUnresolvedEffectPerRun' /\ \A d \in inside' : Alone(d)'
  <2>1. UNCHANGED effect
    BY <1>6 DEF Admit, vars, journal
  <2> QED BY <1>1, <1>5, <1>6, <2>1, CalmKeepsOne, AdmitKeepsAlone
<1>7. ASSUME NEW c \in Calls, TurnAway(c)
      PROVE  OneUnresolvedEffectPerRun' /\ \A d \in inside' : Alone(d)'
  <2>1. UNCHANGED effect /\ inside' = inside \ {c} /\ Leaves(c)
    BY <1>7 DEF TurnAway, Refuse, Return, Release, Leaves, journal
  <2>2. \A d \in inside' : pc'[d] = pc[d] /\ target'[d] = target[d]
    BY <1>3, <2>1 DEF Leaves, TypeOK, CallsTypeOK
  <2> QED BY <1>4, <1>5, <2>1, <2>2
<1>8. ASSUME NEW c \in Calls, Work(c)
      PROVE  OneUnresolvedEffectPerRun' /\ \A d \in inside' : Alone(d)'
  <2>1. c \in inside
    BY <1>8 DEF Work
  <2> QED BY <1>1, <1>8, <2>1, WorkKeepsOne, WorkKeepsAlone
<1>9. ASSUME NEW c \in Calls, NEW e \in Effects, Arrive(c, e)
      PROVE  OneUnresolvedEffectPerRun' /\ \A d \in inside' : Alone(d)'
  <2>1. /\ UNCHANGED <<effect, inside>> /\ pc[c] = "idle"
        /\ pc' = [pc EXCEPT ![c] = "preparing"] /\ target' = [target EXCEPT ![c] = e]
    BY <1>9 DEF Arrive, Call, journal
  <2>2. \A d \in inside' : pc'[d] = pc[d] /\ target'[d] = target[d]
    BY <1>1, <1>3, <2>1 DEF TypeOK, CallsTypeOK
  <2> QED BY <1>4, <1>5, <2>1, <2>2
<1>10. CASE Environment /\ UNCHANGED <<queue, inside>>
  <2>1. Calm
    BY <1>1, <1>10, EnvironmentIsCalm
  <2>2. UNCHANGED <<pc, target, inside>>
    BY <1>10 DEF Environment, RequestCancellation, SettleMobileControllerOutcome, Prune, calls
  <2> QED BY <1>4, <2>1, <2>2
<1>11. CASE BarrierCrash
  <2>1. UNCHANGED effect /\ inside' = {}
    BY <1>11 DEF BarrierCrash, Crash, journal
  <2> QED BY <1>4, <1>5, <2>1
<1>12. CASE UNCHANGED barrierVars
  <2>1. UNCHANGED <<effect, pc, target, inside>>
    BY <1>12 DEF barrierVars, vars, journal, calls
  <2> QED BY <1>4, <1>5, <2>1
<1> QED BY <1>6, <1>7, <1>8, <1>9, <1>10, <1>11, <1>12 DEF BarrierNext

\* BarrierInv is an invariant, and so are the parts of it the runs check: the
\* chain of promises and the journal stay in step across crashes,
THEOREM BarrierInvariance == BarrierSpec => []BarrierInv
  BY BarrierInvInit, BarrierInvStep, PTL DEF BarrierSpec

\* the chain of an execution run holds its calls, each once, and admits its head,
THEOREM ChainInvariance == BarrierSpec => []ChainOK
<1>1. BarrierInv => ChainOK
  BY DEF BarrierInv
<1> QED BY <1>1, BarrierInvariance, PTL

\* and no execution run ever has two effects that need reconciliation.
THEOREM OneUnresolved == BarrierSpec => []OneUnresolvedEffectPerRun
<1>1. BarrierInv => OneUnresolvedEffectPerRun
  BY DEF BarrierInv
<1> QED BY <1>1, BarrierInvariance, PTL

(***************************************************************************)
(* A rejection is true.                                                    *)
(***************************************************************************)
\* A call that is under way was told nothing yet.
Unanswered == \A c \in Calls : pc[c] # "idle" => reply[c] = "none"

\* Only the claim rejects, and it runs nothing.
LEMMA CallReply ==
  ASSUME TypeOK, NEW c \in Calls, CallStep(c)
  PROVE  /\ \A d \in Calls \ {c} : reply'[d] = reply[d] /\ pc'[d] = pc[d]
         /\ pc'[c] # "idle" => reply'[c] = reply[c]
         /\ reply'[c] = "rejected" =>
              \/ reply[c] = "rejected"
              \/ pc[c] = "planned" /\ executions' = executions
<1> USE DEF TypeOK, CallsTypeOK
<1>1. ASSUME NEW r, Return(c, r)
      PROVE  /\ \A d \in Calls \ {c} : reply'[d] = reply[d] /\ pc'[d] = pc[d]
             /\ pc'[c] = "idle" /\ reply'[c] = r
  BY <1>1 DEF Return
<1>2. ASSUME NEW p \in Places \ {"idle"}, NEW t, NEW r, Proceed(c, p, t, r)
      PROVE  /\ \A d \in Calls \ {c} : reply'[d] = reply[d] /\ pc'[d] = pc[d]
             /\ reply' = reply
  BY <1>2 DEF Proceed
<1>3. CASE Refuse(c, "reconciliation_required") \/ CallPrepares(c)
  BY <1>1, <1>2, <1>3 DEF CallPrepares, Refuse, PrepareAndPlan, PrepareAndFindClaim,
     ClassifyExistingClaim, PrepareThenUnavailable, Places
<1>4. CASE CallClaims(c)
  <2>1. CASE ClaimUnauthorized(c) \/ ClaimGenerationChanged(c) \/ ClaimCancelled(c)
    BY <1>1, <2>1 DEF ClaimUnauthorized, ClaimGenerationChanged, ClaimCancelled
  <2>2. CASE ClaimExisting(c) \/ ClaimAndStart(c) \/ ClaimFails(c)
    BY <1>1, <1>2, <2>2 DEF ClaimExisting, ClassifyExistingClaim, ClaimAndStart, ClaimFails,
       Places
  <2> QED BY <1>4, <2>1, <2>2 DEF CallClaims
<1>5. CASE CallExecutes(c)
  BY <1>1, <1>2, <1>5 DEF CallExecutes, Execute, CallbackThrows, Defer, ExecutorReports, Places
<1>6. CASE CallSettles(c)
  BY <1>1, <1>2, <1>6 DEF CallSettles, Settle, SettleReplayed, SettlementFails, MarkAmbiguous,
     MarkNothing, Places
<1> QED BY <1>3, <1>4, <1>5, <1>6 DEF CallStep, DispatchStep

LEMMA UnansweredStep == TypeOK /\ Unanswered /\ [Next]_vars => Unanswered'
<1> SUFFICES ASSUME TypeOK, Unanswered, [Next]_vars PROVE Unanswered'
  OBVIOUS
<1>1. CASE UNCHANGED <<pc, reply>>
  BY <1>1 DEF Unanswered
<1>2. ASSUME NEW c \in Calls, CallStep(c) PROVE Unanswered'
  <2>1. pc[c] # "idle"
    BY <1>2, CallFrame
  <2> QED BY <1>2, <2>1, CallReply DEF Unanswered
<1>3. ASSUME NEW c \in Calls, NEW e \in Effects, Call(c, e) PROVE Unanswered'
  BY <1>3 DEF Call, Unanswered, TypeOK, CallsTypeOK
<1>4. CASE Environment
  BY <1>1, <1>4 DEF Environment, RequestCancellation, SettleMobileControllerOutcome, Prune, calls
<1>5. CASE Crash
  BY <1>5 DEF Crash, Unanswered
<1>6. CASE UNCHANGED vars
  BY <1>1, <1>6 DEF vars, calls
<1> QED BY <1>2, <1>3, <1>4, <1>5, <1>6 DEF Next

LEMMA RejectionStep ==
  ASSUME BarrierInv, Unanswered, [BarrierNext]_barrierVars, NEW c \in Calls,
         pc[c] # "idle", reply'[c] = "rejected"
  PROVE  executions'[target[c]] = 0
<1>1. TypeOK /\ ChainOK /\ JournalInv /\ \A d \in inside : Alone(d)
  BY DEF BarrierInv, Inv
<1>2. reply[c] = "none"
  BY DEF Unanswered
<1>3. ASSUME NEW d \in Calls, CallStep(d) PROVE pc[c] = "planned" /\ executions' = executions
  <2>1. c = d
    BY <1>1, <1>2, <1>3, CallReply
  <2> QED BY <1>1, <1>2, <1>3, <2>1, CallReply
<1>4. ASSUME NEW d \in Calls, NEW e \in Effects PROVE ~Call(d, e)
  BY <1>1, <1>2 DEF Call, TypeOK, CallsTypeOK
<1>5. ~Environment /\ ~Crash /\ ~UNCHANGED vars
  BY <1>2 DEF Environment, RequestCancellation, SettleMobileControllerOutcome, Prune, Crash,
     calls, vars
<1>6. pc[c] = "planned" /\ executions' = executions
  BY <1>3, <1>4, <1>5, BarrierStep DEF Next
<1>7. c \in inside /\ target[c] \in Effects
  BY <1>1, <1>6, InsideTarget DEF ChainOK
<1>8. effect[target[c]] = "planned"
  BY <1>1, <1>6, <1>7 DEF Alone
<1> QED BY <1>1, <1>6, <1>7, <1>8 DEF JournalInv, RowsAgree

\* A call that is told its dispatch was rejected is told the truth.
THEOREM RejectionIsTrue == BarrierSpec => RejectedNeverExecuted
<1>1. BarrierInit => Unanswered
  BY DEF BarrierInit, Init, Unanswered
<1>2. BarrierInv => TypeOK
  BY DEF BarrierInv, Inv
<1>3. BarrierInv /\ Unanswered /\ [BarrierNext]_barrierVars => Unanswered'
  BY <1>2, BarrierStep, UnansweredStep
<1>4. BarrierInv /\ Unanswered /\ [BarrierNext]_barrierVars =>
        [\A c \in Calls : pc[c] # "idle" /\ reply'[c] = "rejected"
                            => executions'[target[c]] = 0]_barrierVars
  BY RejectionStep
<1> QED BY <1>1, <1>3, <1>4, BarrierInvariance, PTL DEF BarrierSpec, RejectedNeverExecuted
=============================================================================
