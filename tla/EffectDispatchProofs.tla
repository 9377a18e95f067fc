------------------------ MODULE EffectDispatchProofs ------------------------
(***************************************************************************)
(* Proofs about EffectDispatch, for every set of effects, of calls and     *)
(* bound on retention: Inv is inductive, the safety properties follow from *)
(* it, a settled effect is final, and the journal implements the abstract  *)
(* contract.                                                               *)
(***************************************************************************)
EXTENDS EffectDispatch, TLAPS

(***************************************************************************)
(* Type correctness.                                                       *)
(***************************************************************************)
LEMMA InitType == Init => TypeOK
  BY ConstantsAssumption DEF ConstantsAssumption, Init, TypeOK, JournalTypeOK, CallsTypeOK,
     EffectStatuses, RunStatuses, ControlStates, Places, Replies

\* What a receipt does to the effect and to the run has a type.
LEMMA StatusTypes ==
  ASSUME NEW d \in Dispositions
  PROVE  /\ NextEffectStatus(d) \in EffectStatuses
         /\ RunTerminalStatusFor(NextEffectStatus(d)) \in RunStatuses
         /\ MobileRunStatusFor(NextEffectStatus(d)) \in RunStatuses
  BY DEF Dispositions, NextEffectStatus, RunTerminalStatusFor, MobileRunStatusFor,
         EffectStatuses, RunStatuses, Terminal, Settled, Unresolved

\* The effect of a call that is under way.
LEMMA ActiveTarget ==
  ASSUME CallsTypeOK, NEW c \in Calls, pc[c] # "idle"
  PROVE  target[c] \in Effects
  BY DEF CallsTypeOK

LEMMA ReturnType ==
  ASSUME CallsTypeOK, NEW c \in Calls, NEW r \in Replies, Return(c, r)
  PROVE  CallsTypeOK'
  BY ConstantsAssumption DEF ConstantsAssumption, CallsTypeOK, Return, Places

LEMMA ProceedType ==
  ASSUME CallsTypeOK, NEW c \in Calls, pc[c] # "idle",
         NEW p \in Places \ {"idle"}, NEW t \in Nat, NEW r \in Dispositions \cup {NoReceipt},
         Proceed(c, p, t, r)
  PROVE  CallsTypeOK'
  BY DEF CallsTypeOK, Proceed, Places

\* A journal write leaves the row's time a time, no earlier than it was.
LEMMA WriteType ==
  ASSUME JournalTypeOK, NEW e \in Effects, Write(e) \/ WriteAt(e, updatedAt[e] + 1)
  PROVE  /\ updatedAt' \in [Effects -> Nat]
         /\ updatedAt'[e] \in {updatedAt[e], updatedAt[e] + 1}
         /\ \A f \in Effects \ {e} : updatedAt'[f] = updatedAt[f]
  BY DEF JournalTypeOK, Write, WriteAt

LEMMA PrepareType ==
  ASSUME JournalTypeOK, NEW e \in Effects, PrepareToolEffectDispatchState(e),
         UNCHANGED executions
  PROVE  JournalTypeOK'
<1>1. CASE effect[e] = "absent" /\ InsertPlannedJournal(e)
  <2>1. updatedAt' \in [Effects -> Nat]
    BY <1>1, WriteType DEF InsertPlannedJournal
  <2> QED
    BY <1>1, <2>1 DEF JournalTypeOK, InsertPlannedJournal, EffectStatuses, RunStatuses,
       ControlStates
<1>2. CASE UNCHANGED journal
  BY <1>2 DEF JournalTypeOK, journal
<1> QED BY <1>1, <1>2 DEF PrepareToolEffectDispatchState

LEMMA CancelType ==
  ASSUME JournalTypeOK, NEW e \in Effects, CancelUnclaimedDispatch(e), UNCHANGED executions
  PROVE  JournalTypeOK'
<1>1. CASE IsUnclaimed(e) /\ ~UNCHANGED journal
  <2>1. updatedAt' \in [Effects -> Nat] /\ Write(e)
    BY <1>1, WriteType DEF CancelUnclaimedDispatch
  <2> QED
    BY <1>1, <2>1 DEF CancelUnclaimedDispatch, JournalTypeOK, EffectStatuses, RunStatuses,
       ControlStates, Settled, Terminal
<1>2. CASE UNCHANGED journal
  BY <1>2 DEF JournalTypeOK, journal
<1> QED BY <1>1, <1>2 DEF CancelUnclaimedDispatch

LEMMA RecordType ==
  ASSUME JournalTypeOK, NEW e \in Effects, NEW d \in Dispositions, NEW s \in RunStatuses,
         RecordSettlement(e, d, s), UNCHANGED executions
  PROVE  JournalTypeOK'
<1>1. updatedAt' \in [Effects -> Nat]
  BY WriteType DEF RecordSettlement
<1>2. NextEffectStatus(d) \in EffectStatuses
  BY StatusTypes
<1> QED BY <1>1, <1>2 DEF RecordSettlement, JournalTypeOK, ControlStates

LEMMA PreparesType ==
  ASSUME TypeOK, NEW c \in Calls, CallPrepares(c) \/ Refuse(c, "reconciliation_required")
  PROVE  TypeOK'
<1> USE DEF TypeOK
<1> DEFINE e == target[c]
<1>0. pc[c] = "preparing" /\ e \in Effects
  BY ActiveTarget DEF CallPrepares, Refuse, PrepareAndPlan, PrepareAndFindClaim,
     PrepareThenUnavailable
<1>1. CASE Refuse(c, "unavailable") \/ Refuse(c, "reconciliation_required")
  BY <1>1, ReturnType DEF Refuse, Replies, journal, JournalTypeOK
<1>2. CASE PrepareAndPlan(c)
  <2>1. JournalTypeOK'
    BY <1>0, <1>2, PrepareType DEF PrepareAndPlan
  <2>2. updatedAt'[e] \in Nat
    BY <1>0, <2>1 DEF JournalTypeOK
  <2> QED BY <1>0, <1>2, <2>1, <2>2, ProceedType DEF PrepareAndPlan, Places
<1>3. CASE PrepareAndFindClaim(c)
  <2>1. JournalTypeOK'
    BY <1>3 DEF PrepareAndFindClaim, journal, JournalTypeOK
  <2>2. startedAt[e] \in Nat /\ receipt[e] \in Dispositions \cup {NoReceipt}
    BY <1>0 DEF JournalTypeOK
  <2> QED
    BY <1>0, <1>3, <2>1, <2>2, ProceedType, ReturnType
    DEF PrepareAndFindClaim, ClassifyExistingClaim, Places, Replies
<1>4. CASE PrepareThenUnavailable(c)
  BY <1>0, <1>4, PrepareType, ReturnType DEF PrepareThenUnavailable, Replies
<1> QED BY <1>1, <1>2, <1>3, <1>4 DEF CallPrepares

LEMMA ClaimsType ==
  ASSUME TypeOK, NEW c \in Calls, CallClaims(c)
  PROVE  TypeOK'
<1> USE DEF TypeOK
<1> DEFINE e == target[c]
<1>0. pc[c] = "planned" /\ e \in Effects
  BY ActiveTarget DEF CallClaims, ClaimUnauthorized, ClaimExisting, ClaimGenerationChanged,
     ClaimCancelled, ClaimAndStart, ClaimFails
<1>1. CASE ClaimUnauthorized(c) \/ ClaimCancelled(c)
  BY <1>0, <1>1, CancelType, ReturnType DEF ClaimUnauthorized, ClaimCancelled, Replies
<1>2. CASE ClaimGenerationChanged(c) \/ ClaimFails(c)
  BY <1>2, ReturnType
  DEF ClaimGenerationChanged, ClaimFails, Replies, journal, JournalTypeOK
<1>3. CASE ClaimExisting(c)
  <2>1. JournalTypeOK'
    BY <1>3 DEF ClaimExisting, journal, JournalTypeOK
  <2>2. startedAt[e] \in Nat /\ receipt[e] \in Dispositions \cup {NoReceipt}
    BY <1>0 DEF JournalTypeOK
  <2> QED
    BY <1>0, <1>3, <2>1, <2>2, ProceedType, ReturnType
    DEF ClaimExisting, ClassifyExistingClaim, Places, Replies
<1>4. CASE ClaimAndStart(c)
  <2>1. updatedAt' \in [Effects -> Nat]
    BY <1>0, <1>4, WriteType DEF ClaimAndStart
  <2>2. updatedAt'[e] \in Nat
    BY <1>0, <2>1
  <2>3. JournalTypeOK'
    BY <1>0, <1>4, <2>1, <2>2 DEF ClaimAndStart, JournalTypeOK, EffectStatuses, Unresolved
  <2> QED BY <1>0, <1>4, <2>2, <2>3, ProceedType DEF ClaimAndStart, Places
<1> QED BY <1>1, <1>2, <1>3, <1>4 DEF CallClaims

LEMMA ExecutesType ==
  ASSUME TypeOK, NEW c \in Calls, CallExecutes(c)
  PROVE  TypeOK'
<1> USE DEF TypeOK
<1> DEFINE e == target[c]
<1>0. pc[c] \in {"claimed", "executing"} /\ e \in Effects
  BY ActiveTarget DEF CallExecutes, Execute, CallbackThrows, Defer, ExecutorReports
<1>1. stamp[c] \in Nat
  BY DEF CallsTypeOK
<1>2. CASE Execute(c)
  <2>1. JournalTypeOK'
    BY <1>0, <1>2 DEF Execute, journal, JournalTypeOK
  <2> QED BY <1>0, <1>1, <1>2, <2>1, ProceedType DEF Execute, Places
<1>3. CASE CallbackThrows(c) \/ \E d \in Dispositions : ExecutorReports(c, d)
  BY <1>0, <1>1, <1>3, ProceedType
  DEF CallbackThrows, ExecutorReports, Places, journal, JournalTypeOK
<1>4. CASE Defer(c)
  <2>1. updatedAt' \in [Effects -> Nat]
    BY <1>0, <1>4, WriteType DEF Defer
  <2>2. JournalTypeOK'
    BY <1>0, <1>4, <2>1 DEF Defer, JournalTypeOK, RunStatuses
  <2> QED BY <1>4, <2>2, ReturnType DEF Defer, Replies
<1> QED BY <1>2, <1>3, <1>4 DEF CallExecutes

LEMMA SettlesType ==
  ASSUME TypeOK, NEW c \in Calls, CallSettles(c), pc[c] = "settling" => answer[c] # NoReceipt
  PROVE  TypeOK'
<1> USE DEF TypeOK
<1> DEFINE e == target[c]
<1>0. pc[c] \in {"settling", "doubtful"} /\ e \in Effects
  BY ActiveTarget DEF CallSettles, Settle, SettleReplayed, SettlementFails, MarkAmbiguous,
     MarkNothing
<1>1. CASE Settle(c)
  <2>1. answer[c] \in Dispositions
    BY <1>1 DEF Settle, CallsTypeOK
  <2> QED BY <1>0, <1>1, <2>1, StatusTypes, RecordType, ReturnType DEF Settle, Replies
<1>2. CASE SettleReplayed(c) \/ MarkNothing(c)
  BY <1>2, ReturnType DEF SettleReplayed, MarkNothing, Replies, journal, JournalTypeOK
<1>3. CASE SettlementFails(c)
  <2>1. stamp[c] \in Nat
    BY DEF CallsTypeOK
  <2> QED BY <1>0, <1>3, <2>1, ProceedType
          DEF SettlementFails, Places, journal, JournalTypeOK
<1>4. CASE MarkAmbiguous(c)
  <2>1. updatedAt' \in [Effects -> Nat]
    BY <1>0, <1>4, WriteType DEF MarkAmbiguous
  <2>2. JournalTypeOK'
    BY <1>0, <1>4, <2>1
    DEF MarkAmbiguous, JournalTypeOK, RunStatuses, EffectStatuses, Unresolved, Terminal
  <2> QED BY <1>4, <2>2, ReturnType DEF MarkAmbiguous, Replies
<1> QED BY <1>1, <1>2, <1>3, <1>4 DEF CallSettles

LEMMA EnvironmentType ==
  ASSUME TypeOK, Environment
  PROVE  TypeOK'
<1> USE DEF TypeOK
<1>0. PICK e \in Effects :
        \/ RequestCancellation(e)
        \/ \E d \in MobileDispositions : SettleMobileControllerOutcome(e, d)
        \/ Prune(e)
  BY DEF Environment
<1>1. CASE RequestCancellation(e)
  BY <1>1, WriteType
  DEF RequestCancellation, JournalTypeOK, ControlStates, calls, CallsTypeOK
<1>2. CASE \E d \in MobileDispositions : SettleMobileControllerOutcome(e, d)
  BY <1>2, StatusTypes, RecordType
  DEF SettleMobileControllerOutcome, MobileDispositions, Dispositions, calls, CallsTypeOK
<1>3. CASE Prune(e)
  <2>1. prunes[e] + 1 \in 0..MaxPrunes
    BY <1>3, ConstantsAssumption DEF ConstantsAssumption, Prune, JournalTypeOK
  <2>2. CallsTypeOK'
    BY <1>3 DEF Prune, calls, CallsTypeOK
  <2> QED BY <1>3, <2>1, <2>2
          DEF Prune, JournalTypeOK, EffectStatuses, RunStatuses, ControlStates
<1> QED BY <1>0, <1>1, <1>2, <1>3

LEMMA CallCrashType ==
  ASSUME TypeOK, (\E c \in Calls, e \in Effects : Call(c, e)) \/ Crash
  PROVE  TypeOK'
<1>1. CASE \E c \in Calls, e \in Effects : Call(c, e)
  BY <1>1, ConstantsAssumption
  DEF ConstantsAssumption, TypeOK, JournalTypeOK, CallsTypeOK, Call, journal, Places, Replies
<1>2. CASE Crash
  BY <1>2 DEF TypeOK, JournalTypeOK, CallsTypeOK, Crash, journal, Places, Replies
<1> QED BY <1>1, <1>2

(***************************************************************************)
(* The inductive invariant.                                                *)
(***************************************************************************)
LEMMA InitInv == Init => Inv
  BY InitType DEF Init, Inv, JournalInv, RowsAgree, CallInv, ClaimIntact, OneClaimHolder,
     HoldsOpenClaim

\* A call that returns, changing nothing else.
LEMMA QuietReturn ==
  ASSUME Inv, NEW c \in Calls, NEW r \in Replies, Return(c, r), UNCHANGED <<journal, executions>>
  PROVE  JournalInv' /\ CallInv' /\ OneClaimHolder'
<1> USE DEF Inv, TypeOK, CallsTypeOK, Return, HoldsOpenClaim, journal
<1>1. JournalInv'
  BY DEF JournalInv, RowsAgree
<1>2. CallInv'
  BY DEF CallInv, ClaimIntact
<1>3. OneClaimHolder'
  BY DEF OneClaimHolder
<1> QED BY <1>1, <1>2, <1>3

\* A call that goes on with the claim it has, changing nothing else.
LEMMA QuietProceed ==
  ASSUME Inv, NEW c \in Calls, pc[c] \in {"executing", "settling"},
         NEW p \in {"settling", "doubtful"}, NEW r \in Dispositions \cup {NoReceipt},
         p = "settling" => r # NoReceipt,
         Proceed(c, p, stamp[c], r), UNCHANGED <<journal, executions>>
  PROVE  JournalInv' /\ CallInv' /\ OneClaimHolder'
<1> USE DEF Inv, TypeOK, CallsTypeOK, JournalTypeOK, Proceed, HoldsOpenClaim, journal
<1>1. JournalInv'
  BY DEF JournalInv, RowsAgree
<1>2. CallInv'
  <2>1. target[c] \in Effects
    BY ActiveTarget
  <2> QED BY <2>1 DEF CallInv, ClaimIntact, JournalInv, RowsAgree
<1>3. OneClaimHolder'
  BY DEF OneClaimHolder
<1> QED BY <1>1, <1>2, <1>3

\* A call that finds a settled claim and settles it once more.
LEMMA ClassifyExistingInv ==
  ASSUME Inv, NEW c \in Calls, pc[c] \in {"preparing", "planned"},
         ClassifyExistingClaim(c), UNCHANGED <<journal, executions>>
  PROVE  JournalInv' /\ CallInv' /\ OneClaimHolder'
<1>1. CASE Return(c, "reconciliation_required")
  BY <1>1, QuietReturn DEF Replies
<1>2. CASE receipt[target[c]] # NoReceipt
           /\ Proceed(c, "settling", startedAt[target[c]], receipt[target[c]])
  <2> USE DEF Inv, TypeOK, CallsTypeOK, JournalTypeOK, Proceed, HoldsOpenClaim, journal
  <2>0. /\ target[c] \in Effects
        /\ effect[target[c]] \notin {"absent", "planned", "started"}
    BY <1>2, ActiveTarget DEF JournalInv, RowsAgree
  <2>1. JournalInv'
    BY DEF JournalInv, RowsAgree
  <2>2. CallInv'
    BY <1>2, <2>0 DEF CallInv, ClaimIntact, JournalInv, RowsAgree
  <2>3. OneClaimHolder'
    BY <1>2, <2>0 DEF OneClaimHolder
  <2> QED BY <2>1, <2>2, <2>3
<1> QED BY <1>1, <1>2 DEF ClassifyExistingClaim

LEMMA PrepareInv ==
  ASSUME Inv, NEW c \in Calls, pc[c] = "preparing",
         PrepareToolEffectDispatchState(target[c]), UNCHANGED executions,
         \/ Proceed(c, "planned", updatedAt'[target[c]], NoReceipt)
         \/ Return(c, "unavailable")
  PROVE  JournalInv' /\ CallInv' /\ OneClaimHolder'
<1> DEFINE e == target[c]
<1> USE DEF Inv, TypeOK, CallsTypeOK, JournalTypeOK, HoldsOpenClaim, Proceed, Return
<1>0. e \in Effects
  BY ActiveTarget
<1>1. CASE effect[e] = "absent" /\ InsertPlannedJournal(e)
  <2> USE <1>0, <1>1 DEF InsertPlannedJournal, WriteAt
  <2>1. JournalInv'
    BY DEF JournalInv, RowsAgree
  <2>2. CallInv'
    BY DEF CallInv, ClaimIntact, JournalInv, RowsAgree
  <2>3. OneClaimHolder'
    BY DEF OneClaimHolder
  <2> QED BY <2>1, <2>2, <2>3
<1>2. CASE UNCHANGED journal
  <2> USE <1>0, <1>2 DEF journal
  <2>1. JournalInv'
    BY DEF JournalInv, RowsAgree
  <2>2. CallInv'
    BY DEF CallInv, ClaimIntact
  <2>3. OneClaimHolder'
    BY DEF OneClaimHolder
  <2> QED BY <2>1, <2>2, <2>3
<1> QED BY <1>1, <1>2 DEF PrepareToolEffectDispatchState

LEMMA CancelInv ==
  ASSUME Inv, NEW c \in Calls, pc[c] = "planned", Return(c, "rejected"),
         CancelUnclaimedDispatch(target[c]), UNCHANGED executions
  PROVE  JournalInv' /\ CallInv' /\ OneClaimHolder'
<1> DEFINE e == target[c]
<1>0. e \in Effects
  BY ActiveTarget DEF Inv, TypeOK
<1>1. CASE UNCHANGED journal
  BY <1>1, QuietReturn DEF Replies
<1>2. CASE IsUnclaimed(e)
  <2>1. /\ effect[e] = "planned" /\ run[e] = "running"
        /\ effect'    = [effect EXCEPT ![e] = "cancelled"]
        /\ run'       = [run EXCEPT ![e] = "cancelled"]
        /\ control'   = [control EXCEPT ![e] = "cancelled"]
        /\ startedAt' = [startedAt EXCEPT ![e] = updatedAt'[e]]
        /\ Write(e)
        /\ UNCHANGED receipt
    BY <1>2 DEF CancelUnclaimedDispatch, IsUnclaimed
  <2>2. /\ updatedAt' \in [Effects -> Nat]
        /\ updatedAt'[e] \in {updatedAt[e], updatedAt[e] + 1}
        /\ \A f \in Effects \ {e} : updatedAt'[f] = updatedAt[f]
    BY <1>0, <2>1, WriteType DEF Inv, TypeOK
  <2> HIDE DEF e
  <2> USE <1>0, <2>1, <2>2 DEF Inv, TypeOK, CallsTypeOK, JournalTypeOK
  <2>3. JournalInv'
    <3> SUFFICES ASSUME NEW f \in Effects PROVE RowsAgree(f)'
      BY DEF JournalInv
    <3>1. RowsAgree(f)
      BY DEF JournalInv
    <3>2. CASE f = e
      BY <3>1, <3>2 DEF RowsAgree
    <3>3. CASE f # e
      BY <3>1, <3>3 DEF RowsAgree
    <3> QED BY <3>2, <3>3
  <2>4. CallInv'
    BY DEF CallInv, ClaimIntact, JournalInv, RowsAgree, HoldsOpenClaim, Return, e
  <2>5. OneClaimHolder'
    BY DEF OneClaimHolder, HoldsOpenClaim, Return, e
  <2> QED BY <2>3, <2>4, <2>5
<1> QED BY <1>1, <1>2 DEF CancelUnclaimedDispatch

LEMMA ClaimAndStartInv ==
  ASSUME Inv, NEW c \in Calls, ClaimAndStart(c)
  PROVE  JournalInv' /\ CallInv' /\ OneClaimHolder'
<1> DEFINE e == target[c]
<1>0. pc[c] = "planned" /\ e \in Effects
  BY ActiveTarget DEF ClaimAndStart, Inv, TypeOK
<1>1. /\ effect[e] = "planned"
      /\ effect'    = [effect EXCEPT ![e] = "started"]
      /\ startedAt' = [startedAt EXCEPT ![e] = updatedAt'[e]]
      /\ Proceed(c, "claimed", updatedAt'[e], NoReceipt)
      /\ Write(e)
      /\ UNCHANGED <<run, control, receipt, executions>>
  BY DEF ClaimAndStart, CandidateMatchesSnapshot
<1>2. /\ updatedAt' \in [Effects -> Nat]
      /\ updatedAt'[e] \in {updatedAt[e], updatedAt[e] + 1}
      /\ \A f \in Effects \ {e} : updatedAt'[f] = updatedAt[f]
  BY <1>0, <1>1, WriteType DEF Inv, TypeOK
<1> HIDE DEF e
<1> USE <1>0, <1>1, <1>2 DEF Inv, TypeOK, CallsTypeOK, JournalTypeOK
\* No call holds a claim of e yet: those it may still settle are of a deleted run.
<1>3. \A d \in Calls : target[d] = e =>
        /\ pc[d] \notin {"claimed", "executing"}
        /\ pc[d] \in {"settling", "doubtful"} => stamp[d] < updatedAt'[e]
  BY DEF CallInv, ClaimIntact, HoldsOpenClaim
<1>4. JournalInv'
  BY DEF JournalInv, RowsAgree
<1>5. CallInv'
  BY <1>3 DEF CallInv, ClaimIntact, JournalInv, RowsAgree, HoldsOpenClaim, Proceed, e
<1>6. OneClaimHolder'
  BY <1>3 DEF OneClaimHolder, HoldsOpenClaim, Proceed, e
<1> QED BY <1>4, <1>5, <1>6

LEMMA ExecuteInv ==
  ASSUME Inv, NEW c \in Calls, Execute(c)
  PROVE  JournalInv' /\ CallInv' /\ OneClaimHolder'
<1> DEFINE e == target[c]
<1>0. pc[c] = "claimed" /\ e \in Effects
  BY ActiveTarget DEF Execute, Inv, TypeOK
<1>1. HoldsOpenClaim(c) /\ executions[e] = 0
  BY <1>0 DEF Inv, CallInv, ClaimIntact
<1> USE <1>0, <1>1 DEF Execute, Inv, TypeOK, CallsTypeOK, JournalTypeOK, journal
<1>2. JournalInv'
  BY DEF JournalInv, RowsAgree, HoldsOpenClaim
<1>3. CallInv'
  BY DEF CallInv, ClaimIntact, JournalInv, RowsAgree, OneClaimHolder, HoldsOpenClaim, Proceed
<1>4. OneClaimHolder'
  BY DEF OneClaimHolder, HoldsOpenClaim, Proceed
<1> QED BY <1>2, <1>3, <1>4

LEMMA DeferInv ==
  ASSUME Inv, NEW c \in Calls, Defer(c)
  PROVE  JournalInv' /\ CallInv' /\ OneClaimHolder'
<1> DEFINE e == target[c]
<1>0. pc[c] = "executing" /\ e \in Effects
  BY ActiveTarget DEF Defer, Inv, TypeOK
<1>1. HoldsOpenClaim(c) /\ executions[e] = 1
  BY <1>0 DEF Inv, CallInv, ClaimIntact
<1>2. /\ effect[e] = "started" /\ receipt[e] = NoReceipt
      /\ run' = [run EXCEPT ![e] = "waiting"]
      /\ Return(c, "deferred")
      /\ Write(e)
      /\ UNCHANGED <<effect, control, receipt, startedAt, executions>>
  BY DEF Defer
<1>3. /\ updatedAt' \in [Effects -> Nat]
      /\ updatedAt'[e] \in {updatedAt[e], updatedAt[e] + 1}
      /\ \A f \in Effects \ {e} : updatedAt'[f] = updatedAt[f]
  BY <1>0, <1>2, WriteType DEF Inv, TypeOK
<1> USE <1>0, <1>1, <1>2, <1>3 DEF Inv, TypeOK, CallsTypeOK, JournalTypeOK
<1>4. JournalInv'
  BY DEF JournalInv, RowsAgree
<1>5. CallInv'
  BY DEF CallInv, ClaimIntact, OneClaimHolder, HoldsOpenClaim, Return
<1>6. OneClaimHolder'
  BY DEF OneClaimHolder, HoldsOpenClaim, Return
<1> QED BY <1>4, <1>5, <1>6

\* What a settlement writes agrees with the receipt, whichever store writes it.
LEMMA SettlementStatuses ==
  ASSUME NEW d \in Dispositions, NEW s,
         \/ s = RunTerminalStatusFor(NextEffectStatus(d))
         \/ s = MobileRunStatusFor(NextEffectStatus(d))
  PROVE  LET n == NextEffectStatus(d) IN
         /\ n \in {"returned", "verified", "applied", "failed", "cancelled", "ambiguous"}
         /\ n \in {"applied", "ambiguous"} => s = "ambiguous"
         /\ n = "returned" => s \in {"succeeded", "ambiguous"}
         /\ n = "verified" => s = "succeeded"
         /\ n \in {"failed", "cancelled"} => s = n
         /\ s # "waiting" /\ (s = "cancelled" => n = "cancelled")
  BY DEF Dispositions, NextEffectStatus, RunTerminalStatusFor, MobileRunStatusFor

\* Recording the outcome of a started effect that was executed.
LEMMA RecordInv ==
  ASSUME Inv, NEW e \in Effects, NEW d \in Dispositions, NEW s,
         \/ s = RunTerminalStatusFor(NextEffectStatus(d))
         \/ s = MobileRunStatusFor(NextEffectStatus(d)),
         effect[e] = "started", executions[e] = 1,
         RecordSettlement(e, d, s), UNCHANGED executions
  PROVE  /\ JournalInv'
         /\ effect'[e] \notin {"absent", "planned", "started"}
         /\ \A f \in Effects \ {e} :
              UNCHANGED <<effect[f], run[f], startedAt[f], updatedAt[f]>>
         /\ updatedAt'[e] >= updatedAt[e]
<1> DEFINE n == NextEffectStatus(d)
<1>0. /\ n \in {"returned", "verified", "applied", "failed", "cancelled", "ambiguous"}
      /\ n \in {"applied", "ambiguous"} => s = "ambiguous"
      /\ n = "returned" => s \in {"succeeded", "ambiguous"}
      /\ n = "verified" => s = "succeeded"
      /\ n \in {"failed", "cancelled"} => s = n
      /\ s # "waiting" /\ (s = "cancelled" => n = "cancelled")
  BY SettlementStatuses
<1>1. /\ receipt' = [receipt EXCEPT ![e] = d]
      /\ effect'  = [effect EXCEPT ![e] = n]
      /\ run'     = [run EXCEPT ![e] = s]
      /\ control' = IF s = "cancelled" THEN [control EXCEPT ![e] = "cancelled"] ELSE control
      /\ Write(e)
      /\ UNCHANGED startedAt
  BY DEF RecordSettlement
<1>2. /\ updatedAt' \in [Effects -> Nat]
      /\ updatedAt'[e] \in {updatedAt[e], updatedAt[e] + 1}
      /\ \A f \in Effects \ {e} : updatedAt'[f] = updatedAt[f]
  BY <1>1, WriteType DEF Inv, TypeOK
<1>3. d # NoReceipt
  BY ConstantsAssumption DEF ConstantsAssumption
<1>4. n = NextEffectStatus(d)
  OBVIOUS
<1> HIDE DEF n
<1> USE <1>0, <1>1, <1>2, <1>3, <1>4 DEF Inv, TypeOK, JournalTypeOK
<1>5. ASSUME NEW f \in Effects PROVE RowsAgree(f)'
  <2>1. CASE f = e
    BY <2>1 DEF JournalInv, RowsAgree
  <2>2. CASE f # e
    BY <2>2 DEF JournalInv, RowsAgree
  <2> QED BY <2>1, <2>2
<1> QED BY <1>5 DEF JournalInv

LEMMA SettleInv ==
  ASSUME Inv, NEW c \in Calls, Settle(c)
  PROVE  JournalInv' /\ CallInv' /\ OneClaimHolder'
<1> DEFINE e == target[c]
           s == RunTerminalStatusFor(NextEffectStatus(answer[c]))
<1>0. pc[c] = "settling" /\ e \in Effects
  BY ActiveTarget DEF Settle, Inv, TypeOK
<1>1. HoldsOpenClaim(c) /\ executions[e] = 1 /\ answer[c] \in Dispositions
  BY <1>0 DEF Settle, Inv, TypeOK, CallsTypeOK, CallInv, ClaimIntact, HoldsOpenClaim
<1>2. RecordSettlement(e, answer[c], s) /\ Return(c, "executed") /\ UNCHANGED executions
  BY DEF Settle
<1>3. /\ JournalInv'
      /\ effect'[e] \notin {"absent", "planned", "started"}
      /\ \A f \in Effects \ {e} :
           UNCHANGED <<effect[f], run[f], startedAt[f], updatedAt[f]>>
      /\ updatedAt'[e] >= updatedAt[e]
  BY <1>0, <1>1, <1>2, RecordInv DEF HoldsOpenClaim
<1>4. updatedAt' \in [Effects -> Nat]
  BY <1>0, <1>2, WriteType DEF RecordSettlement, Inv, TypeOK
<1> HIDE DEF e, s
<1> USE <1>0, <1>1, <1>2, <1>3, <1>4 DEF Inv, TypeOK, CallsTypeOK, JournalTypeOK
<1>5. CallInv'
  BY DEF CallInv, ClaimIntact, OneClaimHolder, HoldsOpenClaim, Return, e
<1>6. OneClaimHolder'
  BY DEF OneClaimHolder, HoldsOpenClaim, Return, e
<1> QED BY <1>5, <1>6

\* A parked effect is in no call's hands.
LEMMA MobileSettleInv ==
  ASSUME Inv, NEW e \in Effects, NEW d \in MobileDispositions,
         SettleMobileControllerOutcome(e, d)
  PROVE  JournalInv' /\ CallInv' /\ OneClaimHolder'
<1> DEFINE s == MobileRunStatusFor(NextEffectStatus(d))
<1>0. d \in Dispositions
  BY DEF MobileDispositions, Dispositions
<1>1. run[e] = "waiting" /\ effect[e] = "started" /\ executions[e] = 1
  BY DEF SettleMobileControllerOutcome, Inv, JournalInv, RowsAgree
<1>2. RecordSettlement(e, d, s) /\ UNCHANGED <<calls, executions>>
  BY DEF SettleMobileControllerOutcome
<1>3. /\ JournalInv'
      /\ effect'[e] \notin {"absent", "planned", "started"}
      /\ \A f \in Effects \ {e} :
           UNCHANGED <<effect[f], run[f], startedAt[f], updatedAt[f]>>
      /\ updatedAt'[e] >= updatedAt[e]
  BY <1>0, <1>1, <1>2, RecordInv
<1>4. updatedAt' \in [Effects -> Nat]
  BY <1>2, WriteType DEF RecordSettlement, Inv, TypeOK
<1> HIDE DEF s
<1> USE <1>1, <1>2, <1>3, <1>4 DEF Inv, TypeOK, CallsTypeOK, JournalTypeOK, calls
<1>5. CallInv'
  BY DEF CallInv, ClaimIntact, HoldsOpenClaim
<1>6. OneClaimHolder'
  BY DEF OneClaimHolder, HoldsOpenClaim
<1> QED BY <1>3, <1>5, <1>6

LEMMA MarkAmbiguousInv ==
  ASSUME Inv, NEW c \in Calls, MarkAmbiguous(c)
  PROVE  JournalInv' /\ CallInv' /\ OneClaimHolder'
<1> DEFINE e == target[c]
<1>0. pc[c] = "doubtful" /\ e \in Effects
  BY ActiveTarget DEF MarkAmbiguous, Inv, TypeOK
<1>1. /\ executions[e] = 1
      /\ effect[e] \in {"started", "applied"} /\ startedAt[e] = stamp[c]
      /\ run[e] \in {"running", "ambiguous"}
  BY <1>0 DEF MarkAmbiguous, HoldsClaim, Inv, CallInv, ClaimIntact, HoldsOpenClaim,
     JournalInv, RowsAgree
<1>2. /\ effect' = [effect EXCEPT ![e] = "ambiguous"]
      /\ run'    = [run EXCEPT ![e] = "ambiguous"]
      /\ Write(e)
      /\ Return(c, "reconciliation_required")
      /\ UNCHANGED <<control, receipt, startedAt, executions>>
  BY <1>1 DEF MarkAmbiguous, Terminal
<1>3. /\ updatedAt' \in [Effects -> Nat]
      /\ updatedAt'[e] \in {updatedAt[e], updatedAt[e] + 1}
      /\ \A f \in Effects \ {e} : updatedAt'[f] = updatedAt[f]
  BY <1>0, <1>2, WriteType DEF Inv, TypeOK
<1> HIDE DEF e
<1> USE <1>0, <1>1, <1>2, <1>3 DEF Inv, TypeOK, CallsTypeOK, JournalTypeOK
<1>4. JournalInv'
  BY DEF JournalInv, RowsAgree
<1>5. CallInv'
  BY DEF CallInv, ClaimIntact, OneClaimHolder, HoldsOpenClaim, Return, e
<1>6. OneClaimHolder'
  BY DEF OneClaimHolder, HoldsOpenClaim, Return, e
<1> QED BY <1>4, <1>5, <1>6

LEMMA RequestCancellationInv ==
  ASSUME Inv, NEW e \in Effects, RequestCancellation(e)
  PROVE  JournalInv' /\ CallInv' /\ OneClaimHolder'
<1> USE DEF Inv, TypeOK, CallsTypeOK, JournalTypeOK, RequestCancellation, WriteAt, calls
<1>1. JournalInv'
  BY DEF JournalInv, RowsAgree, Terminal
<1>2. CallInv'
  BY DEF CallInv, ClaimIntact, HoldsOpenClaim
<1>3. OneClaimHolder'
  BY DEF OneClaimHolder, HoldsOpenClaim
<1> QED BY <1>1, <1>2, <1>3

LEMMA PruneInv ==
  ASSUME Inv, NEW e \in Effects, Prune(e)
  PROVE  JournalInv' /\ CallInv' /\ OneClaimHolder'
<1>0. effect[e] \in Settled
  BY DEF Prune, IsPrunable, Terminal, Settled, Inv, TypeOK, JournalTypeOK, EffectStatuses,
     Unresolved, JournalInv, RowsAgree
<1> USE <1>0 DEF Inv, TypeOK, CallsTypeOK, JournalTypeOK, Prune, calls, Settled
<1>1. JournalInv'
  BY DEF JournalInv, RowsAgree
<1>2. CallInv'
  BY DEF CallInv, ClaimIntact, HoldsOpenClaim
<1>3. OneClaimHolder'
  BY DEF OneClaimHolder, HoldsOpenClaim
<1> QED BY <1>1, <1>2, <1>3

LEMMA CallCrashInv ==
  ASSUME Inv, (\E c \in Calls, e \in Effects : Call(c, e)) \/ Crash
  PROVE  JournalInv' /\ CallInv' /\ OneClaimHolder'
<1> USE DEF Inv, TypeOK, CallsTypeOK, JournalTypeOK, journal
<1>1. CASE \E c \in Calls, e \in Effects : Call(c, e)
  BY <1>1 DEF Call, JournalInv, RowsAgree, CallInv, ClaimIntact, OneClaimHolder, HoldsOpenClaim
<1>2. CASE Crash
  BY <1>2 DEF Crash, JournalInv, RowsAgree, CallInv, ClaimIntact, OneClaimHolder, HoldsOpenClaim
<1> QED BY <1>1, <1>2

\* Inv is inductive: one case for each action of Next.
LEMMA NextInv == Inv /\ [Next]_vars => Inv'
<1> SUFFICES ASSUME Inv, [Next]_vars PROVE Inv'
  OBVIOUS
<1>0. TypeOK /\ CallInv
  BY DEF Inv
<1>1. ASSUME NEW c \in Calls, CallStep(c) PROVE Inv'
  <2>1. CASE Refuse(c, "reconciliation_required") \/ CallPrepares(c)
    <3>1. TypeOK'
      BY <1>0, <2>1, PreparesType
    <3>2. CASE Refuse(c, "reconciliation_required") \/ Refuse(c, "unavailable")
      BY <3>1, <3>2, QuietReturn DEF Inv, Refuse, Replies
    <3>3. CASE PrepareAndPlan(c) \/ PrepareThenUnavailable(c)
      BY <3>1, <3>3, PrepareInv DEF Inv, PrepareAndPlan, PrepareThenUnavailable
    <3>4. CASE PrepareAndFindClaim(c)
      BY <3>1, <3>4, ClassifyExistingInv DEF Inv, PrepareAndFindClaim
    <3> QED BY <2>1, <3>2, <3>3, <3>4 DEF CallPrepares
  <2>2. CASE CallClaims(c)
    <3>1. TypeOK'
      BY <1>0, <2>2, ClaimsType
    <3>2. CASE ClaimUnauthorized(c) \/ ClaimCancelled(c)
      BY <3>1, <3>2, CancelInv DEF Inv, ClaimUnauthorized, ClaimCancelled
    <3>3. CASE ClaimExisting(c)
      BY <3>1, <3>3, ClassifyExistingInv DEF Inv, ClaimExisting
    <3>4. CASE ClaimGenerationChanged(c) \/ ClaimFails(c)
      BY <3>1, <3>4, QuietReturn DEF Inv, ClaimGenerationChanged, ClaimFails, Replies
    <3>5. CASE ClaimAndStart(c)
      BY <3>1, <3>5, ClaimAndStartInv DEF Inv
    <3> QED BY <2>2, <3>2, <3>3, <3>4, <3>5 DEF CallClaims
  <2>3. CASE CallExecutes(c)
    <3>1. TypeOK'
      BY <1>0, <2>3, ExecutesType
    <3>2. CASE Execute(c)
      BY <3>1, <3>2, ExecuteInv DEF Inv
    <3>3. CASE CallbackThrows(c)
      BY <3>1, <3>3, QuietProceed DEF Inv, CallbackThrows
    <3>4. CASE Defer(c)
      BY <3>1, <3>4, DeferInv DEF Inv
    <3>5. CASE \E d \in Dispositions : ExecutorReports(c, d)
      BY <3>1, <3>5, QuietProceed, ConstantsAssumption
      DEF ConstantsAssumption, Inv, ExecutorReports
    <3> QED BY <2>3, <3>2, <3>3, <3>4, <3>5 DEF CallExecutes
  <2>4. CASE CallSettles(c)
    <3>0. pc[c] = "settling" => answer[c] # NoReceipt
      BY <1>0 DEF CallInv, ClaimIntact
    <3>1. TypeOK'
      BY <1>0, <2>4, <3>0, SettlesType
    <3>2. CASE Settle(c)
      BY <3>1, <3>2, SettleInv DEF Inv
    <3>3. CASE SettleReplayed(c) \/ MarkNothing(c)
      BY <3>1, <3>3, QuietReturn DEF Inv, SettleReplayed, MarkNothing, Replies
    <3>4. CASE SettlementFails(c)
      BY <3>1, <3>4, QuietProceed DEF Inv, SettlementFails
    <3>5. CASE MarkAmbiguous(c)
      BY <3>1, <3>5, MarkAmbiguousInv DEF Inv
    <3> QED BY <2>4, <3>2, <3>3, <3>4, <3>5 DEF CallSettles
  <2> QED BY <1>1, <2>1, <2>2, <2>3, <2>4 DEF CallStep, DispatchStep
<1>2. CASE (\E c \in Calls, e \in Effects : Call(c, e)) \/ Crash
  BY <1>0, <1>2, CallCrashType, CallCrashInv DEF Inv
<1>3. CASE Environment
  <2>1. TypeOK'
    BY <1>0, <1>3, EnvironmentType
  <2>2. JournalInv' /\ CallInv' /\ OneClaimHolder'
    BY <1>3, RequestCancellationInv, MobileSettleInv, PruneInv DEF Environment
  <2> QED BY <2>1, <2>2 DEF Inv
<1>4. CASE UNCHANGED vars
  BY <1>4 DEF vars, journal, calls, Inv, TypeOK, JournalTypeOK, CallsTypeOK, JournalInv,
     RowsAgree, CallInv, ClaimIntact, OneClaimHolder, HoldsOpenClaim
<1> QED BY <1>1, <1>2, <1>3, <1>4 DEF Next

(***************************************************************************)
(* The theorems.                                                           *)
(***************************************************************************)
\* Rows, claims and executions stay in step, in every reachable state of the
\* dispatch store and its callers.
THEOREM Invariance == Spec => []Inv
BY InitInv, NextInv, PTL DEF Spec

\* Every row and every call of the dispatch store holds a value of its type.
THEOREM TypeCorrectness == Spec => []TypeOK
<1>1. Inv => TypeOK
  BY DEF Inv
<1> QED BY <1>1, Invariance, PTL

\* claimAndStart admits one execution of an effect, for any number of rivals,
\* retries, crashes and cancellations, while its run is retained.
THEOREM AtMostOnce == Spec => []ExecutedAtMostOnce
<1>1. Inv => ExecutedAtMostOnce
  <2> SUFFICES ASSUME Inv, NEW e \in Effects PROVE executions[e] <= 1
    BY DEF ExecutedAtMostOnce
  <2>1. executions[e] \in Nat /\ executions[e] \in {0, 1}
    BY DEF Inv, TypeOK, JournalTypeOK, JournalInv, RowsAgree
  <2> QED BY <2>1
<1> QED BY <1>1, Invariance, PTL

\* The started_at of a claim identifies the call that holds it, even if journal
\* writes share a millisecond.
THEOREM SingleClaimHolder == Spec => []OneClaimHolder
<1>1. Inv => OneClaimHolder
  BY DEF Inv
<1> QED BY <1>1, Invariance, PTL

\* Both settlement paths, the rejection and the ambiguity mark write a status of
\* the run that is true of its effect: a closed run has the outcome of its effect,
\* and an ambiguous one stands for an effect applied, in doubt, or returned.
THEOREM RunAndEffectAgree == Spec => []RunTellsEffect
<1>1. Inv => RunTellsEffect
  BY DEF Inv, RunTellsEffect, TypeOK, JournalTypeOK, JournalInv, RowsAgree, EffectStatuses,
     Unresolved, Settled, Terminal
<1> QED BY <1>1, Invariance, PTL

\* cancelUnclaimedDispatch closes only effects that no call executed or will.
THEOREM WithdrawalIsSafe == Spec => []WithdrawnNeverRan
<1>1. Inv => WithdrawnNeverRan
  BY DEF Inv, WithdrawnNeverRan, JournalInv, RowsAgree, CallInv, ClaimIntact, HoldsOpenClaim
<1> QED BY <1>1, Invariance, PTL

\* Whenever the process dies, classifyRow reports an executed effect as one that
\* was dispatched, and reports success only for a verified receipt.
THEOREM RestartIsSafe == Spec => []RestartNeverForgetsAnExecution
<1>1. Inv => RestartNeverForgetsAnExecution
  <2> SUFFICES ASSUME Inv, NEW e \in Effects
               PROVE  /\ executions[e] > 0 => RestartDisposition(e) # "not_dispatched"
                      /\ RestartDisposition(e) = "verified" =>
                           executions[e] = 1 /\ receipt[e] = "verified"
    BY DEF RestartNeverForgetsAnExecution
  <2>1. RowsAgree(e) /\ receipt[e] \in Dispositions \cup {NoReceipt}
    BY DEF Inv, JournalInv, TypeOK, JournalTypeOK
  <2>2. executions[e] > 0 => effect[e] \notin {"absent", "planned"}
    BY <2>1 DEF RowsAgree
  <2>3. executions[e] > 0 => RestartDisposition(e) # "not_dispatched"
    BY <2>2 DEF RestartDisposition
  <2>4. RestartDisposition(e) = "verified" => effect[e] = "verified" /\ receipt[e] # NoReceipt
    BY DEF RestartDisposition
  <2>5. receipt[e] # NoReceipt /\ effect[e] = "verified" =>
          executions[e] = 1 /\ NextEffectStatus(receipt[e]) = "verified"
    BY <2>1 DEF RowsAgree
  <2>6. receipt[e] \in Dispositions /\ NextEffectStatus(receipt[e]) = "verified" =>
          receipt[e] = "verified"
    BY DEF Dispositions, NextEffectStatus
  <2> QED BY <2>1, <2>3, <2>4, <2>5, <2>6
<1> QED BY <1>1, Invariance, PTL

(***************************************************************************)
(* What a step does to one effect: it leaves the effect alone, or makes    *)
(* one of the moves of the contract (or a move the contract does not see). *)
(***************************************************************************)
\* The effect and what is known of it are as before.
Same(e) == /\ effect'[e] = effect[e] /\ receipt'[e] = receipt[e]
           /\ executions'[e] = executions[e]

\* The moves, as the journal makes them.
Planned(e)   == effect[e] = "absent" /\ effect'[e] = "planned" /\ executions'[e] = executions[e]
Launched(e)  == effect[e] = "planned" /\ effect'[e] = "started" /\ executions'[e] = executions[e]
Withdrawn(e) == /\ effect[e] = "planned" /\ effect'[e] = "cancelled"
                /\ receipt'[e] = NoReceipt /\ executions'[e] = executions[e]
Ran(e)       == /\ effect[e] = "started" /\ executions[e] = 0
                /\ effect'[e] = effect[e] /\ receipt'[e] = receipt[e] /\ executions'[e] = 1
Reported(e)  == /\ effect[e] = "started" /\ executions[e] = 1 /\ executions'[e] = 1
                /\ effect'[e] \in {"applied", "ambiguous"} \cup Settled
                /\ effect'[e] = "cancelled" => receipt'[e] # NoReceipt
Doubted(e)   == effect[e] = "applied" /\ effect'[e] = "ambiguous" /\ executions'[e] = executions[e]
Forgotten(e) == effect[e] \in Settled /\ effect'[e] = "absent" /\ executions'[e] = 0

Moved(e) == \/ Same(e) \/ Planned(e) \/ Launched(e) \/ Withdrawn(e)
            \/ Ran(e) \/ Reported(e) \/ Doubted(e) \/ Forgotten(e)

\* A step moves at most one effect.
OneMove == \E e \in Effects : Moved(e) /\ \A f \in Effects \ {e} : Same(f)

Still == \A e \in Effects : Same(e)

LEMMA RecordMove ==
  ASSUME Inv, NEW e \in Effects, NEW d \in Dispositions, NEW s,
         effect[e] = "started", executions[e] = 1,
         RecordSettlement(e, d, s), UNCHANGED executions
  PROVE  OneMove
<1>1. /\ receipt' = [receipt EXCEPT ![e] = d]
      /\ effect'  = [effect EXCEPT ![e] = NextEffectStatus(d)]
  BY DEF RecordSettlement
<1>2. NextEffectStatus(d) \in {"applied", "ambiguous"} \cup Settled
  BY DEF Dispositions, NextEffectStatus, Settled
<1>3. d # NoReceipt
  BY ConstantsAssumption DEF ConstantsAssumption
<1>4. Reported(e) /\ \A f \in Effects \ {e} : Same(f)
  BY <1>1, <1>2, <1>3 DEF Reported, Same, Inv, TypeOK, JournalTypeOK
<1> QED BY <1>4 DEF OneMove, Moved

LEMMA CallMoves ==
  ASSUME Inv, NEW c \in Calls, CallStep(c)
  PROVE  Still \/ OneMove
<1> DEFINE e == target[c]
<1> USE DEF Inv, TypeOK, JournalTypeOK
<1>0. pc[c] # "idle" => e \in Effects
  BY ActiveTarget
<1>a. UNCHANGED <<journal, executions>> => Still
  BY DEF Still, Same, journal
<1>b. ASSUME PrepareToolEffectDispatchState(e), UNCHANGED executions, e \in Effects
      PROVE  Still \/ OneMove
  <2>1. CASE effect[e] = "absent" /\ InsertPlannedJournal(e)
    BY <1>b, <2>1 DEF InsertPlannedJournal, OneMove, Moved, Planned, Same
  <2> QED BY <1>a, <1>b, <2>1 DEF PrepareToolEffectDispatchState
<1>c. ASSUME CancelUnclaimedDispatch(e), UNCHANGED executions, e \in Effects
      PROVE  Still \/ OneMove
  <2>1. CASE IsUnclaimed(e)
    <3>1. /\ effect[e] = "planned" /\ receipt[e] = NoReceipt
          /\ effect' = [effect EXCEPT ![e] = "cancelled"] /\ UNCHANGED receipt
      BY <1>c, <2>1 DEF CancelUnclaimedDispatch, IsUnclaimed, JournalInv, RowsAgree
    <3> QED BY <1>c, <3>1 DEF OneMove, Moved, Withdrawn, Same
  <2> QED BY <1>a, <1>c, <2>1 DEF CancelUnclaimedDispatch
<1>1. CASE Refuse(c, "reconciliation_required") \/ CallPrepares(c)
  BY <1>0, <1>1, <1>a, <1>b DEF Refuse, CallPrepares, PrepareAndPlan, PrepareAndFindClaim,
     PrepareThenUnavailable
<1>2. CASE CallClaims(c)
  <2>1. CASE ClaimAndStart(c)
    BY <1>0, <2>1 DEF ClaimAndStart, CandidateMatchesSnapshot, OneMove, Moved, Launched, Same
  <2> QED BY <1>0, <1>2, <2>1, <1>a, <1>c DEF CallClaims, ClaimUnauthorized, ClaimExisting,
          ClaimGenerationChanged, ClaimCancelled, ClaimFails
<1>3. CASE CallExecutes(c)
  <2>1. CASE Execute(c)
    <3>1. e \in Effects /\ effect[e] = "started" /\ executions[e] = 0
      BY <1>0, <2>1 DEF Execute, CallInv, ClaimIntact, HoldsOpenClaim
    <3>2. /\ executions' = [executions EXCEPT ![e] = 1]
          /\ UNCHANGED <<effect, receipt>>
      BY <2>1, <3>1 DEF Execute, journal
    <3>3. Ran(e)
      <4>1. executions'[e] = 1
        BY <3>1, <3>2
      <4> QED BY <3>1, <3>2, <4>1 DEF Ran
    <3>4. ASSUME NEW f \in Effects \ {e} PROVE Same(f)
      <4>1. executions'[f] = executions[f]
        BY <3>1, <3>2, <3>4
      <4> QED BY <3>2, <4>1 DEF Same
    <3> QED BY <3>1, <3>3, <3>4 DEF OneMove, Moved
  <2>2. CASE Defer(c)
    BY <2>2 DEF Defer, Still, Same
  <2> QED BY <1>3, <2>1, <2>2, <1>a DEF CallExecutes, CallbackThrows, ExecutorReports
<1>4. CASE CallSettles(c)
  <2>1. CASE Settle(c)
    <3>1. /\ e \in Effects /\ effect[e] = "started" /\ executions[e] = 1
          /\ answer[c] \in Dispositions
      BY <1>0, <2>1 DEF Settle, CallsTypeOK, CallInv, ClaimIntact, HoldsOpenClaim
    <3> QED BY <2>1, <3>1, RecordMove DEF Settle
  <2>2. CASE MarkAmbiguous(c)
    <3>1. /\ e \in Effects /\ effect[e] \in {"started", "applied"} /\ executions[e] = 1
      BY <1>0, <2>2 DEF MarkAmbiguous, HoldsClaim, CallInv, ClaimIntact, HoldsOpenClaim,
         JournalInv, RowsAgree
    <3>2. /\ effect' = [effect EXCEPT ![e] = "ambiguous"]
          /\ UNCHANGED <<receipt, executions>>
      BY <2>2 DEF MarkAmbiguous
    <3>3. (Reported(e) \/ Doubted(e)) /\ \A f \in Effects \ {e} : Same(f)
      BY <3>1, <3>2 DEF Reported, Doubted, Same
    <3> QED BY <3>1, <3>3 DEF OneMove, Moved
  <2> QED BY <1>4, <2>1, <2>2, <1>a DEF CallSettles, SettleReplayed, SettlementFails, MarkNothing
<1> QED BY <1>1, <1>2, <1>3, <1>4 DEF CallStep, DispatchStep

LEMMA StepMoves == Inv /\ [Next]_vars => Still \/ OneMove
<1> SUFFICES ASSUME Inv, [Next]_vars PROVE Still \/ OneMove
  OBVIOUS
<1>1. CASE \E c \in Calls : CallStep(c)
  BY <1>1, CallMoves
<1>2. CASE (\E c \in Calls, e \in Effects : Call(c, e)) \/ Crash \/ UNCHANGED vars
  BY <1>2 DEF Call, Crash, vars, journal, Still, Same
<1>3. CASE Environment
  <2>0. PICK e \in Effects :
          \/ RequestCancellation(e)
          \/ \E d \in MobileDispositions : SettleMobileControllerOutcome(e, d)
          \/ Prune(e)
    BY <1>3 DEF Environment
  <2>1. CASE RequestCancellation(e)
    BY <2>1 DEF RequestCancellation, Still, Same
  <2>2. CASE \E d \in MobileDispositions : SettleMobileControllerOutcome(e, d)
    <3>1. effect[e] = "started" /\ executions[e] = 1 /\ UNCHANGED executions
      BY <2>2 DEF SettleMobileControllerOutcome, Inv, JournalInv, RowsAgree
    <3> QED BY <2>2, <3>1, RecordMove
            DEF SettleMobileControllerOutcome, MobileDispositions, Dispositions
  <2>3. CASE Prune(e)
    <3>1. effect[e] \in Settled
      BY <2>3 DEF Prune, IsPrunable, Terminal, Settled, Inv, TypeOK, JournalTypeOK,
         EffectStatuses, Unresolved, JournalInv, RowsAgree
    <3>2. Forgotten(e) /\ \A f \in Effects \ {e} : Same(f)
      BY <2>3, <3>1 DEF Prune, Forgotten, Same, Inv, TypeOK, JournalTypeOK
    <3> QED BY <3>2 DEF OneMove, Moved
  <2> QED BY <2>0, <2>1, <2>2, <2>3
<1> QED BY <1>1, <1>2, <1>3 DEF Next

\* A settled effect is not rewritten: each move either starts from an effect that
\* is not settled, or is the deletion.
THEOREM SettledFinality == Spec => SettledIsFinal
<1> DEFINE Final == \A e \in Effects :
                      effect[e] \in Settled /\ effect'[e] # "absent" =>
                        effect'[e] = effect[e] /\ receipt'[e] = receipt[e]
<1>1. Inv /\ [Next]_vars => Final
  <2> SUFFICES ASSUME Inv, [Next]_vars, NEW e \in Effects,
                      effect[e] \in Settled, effect'[e] # "absent"
               PROVE  Same(e)
    BY DEF Same
  <2>1. ASSUME Moved(e) PROVE Same(e)
    BY <2>1 DEF Moved, Planned, Launched, Withdrawn, Ran, Reported, Doubted, Forgotten, Settled
  <2> QED BY <2>1, StepMoves DEF Still, OneMove
<1> QED BY <1>1, Invariance, PTL DEF Spec, SettledIsFinal

(***************************************************************************)
(* Refinement: every step of the journal and its calls is a step of the    *)
(* contract, or one the contract does not see.                             *)
(***************************************************************************)
PhaseMap == [e \in Effects |-> PhaseOf(e)]

\* The contract's view of an effect that is left alone does not change.
LEMMA SamePhase ==
  ASSUME NEW e \in Effects, Same(e)
  PROVE  PhaseOf(e)' = PhaseOf(e) /\ executions'[e] = executions[e]
BY DEF Same, PhaseOf

\* If one effect moves, only its place in the contract's state changes.
LEMMA OnePhase ==
  ASSUME NEW e \in Effects, \A f \in Effects \ {e} : Same(f)
  PROVE  PhaseMap' = [PhaseMap EXCEPT ![e] = PhaseOf(e)']
<1>1. \A f \in Effects \ {e} : PhaseOf(f)' = PhaseOf(f)
  BY SamePhase
<1> QED BY <1>1 DEF PhaseMap

LEMMA OneRan ==
  ASSUME Inv, Inv', NEW e \in Effects, \A f \in Effects \ {e} : Same(f)
  PROVE  executions' = [executions EXCEPT ![e] = executions'[e]]
BY DEF Same, Inv, TypeOK, JournalTypeOK

\* What the contract makes of each move of an effect.
LEMMA MoveImplements ==
  ASSUME Inv, Inv', NEW e \in Effects, Moved(e), \A f \in Effects \ {e} : Same(f)
  PROVE  [Contract!Next]_(Contract!vars)
<1> DEFINE to == PhaseOf(e)'
<1>1. PhaseMap' = [PhaseMap EXCEPT ![e] = to]
  BY OnePhase
<1>2. executions' = [executions EXCEPT ![e] = executions'[e]]
  BY OneRan
<1>3. PhaseMap[e] = PhaseOf(e)
  BY DEF PhaseMap
<1>4. executions'[e] = executions[e] => UNCHANGED executions
  BY <1>2 DEF Inv, TypeOK, JournalTypeOK
<1>5. to = PhaseOf(e) => UNCHANGED PhaseMap
  BY <1>1, <1>3 DEF PhaseMap
<1>6. RowsAgree(e) /\ RowsAgree(e)'
  BY DEF Inv, JournalInv
<1> SUFFICES \/ UNCHANGED <<PhaseMap, executions>>
             \/ Contract!Launch(e) \/ Contract!Withdraw(e) \/ Contract!Run(e)
             \/ Contract!Report(e) \/ Contract!Forget(e)
  BY DEF Contract!Next, Contract!vars, PhaseMap
<1>a. CASE Same(e)
  BY <1>a, <1>4, <1>5, SamePhase
<1>b. CASE Planned(e)
  <2>1. to = PhaseOf(e)
    BY <1>b DEF Planned, PhaseOf
  <2> QED BY <1>b, <2>1, <1>4, <1>5 DEF Planned
<1>c. CASE Launched(e)
  <2>1. PhaseOf(e) = "open" /\ to = "inFlight"
    BY <1>c DEF Launched, PhaseOf
  <2> QED BY <1>c, <2>1, <1>1, <1>3, <1>4
          DEF Launched, Contract!Launch, Contract!Move, PhaseMap
<1>d. CASE Withdrawn(e)
  <2>1. PhaseOf(e) = "open" /\ to = "withdrawn"
    BY <1>d DEF Withdrawn, PhaseOf
  <2> QED BY <1>d, <2>1, <1>1, <1>3, <1>4
          DEF Withdrawn, Contract!Withdraw, Contract!Move, PhaseMap
<1>e. CASE Ran(e)
  <2>1. PhaseOf(e) = "inFlight" /\ to = PhaseOf(e)
    BY <1>e DEF Ran, PhaseOf
  <2> QED BY <1>e, <2>1, <1>2, <1>3, <1>5 DEF Ran, Contract!Run, PhaseMap
<1>f. CASE Reported(e)
  <2>1. PhaseOf(e) = "inFlight" /\ to \in {"settled", "unresolved"}
    BY <1>f DEF Reported, PhaseOf, Settled
  <2> QED BY <1>f, <2>1, <1>1, <1>3, <1>4
          DEF Reported, Contract!Report, Contract!Move, PhaseMap
<1>g. CASE Doubted(e)
  <2>1. to = PhaseOf(e)
    BY <1>g DEF Doubted, PhaseOf
  <2> QED BY <1>g, <2>1, <1>4, <1>5 DEF Doubted
<1>h. CASE Forgotten(e)
  <2>1. PhaseOf(e) \in {"settled", "withdrawn"} /\ to = "open"
    BY <1>h DEF Forgotten, PhaseOf, Settled
  <2> QED BY <1>h, <2>1, <1>1, <1>2, <1>3
          DEF Forgotten, Contract!Forget, Contract!Move, PhaseMap
<1> QED BY <1>a, <1>b, <1>c, <1>d, <1>e, <1>f, <1>g, <1>h DEF Moved

\* The dispatch store, with all its calls, crashes, cancellations and deletions,
\* keeps the contract: launched once, run at most once per launch, reported only
\* after it ran, forgotten only when settled or withdrawn.
THEOREM ImplementsTheContract == Spec => ImplementsContract
<1>1. Init => Contract!Init
  BY DEF Init, Contract!Init, PhaseOf
<1>2. Inv /\ Inv' /\ [Next]_vars => [Contract!Next]_(Contract!vars)
  <2> SUFFICES ASSUME Inv, Inv', [Next]_vars PROVE [Contract!Next]_(Contract!vars)
    OBVIOUS
  <2>1. CASE Still
    <3>1. UNCHANGED PhaseMap /\ UNCHANGED executions
      BY <2>1, SamePhase DEF Still, PhaseMap, Inv, TypeOK, JournalTypeOK
    <3> QED BY <3>1 DEF Contract!vars, PhaseMap
  <2>2. CASE OneMove
    BY <2>2, MoveImplements DEF OneMove
  <2> QED BY <2>1, <2>2, StepMoves
<1> QED BY <1>1, <1>2, Invariance, PTL DEF Spec, ImplementsContract, Contract!Spec
=============================================================================
