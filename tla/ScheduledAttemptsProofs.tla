----------------------- MODULE ScheduledAttemptsProofs -----------------------
(***************************************************************************)
(* Proofs about ScheduledAttempts, for any number of attempts, retries and *)
(* events, and for every kind of job: the invariant that rules a replay    *)
(* out is inductive.                                                       *)
(***************************************************************************)
EXTENDS ScheduledAttempts, TLAPS

(***************************************************************************)
(* What the store model returns.                                           *)
(***************************************************************************)
LEMMA JobFields ==
  ASSUME NEW job \in Jobs
  PROVE  /\ job.enabled \in BOOLEAN /\ job.done \in BOOLEAN
         /\ job.rev \in Nat /\ job.retries \in Nat /\ job.runRev \in Nat
         /\ job.number \in Nat /\ job.risk \in Risks
         /\ job.retryOcc \in AttemptOrNone /\ job.running \in AttemptOrNone
         /\ job.occ \in AttemptOrNone
  BY DEF Jobs

LEMMA NewTypes == NewJob \in Jobs /\ NewStore \in Stores
  <1>1. NewJob \in Jobs
    BY AttemptsAssumption DEF NewJob, Jobs, AttemptOrNone, Risks, None
  <1> QED BY <1>1 DEF NewStore, Stores

LEMMA ClearedTypes ==
  ASSUME NEW job \in Jobs
  PROVE  /\ ClearRunning(job) \in Jobs /\ ClearRetry(job) \in Jobs /\ Ran(job) \in Jobs
         /\ ClearRunning(job).running = None /\ ClearRunning(job).occ = None
         /\ ClearRunning(job).retryOcc = job.retryOcc
         /\ ClearRetry(job).retryOcc = None
         /\ ClearRetry(job).running = job.running /\ ClearRetry(job).occ = job.occ
         /\ ClearRetry(job).risk = job.risk
         /\ Ran(job).retryOcc = job.retryOcc
  <1>1. job \in Jobs /\ None \in AttemptOrNone /\ "none" \in Risks
    BY AttemptsAssumption DEF AttemptOrNone, Risks, None
  <1>2. /\ ClearRunning(job) \in Jobs
        /\ ClearRunning(job).running = None /\ ClearRunning(job).occ = None
        /\ ClearRunning(job).retryOcc = job.retryOcc
    BY <1>1 DEF ClearRunning, Jobs
  <1>3. /\ ClearRetry(job) \in Jobs /\ ClearRetry(job).retryOcc = None
        /\ ClearRetry(job).running = job.running /\ ClearRetry(job).occ = job.occ
        /\ ClearRetry(job).risk = job.risk
    BY <1>1 DEF ClearRetry, Jobs
  <1>4. Ran(job) \in Jobs /\ Ran(job).retryOcc = job.retryOcc
    <2> DEFINE on == job.enabled /\ ~(OneShot /\ job.rev = job.runRev)
    <2>1. on \in BOOLEAN
      OBVIOUS
    <2>2. Ran(job) = [job EXCEPT !.enabled = on]
      BY <1>1 DEF Ran, Jobs
    <2> HIDE DEF on
    <2> QED BY <1>1, <2>1, <2>2 DEF Jobs
  <1> QED BY <1>2, <1>3, <1>4

LEMMA OverTypes ==
  ASSUME NEW job \in Jobs
  PROVE  /\ Succeed(job) \in Jobs /\ Terminalize(job) \in Jobs
         /\ Succeed(job).running = None /\ Succeed(job).occ = None
         /\ Succeed(job).retryOcc = None
         /\ Terminalize(job).running = None /\ Terminalize(job).occ = None
         /\ Terminalize(job).retryOcc = None
  BY ClearedTypes DEF Succeed, Terminalize

LEMMA RetryTypes ==
  ASSUME NEW job \in Jobs
  PROVE  /\ RetryLater(job) \in Jobs
         /\ RetryLater(job).running = None /\ RetryLater(job).occ = None
         /\ \/ RetryLater(job).retryOcc = None
            \/ RetryLater(job).retryOcc = job.occ /\ job.risk # "unsafe"
  <1> DEFINE later == [job EXCEPT !.retries = job.number, !.retryOcc = job.occ]
  <1>1. later \in Jobs /\ later.retryOcc = job.occ
    BY DEF Jobs
  <1>2. /\ ClearRunning(later) \in Jobs /\ ClearRunning(later).running = None
        /\ ClearRunning(later).occ = None /\ ClearRunning(later).retryOcc = job.occ
    BY <1>1, ClearedTypes
  <1>3. /\ ClearRunning(ClearRetry(job)) \in Jobs
        /\ ClearRunning(ClearRetry(job)).running = None
        /\ ClearRunning(ClearRetry(job)).occ = None
        /\ ClearRunning(ClearRetry(job)).retryOcc = None
    BY ClearedTypes
  <1> QED BY <1>2, <1>3, OverTypes DEF RetryLater

LEMMA DeferTypes ==
  ASSUME NEW job \in Jobs
  PROVE  /\ Defer(job) \in Jobs
         /\ Defer(job).running = None /\ Defer(job).occ = None
         /\ Defer(job).retryOcc \in {None, job.occ}
  <1> DEFINE later == [job EXCEPT !.retryOcc = job.occ]
  <1>1. later \in Jobs /\ later.retryOcc = job.occ
    BY DEF Jobs
  <1>2. /\ ClearRunning(later) \in Jobs /\ ClearRunning(later).running = None
        /\ ClearRunning(later).occ = None /\ ClearRunning(later).retryOcc = job.occ
    BY <1>1, ClearedTypes
  <1>3. /\ ClearRunning(ClearRetry(job)) \in Jobs
        /\ ClearRunning(ClearRetry(job)).running = None
        /\ ClearRunning(ClearRetry(job)).occ = None
        /\ ClearRunning(ClearRetry(job)).retryOcc = None
    BY ClearedTypes
  <1> QED BY <1>2, <1>3 DEF Defer

\* A settlement leaves nothing running.  The occurrence is to be executed again only
\* by a retry of an attempt without the mark, or by a deferral.
LEMMA SettledTypes ==
  ASSUME NEW s \in Stores, NEW a \in AttemptOrNone, NEW how \in Plans
  PROVE  /\ Settled(s, a, how) \in Stores
         /\ Settled(s, a, how).job.running = None /\ Settled(s, a, how).job.occ = None
         /\ \/ Settled(s, a, how).job.retryOcc = None
            \/ /\ Settled(s, a, how).job.retryOcc = s.job.occ
               /\ how = "defer" \/ s.job.risk # "unsafe"
  <1>1. s.job \in Jobs /\ s.reports \in [Attempts -> Statuses \cup {"none"}]
    BY DEF Stores
  <1>2. \A status \in Statuses :
           Append1(s.reports, a, status) \in [Attempts -> Statuses \cup {"none"}]
    BY <1>1 DEF Append1
  <1>3. "success" \in Statuses /\ "error" \in Statuses /\ "retrying" \in Statuses
    BY DEF Statuses
  <1>4. CASE how = "success"
    <2>1. Settled(s, a, how) = [job |-> Succeed(s.job),
                                reports |-> Append1(s.reports, a, "success")]
      BY <1>4 DEF Settled
    <2> QED BY <2>1, <1>1, <1>2, <1>3, OverTypes DEF Stores
  <1>5. CASE how = "final"
    <2>1. Settled(s, a, how) = [job |-> Terminalize(s.job),
                                reports |-> Append1(s.reports, a, "error")]
      BY <1>5 DEF Settled
    <2> QED BY <2>1, <1>1, <1>2, <1>3, OverTypes DEF Stores
  <1>6. CASE how = "retry"
    <2>1. Settled(s, a, how) = [job |-> RetryLater(s.job),
                                reports |-> Append1(s.reports, a, "retrying")]
      BY <1>6 DEF Settled
    <2> QED BY <2>1, <1>1, <1>2, <1>3, RetryTypes DEF Stores
  <1>7. CASE how = "defer"
    <2>1. Settled(s, a, how) = [job |-> Defer(s.job),
                                reports |-> IF CanRetrySafely(s.job)
                                            THEN Append1(s.reports, a, "retrying")
                                            ELSE s.reports]
      BY <1>7 DEF Settled
    <2> QED BY <2>1, <1>1, <1>2, <1>3, <1>7, DeferTypes DEF Stores
  <1> QED BY <1>4, <1>5, <1>6, <1>7 DEF Plans

LEMMA ReportTypes ==
  ASSUME NEW s \in Stores, NEW a \in AttemptOrNone, NEW status \in Statuses \cup {"none"}
  PROVE  /\ [s EXCEPT !.reports[a] = status] \in Stores
         /\ [s EXCEPT !.reports[a] = status].job = s.job
  BY DEF Stores

\* The report of any status is put into the outbox, or taken out of it.
LEMMA AppendTypes ==
  ASSUME NEW reports \in [Attempts -> Statuses \cup {"none"}], NEW a \in AttemptOrNone
  PROVE  /\ Append1(reports, a, "none") \in [Attempts -> Statuses \cup {"none"}]
         /\ Append1(reports, a, "retrying") \in [Attempts -> Statuses \cup {"none"}]
  BY DEF Append1, Statuses

LEMMA WithRiskTypes ==
  ASSUME NEW s \in Stores, NEW risk \in Risks
  PROVE  /\ WithRisk(s, risk) \in Stores
         /\ WithRisk(s, risk).job = [s.job EXCEPT !.risk = risk]
         /\ WithRisk(s, risk).job.running = s.job.running
         /\ WithRisk(s, risk).job.occ = s.job.occ
         /\ WithRisk(s, risk).job.retryOcc = s.job.retryOcc
         /\ WithRisk(s, risk).job.risk = risk
  BY DEF WithRisk, Stores, Jobs

LEMMA DoneTypes ==
  ASSUME NEW s \in Stores
  PROVE  /\ [s EXCEPT !.job.done = TRUE] \in Stores
         /\ [s EXCEPT !.job.done = TRUE].job.running = s.job.running
         /\ [s EXCEPT !.job.done = TRUE].job.occ = s.job.occ
         /\ [s EXCEPT !.job.done = TRUE].job.retryOcc = s.job.retryOcc
         /\ [s EXCEPT !.job.done = TRUE].job.risk = s.job.risk
  BY DEF Stores, Jobs

LEMMA ReleasedTypes ==
  ASSUME NEW s \in Stores, NEW a \in AttemptOrNone
  PROVE  /\ Released(s, a) \in Stores
         /\ Released(s, a).job.running = None /\ Released(s, a).job.occ = None
         /\ Released(s, a).job.retryOcc = s.job.retryOcc
  <1>1. s.job \in Jobs /\ s.reports \in [Attempts -> Statuses \cup {"none"}]
    BY DEF Stores
  <1> QED BY <1>1, ClearedTypes, AppendTypes DEF Released, Stores

LEMMA RestoredTypes ==
  ASSUME NEW s \in Stores, NEW a \in AttemptOrNone, NEW snapshot \in Jobs,
         NEW completed \in BOOLEAN
  PROVE  /\ Restored(s, a, snapshot, completed) \in Stores
         /\ s.job.running = None =>
               /\ Restored(s, a, snapshot, completed).job.running = snapshot.running
               /\ Restored(s, a, snapshot, completed).job.occ = snapshot.occ
               /\ Restored(s, a, snapshot, completed).job.retryOcc = snapshot.retryOcc
               /\ Restored(s, a, snapshot, completed).job.risk = snapshot.risk
         /\ s.job.running # None => Restored(s, a, snapshot, completed).job = s.job
  <1> DEFINE done == snapshot.done \/ completed
  <1> DEFINE restored == [snapshot EXCEPT !.done = done]
  <1>1. s.job \in Jobs /\ s.reports \in [Attempts -> Statuses \cup {"none"}]
    BY DEF Stores
  <1>2. done \in BOOLEAN
    OBVIOUS
  <1>3. [snapshot EXCEPT !.done = @ \/ completed] = restored
    BY DEF Jobs
  <1> HIDE DEF done
  <1>4. /\ restored \in Jobs /\ restored.running = snapshot.running
        /\ restored.occ = snapshot.occ /\ restored.retryOcc = snapshot.retryOcc
        /\ restored.risk = snapshot.risk
    BY <1>2 DEF Jobs
  <1> HIDE DEF restored
  <1> QED BY <1>1, <1>3, <1>4, AppendTypes DEF Restored, Stores

\* A command changes neither what runs nor its risk, and at most forgets a retry.
LEMMA CommandedTypes ==
  ASSUME NEW s \in Stores, NEW kind \in Kinds
  PROVE  /\ [s EXCEPT !.job = Commanded(@, kind)] \in Stores
         /\ [s EXCEPT !.job = Commanded(@, kind)].job.running = s.job.running
         /\ [s EXCEPT !.job = Commanded(@, kind)].job.occ = s.job.occ
         /\ [s EXCEPT !.job = Commanded(@, kind)].job.risk = s.job.risk
         /\ [s EXCEPT !.job = Commanded(@, kind)].job.retryOcc \in {None, s.job.retryOcc}
  <1>1. s.job \in Jobs
    BY DEF Stores
  <1>2. /\ Changed(s.job) \in Jobs /\ Changed(s.job).running = s.job.running
        /\ Changed(s.job).occ = s.job.occ /\ Changed(s.job).risk = s.job.risk
        /\ Changed(s.job).retryOcc = None
    <2>1. [s.job EXCEPT !.rev = @ + 1] = [s.job EXCEPT !.rev = s.job.rev + 1]
      BY <1>1 DEF Jobs
    <2>2. /\ [s.job EXCEPT !.rev = s.job.rev + 1] \in Jobs
          /\ [s.job EXCEPT !.rev = s.job.rev + 1].running = s.job.running
          /\ [s.job EXCEPT !.rev = s.job.rev + 1].occ = s.job.occ
          /\ [s.job EXCEPT !.rev = s.job.rev + 1].risk = s.job.risk
      BY <1>1 DEF Jobs
    <2> QED BY <2>1, <2>2, ClearedTypes DEF Changed
  <1>3. /\ Commanded(s.job, kind) \in Jobs
        /\ Commanded(s.job, kind).running = s.job.running
        /\ Commanded(s.job, kind).occ = s.job.occ
        /\ Commanded(s.job, kind).risk = s.job.risk
        /\ Commanded(s.job, kind).retryOcc \in {None, s.job.retryOcc}
    <2>1. CASE kind = "update"
      BY <2>1, <1>2 DEF Commanded
    <2>2. CASE kind = "enable"
      <3>1. Commanded(s.job, kind) =
              IF s.job.enabled THEN s.job ELSE [Changed(s.job) EXCEPT !.enabled = TRUE]
        BY <2>2 DEF Commanded
      <3> QED BY <3>1, <1>1, <1>2 DEF Jobs
    <2>3. CASE kind = "disable"
      <3>1. Commanded(s.job, kind) =
              IF s.job.enabled THEN [Changed(s.job) EXCEPT !.enabled = FALSE] ELSE s.job
        BY <2>3 DEF Commanded
      <3> QED BY <3>1, <1>1, <1>2 DEF Jobs
    <2> QED BY <2>1, <2>2, <2>3 DEF Kinds
  <1>4. [s EXCEPT !.job = Commanded(@, kind)] = [s EXCEPT !.job = Commanded(s.job, kind)]
    BY DEF Stores
  <1> HIDE DEF Commanded
  <1> QED BY <1>3, <1>4 DEF Stores

\* Reconciling is a settlement, as a success, a final failure or a deferral.
LEMMA ReconciledTypes ==
  ASSUME NEW s \in Stores
  PROVE  /\ Reconciled(s) \in Stores
         /\ Reconciled(s).job.running = None /\ Reconciled(s).job.occ = None
         /\ \/ Reconciled(s).job.retryOcc = None
            \/ Reconciled(s).job.retryOcc = s.job.occ /\ s.job.risk # "unsafe"
  <1> DEFINE how == IF s.job.done THEN "success"
                    ELSE IF s.job.risk = "safe" THEN "defer" ELSE "final"
  <1>1. how \in Plans /\ s.job.running \in AttemptOrNone
    BY JobFields DEF Plans, Stores
  <1>2. how = "defer" => s.job.risk # "unsafe"
    OBVIOUS
  <1>3. Reconciled(s) = Settled(s, s.job.running, how)
    BY DEF Reconciled
  <1> HIDE DEF how
  <1>4. /\ Settled(s, s.job.running, how) \in Stores
        /\ Settled(s, s.job.running, how).job.running = None
        /\ Settled(s, s.job.running, how).job.occ = None
        /\ \/ Settled(s, s.job.running, how).job.retryOcc = None
           \/ /\ Settled(s, s.job.running, how).job.retryOcc = s.job.occ
              /\ how = "defer" \/ s.job.risk # "unsafe"
    BY <1>1, SettledTypes
  <1> QED BY <1>2, <1>3, <1>4

(***************************************************************************)
(* What the steps of the store do.                                         *)
(***************************************************************************)
\* A set() puts a write behind the others.
LEMMA Saved ==
  ASSUME writes \in Seq(Writes), NEW s \in Stores, NEW c \in Clients \cup {"nobody"},
         Save(s, c)
  PROVE  /\ mem' = s /\ mem' \in Stores
         /\ writes' \in Seq(Writes)
         /\ Len(writes) \in Nat
         /\ DOMAIN writes = 1 .. Len(writes)
         /\ DOMAIN writes' = 1 .. Len(writes) + 1
         /\ \A i \in DOMAIN writes : writes'[i] = writes[i]
         /\ writes'[Len(writes) + 1].state = s
         /\ writes'[Len(writes) + 1].by = c
  <1> DEFINE w == [state |-> s, by |-> c]
  <1>1. w \in Writes /\ w.state = s /\ w.by = c
    BY DEF Writes
  <1>2. writes' = Append(writes, w) /\ mem' = s
    BY DEF Save
  <1> HIDE DEF w
  <1> QED BY <1>1, <1>2

\* A write that ends leaves the others in their order.
LEMMA Written ==
  ASSUME writes \in Seq(Writes), writes # <<>>
  PROVE  /\ Tail(writes) \in Seq(Writes)
         /\ Head(writes) = writes[1] /\ writes[1] \in Writes
         /\ Len(writes) \in Nat \ {0}
         /\ DOMAIN writes = 1 .. Len(writes)
         /\ DOMAIN Tail(writes) = 1 .. Len(writes) - 1
         /\ \A i \in 1 .. Len(writes) - 1 : Tail(writes)[i] = writes[i + 1]
  OBVIOUS

(***************************************************************************)
(* Types.                                                                  *)
(***************************************************************************)
LEMMA ClientTypes ==
  /\ "engine" \in Clients /\ "recovery" \in Clients /\ "command" \in Clients
  /\ "drain" \in Clients /\ "saver" \in Clients /\ "startup" \in Clients
  BY DEF Clients

LEMMA IdleTypes ==
  /\ NoEngine \in Engines /\ NoRecovery \in Recoveries
  /\ NoCommand \in Commands /\ NoDrain \in Drains
  <1>1. None \in AttemptOrNone /\ NewJob \in Jobs
    BY NewTypes, AttemptsAssumption DEF AttemptOrNone, None
  <1> QED BY <1>1 DEF NoEngine, Engines, Plans, Risks, NoRecovery, Recoveries,
                      NoCommand, Commands, NoDrain, Drains

LEMMA InitType == Init => TypeOK
  <1> SUFFICES ASSUME Init PROVE TypeOK
    OBVIOUS
  <1>1. /\ occOf \in [Attempts -> AttemptOrNone] /\ revOf \in [Attempts -> Nat]
        /\ nextId \in 1 .. MaxAttempts + 1
    BY AttemptsAssumption DEF Init, AttemptOrNone, None
  <1>2. mem \in Stores /\ disk \in Stores /\ writes \in Seq(Writes)
    BY NewTypes DEF Init
  <1>3. answer \in [Clients -> {"none", "ok", "failed"}]
    BY DEF Init
  <1> QED BY <1>1, <1>2, <1>3, IdleTypes DEF Init, TypeOK

\* What the typing of the record says of the engine.
LEMMA EngineFields ==
  ASSUME engine \in Engines
  PROVE  /\ engine.of \in AttemptOrNone /\ engine.plan \in Plans
         /\ engine.snap \in Jobs /\ engine.prev \in Risks /\ engine.aborted \in BOOLEAN
         /\ engine = [pc |-> engine.pc, of |-> engine.of, plan |-> engine.plan,
                      snap |-> engine.snap, prev |-> engine.prev,
                      aborted |-> engine.aborted]
  BY DEF Engines

\* The rest of the type invariant.
Others ==
  /\ disk \in Stores
  /\ answer \in [Clients -> {"none", "ok", "failed"}]
  /\ lock \in Clients \cup {"free"}
  /\ timers \subseteq Attempts /\ recovery \in Recoveries
  /\ command \in Commands /\ saver \in {"off", "armed", "saving"} /\ drain \in Drains
  /\ boot \in {"down", "saving", "done"} /\ unsaved \in BOOLEAN
  /\ nextId \in 1 .. MaxAttempts + 1
  /\ occOf \in [Attempts -> AttemptOrNone] /\ revOf \in [Attempts -> Nat]
  /\ dispatched \subseteq Attempts /\ proven \subseteq AttemptOrNone
  /\ delivered \subseteq Attempts \X (Statuses \cup {"none"})
  /\ disableKept \in BOOLEAN /\ events \in Nat

LEMMA TypeParts ==
  TypeOK <=> mem \in Stores /\ writes \in Seq(Writes) /\ engine \in Engines /\ Others
  BY DEF TypeOK, Others

LEMMA EngineTypeStep ==
  ASSUME mem \in Stores, writes \in Seq(Writes), engine \in Engines, Others,
         engine.pc # "idle" => engine.of \in Attempts,
         Claim \/ Background \/ MarkUnsafe \/ EngineNext
  PROVE  mem' \in Stores /\ writes' \in Seq(Writes) /\ engine' \in Engines /\ Others'
  <1> USE EngineFields, ClientTypes
      DEF At, Go, Return, Take, Leave, Told, ToldAnything, Happens, EngineOnly,
          claimVars, historyVars
  <1>0. /\ mem.job \in Jobs /\ mem.job.risk \in Risks /\ "unsafe" \in Risks
        /\ "none" \in Risks /\ Attempts \subseteq AttemptOrNone
    BY JobFields DEF Stores, Risks, Attempts, AttemptOrNone
  <1>1. ASSUME Claim
      PROVE  mem' \in Stores /\ writes' \in Seq(Writes) /\ engine' \in Engines /\ Others'
    <2> DEFINE occ == IF mem.job.retryOcc = None THEN nextId ELSE mem.job.retryOcc
    <2> DEFINE risk == IF SlashPrompt THEN "unsafe" ELSE "safe"
    <2>1. /\ occ \in AttemptOrNone /\ nextId \in Attempts /\ nextId \in AttemptOrNone
          /\ risk \in Risks /\ mem.job.rev \in Nat /\ mem.job.retries + 1 \in Nat
      BY <1>1, <1>0, JobFields DEF Claim, Risks
    <2>2. /\ Save([mem EXCEPT !.job.running = nextId,
                           !.job.runRev = mem.job.rev,
                           !.job.number = mem.job.retries + 1,
                           !.job.risk = risk,
                           !.job.occ = occ,
                           !.job.done = FALSE], "engine")
          /\ occOf' = [occOf EXCEPT ![nextId] = occ]
          /\ revOf' = [revOf EXCEPT ![nextId] = mem.job.rev]
          /\ engine' = [NoEngine EXCEPT !.pc = "claiming", !.of = nextId]
      BY <1>1 DEF Claim
    <2> HIDE DEF occ, risk
    <2> DEFINE claimed == [mem EXCEPT !.job.running = nextId,
                           !.job.runRev = mem.job.rev,
                           !.job.number = mem.job.retries + 1,
                           !.job.risk = risk,
                           !.job.occ = occ,
                           !.job.done = FALSE]
    <2> DEFINE job == [mem.job EXCEPT !.running = nextId,
                           !.runRev = mem.job.rev,
                           !.number = mem.job.retries + 1,
                           !.risk = risk,
                           !.occ = occ,
                           !.done = FALSE]
    <2>3. claimed \in Stores
      <3>1. job \in Jobs
        BY <2>1, <1>0 DEF Jobs
      <3>2. claimed = [mem EXCEPT !.job = job]
        BY DEF Stores, Jobs
      <3> HIDE DEF job, claimed
      <3> QED BY <3>1, <3>2 DEF Stores
    <2>4. Save(claimed, "engine")
      BY <2>2
    <2> HIDE DEF claimed
    <2>5. mem' \in Stores /\ writes' \in Seq(Writes)
      BY <2>3, <2>4, Saved
    <2>6. engine' \in Engines
      BY <2>1, <2>2, IdleTypes DEF Engines
    <2>7. /\ nextId' \in 1 .. MaxAttempts + 1
          /\ occOf' \in [Attempts -> AttemptOrNone] /\ revOf' \in [Attempts -> Nat]
      BY <1>1, <2>1, <2>2, AttemptsAssumption DEF Claim, Others, Attempts
    <2> QED BY <1>1, <2>5, <2>6, <2>7 DEF Claim, Others
  <1>2. ASSUME ClaimEnds
      PROVE  mem' \in Stores /\ writes' \in Seq(Writes) /\ engine' \in Engines /\ Others'
    <2>1. mem' \in Stores /\ writes' \in Seq(Writes)
      BY <1>2 DEF ClaimEnds
    <2>2. engine' \in Engines
      BY <1>2, <1>0, IdleTypes DEF ClaimEnds, Engines
    <2>3. Others'
      BY <1>2 DEF ClaimEnds, Others
    <2> QED BY <2>1, <2>2, <2>3
  <1>3. ASSUME Release
      PROVE  mem' \in Stores /\ writes' \in Seq(Writes) /\ engine' \in Engines /\ Others'
    <2>1. mem' \in Stores /\ writes' \in Seq(Writes)
      BY <1>3, <1>0, Saved, ReleasedTypes DEF Release, Mutate
    <2>2. engine' \in Engines
      BY <1>3, <1>0, IdleTypes DEF Release, Engines, Mutate
    <2>3. Others'
      BY <1>3 DEF Release, Others, Mutate
    <2> QED BY <2>1, <2>2, <2>3
  <1>4. ASSUME ReleaseEnds
      PROVE  mem' \in Stores /\ writes' \in Seq(Writes) /\ engine' \in Engines /\ Others'
    <2>1. mem' \in Stores /\ writes' \in Seq(Writes)
      BY <1>4 DEF ReleaseEnds
    <2>2. engine' \in Engines
      BY <1>4, <1>0, IdleTypes DEF ReleaseEnds
    <2>3. Others'
      BY <1>4 DEF ReleaseEnds, Others
    <2> QED BY <2>1, <2>2, <2>3
  <1>5. ASSUME NoHooks
      PROVE  mem' \in Stores /\ writes' \in Seq(Writes) /\ engine' \in Engines /\ Others'
    <2>1. mem' \in Stores /\ writes' \in Seq(Writes)
      BY <1>5 DEF NoHooks
    <2>2. engine' \in Engines
      BY <1>5, <1>0, IdleTypes DEF NoHooks, Engines
    <2>3. Others'
      BY <1>5 DEF NoHooks, Others
    <2> QED BY <2>1, <2>2, <2>3
  <1>6. ASSUME FenceHooks
      PROVE  mem' \in Stores /\ writes' \in Seq(Writes) /\ engine' \in Engines /\ Others'
    <2>1. mem' \in Stores /\ writes' \in Seq(Writes)
      BY <1>6, <1>0, Saved, WithRiskTypes DEF FenceHooks, Mutate
    <2>2. engine' \in Engines
      BY <1>6, <1>0, IdleTypes DEF FenceHooks, Engines, Mutate
    <2>3. Others'
      BY <1>6 DEF FenceHooks, Others, Mutate
    <2> QED BY <2>1, <2>2, <2>3
  <1>7. ASSUME FenceEnds
      PROVE  mem' \in Stores /\ writes' \in Seq(Writes) /\ engine' \in Engines /\ Others'
    <2>1. mem' \in Stores /\ writes' \in Seq(Writes)
      BY <1>7, <1>0, Saved, WithRiskTypes DEF FenceEnds
    <2>2. engine' \in Engines
      BY <1>7, <1>0, IdleTypes DEF FenceEnds, Engines
    <2>3. Others'
      BY <1>7 DEF FenceEnds, Others
    <2> QED BY <2>1, <2>2, <2>3
  <1>8. ASSUME Background
      PROVE  mem' \in Stores /\ writes' \in Seq(Writes) /\ engine' \in Engines /\ Others'
    <2>1. mem' \in Stores /\ writes' \in Seq(Writes)
      BY <1>8 DEF Background
    <2>2. engine' \in Engines
      BY <1>8, <1>0, IdleTypes DEF Background, Engines
    <2>3. Others'
      BY <1>8 DEF Background, Others
    <2> QED BY <2>1, <2>2, <2>3
  <1>9. ASSUME Start
      PROVE  mem' \in Stores /\ writes' \in Seq(Writes) /\ engine' \in Engines /\ Others'
    <2>1. mem' \in Stores /\ writes' \in Seq(Writes)
      BY <1>9 DEF Start
    <2>2. engine' \in Engines
      BY <1>9, <1>0, IdleTypes DEF Start, Engines
    <2>3. Others'
      BY <1>9 DEF Start, Others
    <2> QED BY <2>1, <2>2, <2>3
  <1>10. ASSUME MarkUnsafe
      PROVE  mem' \in Stores /\ writes' \in Seq(Writes) /\ engine' \in Engines /\ Others'
    <2>1. mem' \in Stores /\ writes' \in Seq(Writes)
      BY <1>10, <1>0, Saved, WithRiskTypes DEF MarkUnsafe
    <2>2. engine' \in Engines
      BY <1>10, <1>0, IdleTypes DEF MarkUnsafe, Engines
    <2>3. Others'
      BY <1>10 DEF MarkUnsafe, Others
    <2> QED BY <2>1, <2>2, <2>3
  <1>11. ASSUME MarkEnds
      PROVE  mem' \in Stores /\ writes' \in Seq(Writes) /\ engine' \in Engines /\ Others'
    <2>1. mem' \in Stores /\ writes' \in Seq(Writes)
      BY <1>11, <1>0, Saved, WithRiskTypes DEF MarkEnds
    <2>2. engine' \in Engines
      BY <1>11, <1>0, IdleTypes DEF MarkEnds, Engines
    <2>3. Others'
      BY <1>11 DEF MarkEnds, Others
    <2> QED BY <2>1, <2>2, <2>3
  <1>12. ASSUME UnmarkEnds
      PROVE  mem' \in Stores /\ writes' \in Seq(Writes) /\ engine' \in Engines /\ Others'
    <2>1. mem' \in Stores /\ writes' \in Seq(Writes)
      BY <1>12 DEF UnmarkEnds
    <2>2. engine' \in Engines
      BY <1>12, <1>0, IdleTypes DEF UnmarkEnds, Engines
    <2>3. Others'
      BY <1>12 DEF UnmarkEnds, Others
    <2> QED BY <2>1, <2>2, <2>3
  <1>13. ASSUME Complete
      PROVE  mem' \in Stores /\ writes' \in Seq(Writes) /\ engine' \in Engines /\ Others'
    <2>1. mem' \in Stores /\ writes' \in Seq(Writes)
      BY <1>13, <1>0, Saved, DoneTypes DEF Complete
    <2>2. engine' \in Engines
      BY <1>13, <1>0, IdleTypes DEF Complete, Engines
    <2>3. Others'
      BY <1>13 DEF Complete, Others
    <2> QED BY <2>1, <2>2, <2>3
  <1>14. ASSUME CompleteEnds
      PROVE  mem' \in Stores /\ writes' \in Seq(Writes) /\ engine' \in Engines /\ Others'
    <2>1. mem' \in Stores /\ writes' \in Seq(Writes)
      BY <1>14 DEF CompleteEnds
    <2>2. engine' \in Engines
      BY <1>14, <1>0, IdleTypes DEF CompleteEnds, Conclude, Engines, Plans
    <2>3. Others'
      <3>1. answer' \in [Clients -> {"none", "ok", "failed"}]
        BY <1>14 DEF CompleteEnds, Others
      <3>2. timers' \subseteq Attempts /\ events' \in Nat
        BY <1>14 DEF CompleteEnds, Others
      <3> QED BY <3>1, <3>2, <1>14 DEF CompleteEnds, Others
    <2> QED BY <2>1, <2>2, <2>3
  <1>15. ASSUME Throw
      PROVE  mem' \in Stores /\ writes' \in Seq(Writes) /\ engine' \in Engines /\ Others'
    <2>1. mem' \in Stores /\ writes' \in Seq(Writes)
      BY <1>15 DEF Throw
    <2>2. engine' \in Engines
      BY <1>15, <1>0, IdleTypes DEF Throw, Conclude, PlanFor, Engines, Plans
    <2>3. Others'
      BY <1>15 DEF Throw, Others
    <2> QED BY <2>1, <2>2, <2>3
  <1>16. ASSUME Settle
      PROVE  mem' \in Stores /\ writes' \in Seq(Writes) /\ engine' \in Engines /\ Others'
    <2>1. mem' \in Stores /\ writes' \in Seq(Writes)
      BY <1>16, <1>0, Saved, SettledTypes DEF Settle, Mutate
    <2>2. engine' \in Engines
      BY <1>16, <1>0, IdleTypes DEF Settle, Engines, Mutate
    <2>3. Others'
      BY <1>16 DEF Settle, Others, Mutate
    <2> QED BY <2>1, <2>2, <2>3
  <1>17. ASSUME SettleEnds
      PROVE  mem' \in Stores /\ writes' \in Seq(Writes) /\ engine' \in Engines /\ Others'
    <2>1. mem' \in Stores /\ writes' \in Seq(Writes)
      BY <1>17, <1>0, Saved, RestoredTypes DEF SettleEnds
    <2>2. engine' \in Engines
      BY <1>17, <1>0, IdleTypes DEF SettleEnds, Engines
    <2>3. Others'
      BY <1>17 DEF SettleEnds, Others
    <2> QED BY <2>1, <2>2, <2>3
  <1> QED BY <1>1, <1>2, <1>3, <1>4, <1>5, <1>6, <1>7, <1>8, <1>9, <1>10, <1>11, <1>12,
             <1>13, <1>14, <1>15, <1>16, <1>17 DEF EngineNext

LEMMA WorldTypeStep ==
  ASSUME mem \in Stores, writes \in Seq(Writes), engine \in Engines, Others,
         recovery.pc # "idle" => recovery.of \in Attempts,
         \/ WriteEnds \/ Touch \/ Command \/ Crash \/ RecoveryNext \/ CommandNext
         \/ SaverNext \/ DrainNext \/ BootNext
  PROVE  mem' \in Stores /\ writes' \in Seq(Writes) /\ engine' \in Engines /\ Others'
  <1> USE ClientTypes
      DEF Take, Leave, Told, Happens, RecoveryOnly, CommandOnly, DrainOnly, claimVars,
          historyVars
  <1>0. /\ mem.job \in Jobs /\ mem.job.running \in AttemptOrNone
        /\ recovery.of \in AttemptOrNone /\ recovery.snap \in Jobs
        /\ drain.of \in AttemptOrNone /\ drain.status \in Statuses \cup {"none"}
        /\ Attempts \subseteq AttemptOrNone
        /\ \A a \in Attempts : mem.reports[a] \in Statuses \cup {"none"}
    <2>1. mem.job \in Jobs /\ \A a \in Attempts : mem.reports[a] \in Statuses \cup {"none"}
      BY DEF Stores
    <2>2. mem.job.running \in AttemptOrNone
      BY <2>1 DEF Jobs
    <2>3. recovery.of \in AttemptOrNone /\ recovery.snap \in Jobs
      BY DEF Others, Recoveries
    <2>4. drain.of \in AttemptOrNone /\ drain.status \in Statuses \cup {"none"}
      BY DEF Others, Drains
    <2>5. Attempts \subseteq AttemptOrNone
      BY AttemptsAssumption DEF Attempts, AttemptOrNone
    <2> QED BY <2>1, <2>2, <2>3, <2>4, <2>5
  <1>1. ASSUME WriteEnds
      PROVE  mem' \in Stores /\ writes' \in Seq(Writes) /\ engine' \in Engines /\ Others'
    <2>1. /\ Tail(writes) \in Seq(Writes) /\ Head(writes).state \in Stores
          /\ Head(writes).by \in Clients \cup {"nobody"}
          /\ Head(writes).state.job.running \in AttemptOrNone
      BY <1>1, Written, JobFields DEF WriteEnds, Writes, Stores
    <2>2. PICK ok \in BOOLEAN, applied \in BOOLEAN :
             /\ IF ok THEN UNCHANGED events ELSE events' = events + 1
             /\ disk' = IF applied THEN Head(writes).state ELSE disk
             /\ answer' = IF Head(writes).by = "nobody" THEN answer
                          ELSE [answer EXCEPT ![Head(writes).by] =
                                  IF ok THEN "ok" ELSE "failed"]
             /\ proven' = IF applied /\ Head(writes).state.job.done
                          THEN proven \cup {Head(writes).state.job.running} ELSE proven
      BY <1>1 DEF WriteEnds
    <2>3. disk' \in Stores
      BY <2>1, <2>2 DEF Others
    <2>4. answer' \in [Clients -> {"none", "ok", "failed"}]
      <3>1. CASE Head(writes).by = "nobody"
        BY <2>2, <3>1 DEF Others
      <3>2. CASE Head(writes).by # "nobody"
        BY <2>1, <2>2, <3>2 DEF Others
      <3> QED BY <3>1, <3>2
    <2>5. proven' \subseteq AttemptOrNone /\ events' \in Nat
      BY <2>1, <2>2 DEF Others
    <2> QED BY <1>1, <2>1, <2>3, <2>4, <2>5 DEF WriteEnds, Others
  <1>2. ASSUME Touch
      PROVE  mem' \in Stores /\ writes' \in Seq(Writes) /\ engine' \in Engines /\ Others'
    <2>1. mem' \in Stores /\ writes' \in Seq(Writes)
      BY <1>2, <1>0, Saved DEF Touch
    <2>3. Others'
      BY <1>2, IdleTypes DEF Touch, Others
    <2> QED BY <2>1, <2>3, <1>2, IdleTypes DEF Touch
  <1>3. ASSUME Command
      PROVE  mem' \in Stores /\ writes' \in Seq(Writes) /\ engine' \in Engines /\ Others'
    <2>1. mem' \in Stores /\ writes' \in Seq(Writes)
      BY <1>3, <1>0, Saved, CommandedTypes DEF Command
    <2>2. command' \in Commands
      BY <1>3, <1>0, IdleTypes DEF Command, Others, Commands, Kinds
    <2>3. Others'
      BY <1>3, <2>2 DEF Command, Others
    <2> QED BY <2>1, <2>3, <1>3 DEF Command
  <1>4. ASSUME CommandEnds
      PROVE  mem' \in Stores /\ writes' \in Seq(Writes) /\ engine' \in Engines /\ Others'
    <2>1. mem' \in Stores /\ writes' \in Seq(Writes)
      BY <1>4, <1>0, Saved, CommandedTypes DEF CommandEnds, Kinds
    <2>2. command' \in Commands
      BY <1>4, <1>0, IdleTypes DEF CommandEnds, Others, Commands, Kinds
    <2>3. Others'
      BY <1>4, <2>2 DEF CommandEnds, Kinds, Others
    <2> QED BY <2>1, <2>3, <1>4 DEF CommandEnds, Kinds
  <1>5. ASSUME FailClosedEnds
      PROVE  mem' \in Stores /\ writes' \in Seq(Writes) /\ engine' \in Engines /\ Others'
    <2>1. mem' \in Stores /\ writes' \in Seq(Writes)
      BY <1>5, <1>0 DEF FailClosedEnds
    <2>2. command' \in Commands
      BY <1>5, <1>0, IdleTypes DEF FailClosedEnds, Others, Commands, Kinds
    <2>3. Others'
      BY <1>5, <2>2 DEF FailClosedEnds, Others
    <2> QED BY <2>1, <2>3, <1>5 DEF FailClosedEnds
  <1>6. ASSUME Crash
      PROVE  mem' \in Stores /\ writes' \in Seq(Writes) /\ engine' \in Engines /\ Others'
    <2>1. answer' \in [Clients -> {"none", "ok", "failed"}]
      BY <1>6 DEF Crash
    <2>2. mem' \in Stores /\ writes' \in Seq(Writes)
      BY <1>6 DEF Crash, Others
    <2>3. events' \in Nat /\ timers' \subseteq Attempts
      BY <1>6 DEF Crash, Others
    <2> QED BY <1>6, <2>1, <2>2, <2>3, IdleTypes DEF Crash, Others
  <1>7. ASSUME RecoveryFires
      PROVE  mem' \in Stores /\ writes' \in Seq(Writes) /\ engine' \in Engines /\ Others'
    <2>1. mem' \in Stores /\ writes' \in Seq(Writes)
      BY <1>7, <1>0 DEF RecoveryFires
    <2>2. recovery' \in Recoveries
      BY <1>7, <1>0, IdleTypes DEF RecoveryFires, Others, Recoveries
    <2>3. Others'
      BY <1>7, <2>2 DEF RecoveryFires, Others
    <2> QED BY <2>1, <2>3, <1>7 DEF RecoveryFires
  <1>8. ASSUME RecoveryDelayed
      PROVE  mem' \in Stores /\ writes' \in Seq(Writes) /\ engine' \in Engines /\ Others'
    <2>1. mem' \in Stores /\ writes' \in Seq(Writes)
      BY <1>8, <1>0 DEF RecoveryDelayed
    <2>2. recovery' \in Recoveries
      BY <1>8, <1>0, IdleTypes DEF RecoveryDelayed, Others, Recoveries
    <2>3. Others'
      BY <1>8, <2>2 DEF RecoveryDelayed, Others
    <2> QED BY <2>1, <2>3, <1>8 DEF RecoveryDelayed
  <1>9. ASSUME Reconcile
      PROVE  mem' \in Stores /\ writes' \in Seq(Writes) /\ engine' \in Engines /\ Others'
    <2>1. mem' \in Stores /\ writes' \in Seq(Writes)
      BY <1>9, <1>0, Saved, ReconciledTypes DEF Reconcile, Mutate
    <2>2. recovery' \in Recoveries
      BY <1>9, <1>0, IdleTypes DEF Reconcile, Mutate, Others, Recoveries
    <2>3. Others'
      BY <1>9, <2>2 DEF Reconcile, Mutate, Others
    <2> QED BY <2>1, <2>3, <1>9 DEF Reconcile, Mutate
  <1>10. ASSUME ReconcileEnds
      PROVE  mem' \in Stores /\ writes' \in Seq(Writes) /\ engine' \in Engines /\ Others'
    <2>1. mem' \in Stores /\ writes' \in Seq(Writes)
      BY <1>10, <1>0, Saved, RestoredTypes DEF ReconcileEnds
    <2>2. recovery' \in Recoveries
      BY <1>10, <1>0, IdleTypes DEF ReconcileEnds, Others, Recoveries
    <2>3. Others'
      BY <1>10, <2>2 DEF ReconcileEnds, Others
    <2> QED BY <2>1, <2>3, <1>10 DEF ReconcileEnds
  <1>11. ASSUME SaverFires
      PROVE  mem' \in Stores /\ writes' \in Seq(Writes) /\ engine' \in Engines /\ Others'
    <2>1. mem' \in Stores /\ writes' \in Seq(Writes)
      BY <1>11, <1>0, Saved DEF SaverFires
    <2>3. Others'
      BY <1>11, IdleTypes DEF SaverFires, Others
    <2> QED BY <2>1, <2>3, <1>11, IdleTypes DEF SaverFires
  <1>12. ASSUME SaverEnds
      PROVE  mem' \in Stores /\ writes' \in Seq(Writes) /\ engine' \in Engines /\ Others'
    <2>1. mem' \in Stores /\ writes' \in Seq(Writes)
      BY <1>12, <1>0 DEF SaverEnds
    <2>3. Others'
      BY <1>12, IdleTypes DEF SaverEnds, Others
    <2> QED BY <2>1, <2>3, <1>12, IdleTypes DEF SaverEnds
  <1>13. ASSUME Deliver
      PROVE  mem' \in Stores /\ writes' \in Seq(Writes) /\ engine' \in Engines /\ Others'
    <2>1. mem' \in Stores /\ writes' \in Seq(Writes)
      BY <1>13, <1>0 DEF Deliver
    <2>2. drain' \in Drains
      BY <1>13, <1>0, IdleTypes DEF Deliver, Others, Drains
    <2>4. delivered' \subseteq Attempts \X (Statuses \cup {"none"})
      BY <1>13, <1>0 DEF Deliver, Others
    <2>3. Others'
      BY <1>13, <2>2, <2>4 DEF Deliver, Others
    <2> QED BY <2>1, <2>3, <1>13 DEF Deliver
  <1>14. ASSUME Acknowledge
      PROVE  mem' \in Stores /\ writes' \in Seq(Writes) /\ engine' \in Engines /\ Others'
    <2>1. mem' \in Stores /\ writes' \in Seq(Writes)
      BY <1>14, <1>0, Saved, ReportTypes DEF Acknowledge
    <2>2. drain' \in Drains
      BY <1>14, <1>0, IdleTypes DEF Acknowledge, Others, Drains
    <2>3. Others'
      BY <1>14, <2>2 DEF Acknowledge, Others
    <2> QED BY <2>1, <2>3, <1>14 DEF Acknowledge
  <1>15. ASSUME AcknowledgeEnds
      PROVE  mem' \in Stores /\ writes' \in Seq(Writes) /\ engine' \in Engines /\ Others'
    <2>1. mem' \in Stores /\ writes' \in Seq(Writes)
      BY <1>15, <1>0, Saved, ReportTypes DEF AcknowledgeEnds
    <2>2. drain' \in Drains
      BY <1>15, <1>0, IdleTypes DEF AcknowledgeEnds, Others, Drains
    <2>3. Others'
      BY <1>15, <2>2 DEF AcknowledgeEnds, Others
    <2> QED BY <2>1, <2>3, <1>15 DEF AcknowledgeEnds
  <1>16. ASSUME Boot
      PROVE  mem' \in Stores /\ writes' \in Seq(Writes) /\ engine' \in Engines /\ Others'
    <2>1. mem' \in Stores /\ writes' \in Seq(Writes)
      BY <1>16, <1>0, Saved, ReconciledTypes DEF Boot
    <2>3. Others'
      BY <1>16, IdleTypes DEF Boot, Others
    <2> QED BY <2>1, <2>3, <1>16, IdleTypes DEF Boot
  <1>17. ASSUME BootEnds
      PROVE  mem' \in Stores /\ writes' \in Seq(Writes) /\ engine' \in Engines /\ Others'
    <2>1. mem' \in Stores /\ writes' \in Seq(Writes)
      BY <1>17, <1>0 DEF BootEnds
    <2>3. Others'
      BY <1>17, IdleTypes DEF BootEnds, Others
    <2> QED BY <2>1, <2>3, <1>17, IdleTypes DEF BootEnds
  <1> QED BY <1>1, <1>2, <1>3, <1>4, <1>5, <1>6, <1>7, <1>8, <1>9, <1>10, <1>11, <1>12,
             <1>13, <1>14, <1>15, <1>16, <1>17
      DEF RecoveryNext, CommandNext, SaverNext, DrainNext, BootNext

\* With the hands in order, every step keeps the types.
LEMMA TypeStep ==
  ASSUME TypeOK, [Next]_vars,
         engine.pc # "idle" => engine.of \in Attempts,
         recovery.pc # "idle" => recovery.of \in Attempts
  PROVE  TypeOK'
  <1>1. /\ mem \in Stores /\ writes \in Seq(Writes) /\ engine \in Engines /\ Others
    BY TypeParts
  <1>2. CASE UNCHANGED vars
    BY <1>2 DEF TypeOK, vars, storeVars, claimVars, historyVars
  <1>3. CASE Claim \/ Background \/ MarkUnsafe \/ EngineNext
    <2>1. mem' \in Stores /\ writes' \in Seq(Writes) /\ engine' \in Engines /\ Others'
      BY <1>1, <1>3, EngineTypeStep
    <2> QED BY <2>1 DEF TypeOK, Others
  <1>4. CASE \/ WriteEnds \/ Touch \/ Command \/ Crash \/ RecoveryNext \/ CommandNext
             \/ SaverNext \/ DrainNext \/ BootNext
    <2>1. mem' \in Stores /\ writes' \in Seq(Writes) /\ engine' \in Engines /\ Others'
      BY <1>1, <1>4, WorldTypeStep
    <2> QED BY <2>1 DEF TypeOK, Others
  <1> QED BY <1>2, <1>3, <1>4 DEF Next

(***************************************************************************)
(* The steps as the invariants see them: what becomes of the job in memory,*)
(* and whose write is queued.                                              *)
(***************************************************************************)
Saves(c) == \E w \in Writes : w.by = c /\ w.state = mem' /\ writes' = Append(writes, w)

LEMMA SaveShape ==
  ASSUME NEW s \in Stores, NEW c \in Clients \cup {"nobody"}, Save(s, c)
  PROVE  mem' = s /\ Saves(c)
  <1> DEFINE w == [state |-> s, by |-> c]
  <1>1. w \in Writes /\ w.state = s /\ w.by = c
    BY DEF Writes
  <1>2. writes' = Append(writes, w) /\ mem' = s
    BY DEF Save
  <1> HIDE DEF w
  <1> QED BY <1>1, <1>2 DEF Saves

\* The job goes on as it is, except that a retry may be forgotten.
SameAttempt ==
  /\ mem'.job.running = mem.job.running /\ mem'.job.occ = mem.job.occ
  /\ mem'.job.risk = mem.job.risk /\ mem'.job.retryOcc \in {None, mem.job.retryOcc}

\* Nothing runs any more.
Stopped == mem'.job.running = None /\ mem'.job.occ = None

LEMMA StoreTypes ==
  ASSUME TypeOK
  PROVE  /\ mem \in Stores /\ mem.job \in Jobs /\ mem.job.risk \in Risks
         /\ mem.job.running \in AttemptOrNone /\ mem.job.retryOcc \in AttemptOrNone
         /\ mem.job.occ \in AttemptOrNone
         /\ engine \in Engines /\ engine.of \in AttemptOrNone /\ engine.plan \in Plans
         /\ engine.snap \in Jobs /\ engine.prev \in Risks
         /\ recovery.of \in AttemptOrNone /\ recovery.snap \in Jobs
         /\ drain.of \in AttemptOrNone /\ drain.status \in Statuses \cup {"none"}
         /\ "unsafe" \in Risks
  <1>1. mem \in Stores /\ mem.job \in Jobs
    BY DEF TypeOK, Stores
  <1>2. engine \in Engines /\ recovery \in Recoveries /\ drain \in Drains
    BY DEF TypeOK
  <1>3. /\ recovery.of \in AttemptOrNone /\ recovery.snap \in Jobs
        /\ drain.of \in AttemptOrNone /\ drain.status \in Statuses \cup {"none"}
    BY <1>2 DEF Recoveries, Drains
  <1> QED BY <1>1, <1>2, <1>3, JobFields, EngineFields DEF Risks

LEMMA ClaimShape ==
  ASSUME TypeOK, Claim
  PROVE  /\ Saves("engine")
         /\ mem'.job.running = nextId
         /\ mem'.job.retryOcc = mem.job.retryOcc
         /\ mem'.job.occ = IF mem.job.retryOcc = None THEN nextId ELSE mem.job.retryOcc
         /\ occOf' = [occOf EXCEPT ![nextId] = mem'.job.occ]
  <1> DEFINE occ == IF mem.job.retryOcc = None THEN nextId ELSE mem.job.retryOcc
  <1> DEFINE risk == IF SlashPrompt THEN "unsafe" ELSE "safe"
  <1>1. /\ occ \in AttemptOrNone /\ nextId \in AttemptOrNone
        /\ risk \in Risks /\ mem.job.rev \in Nat /\ mem.job.retries + 1 \in Nat
    BY StoreTypes, JobFields DEF Claim, Risks, Attempts, AttemptOrNone
  <1>2. /\ Save([mem EXCEPT !.job.running = nextId,
                            !.job.runRev = mem.job.rev,
                            !.job.number = mem.job.retries + 1,
                            !.job.risk = risk,
                            !.job.occ = occ,
                            !.job.done = FALSE], "engine")
        /\ occOf' = [occOf EXCEPT ![nextId] = occ]
    BY DEF Claim
  <1> DEFINE claimed == [mem EXCEPT !.job.running = nextId,
                                    !.job.runRev = mem.job.rev,
                                    !.job.number = mem.job.retries + 1,
                                    !.job.risk = risk,
                                    !.job.occ = occ,
                                    !.job.done = FALSE]
  <1> DEFINE job == [mem.job EXCEPT !.running = nextId,
                                    !.runRev = mem.job.rev,
                                    !.number = mem.job.retries + 1,
                                    !.risk = risk,
                                    !.occ = occ,
                                    !.done = FALSE]
  <1> HIDE DEF occ, risk
  <1>3. claimed \in Stores /\ claimed.job.running = nextId /\ claimed.job.occ = occ
        /\ claimed.job.retryOcc = mem.job.retryOcc
    <2>1. job \in Jobs /\ job.running = nextId /\ job.occ = occ
          /\ job.retryOcc = mem.job.retryOcc
      BY <1>1, StoreTypes DEF Jobs
    <2>2. claimed = [mem EXCEPT !.job = job]
      BY StoreTypes DEF Stores, Jobs
    <2> HIDE DEF job, claimed
    <2> QED BY <2>1, <2>2, StoreTypes DEF Stores
  <1>4. Save(claimed, "engine")
    BY <1>2
  <1> HIDE DEF claimed
  <1>5. mem' = claimed /\ Saves("engine")
    BY <1>3, <1>4, SaveShape, ClientTypes
  <1> QED BY <1>2, <1>3, <1>5 DEF occ

LEMMA ReleaseShape ==
  ASSUME TypeOK, OwnerOK, Release
  PROVE  /\ Saves("engine") /\ Stopped /\ lock = "free" /\ lock' = "engine"
         /\ mem'.job.retryOcc = mem.job.retryOcc
         /\ engine' = [engine EXCEPT !.pc = "releasing"]
  <1>1. /\ Save(Released(mem, engine.of), "engine") /\ lock = "free" /\ lock' = "engine"
        /\ engine' = [engine EXCEPT !.pc = "releasing"]
    BY DEF Release, Mutate, OwnerOK, At, Go
  <1>2. mem \in Stores /\ engine.of \in AttemptOrNone
    BY StoreTypes
  <1>3. Released(mem, engine.of) \in Stores
    BY <1>2, ReleasedTypes
  <1>4. mem' = Released(mem, engine.of) /\ Saves("engine")
    BY <1>1, <1>3, SaveShape, ClientTypes
  <1> QED BY <1>1, <1>2, <1>4, ReleasedTypes DEF Stopped

\* The fence of the hooks and the mark of an effect.
LEMMA MarkShape ==
  ASSUME TypeOK, OwnerOK, FenceHooks \/ MarkUnsafe
  PROVE  /\ Saves("engine")
         /\ mem'.job.running = mem.job.running /\ mem'.job.occ = mem.job.occ
         /\ mem'.job.retryOcc = mem.job.retryOcc /\ mem'.job.risk = "unsafe"
  <1>1. Save(WithRisk(mem, "unsafe"), "engine")
    BY DEF FenceHooks, MarkUnsafe, Mutate, OwnerOK, At, Go
  <1>2. mem \in Stores /\ "unsafe" \in Risks
    BY StoreTypes
  <1>3. WithRisk(mem, "unsafe") \in Stores
    BY <1>2, WithRiskTypes
  <1>4. mem' = WithRisk(mem, "unsafe") /\ Saves("engine")
    BY <1>1, <1>3, SaveShape, ClientTypes
  <1> QED BY <1>2, <1>4, WithRiskTypes

LEMMA UnmarkShape ==
  ASSUME TypeOK, NEW c \in {"engine", "nobody"}, Save(WithRisk(mem, engine.prev), c)
  PROVE  /\ Saves(c)
         /\ mem'.job.running = mem.job.running /\ mem'.job.occ = mem.job.occ
         /\ mem'.job.retryOcc = mem.job.retryOcc /\ mem'.job.risk = engine.prev
  <1>1. mem \in Stores /\ engine.prev \in Risks
    BY StoreTypes
  <1>2. WithRisk(mem, engine.prev) \in Stores
    BY <1>1, WithRiskTypes
  <1>3. mem' = WithRisk(mem, engine.prev) /\ Saves(c)
    BY <1>2, SaveShape, ClientTypes
  <1> QED BY <1>1, <1>3, WithRiskTypes

LEMMA CompleteShape ==
  ASSUME TypeOK, OwnerOK, Complete
  PROVE  Saves("engine") /\ SameAttempt /\ UNCHANGED timers
         /\ engine' = [engine EXCEPT !.pc = "completing", !.aborted = FALSE]
  BY SaveShape, ClientTypes, StoreTypes, DoneTypes
     DEF Complete, OwnerOK, At, Go, SameAttempt

LEMMA SettleShape ==
  ASSUME TypeOK, OwnerOK, Settle
  PROVE  /\ Saves("engine") /\ Stopped /\ lock = "free" /\ lock' = "engine"
         /\ engine' = [engine EXCEPT !.pc = "saving"]
         /\ \/ mem'.job.retryOcc = None
            \/ /\ mem'.job.retryOcc = mem.job.occ
               /\ engine.plan = "defer" \/ mem.job.risk # "unsafe"
  <1>1. Save(Settled(mem, engine.of, engine.plan), "engine")
        /\ lock = "free" /\ lock' = "engine" /\ engine' = [engine EXCEPT !.pc = "saving"]
    BY DEF Settle, Mutate, OwnerOK, At, Go
  <1>2. mem \in Stores /\ engine.of \in AttemptOrNone /\ engine.plan \in Plans
    BY StoreTypes
  <1>3. Settled(mem, engine.of, engine.plan) \in Stores
    BY <1>2, SettledTypes
  <1>4. mem' = Settled(mem, engine.of, engine.plan) /\ Saves("engine")
    BY <1>1, <1>3, SaveShape, ClientTypes
  <1> QED BY <1>1, <1>2, <1>4, SettledTypes DEF Stopped

\* A settlement that was not saved puts the snapshot of the attempt back.
LEMMA RestoreShape ==
  ASSUME TypeOK, NEW a \in AttemptOrNone, NEW snapshot \in Jobs, NEW completed \in BOOLEAN,
         mem.job.running = None, Save(Restored(mem, a, snapshot, completed), "nobody")
  PROVE  /\ Saves("nobody")
         /\ mem'.job.running = snapshot.running /\ mem'.job.occ = snapshot.occ
         /\ mem'.job.retryOcc = snapshot.retryOcc /\ mem'.job.risk = snapshot.risk
  <1>1. mem \in Stores
    BY StoreTypes
  <1>2. Restored(mem, a, snapshot, completed) \in Stores
    BY <1>1, RestoredTypes
  <1>3. mem' = Restored(mem, a, snapshot, completed) /\ Saves("nobody")
    BY <1>2, SaveShape
  <1> QED BY <1>1, <1>3, RestoredTypes

LEMMA ReconcileShape ==
  ASSUME TypeOK, NEW c \in Clients, Save(Reconciled(mem), c)
  PROVE  /\ Saves(c) /\ Stopped
         /\ \/ mem'.job.retryOcc = None
            \/ mem'.job.retryOcc = mem.job.occ /\ mem.job.risk # "unsafe"
  BY SaveShape, StoreTypes, ReconciledTypes DEF Stopped

\* The commands, the saver, the drain and the writes of others leave the attempt and
\* its hands alone.
Keeps ==
  /\ SameAttempt
  /\ \/ UNCHANGED <<mem, writes>>
     \/ \E c \in (Clients \cup {"nobody"}) \ {"engine"} : Saves(c)
  /\ answer'["engine"] = answer["engine"]
  /\ UNCHANGED <<disk, engine, timers, recovery, boot, claimVars, dispatched>>

LEMMA KeepsStep ==
  ASSUME TypeOK, Touch \/ Command \/ CommandNext \/ SaverNext \/ DrainNext
  PROVE  Keeps
  <1> USE ClientTypes, StoreTypes
      DEF Take, Leave, Told, Happens, CommandOnly, DrainOnly, historyVars
  <1>0. /\ answer \in [Clients -> {"none", "ok", "failed"}]
        /\ UNCHANGED mem => SameAttempt
    BY DEF TypeOK, SameAttempt
  <1>1. ASSUME Touch PROVE Keeps
    BY <1>0, <1>1, SaveShape DEF Touch, Keeps, SameAttempt
  <1>2. ASSUME Command PROVE Keeps
    <2>1. SameAttempt /\ Saves("command")
      BY <1>2, SaveShape, CommandedTypes DEF Command, SameAttempt
    <2> QED BY <2>1, <1>2 DEF Command, Keeps
  <1>3. ASSUME CommandEnds PROVE Keeps
    <2>1. SameAttempt /\ (UNCHANGED <<mem, writes>> \/ Saves("command"))
      BY <1>0, <1>3, SaveShape, CommandedTypes DEF CommandEnds, SameAttempt, Kinds
    <2> QED BY <1>0, <2>1, <1>3 DEF CommandEnds, Keeps
  <1>4. ASSUME FailClosedEnds PROVE Keeps
    BY <1>0, <1>4 DEF FailClosedEnds, Keeps
  <1>5. ASSUME SaverFires PROVE Keeps
    BY <1>0, <1>5, SaveShape DEF SaverFires, Keeps, SameAttempt
  <1>6. ASSUME SaverEnds PROVE Keeps
    BY <1>0, <1>6 DEF SaverEnds, Keeps
  <1>7. ASSUME Deliver PROVE Keeps
    BY <1>0, <1>7 DEF Deliver, Keeps
  <1>8. ASSUME Acknowledge PROVE Keeps
    <2>1. SameAttempt /\ (UNCHANGED <<mem, writes>> \/ Saves("drain"))
      <3> DEFINE s == [mem EXCEPT !.reports[drain.of] = "none"]
      <3>1. CASE Save(s, "drain")
        <4>1. s \in Stores /\ s.job = mem.job
          BY ReportTypes
        <4> HIDE DEF s
        <4>2. mem' = s /\ Saves("drain")
          BY <3>1, <4>1, SaveShape
        <4> QED BY <4>1, <4>2 DEF SameAttempt
      <3>2. CASE UNCHANGED <<mem, writes>>
        BY <1>0, <3>2
      <3> QED BY <1>8, <3>1, <3>2 DEF Acknowledge
    <2> QED BY <2>1, <1>8 DEF Acknowledge, Keeps
  <1>9. ASSUME AcknowledgeEnds PROVE Keeps
    <2>1. SameAttempt /\ (UNCHANGED <<mem, writes>> \/ Saves("nobody"))
      <3> DEFINE s == [mem EXCEPT !.reports[drain.of] = drain.status]
      <3>1. CASE Save(s, "nobody")
        <4>1. s \in Stores /\ s.job = mem.job
          BY ReportTypes
        <4> HIDE DEF s
        <4>2. mem' = s /\ Saves("nobody")
          BY <3>1, <4>1, SaveShape
        <4> QED BY <4>1, <4>2 DEF SameAttempt
      <3>2. CASE UNCHANGED <<mem, writes>>
        BY <1>0, <3>2
      <3> QED BY <1>9, <3>1, <3>2 DEF AcknowledgeEnds
    <2> QED BY <1>0, <2>1, <1>9 DEF AcknowledgeEnds, Keeps
  <1> QED BY <1>1, <1>2, <1>3, <1>4, <1>5, <1>6, <1>7, <1>8, <1>9
          DEF CommandNext, SaverNext, DrainNext

\* What the engine's record is after it moved.
LEMMA EngineMoves ==
  ASSUME engine \in Engines, NEW p
  PROVE  /\ [engine EXCEPT !.pc = p].pc = p
         /\ [engine EXCEPT !.pc = p].of = engine.of
         /\ [engine EXCEPT !.pc = p].plan = engine.plan
         /\ [engine EXCEPT !.pc = p].snap = engine.snap
         /\ [engine EXCEPT !.pc = p].prev = engine.prev
         /\ [engine EXCEPT !.pc = p, !.aborted = FALSE].pc = p
         /\ [engine EXCEPT !.pc = p, !.aborted = FALSE].of = engine.of
  BY DEF Engines

LEMMA EngineStops == NoEngine.pc = "idle" /\ NoEngine.of = None
  BY DEF NoEngine

LEMMA EngineStarts ==
  ASSUME NEW p, NEW a
  PROVE  /\ [NoEngine EXCEPT !.pc = p, !.of = a].pc = p
         /\ [NoEngine EXCEPT !.pc = p, !.of = a].of = a
  BY DEF NoEngine

LEMMA EngineAborts ==
  ASSUME engine \in Engines
  PROVE  LET e == [engine EXCEPT !.aborted = TRUE] IN
         /\ e.pc = engine.pc /\ e.of = engine.of /\ e.plan = engine.plan
         /\ e.snap = engine.snap /\ e.prev = engine.prev
  BY DEF Engines

LEMMA EngineMarks ==
  ASSUME engine \in Engines, NEW p, NEW r
  PROVE  /\ [engine EXCEPT !.pc = p, !.prev = r].pc = p
         /\ [engine EXCEPT !.pc = p, !.prev = r].of = engine.of
         /\ [engine EXCEPT !.pc = p, !.prev = r].prev = r
  BY DEF Engines

LEMMA EngineConcludes ==
  ASSUME engine \in Engines, NEW how, Conclude(how)
  PROVE  /\ engine'.pc = "settling" /\ engine'.of = engine.of
         /\ engine'.plan = how /\ engine'.snap = mem.job
  BY DEF Conclude, Engines

\* The steps of the engine that have several outcomes, with the outcomes in full.
EngineAlone == UNCHANGED <<disk, recovery, command, drain, boot>>
Consumed ==
  /\ answer["engine"] # "none" /\ answer'["engine"] = "none"
  /\ \A c \in Clients : c # "engine" => answer'[c] = answer[c]

LEMMA ToldShape ==
  ASSUME TypeOK, NEW outcome \in {"ok", "failed"}, Told("engine", outcome)
  PROVE  Consumed /\ answer["engine"] = outcome
  BY ClientTypes DEF TypeOK, Told, Consumed

LEMMA FenceHooksShape ==
  ASSUME TypeOK, OwnerOK, FenceHooks
  PROVE  /\ engine.pc = "claimed" /\ lock = "free" /\ lock' = "engine"
         /\ engine'.pc = "fencing" /\ engine'.of = engine.of
         /\ EngineAlone /\ UNCHANGED <<answer, timers, saver, claimVars, dispatched>>
  <1>1. /\ engine.pc = "claimed" /\ lock = "free" /\ lock' = "engine"
        /\ EngineAlone /\ UNCHANGED <<answer, timers, saver, claimVars, dispatched>>
        /\ engine' = [engine EXCEPT !.pc = "fencing", !.prev = mem.job.risk]
    BY DEF FenceHooks, Mutate, At, OwnerOK, EngineOnly, EngineAlone
  <1> QED BY <1>1, EngineMarks, StoreTypes

LEMMA FenceEndsShape ==
  ASSUME TypeOK, FenceEnds
  PROVE  /\ engine.pc = "fencing" /\ lock = "engine" /\ lock' = "free" /\ Consumed
         /\ EngineAlone /\ UNCHANGED <<saver, claimVars, dispatched>>
         /\ \/ /\ answer["engine"] = "ok" /\ engine'.pc = "ready" /\ engine'.of = engine.of
               /\ UNCHANGED <<mem, writes, timers>>
            \/ /\ engine' = NoEngine /\ timers' = timers \cup {engine.of}
               /\ Save(WithRisk(mem, engine.prev), "nobody")
  <1> DEFINE e == [engine EXCEPT !.pc = "ready", !.prev = "none"]
  <1>1. e.pc = "ready" /\ e.of = engine.of
    BY EngineMarks, StoreTypes
  <1>2. /\ engine.pc = "fencing" /\ lock = "engine" /\ lock' = "free"
        /\ EngineAlone /\ UNCHANGED <<saver, claimVars, dispatched>>
        /\ \/ /\ Told("engine", "ok") /\ engine' = e
              /\ UNCHANGED <<mem, writes, timers>>
           \/ /\ Told("engine", "failed")
              /\ engine' = NoEngine /\ timers' = timers \cup {engine.of}
              /\ Save(WithRisk(mem, engine.prev), "nobody")
    BY DEF FenceEnds, At, Leave, Return, EngineOnly, EngineAlone
  <1> HIDE DEF e
  <1> QED BY <1>1, <1>2, ToldShape

LEMMA MarkUnsafeShape ==
  ASSUME TypeOK, MarkUnsafe
  PROVE  /\ engine.pc = "running" /\ engine'.pc = "marking" /\ engine'.of = engine.of
         /\ engine'.prev = mem.job.risk
         /\ EngineAlone /\ UNCHANGED <<answer, lock, timers, saver, claimVars, dispatched>>
  <1>1. /\ engine.pc = "running"
        /\ EngineAlone /\ UNCHANGED <<answer, lock, timers, saver, claimVars, dispatched>>
        /\ engine' = [engine EXCEPT !.pc = "marking", !.prev = mem.job.risk]
    BY DEF MarkUnsafe, At, EngineOnly, EngineAlone
  <1> QED BY <1>1, EngineMarks, StoreTypes

LEMMA MarkEndsShape ==
  ASSUME TypeOK, MarkEnds
  PROVE  /\ engine.pc = "marking" /\ engine'.of = engine.of /\ Consumed
         /\ EngineAlone /\ UNCHANGED <<lock, timers, saver, claimVars>>
         /\ \/ /\ answer["engine"] = "ok" /\ engine'.pc = "running"
               /\ dispatched' \in {dispatched, dispatched \cup {engine.of}}
               /\ UNCHANGED <<mem, writes>>
            \/ /\ engine'.pc = "unmarking" /\ UNCHANGED dispatched
               /\ Save(WithRisk(mem, engine.prev), "engine")
  <1> DEFINE e == [engine EXCEPT !.pc = "running", !.prev = "none"]
             f == [engine EXCEPT !.pc = "unmarking", !.prev = "none"]
  <1>1. e.pc = "running" /\ e.of = engine.of /\ f.pc = "unmarking" /\ f.of = engine.of
    BY EngineMarks, StoreTypes
  <1>2. /\ engine.pc = "marking"
        /\ EngineAlone /\ UNCHANGED <<lock, timers, saver, claimVars>>
        /\ \/ /\ Told("engine", "ok") /\ engine' = e
              /\ dispatched' \in {dispatched, dispatched \cup {engine.of}}
              /\ UNCHANGED <<mem, writes>>
           \/ /\ Told("engine", "failed") /\ engine' = f /\ UNCHANGED dispatched
              /\ Save(WithRisk(mem, engine.prev), "engine")
    BY DEF MarkEnds, At, EngineOnly, EngineAlone
  <1> HIDE DEF e, f
  <1> QED BY <1>1, <1>2, ToldShape

LEMMA CompleteStepShape ==
  ASSUME TypeOK, OwnerOK, Complete
  PROVE  /\ engine.pc = "running" /\ engine'.pc = "completing" /\ engine'.of = engine.of
         /\ EngineAlone /\ UNCHANGED <<answer, lock, timers, saver, claimVars, dispatched>>
  <1>1. /\ engine.pc = "running"
        /\ EngineAlone /\ UNCHANGED <<answer, lock, saver, claimVars, dispatched>>
    BY DEF Complete, At, EngineOnly, EngineAlone
  <1> DEFINE e == [engine EXCEPT !.pc = "completing", !.aborted = FALSE]
  <1>2. e.pc = "completing" /\ e.of = engine.of
    BY EngineMoves, StoreTypes
  <1>3. engine' = e /\ UNCHANGED timers
    BY CompleteShape
  <1> HIDE DEF e
  <1> QED BY <1>1, <1>2, <1>3

LEMMA CompleteEndsShape ==
  ASSUME TypeOK, CompleteEnds
  PROVE  /\ engine.pc = "completing" /\ Consumed
         /\ EngineAlone /\ UNCHANGED <<mem, writes, lock, saver, claimVars, dispatched>>
         /\ \/ /\ engine'.pc = "settling" /\ engine'.of = engine.of
               /\ engine'.plan = "success" /\ engine'.snap = mem.job
               /\ UNCHANGED timers
            \/ engine' = NoEngine /\ timers' = timers \cup {engine.of}
  <1>1. /\ engine.pc = "completing"
        /\ EngineAlone /\ UNCHANGED <<mem, writes, lock, saver, claimVars, dispatched>>
        /\ \/ Told("engine", "ok") /\ Conclude("success") /\ UNCHANGED timers
           \/ /\ Told("engine", "ok") \/ Told("engine", "failed")
              /\ engine' = NoEngine /\ timers' = timers \cup {engine.of}
    BY DEF CompleteEnds, At, Return, EngineOnly, EngineAlone
  <1> QED BY <1>1, ToldShape, EngineConcludes, StoreTypes

LEMMA ThrowShape ==
  ASSUME TypeOK, Throw
  PROVE  /\ engine.pc \in {"ready", "running"} /\ engine'.pc = "settling"
         /\ engine'.of = engine.of /\ engine'.snap = mem.job
         /\ engine'.plan \in {"defer", "retry"} =>
               engine.pc = "ready" \/ mem.job.risk # "unsafe"
         /\ EngineAlone
         /\ UNCHANGED <<mem, writes, answer, lock, timers, saver, claimVars, dispatched>>
  <1>1. PICK error \in {"busy", "background", "transient", "final"} :
           /\ error = "busy" => engine.pc = "ready"
           /\ Conclude(PlanFor(mem.job, error))
    BY DEF Throw, At
  <1>2. /\ engine'.pc = "settling" /\ engine'.of = engine.of
        /\ engine'.plan = PlanFor(mem.job, error) /\ engine'.snap = mem.job
    BY <1>1, EngineConcludes, StoreTypes
  <1>3. PlanFor(mem.job, error) \in {"defer", "retry"} =>
           error = "busy" \/ mem.job.risk # "unsafe"
    BY DEF PlanFor
  <1> QED BY <1>1, <1>2, <1>3 DEF Throw, EngineOnly, EngineAlone

LEMMA SettleEndsShape ==
  ASSUME TypeOK, SettleEnds
  PROVE  /\ engine.pc = "saving" /\ engine' = NoEngine /\ lock = "engine" /\ lock' = "free"
         /\ Consumed /\ EngineAlone /\ UNCHANGED <<saver, claimVars, dispatched>>
         /\ \/ UNCHANGED <<mem, writes, timers>>
            \/ /\ timers' = timers \cup {engine.of}
               /\ Save(Restored(mem, engine.of, engine.snap, engine.plan = "success"),
                       "nobody")
  BY ToldShape DEF SettleEnds, At, Leave, Return, EngineOnly, EngineAlone

LEMMA ClaimEndsShape ==
  ASSUME TypeOK, ClaimEnds
  PROVE  /\ engine.pc = "claiming" /\ engine'.of = engine.of /\ Consumed
         /\ EngineAlone /\ UNCHANGED <<mem, writes, timers, saver, claimVars, dispatched>>
         /\ \/ answer["engine"] = "ok" /\ engine'.pc = "claimed"
            \/ engine'.pc = "unclaimed"
  <1>1. /\ engine.pc = "claiming"
        /\ EngineAlone /\ UNCHANGED <<mem, writes, timers, saver, claimVars, dispatched>>
    BY DEF ClaimEnds, At, EngineOnly, EngineAlone
  <1>2. CASE Told("engine", "ok") /\ engine' = [engine EXCEPT !.pc = "claimed"]
    <2>1. engine'.pc = "claimed" /\ engine'.of = engine.of
      BY <1>2, EngineMoves, StoreTypes
    <2> QED BY <1>1, <1>2, <2>1, ToldShape
  <1>3. CASE Told("engine", "failed") /\ engine' = [engine EXCEPT !.pc = "unclaimed"]
    <2>1. engine'.pc = "unclaimed" /\ engine'.of = engine.of
      BY <1>3, EngineMoves, StoreTypes
    <2> QED BY <1>1, <1>3, <2>1, ToldShape
  <1> QED BY <1>2, <1>3 DEF ClaimEnds, Go

(***************************************************************************)
(* The lock, the start and the hands an attempt is in.                     *)
(***************************************************************************)
LEMMA LockStep ==
  ASSUME TypeOK, LockOK, OwnerOK, [Next]_vars
  PROVE  LockOK'
  <1> USE DEF At, Go, Return, Take, Leave, Told, ToldAnything, Happens, EngineOnly,
              RecoveryOnly, CommandOnly, DrainOnly, claimVars, historyVars
  <1>0. /\ engine \in Engines /\ recovery \in Recoveries /\ command \in Commands
        /\ drain \in Drains /\ saver \in {"off", "armed", "saving"}
    BY DEF TypeOK
  <1>1. CASE UNCHANGED vars
    BY <1>1 DEF vars, storeVars, LockOK
  <1>2. CASE Claim
    BY <1>0, <1>2 DEF LockOK, Claim, NoEngine, Engines, Recoveries, Commands, Drains
  <1>3. CASE ClaimEnds
    BY <1>0, <1>3 DEF LockOK, ClaimEnds, Engines, Recoveries, Commands, Drains
  <1>4. CASE Release
    BY <1>0, <1>4 DEF LockOK, Release, Mutate, NoEngine, Engines, Recoveries, Commands,
       Drains
  <1>5. CASE ReleaseEnds
    BY <1>0, <1>5 DEF LockOK, ReleaseEnds, NoEngine, Engines, Recoveries, Commands, Drains
  <1>6. CASE NoHooks
    BY <1>0, <1>6 DEF LockOK, NoHooks, Engines, Recoveries, Commands, Drains
  <1>7. CASE FenceHooks
    BY <1>7, FenceHooksShape, EngineStops DEF LockOK, EngineAlone
  <1>8. CASE FenceEnds
    BY <1>8, FenceEndsShape, EngineStops DEF LockOK, EngineAlone
  <1>9. CASE Background
    BY <1>0, <1>9 DEF LockOK, Background, Engines, Recoveries, Commands, Drains
  <1>10. CASE Start
    BY <1>0, <1>10 DEF LockOK, Start, Engines, Recoveries, Commands, Drains
  <1>11. CASE MarkUnsafe
    BY <1>11, MarkUnsafeShape, EngineStops DEF LockOK, EngineAlone
  <1>12. CASE MarkEnds
    BY <1>12, MarkEndsShape, EngineStops DEF LockOK, EngineAlone
  <1>13. CASE UnmarkEnds
    BY <1>0, <1>13 DEF LockOK, UnmarkEnds, Engines, Recoveries, Commands, Drains
  <1>14. CASE Complete
    BY <1>14, CompleteStepShape, EngineStops DEF LockOK, EngineAlone
  <1>15. CASE CompleteEnds
    BY <1>15, CompleteEndsShape, EngineStops DEF LockOK, EngineAlone
  <1>16. CASE Throw
    BY <1>16, ThrowShape, EngineStops DEF LockOK, EngineAlone
  <1>17. CASE Settle
    BY <1>0, <1>17 DEF LockOK, Settle, Mutate, NoEngine, Engines, Recoveries, Commands,
       Drains
  <1>18. CASE SettleEnds
    BY <1>18, SettleEndsShape, EngineStops DEF LockOK, EngineAlone
  <1>19. CASE RecoveryFires
    BY <1>0, <1>19 DEF LockOK, RecoveryFires, NoRecovery, Engines, Recoveries, Commands,
       Drains
  <1>20. CASE RecoveryDelayed
    BY <1>0, <1>20 DEF LockOK, RecoveryDelayed, NoRecovery, Engines, Recoveries,
       Commands, Drains
  <1>21. CASE Reconcile
    BY <1>0, <1>21 DEF LockOK, Reconcile, Mutate, NoRecovery, Engines, Recoveries,
       Commands, Drains
  <1>22. CASE ReconcileEnds
    BY <1>0, <1>22 DEF LockOK, ReconcileEnds, NoRecovery, Engines, Recoveries, Commands,
       Drains
  <1>23. CASE Touch
    BY <1>0, <1>23 DEF LockOK, Touch, Engines, Recoveries, Commands, Drains
  <1>24. CASE Command
    BY <1>0, <1>24 DEF LockOK, Command, Engines, Recoveries, Commands, Drains
  <1>25. CASE CommandEnds
    BY <1>0, <1>25 DEF LockOK, CommandEnds, NoCommand, Engines, Recoveries, Commands, Drains
  <1>26. CASE FailClosedEnds
    BY <1>0, <1>26 DEF LockOK, FailClosedEnds, NoCommand, Engines, Recoveries, Commands,
       Drains
  <1>27. CASE SaverFires
    BY <1>0, <1>27 DEF LockOK, SaverFires, Engines, Recoveries, Commands, Drains
  <1>28. CASE SaverEnds
    BY <1>0, <1>28 DEF LockOK, SaverEnds, Engines, Recoveries, Commands, Drains
  <1>29. CASE Deliver
    BY <1>0, <1>29 DEF LockOK, Deliver, NoDrain, Engines, Recoveries, Commands, Drains
  <1>30. CASE Acknowledge
    BY <1>0, <1>30 DEF LockOK, Acknowledge, NoDrain, Engines, Recoveries, Commands, Drains
  <1>31. CASE AcknowledgeEnds
    BY <1>0, <1>31 DEF LockOK, AcknowledgeEnds, NoDrain, Engines, Recoveries, Commands,
       Drains
  <1>32. CASE WriteEnds
    BY <1>0, <1>32 DEF LockOK, WriteEnds, Engines, Recoveries, Commands, Drains
  <1>33. CASE Boot
    BY <1>0, <1>33 DEF LockOK, Boot, NoEngine, Engines, Recoveries, Commands, Drains
  <1>34. CASE BootEnds
    BY <1>0, <1>34 DEF LockOK, BootEnds, Engines, Recoveries, Commands, Drains
  <1>35. CASE Crash
    BY <1>0, <1>35 DEF LockOK, Crash, NoEngine, NoRecovery, NoCommand, NoDrain, Engines,
       Recoveries, Commands, Drains
  <1> QED BY <1>1, <1>2, <1>3, <1>4, <1>5, <1>6, <1>7, <1>8, <1>9, <1>10, <1>11, <1>12,
             <1>13, <1>14, <1>15, <1>16, <1>17, <1>18, <1>19, <1>20, <1>21, <1>22,
             <1>23, <1>24, <1>25, <1>26, <1>27, <1>28, <1>29, <1>30, <1>31, <1>32,
             <1>33, <1>34, <1>35
          DEF Next, EngineNext, RecoveryNext, CommandNext, SaverNext, DrainNext, BootNext

LEMMA BootStep ==
  ASSUME TypeOK, LockOK, BootOK, OwnerOK, [Next]_vars
  PROVE  BootOK'
  <1> USE DEF At, Go, Return, Take, Leave, Told, ToldAnything, Happens, EngineOnly,
              RecoveryOnly, CommandOnly, DrainOnly, claimVars, historyVars
  <1>0. /\ engine \in Engines /\ recovery \in Recoveries /\ command \in Commands
        /\ drain \in Drains /\ saver \in {"off", "armed", "saving"}
        /\ boot \in {"down", "saving", "done"} /\ mem \in Stores
    BY DEF TypeOK
  <1>1. CASE UNCHANGED vars
    BY <1>1 DEF vars, storeVars, BootOK
  <1>2. CASE Claim
    BY <1>0, <1>2 DEF BootOK, LockOK, Claim, NoEngine
  <1>3. CASE ClaimEnds
    <2>1. engine.pc # "idle" /\ boot' = boot
      BY <1>3 DEF ClaimEnds
    <2> QED BY <2>1, EngineStops, <1>0 DEF BootOK
  <1>4. CASE Release
    <2>1. engine.pc # "idle" /\ boot' = boot
      BY <1>4 DEF Release, Mutate
    <2> QED BY <2>1, EngineStops, <1>0 DEF BootOK
  <1>5. CASE ReleaseEnds
    <2>1. engine.pc # "idle" /\ boot' = boot
      BY <1>5 DEF ReleaseEnds
    <2> QED BY <2>1, EngineStops, <1>0 DEF BootOK
  <1>6. CASE NoHooks
    <2>1. engine.pc # "idle" /\ boot' = boot
      BY <1>6 DEF NoHooks
    <2> QED BY <2>1, EngineStops, <1>0 DEF BootOK
  <1>7. CASE FenceHooks
    BY <1>0, <1>7, FenceHooksShape, EngineStops DEF BootOK, EngineAlone
  <1>8. CASE FenceEnds
    BY <1>0, <1>8, FenceEndsShape, EngineStops DEF BootOK, EngineAlone
  <1>9. CASE Background
    <2>1. engine.pc # "idle" /\ boot' = boot
      BY <1>9 DEF Background
    <2> QED BY <2>1, EngineStops, <1>0 DEF BootOK
  <1>10. CASE Start
    <2>1. engine.pc # "idle" /\ boot' = boot
      BY <1>10 DEF Start
    <2> QED BY <2>1, EngineStops, <1>0 DEF BootOK
  <1>11. CASE MarkUnsafe
    BY <1>0, <1>11, MarkUnsafeShape, EngineStops DEF BootOK, EngineAlone
  <1>12. CASE MarkEnds
    BY <1>0, <1>12, MarkEndsShape, EngineStops DEF BootOK, EngineAlone
  <1>13. CASE UnmarkEnds
    <2>1. engine.pc # "idle" /\ boot' = boot
      BY <1>13 DEF UnmarkEnds
    <2> QED BY <2>1, EngineStops, <1>0 DEF BootOK
  <1>14. CASE Complete
    BY <1>0, <1>14, CompleteStepShape, EngineStops DEF BootOK, EngineAlone
  <1>15. CASE CompleteEnds
    BY <1>0, <1>15, CompleteEndsShape, EngineStops DEF BootOK, EngineAlone
  <1>16. CASE Throw
    BY <1>0, <1>16, ThrowShape, EngineStops DEF BootOK, EngineAlone
  <1>17. CASE Settle
    <2>1. engine.pc # "idle" /\ boot' = boot
      BY <1>17 DEF Settle, Mutate
    <2> QED BY <2>1, EngineStops, <1>0 DEF BootOK
  <1>18. CASE SettleEnds
    BY <1>0, <1>18, SettleEndsShape, EngineStops DEF BootOK, EngineAlone
  <1>19. CASE RecoveryFires
    <2>1. boot' = boot /\ boot = "done"
      BY <1>19 DEF RecoveryFires, BootOK, NoRecovery
    <2> QED BY <2>1 DEF BootOK
  <1>20. CASE RecoveryDelayed
    <2>1. boot' = boot /\ boot = "done"
      BY <1>20 DEF RecoveryDelayed, BootOK, NoRecovery
    <2> QED BY <2>1 DEF BootOK
  <1>21. CASE Reconcile
    <2>1. boot' = boot /\ boot = "done"
      BY <1>21 DEF Reconcile, BootOK, NoRecovery, Mutate
    <2> QED BY <2>1 DEF BootOK
  <1>22. CASE ReconcileEnds
    <2>1. boot' = boot /\ boot = "done"
      BY <1>22 DEF ReconcileEnds, BootOK, NoRecovery
    <2> QED BY <2>1 DEF BootOK
  <1>23. CASE Touch
    <2>1. boot' = boot /\ boot = "done"
      BY <1>23, <1>0 DEF Touch, BootOK, LockOK
    <2> QED BY <2>1 DEF BootOK
  <1>24. CASE Command
    <2>1. boot' = boot /\ boot = "done"
      BY <1>24, <1>0 DEF Command, BootOK, LockOK
    <2> QED BY <2>1 DEF BootOK
  <1>25. CASE CommandEnds
    <2>1. boot' = boot /\ boot = "done"
      BY <1>25, <1>0 DEF CommandEnds, BootOK, LockOK
    <2> QED BY <2>1 DEF BootOK
  <1>26. CASE FailClosedEnds
    <2>1. boot' = boot /\ boot = "done"
      BY <1>26, <1>0 DEF FailClosedEnds, BootOK, LockOK
    <2> QED BY <2>1 DEF BootOK
  <1>27. CASE SaverFires
    <2>1. boot' = boot /\ boot = "done"
      BY <1>27, <1>0 DEF SaverFires, BootOK, LockOK
    <2> QED BY <2>1 DEF BootOK
  <1>28. CASE SaverEnds
    <2>1. boot' = boot /\ boot = "done"
      BY <1>28, <1>0 DEF SaverEnds, BootOK, LockOK
    <2> QED BY <2>1 DEF BootOK
  <1>29. CASE Deliver
    <2>1. boot' = boot /\ boot = "done"
      BY <1>29, <1>0 DEF Deliver, BootOK, LockOK
    <2> QED BY <2>1 DEF BootOK
  <1>30. CASE Acknowledge
    <2>1. boot' = boot /\ boot = "done"
      BY <1>30, <1>0 DEF Acknowledge, BootOK, LockOK
    <2> QED BY <2>1 DEF BootOK
  <1>31. CASE AcknowledgeEnds
    <2>1. boot' = boot /\ boot = "done"
      BY <1>31, <1>0 DEF AcknowledgeEnds, BootOK, LockOK
    <2> QED BY <2>1 DEF BootOK
  <1>32. CASE WriteEnds
    BY <1>0, <1>32 DEF BootOK, LockOK, WriteEnds
  <1>33. CASE Boot
    <2>1. CASE mem.job.running # None
      <3>1. mem'.job.running = None
        BY <1>33, <2>1, ReconcileShape, ClientTypes DEF Boot, Stopped
      <3> QED BY <1>0, <1>33, <3>1 DEF BootOK, Boot
    <2>2. CASE mem.job.running = None
      <3>1. mem'.job.running = None
        BY <1>33, <2>2, SaveShape, ClientTypes, <1>0 DEF Boot
      <3> QED BY <1>0, <1>33, <3>1 DEF BootOK, Boot
    <2> QED BY <2>1, <2>2
  <1>34. CASE BootEnds
    BY <1>0, <1>34 DEF BootOK, LockOK, BootEnds
  <1>35. CASE Crash
    BY <1>0, <1>35 DEF BootOK, LockOK, Crash, NoEngine, NoRecovery, NoCommand, NoDrain
  <1> QED BY <1>1, <1>2, <1>3, <1>4, <1>5, <1>6, <1>7, <1>8, <1>9, <1>10, <1>11, <1>12,
             <1>13, <1>14, <1>15, <1>16, <1>17, <1>18, <1>19, <1>20, <1>21, <1>22,
             <1>23, <1>24, <1>25, <1>26, <1>27, <1>28, <1>29, <1>30, <1>31, <1>32,
             <1>33, <1>34, <1>35
          DEF Next, EngineNext, RecoveryNext, CommandNext, SaverNext, DrainNext, BootNext

LEMMA OwnerStep ==
  ASSUME TypeOK, LockOK, BootOK, OwnerOK, [Next]_vars
  PROVE  OwnerOK'
  <1> USE DEF At, Go, Return, Take, Leave, Told, ToldAnything, Happens, EngineOnly,
              RecoveryOnly, CommandOnly, DrainOnly, claimVars, historyVars
  <1>0. /\ engine \in Engines /\ recovery \in Recoveries
        /\ boot \in {"down", "saving", "done"} /\ mem \in Stores
        /\ timers \subseteq Attempts /\ None \notin Attempts
    BY DEF TypeOK, None, Attempts
  <1>1. CASE UNCHANGED vars
    BY <1>1 DEF vars, storeVars, OwnerOK
  <1>2. CASE Claim
    <2>1. /\ engine.pc = "idle" /\ engine'.pc = "claiming" /\ engine'.of = nextId
          /\ nextId \in Attempts /\ lock = "free" /\ boot = "done" /\ mem.job.running = None
          /\ UNCHANGED <<recovery, timers, boot>>
      BY <1>2, EngineStarts DEF Claim
    <2>2. recovery.pc = "idle" /\ timers = {}
      BY <2>1, <1>0 DEF OwnerOK, LockOK, Recoveries
    <2> QED BY <1>0, <1>2, <2>1, <2>2, ClaimShape DEF OwnerOK
  <1>3. CASE ClaimEnds
    BY <1>0, <1>3, ClaimEndsShape DEF OwnerOK, EngineAlone
  <1>4. CASE Release
    <2>0. engine' = [engine EXCEPT !.pc = "releasing"]
      BY <1>4, ReleaseShape
    <2>1. engine'.pc = "releasing" /\ engine'.of = engine.of
      BY <2>0, <1>0, EngineMoves
    <2>2. engine.pc = "unclaimed" /\ UNCHANGED <<recovery, timers, boot>>
      BY <1>4 DEF Release
    <2> QED BY <1>0, <1>4, <2>1, <2>2, ReleaseShape DEF OwnerOK, Stopped
  <1>5. CASE ReleaseEnds
    BY <1>0, <1>5, EngineMoves, EngineAborts, EngineStops DEF ReleaseEnds, OwnerOK
  <1>6. CASE NoHooks
    BY <1>0, <1>6, EngineMoves, EngineAborts, EngineStops DEF NoHooks, OwnerOK
  <1>7. CASE FenceHooks
    BY <1>0, <1>7, MarkShape, FenceHooksShape DEF OwnerOK, EngineAlone
  <1>8. CASE FenceEnds
    <2>1. CASE Save(WithRisk(mem, engine.prev), "nobody")
      BY <1>0, <1>8, <2>1, UnmarkShape, FenceEndsShape, EngineStops DEF OwnerOK, EngineAlone
    <2>2. CASE UNCHANGED <<mem, writes, timers>>
      BY <1>0, <1>8, <2>2, FenceEndsShape, EngineStops DEF OwnerOK, EngineAlone
    <2> QED BY <1>8, <2>1, <2>2, FenceEndsShape
  <1>9. CASE Background
    BY <1>0, <1>9, EngineMoves, EngineAborts, EngineStops DEF Background, OwnerOK
  <1>10. CASE Start
    BY <1>0, <1>10, EngineMoves, EngineAborts, EngineStops DEF Start, OwnerOK
  <1>11. CASE MarkUnsafe
    BY <1>0, <1>11, MarkShape, MarkUnsafeShape DEF OwnerOK, EngineAlone
  <1>12. CASE MarkEnds
    <2>1. CASE Save(WithRisk(mem, engine.prev), "engine")
      BY <1>0, <1>12, <2>1, UnmarkShape, MarkEndsShape DEF OwnerOK, EngineAlone
    <2>2. CASE UNCHANGED <<mem, writes>>
      BY <1>0, <1>12, <2>2, MarkEndsShape DEF OwnerOK, EngineAlone
    <2> QED BY <1>12, <2>1, <2>2, MarkEndsShape
  <1>13. CASE UnmarkEnds
    BY <1>0, <1>13, EngineMoves, EngineAborts, EngineStops DEF UnmarkEnds, OwnerOK
  <1>14. CASE Complete
    BY <1>0, <1>14, CompleteShape, CompleteStepShape DEF OwnerOK, EngineAlone, SameAttempt
  <1>15. CASE CompleteEnds
    BY <1>0, <1>15, CompleteEndsShape, EngineStops DEF OwnerOK, EngineAlone
  <1>16. CASE Throw
    BY <1>0, <1>16, ThrowShape DEF OwnerOK, EngineAlone
  <1>17. CASE Settle
    <2>0. engine' = [engine EXCEPT !.pc = "saving"]
      BY <1>17, SettleShape
    <2>1. /\ engine'.pc = "saving" /\ engine'.of = engine.of /\ engine'.snap = engine.snap
      BY <2>0, <1>0, EngineMoves
    <2>2. engine.pc = "settling" /\ UNCHANGED <<recovery, timers, boot>>
      BY <1>17 DEF Settle
    <2> QED BY <1>0, <1>17, <2>1, <2>2, SettleShape DEF OwnerOK, Stopped
  <1>18. CASE SettleEnds
    <2>0. engine.snap \in Jobs /\ engine.of \in AttemptOrNone
      BY StoreTypes
    <2>1. CASE Save(Restored(mem, engine.of, engine.snap, engine.plan = "success"), "nobody")
      <3> DEFINE completed == engine.plan = "success"
      <3>1. completed \in BOOLEAN /\ mem.job.running = None
        BY <1>18, SettleEndsShape DEF OwnerOK
      <3>2. Save(Restored(mem, engine.of, engine.snap, completed), "nobody")
        BY <2>1
      <3> HIDE DEF completed
      <3>3. mem'.job.running = engine.snap.running
        BY <2>0, <3>1, <3>2, RestoreShape
      <3> QED BY <1>0, <1>18, <2>1, <3>3, SettleEndsShape, EngineStops DEF OwnerOK,
                 EngineAlone
    <2>2. CASE UNCHANGED <<mem, writes, timers>>
      BY <1>0, <1>18, <2>2, SettleEndsShape, EngineStops DEF OwnerOK, EngineAlone
    <2> QED BY <1>18, <2>1, <2>2, SettleEndsShape
  <1>19. CASE RecoveryFires
    BY <1>0, <1>19 DEF RecoveryFires, OwnerOK
  <1>20. CASE RecoveryDelayed
    BY <1>0, <1>20 DEF RecoveryDelayed, OwnerOK, NoRecovery, Recoveries
  <1>21. CASE Reconcile
    <2>1. /\ recovery.pc = "releasing" /\ Save(Reconciled(mem), "recovery")
          /\ recovery' = [recovery EXCEPT !.pc = "saving"]
          /\ UNCHANGED <<engine, timers, boot>>
      BY <1>21 DEF Reconcile, Mutate, OwnerOK
    <2>2. /\ recovery'.pc = "saving" /\ recovery'.of = recovery.of
          /\ recovery'.snap = recovery.snap
      BY <2>1, <1>0 DEF Recoveries
    <2>3. mem'.job.running = None
      BY <2>1, ReconcileShape, ClientTypes DEF Stopped
    <2> QED BY <1>0, <2>1, <2>2, <2>3 DEF OwnerOK
  <1>22. CASE ReconcileEnds
    <2>0. recovery.snap \in Jobs /\ recovery.of \in AttemptOrNone
      BY StoreTypes
    <2>1. /\ recovery.pc = "saving" /\ recovery'.pc = "idle" /\ recovery'.of = None
          /\ UNCHANGED <<engine, boot>>
      BY <1>22 DEF ReconcileEnds, NoRecovery
    <2>2. CASE /\ Save(Restored(mem, recovery.of, recovery.snap, FALSE), "nobody")
               /\ timers' = timers \cup {recovery.of}
      <3>1. mem'.job.running = recovery.snap.running
        BY <2>0, <2>1, <2>2, RestoreShape DEF OwnerOK
      <3> QED BY <1>0, <2>1, <2>2, <3>1 DEF OwnerOK
    <2>3. CASE UNCHANGED <<mem, writes, timers>>
      BY <1>0, <2>1, <2>3 DEF OwnerOK
    <2> QED BY <1>22, <2>2, <2>3 DEF ReconcileEnds
  <1>23. CASE WriteEnds
    BY <1>23 DEF WriteEnds, OwnerOK
  <1>24. CASE Boot
    <2>1. CASE mem.job.running # None
      <3>1. mem'.job.running = None
        BY <1>24, <2>1, ReconcileShape, ClientTypes DEF Boot, Stopped
      <3> QED BY <1>0, <1>24, <3>1, EngineStops DEF OwnerOK, BootOK, Boot, NoRecovery
    <2>2. CASE mem.job.running = None
      <3>1. mem'.job.running = None
        BY <1>24, <2>2, SaveShape, ClientTypes, <1>0 DEF Boot
      <3> QED BY <1>0, <1>24, <3>1, EngineStops DEF OwnerOK, BootOK, Boot, NoRecovery
    <2> QED BY <2>1, <2>2
  <1>25. CASE BootEnds
    BY <1>0, <1>25, EngineStops DEF OwnerOK, BootOK, BootEnds, NoRecovery
  <1>26. CASE Crash
    BY <1>26, EngineStops DEF Crash, OwnerOK, NoRecovery
  <1>27. CASE Touch \/ Command \/ CommandNext \/ SaverNext \/ DrainNext
    BY <1>27, KeepsStep DEF Keeps, SameAttempt, OwnerOK
  <1> QED BY <1>1, <1>2, <1>3, <1>4, <1>5, <1>6, <1>7, <1>8, <1>9, <1>10, <1>11, <1>12,
             <1>13, <1>14, <1>15, <1>16, <1>17, <1>18, <1>19, <1>20, <1>21, <1>22,
             <1>23, <1>24, <1>25, <1>26, <1>27
          DEF Next, EngineNext, RecoveryNext, BootNext

(***************************************************************************)
(* The queue of writes.                                                    *)
(***************************************************************************)
LEMMA SavesQueue ==
  ASSUME writes \in Seq(Writes), NEW c, Saves(c)
  PROVE  /\ Len(writes) \in Nat /\ DOMAIN writes = 1 .. Len(writes)
         /\ DOMAIN writes' = 1 .. Len(writes) + 1
         /\ \A i \in DOMAIN writes : writes'[i] = writes[i]
         /\ writes'[Len(writes) + 1].by = c
         /\ writes'[Len(writes) + 1].state = mem'
  <1> PICK w \in Writes : w.by = c /\ w.state = mem' /\ writes' = Append(writes, w)
    BY DEF Saves
  <1> QED OBVIOUS

\* The write of another client behind the others.
LEMMA OtherSaves ==
  ASSUME writes \in Seq(Writes), NEW c, c # "engine", Saves(c)
  PROVE  OwnWrites' = OwnWrites
  BY SavesQueue DEF OwnWrites

\* The first write of the engine.
LEMMA OwnSaves ==
  ASSUME writes \in Seq(Writes), Saves("engine"), OwnWrites = {}
  PROVE  OwnWrites' = {Len(writes) + 1}
  BY SavesQueue DEF OwnWrites

LEMMA EverySaves ==
  ASSUME writes \in Seq(Writes), NEW c, Saves(c), NEW S, Everywhere(S),
         mem'.job \in S, UNCHANGED disk
  PROVE  Everywhere(S)'
  BY SavesQueue DEF Everywhere

LEMMA WaitsSaves ==
  ASSUME writes \in Seq(Writes), NEW c, c # "engine", Saves(c), NEW S, WaitsFor(S),
         mem'.job \in S, UNCHANGED disk, answer'["engine"] = answer["engine"]
  PROVE  WaitsFor(S)'
  <1>1. answer["engine"] = "ok" => Everywhere(S)'
    BY EverySaves DEF WaitsFor
  <1>2. OwnWrites' = OwnWrites
    BY OtherSaves
  <1>3. \A i \in OwnWrites, j \in DOMAIN writes' : i <= j => writes'[j].state.job \in S
    BY SavesQueue DEF WaitsFor
  <1> QED BY <1>1, <1>2, <1>3 DEF WaitsFor

LEMMA WaitsOwn ==
  ASSUME writes \in Seq(Writes), Saves("engine"), OwnWrites = {},
         NEW S, mem'.job \in S, answer'["engine"] = "none"
  PROVE  WaitsFor(S)'
  <1>1. OwnWrites' = {Len(writes) + 1}
    BY OwnSaves
  <1>2. \A i \in OwnWrites', j \in DOMAIN writes' : i <= j => writes'[j].state.job \in S
    BY <1>1, SavesQueue
  <1> QED BY <1>2 DEF WaitsFor

LEMMA WritesEnd ==
  ASSUME writes \in Seq(Writes), WriteEnds
  PROVE  /\ Len(writes) \in Nat \ {0} /\ DOMAIN writes = 1 .. Len(writes)
         /\ DOMAIN writes' = 1 .. Len(writes) - 1
         /\ \A i \in DOMAIN writes' : writes'[i] = writes[i + 1]
         /\ OwnWrites' = {i \in DOMAIN writes' : i + 1 \in OwnWrites}
         /\ disk' \in {disk, writes[1].state}
  <1>1. writes' = Tail(writes) /\ disk' \in {disk, writes[1].state} /\ writes # <<>>
    BY Written DEF WriteEnds
  <1>2. /\ Len(writes) \in Nat \ {0} /\ DOMAIN writes = 1 .. Len(writes)
        /\ DOMAIN writes' = 1 .. Len(writes) - 1
        /\ \A i \in DOMAIN writes' : writes'[i] = writes[i + 1]
    BY <1>1, Written
  <1>3. OwnWrites' = {i \in DOMAIN writes' : i + 1 \in OwnWrites}
    BY <1>2 DEF OwnWrites
  <1> QED BY <1>1, <1>2, <1>3

\* The first write, and what its client is told.
LEMMA WriteTells ==
  ASSUME TypeOK, WriteEnds
  PROVE  /\ 1 \notin OwnWrites => answer'["engine"] = answer["engine"]
         /\ answer'["engine"] = "ok" /\ answer["engine"] # "ok" =>
               disk' = writes[1].state
  <1>1. /\ writes # <<>> /\ writes \in Seq(Writes)
        /\ answer \in [Clients -> {"none", "ok", "failed"}] /\ "engine" \in Clients
    BY ClientTypes DEF TypeOK, WriteEnds
  <1>2. Head(writes) = writes[1] /\ 1 \in DOMAIN writes /\ Head(writes) \in Writes
    BY <1>1, Written
  <1>3. PICK ok \in BOOLEAN, applied \in BOOLEAN :
          /\ ok => applied
          /\ disk' = IF applied THEN writes[1].state ELSE disk
          /\ answer' = IF writes[1].by = "nobody" THEN answer
                       ELSE [answer EXCEPT ![writes[1].by] = IF ok THEN "ok" ELSE "failed"]
    BY <1>2 DEF WriteEnds
  <1>4. 1 \in OwnWrites <=> writes[1].by = "engine"
    BY <1>2 DEF OwnWrites
  <1>5. writes[1].by # "engine" => answer'["engine"] = answer["engine"]
    BY <1>1, <1>3
  <1>6. answer'["engine"] = "ok" /\ writes[1].by = "engine" => ok
    BY <1>1, <1>3
  <1> QED BY <1>3, <1>4, <1>5, <1>6

LEMMA EveryEnds ==
  ASSUME writes \in Seq(Writes), WriteEnds, NEW S, Everywhere(S)
  PROVE  Everywhere(S)'
  <1>1. mem' = mem
    BY DEF WriteEnds
  <1>2. disk'.job \in S
    BY WritesEnd DEF Everywhere
  <1>3. \A i \in DOMAIN writes' : writes'[i].state.job \in S
    BY WritesEnd DEF Everywhere
  <1> QED BY <1>1, <1>2, <1>3 DEF Everywhere

LEMMA WaitsEnds ==
  ASSUME TypeOK, WriteEnds, NEW S, WaitsFor(S)
  PROVE  WaitsFor(S)'
  <1>0. writes \in Seq(Writes) /\ UNCHANGED mem
    BY DEF TypeOK, WriteEnds
  <1>1. \A i \in OwnWrites', j \in DOMAIN writes' : i <= j => writes'[j].state.job \in S
    BY <1>0, WritesEnd DEF WaitsFor
  <1>2. ASSUME answer'["engine"] = "ok" PROVE Everywhere(S)'
    <2>1. CASE answer["engine"] = "ok"
      BY <1>0, <2>1, EveryEnds DEF WaitsFor
    <2>2. CASE answer["engine"] # "ok"
      <3>1. 1 \in OwnWrites /\ disk' = writes[1].state
        BY <1>2, <2>2, WriteTells
      <3>2. disk'.job \in S
        BY <1>0, <3>1, WritesEnd DEF WaitsFor
      <3>3. \A j \in DOMAIN writes' : writes'[j].state.job \in S
        BY <1>0, <3>1, WritesEnd DEF WaitsFor
      <3> QED BY <1>0, <3>2, <3>3 DEF Everywhere, WaitsFor
    <2> QED BY <2>1, <2>2
  <1> QED BY <1>0, <1>1, <1>2 DEF WaitsFor

(***************************************************************************)
(* The engine's own write, and the durable claim.                          *)
(***************************************************************************)
Quiet == OwnWrites = {} /\ answer["engine"] = "none"

LEMMA QuietOwn ==
  ASSUME Quiet', engine'.pc \notin {"claiming", "marking"}
  PROVE  OwnWriteOK'
  BY DEF Quiet, OwnWriteOK

LEMMA QuietConsumed ==
  ASSUME TypeOK, OwnWriteOK, Consumed, UNCHANGED writes \/ Saves("nobody")
  PROVE  Quiet'
  <1>1. OwnWrites = {} /\ answer'["engine"] = "none"
    BY DEF Consumed, OwnWriteOK
  <1>2. OwnWrites' = OwnWrites
    <2>1. CASE UNCHANGED writes
      BY <2>1 DEF OwnWrites
    <2>2. CASE Saves("nobody")
      BY <2>2, OtherSaves DEF TypeOK
    <2> QED BY <2>1, <2>2
  <1> QED BY <1>1, <1>2 DEF Quiet

LEMMA QuietSame ==
  ASSUME OwnWriteOK, engine.pc \notin Waiting, UNCHANGED writes,
         answer'["engine"] = answer["engine"]
  PROVE  Quiet'
  BY DEF OwnWriteOK, Quiet, OwnWrites

LEMMA QuietOther ==
  ASSUME TypeOK, OwnWriteOK, engine.pc \notin Waiting,
         NEW c, c # "engine", Saves(c), answer'["engine"] = answer["engine"]
  PROVE  Quiet'
  <1>1. OwnWrites' = OwnWrites
    BY OtherSaves DEF TypeOK
  <1> QED BY <1>1 DEF OwnWriteOK, Quiet

\* The engine queues a write, and waits for it.
LEMMA OwnStarts ==
  ASSUME TypeOK, OwnWrites = {}, Saves("engine"), answer'["engine"] = "none",
         engine'.pc \in Waiting,
         engine'.pc = "claiming" => WaitsFor(RunningIs(engine.of))',
         engine'.pc = "marking" => WaitsFor(Marked)'
  PROVE  OwnWriteOK'
  <1>1. OwnWrites' = {Len(writes) + 1}
    BY OwnSaves DEF TypeOK
  <1> QED BY <1>1 DEF OwnWriteOK

\* The steps of others, and those of the engine that only change what it knows.
LEMMA OwnKeeps ==
  ASSUME TypeOK, TypeOK', OwnWriteOK,
         engine'.pc = engine.pc, engine'.of = engine.of, UNCHANGED disk,
         answer'["engine"] = answer["engine"],
         mem'.job.running = mem.job.running, mem'.job.risk = mem.job.risk,
         UNCHANGED <<mem, writes>> \/ \E c : c # "engine" /\ Saves(c)
  PROVE  OwnWriteOK'
  <1>0. writes \in Seq(Writes) /\ mem'.job \in Jobs
    BY DEF TypeOK, Stores
  <1>1. OwnWrites' = OwnWrites
    <2>1. CASE UNCHANGED <<mem, writes>>
      BY <2>1 DEF OwnWrites
    <2>2. CASE \E c : c # "engine" /\ Saves(c)
      BY <1>0, <2>2, OtherSaves
    <2> QED BY <2>1, <2>2
  <1>2. ASSUME NEW S, WaitsFor(S), mem'.job \in S PROVE WaitsFor(S)'
    <2>1. CASE UNCHANGED <<mem, writes>>
      BY <1>1, <1>2, <2>1 DEF WaitsFor, Everywhere
    <2>2. CASE \E c : c # "engine" /\ Saves(c)
      <3> PICK c : c # "engine" /\ Saves(c)
        BY <2>2
      <3> QED BY <1>0, <1>2, WaitsSaves
    <2> QED BY <2>1, <2>2
  <1>3. ASSUME engine.pc = "claiming" PROVE WaitsFor(RunningIs(engine.of))'
    <2> PICK a : a = engine.of
      OBVIOUS
    <2>1. WaitsFor(RunningIs(a))
      BY <1>3 DEF OwnWriteOK
    <2>2. mem'.job \in RunningIs(a)
      BY <1>0, <2>1 DEF WaitsFor, RunningIs
    <2>3. WaitsFor(RunningIs(a))'
      BY <2>1, <2>2, <1>2
    <2> QED BY <2>3
  <1>4. ASSUME engine.pc = "marking" PROVE WaitsFor(Marked)'
    <2>1. WaitsFor(Marked)
      BY <1>4 DEF OwnWriteOK
    <2>2. mem'.job \in Marked
      BY <1>0, <2>1 DEF WaitsFor, Marked
    <2> QED BY <2>1, <2>2, <1>2
  <1> QED BY <1>1, <1>3, <1>4 DEF OwnWriteOK

\* What is executed stays claimed everywhere, as long as no state says otherwise.
LEMMA DurableKeeps ==
  ASSUME TypeOK, TypeOK', DurableClaim, UNCHANGED disk,
         engine'.pc \in Executing => engine.pc \in Executing /\ engine'.of = engine.of,
         mem'.job.running = mem.job.running,
         UNCHANGED <<mem, writes>> \/ \E c : Saves(c)
  PROVE  DurableClaim'
  <1>0. writes \in Seq(Writes) /\ mem'.job \in Jobs
    BY DEF TypeOK, Stores
  <1> SUFFICES ASSUME engine'.pc \in Executing
               PROVE  Everywhere(RunningIs(engine.of))'
    BY DEF DurableClaim
  <1> PICK a : a = engine.of
    OBVIOUS
  <1>1. Everywhere(RunningIs(a)) /\ engine'.of = a
    BY DEF DurableClaim
  <1>2. mem'.job \in RunningIs(a)
    BY <1>0, <1>1 DEF Everywhere, RunningIs
  <1>3. CASE UNCHANGED <<mem, writes>>
    BY <1>1, <1>3 DEF Everywhere
  <1>4. CASE \E c : Saves(c)
    <2> PICK c : Saves(c)
      BY <1>4
    <2>1. Everywhere(RunningIs(a))'
      BY <1>0, <1>1, <1>2, EverySaves
    <2> QED BY <1>1, <2>1
  <1> QED BY <1>3, <1>4

LEMMA QueueStep ==
  ASSUME TypeOK, TypeOK', LockOK, BootOK, OwnerOK, OwnWriteOK, DurableClaim, [Next]_vars
  PROVE  OwnWriteOK' /\ DurableClaim'
  <1> USE DEF At, Go, Return, Take, Leave, Told, ToldAnything, Happens, EngineOnly,
              RecoveryOnly, CommandOnly, DrainOnly, claimVars, historyVars
  <1> USE ClientTypes
  <1>0. /\ engine \in Engines /\ recovery \in Recoveries
        /\ boot \in {"down", "saving", "done"} /\ mem \in Stores
        /\ writes \in Seq(Writes) /\ mem' \in Stores /\ mem'.job \in Jobs
    BY DEF TypeOK, Stores
  <1>1. CASE UNCHANGED vars
    BY <1>1, OwnKeeps, DurableKeeps DEF vars, storeVars
  <1>2. CASE Claim
    <2>1. /\ engine.pc = "idle" /\ engine'.pc = "claiming" /\ engine'.of = nextId
          /\ answer' = answer
      BY <1>2, EngineStarts DEF Claim
    <2>2. OwnWrites = {} /\ answer["engine"] = "none"
      BY <2>1 DEF OwnWriteOK, Waiting
    <2>3. Saves("engine") /\ mem'.job.running = nextId
      BY <1>2, ClaimShape
    <2>4. WaitsFor(RunningIs(engine.of))'
      <3> PICK a : a = engine'.of
        OBVIOUS
      <3>1. mem'.job \in RunningIs(a)
        BY <1>0, <2>1, <2>3 DEF RunningIs
      <3>2. WaitsFor(RunningIs(a))'
        BY <1>0, <2>1, <2>2, <2>3, <3>1, WaitsOwn
      <3> QED BY <3>2
    <2>5. OwnWriteOK'
      BY <2>1, <2>2, <2>3, <2>4, OwnStarts DEF Waiting
    <2> QED BY <2>1, <2>5 DEF DurableClaim, Executing
  <1>3. CASE ClaimEnds
    <2>1. OwnWriteOK'
      BY <1>3, ClaimEndsShape, QuietConsumed, QuietOwn
    <2>2. DurableClaim'
      <3> SUFFICES ASSUME engine'.pc \in Executing
                   PROVE  Everywhere(RunningIs(engine.of))'
        BY DEF DurableClaim
      <3>1. answer["engine"] = "ok" /\ engine.pc = "claiming" /\ engine'.of = engine.of
            /\ UNCHANGED <<mem, disk, writes>>
        BY <1>3, ClaimEndsShape DEF Executing, EngineAlone
      <3>2. Everywhere(RunningIs(engine.of))
        BY <3>1 DEF OwnWriteOK, WaitsFor
      <3> QED BY <3>1, <3>2 DEF Everywhere, RunningIs
    <2> QED BY <2>1, <2>2
  <1>4. CASE Release
    <2>0. engine' = [engine EXCEPT !.pc = "releasing"] /\ Saves("engine")
      BY <1>4, ReleaseShape
    <2>1. engine'.pc = "releasing" /\ engine.pc = "unclaimed" /\ answer' = answer
      BY <2>0, <1>0, <1>4, EngineMoves DEF Release
    <2>2. OwnWrites = {} /\ answer["engine"] = "none"
      BY <2>1 DEF OwnWriteOK, Waiting
    <2>3. OwnWriteOK'
      BY <2>0, <2>1, <2>2, OwnStarts DEF Waiting
    <2> QED BY <2>1, <2>3 DEF DurableClaim, Executing
  <1>5. CASE ReleaseEnds
    <2>1. engine'.pc = "idle" /\ UNCHANGED writes
      BY <1>5, EngineStops DEF ReleaseEnds
    <2>2. Consumed
      BY <1>5, ToldShape DEF ReleaseEnds
    <2> QED BY <2>1, <2>2, QuietConsumed, QuietOwn DEF DurableClaim, Executing
  <1>6. CASE NoHooks
    <2>1. engine' = [engine EXCEPT !.pc = "ready"] /\ engine.pc = "claimed"
          /\ UNCHANGED <<mem, disk, writes, answer>>
      BY <1>6 DEF NoHooks
    <2>2. engine'.pc = "ready" /\ engine'.of = engine.of
      BY <2>1, <1>0, EngineMoves
    <2>3. OwnWriteOK'
      BY <2>1, <2>2, QuietSame, QuietOwn DEF Waiting
    <2> QED BY <2>1, <2>2, <2>3, DurableKeeps DEF Executing
  <1>7. CASE FenceHooks
    <2>1. /\ engine.pc = "claimed" /\ engine'.pc = "fencing" /\ engine'.of = engine.of
          /\ UNCHANGED <<disk, answer>>
      BY <1>7, FenceHooksShape DEF EngineAlone
    <2>2. Saves("engine") /\ mem'.job.running = mem.job.running
      BY <1>7, MarkShape
    <2>3. OwnWriteOK'
      BY <2>1, <2>2, OwnStarts DEF OwnWriteOK, Waiting
    <2> QED BY <2>1, <2>2, <2>3, DurableKeeps DEF Executing
  <1>8. CASE FenceEnds
    <2>0. engine.pc = "fencing" /\ Consumed /\ UNCHANGED disk
      BY <1>8, FenceEndsShape DEF EngineAlone
    <2>1. CASE Save(WithRisk(mem, engine.prev), "nobody") /\ engine' = NoEngine
      <3>1. Saves("nobody") /\ engine'.pc = "idle"
        BY <2>1, UnmarkShape, EngineStops
      <3> QED BY <2>0, <3>1, QuietConsumed, QuietOwn DEF DurableClaim, Executing
    <2>2. CASE /\ UNCHANGED <<mem, writes>> /\ engine'.pc = "ready"
               /\ engine'.of = engine.of
      <3>1. OwnWriteOK'
        BY <2>0, <2>2, QuietConsumed, QuietOwn
      <3> QED BY <2>0, <2>2, <3>1, DurableKeeps DEF Executing
    <2> QED BY <1>8, <2>1, <2>2, FenceEndsShape
  <1>9. CASE Background
    <2>1. engine' = [engine EXCEPT !.aborted = TRUE]
          /\ UNCHANGED <<mem, disk, writes, answer>>
      BY <1>9 DEF Background
    <2>2. engine'.pc = engine.pc /\ engine'.of = engine.of
      BY <2>1, <1>0, EngineAborts
    <2> QED BY <2>1, <2>2, OwnKeeps, DurableKeeps
  <1>10. CASE Start
    <2>1. engine' = [engine EXCEPT !.pc = "running"] /\ engine.pc = "ready"
          /\ UNCHANGED <<mem, disk, writes, answer>>
      BY <1>10 DEF Start
    <2>2. engine'.pc = "running" /\ engine'.of = engine.of
      BY <2>1, <1>0, EngineMoves
    <2>3. OwnWriteOK'
      BY <2>1, <2>2, QuietSame, QuietOwn DEF Waiting
    <2> QED BY <2>1, <2>2, <2>3, DurableKeeps DEF Executing
  <1>11. CASE MarkUnsafe
    <2>1. /\ engine.pc = "running" /\ engine'.pc = "marking" /\ engine'.of = engine.of
          /\ UNCHANGED <<disk, answer>>
      BY <1>11, MarkUnsafeShape DEF EngineAlone
    <2>2. Saves("engine") /\ mem'.job.running = mem.job.running /\ mem'.job.risk = "unsafe"
      BY <1>11, MarkShape
    <2>3. OwnWrites = {} /\ answer["engine"] = "none"
      BY <2>1 DEF OwnWriteOK, Waiting
    <2>4. mem'.job \in Marked
      BY <1>0, <2>2 DEF Marked
    <2>5. WaitsFor(Marked)'
      BY <1>0, <2>1, <2>2, <2>3, <2>4, WaitsOwn
    <2>6. OwnWriteOK'
      BY <2>1, <2>2, <2>3, <2>5, OwnStarts DEF Waiting
    <2> QED BY <2>1, <2>2, <2>6, DurableKeeps DEF Executing
  <1>12. CASE MarkEnds
    <2>0. engine.pc = "marking" /\ engine'.of = engine.of /\ Consumed /\ UNCHANGED disk
      BY <1>12, MarkEndsShape DEF EngineAlone
    <2>1. CASE Save(WithRisk(mem, engine.prev), "engine") /\ engine'.pc = "unmarking"
      <3>1. Saves("engine") /\ mem'.job.running = mem.job.running
        BY <2>1, UnmarkShape
      <3>2. OwnWrites = {} /\ answer'["engine"] = "none"
        BY <2>0 DEF OwnWriteOK, Consumed
      <3>3. OwnWriteOK'
        BY <2>1, <3>1, <3>2, OwnStarts DEF Waiting
      <3> QED BY <2>0, <2>1, <3>1, <3>3, DurableKeeps DEF Executing
    <2>2. CASE UNCHANGED <<mem, writes>> /\ engine'.pc = "running"
      <3>1. OwnWriteOK'
        BY <2>0, <2>2, QuietConsumed, QuietOwn
      <3> QED BY <2>0, <2>2, <3>1, DurableKeeps DEF Executing
    <2> QED BY <1>12, <2>1, <2>2, MarkEndsShape
  <1>13. CASE UnmarkEnds
    <2>1. engine' = [engine EXCEPT !.pc = "running"] /\ engine.pc = "unmarking"
          /\ UNCHANGED <<mem, disk, writes>>
      BY <1>13 DEF UnmarkEnds
    <2>2. engine'.pc = "running" /\ engine'.of = engine.of
      BY <2>1, <1>0, EngineMoves
    <2>3. Consumed
      BY <1>13, ToldShape DEF UnmarkEnds
    <2>4. OwnWriteOK'
      BY <2>1, <2>2, <2>3, QuietConsumed, QuietOwn
    <2> QED BY <2>1, <2>2, <2>4, DurableKeeps DEF Executing
  <1>14. CASE Complete
    <2>1. /\ engine.pc = "running" /\ engine'.pc = "completing" /\ engine'.of = engine.of
          /\ UNCHANGED <<disk, answer>>
      BY <1>14, CompleteStepShape DEF EngineAlone
    <2>2. Saves("engine") /\ mem'.job.running = mem.job.running
      BY <1>14, CompleteShape DEF SameAttempt
    <2>3. OwnWriteOK'
      BY <2>1, <2>2, OwnStarts DEF OwnWriteOK, Waiting
    <2> QED BY <2>1, <2>2, <2>3, DurableKeeps DEF Executing
  <1>15. CASE CompleteEnds
    <2>0. engine.pc = "completing" /\ Consumed /\ UNCHANGED <<disk, mem, writes>>
      BY <1>15, CompleteEndsShape DEF EngineAlone
    <2>1. \/ engine'.pc = "settling" /\ engine'.of = engine.of
          \/ engine'.pc = "idle"
      BY <1>15, CompleteEndsShape, EngineStops
    <2>2. OwnWriteOK'
      BY <2>0, <2>1, QuietConsumed, QuietOwn
    <2> QED BY <2>0, <2>1, <2>2, DurableKeeps DEF Executing
  <1>16. CASE Throw
    <2>1. /\ engine.pc \in {"ready", "running"} /\ engine'.pc = "settling"
          /\ engine'.of = engine.of /\ UNCHANGED <<mem, disk, writes, answer>>
      BY <1>16, ThrowShape DEF EngineAlone
    <2>3. OwnWriteOK'
      BY <2>1, QuietSame, QuietOwn DEF Waiting
    <2> QED BY <2>1, <2>3, DurableKeeps DEF Executing
  <1>17. CASE Settle
    <2>0. engine' = [engine EXCEPT !.pc = "saving"] /\ Saves("engine")
      BY <1>17, SettleShape
    <2>1. engine'.pc = "saving" /\ engine.pc = "settling" /\ answer' = answer
      BY <2>0, <1>0, <1>17, EngineMoves DEF Settle
    <2>2. OwnWrites = {} /\ answer["engine"] = "none"
      BY <2>1 DEF OwnWriteOK, Waiting
    <2>3. OwnWriteOK'
      BY <2>0, <2>1, <2>2, OwnStarts DEF Waiting
    <2> QED BY <2>1, <2>3 DEF DurableClaim, Executing
  <1>18. CASE SettleEnds
    <2>1. engine'.pc = "idle" /\ Consumed
      BY <1>18, SettleEndsShape, EngineStops
    <2>2. UNCHANGED writes \/ Saves("nobody")
      <3> DEFINE completed == engine.plan = "success"
      <3>1. /\ completed \in BOOLEAN /\ mem.job.running = None /\ engine.snap \in Jobs
            /\ engine.of \in AttemptOrNone
        BY <1>18, SettleEndsShape, StoreTypes DEF OwnerOK
      <3>2. \/ UNCHANGED writes
            \/ Save(Restored(mem, engine.of, engine.snap, completed), "nobody")
        BY <1>18, SettleEndsShape
      <3> HIDE DEF completed
      <3> QED BY <3>1, <3>2, RestoreShape
    <2> QED BY <2>1, <2>2, QuietConsumed, QuietOwn DEF DurableClaim, Executing
  <1>19. CASE RecoveryFires
    <2>1. UNCHANGED <<engine, mem, disk, writes, answer>>
      BY <1>19 DEF RecoveryFires
    <2> QED BY <2>1, OwnKeeps, DurableKeeps
  <1>20. CASE RecoveryDelayed
    <2>1. UNCHANGED <<engine, mem, disk, writes, answer>>
      BY <1>20 DEF RecoveryDelayed
    <2> QED BY <2>1, OwnKeeps, DurableKeeps
  <1>21. CASE Reconcile
    <2>1. /\ engine.pc = "idle" /\ UNCHANGED <<engine, disk, answer>>
          /\ Save(Reconciled(mem), "recovery")
      BY <1>21 DEF Reconcile, Mutate, OwnerOK
    <2>2. Saves("recovery")
      BY <2>1, ReconcileShape
    <2>3. Quiet'
      BY <2>1, <2>2, QuietOther DEF Waiting
    <2> QED BY <2>1, <2>3, QuietOwn DEF DurableClaim, Executing
  <1>22. CASE ReconcileEnds
    <2>1. /\ engine.pc = "idle" /\ UNCHANGED <<engine, disk>>
          /\ mem.job.running = None
      BY <1>22 DEF ReconcileEnds, OwnerOK
    <2>2. answer'["engine"] = answer["engine"]
      BY <1>22 DEF ReconcileEnds, TypeOK
    <2>3. UNCHANGED writes \/ Saves("nobody")
      <3>1. recovery.snap \in Jobs /\ recovery.of \in AttemptOrNone
        BY StoreTypes
      <3>2. \/ UNCHANGED writes
            \/ Save(Restored(mem, recovery.of, recovery.snap, FALSE), "nobody")
        BY <1>22 DEF ReconcileEnds
      <3> QED BY <2>1, <3>1, <3>2, RestoreShape
    <2>4. Quiet'
      <3>1. CASE UNCHANGED writes
        BY <2>1, <2>2, <3>1, QuietSame DEF Waiting
      <3>2. CASE Saves("nobody")
        BY <2>1, <2>2, <3>2, QuietOther DEF Waiting
      <3> QED BY <2>3, <3>1, <3>2
    <2> QED BY <2>1, <2>4, QuietOwn DEF DurableClaim, Executing
  <1>23. CASE WriteEnds
    <2>0. UNCHANGED <<mem, engine>>
      BY <1>23 DEF WriteEnds
    <2>1. DurableClaim'
      <3> SUFFICES ASSUME engine.pc \in Executing
                   PROVE  Everywhere(RunningIs(engine.of))'
        BY <2>0 DEF DurableClaim
      <3> PICK a : a = engine.of
        OBVIOUS
      <3>1. Everywhere(RunningIs(a))
        BY DEF DurableClaim
      <3>2. Everywhere(RunningIs(a))'
        BY <1>0, <1>23, <3>1, EveryEnds
      <3> QED BY <2>0, <3>2
    <2>2. /\ \A i, j \in OwnWrites' : i = j
          /\ answer'["engine"] # "none" => OwnWrites' = {}
          /\ engine.pc \notin Waiting => OwnWrites' = {} /\ answer'["engine"] = "none"
      <3>1. CASE 1 \in OwnWrites
        <4>1. OwnWrites' = {} /\ engine.pc \in Waiting
          BY <1>0, <1>23, <3>1, WritesEnd DEF OwnWriteOK
        <4> QED BY <4>1
      <3>2. CASE 1 \notin OwnWrites
        <4>1. answer'["engine"] = answer["engine"]
          BY <1>23, <3>2, WriteTells
        <4>2. \A i \in OwnWrites' : i + 1 \in OwnWrites /\ i \in Nat
          BY <1>0, <1>23, WritesEnd
        <4> QED BY <4>1, <4>2 DEF OwnWriteOK
      <3> QED BY <3>1, <3>2
    <2>3. ASSUME engine.pc = "claiming" PROVE WaitsFor(RunningIs(engine.of))'
      <3> PICK a : a = engine.of
        OBVIOUS
      <3>1. WaitsFor(RunningIs(a))
        BY <2>3 DEF OwnWriteOK
      <3>2. WaitsFor(RunningIs(a))'
        BY <1>23, <3>1, WaitsEnds
      <3> QED BY <2>0, <3>2
    <2>4. ASSUME engine.pc = "marking" PROVE WaitsFor(Marked)'
      BY <1>23, <2>4, WaitsEnds DEF OwnWriteOK
    <2> QED BY <2>0, <2>1, <2>2, <2>3, <2>4 DEF OwnWriteOK
  <1>24. CASE Boot
    <2>1. engine.pc = "idle" /\ UNCHANGED <<engine, disk, answer>>
      BY <1>24, EngineStops DEF Boot, BootOK
    <2>2. UNCHANGED writes \/ Saves("startup")
      BY <1>0, <1>24, ReconcileShape, SaveShape DEF Boot
    <2>3. Quiet'
      <3>1. CASE UNCHANGED writes
        BY <2>1, <3>1, QuietSame DEF Waiting
      <3>2. CASE Saves("startup")
        BY <2>1, <3>2, QuietOther DEF Waiting
      <3> QED BY <2>2, <3>1, <3>2
    <2> QED BY <2>1, <2>3, QuietOwn DEF DurableClaim, Executing
  <1>25. CASE BootEnds
    <2>1. UNCHANGED <<engine, mem, disk, writes>> /\ answer'["engine"] = answer["engine"]
      BY <1>25 DEF BootEnds, TypeOK
    <2> QED BY <2>1, OwnKeeps, DurableKeeps
  <1>26. CASE Crash
    <2>1. engine'.pc = "idle" /\ writes' = <<>> /\ answer'["engine"] = "none"
      BY <1>26, EngineStops DEF Crash
    <2>2. Quiet'
      BY <2>1 DEF Quiet, OwnWrites
    <2> QED BY <2>1, <2>2, QuietOwn DEF DurableClaim, Executing
  <1>27. CASE Touch \/ Command \/ CommandNext \/ SaverNext \/ DrainNext
    <2>1. Keeps
      BY <1>27, KeepsStep
    <2> QED BY <2>1, OwnKeeps, DurableKeeps DEF Keeps, SameAttempt
  <1> QED BY <1>1, <1>2, <1>3, <1>4, <1>5, <1>6, <1>7, <1>8, <1>9, <1>10, <1>11, <1>12,
             <1>13, <1>14, <1>15, <1>16, <1>17, <1>18, <1>19, <1>20, <1>21, <1>22,
             <1>23, <1>24, <1>25, <1>26, <1>27
          DEF Next, EngineNext, RecoveryNext, BootNext

(***************************************************************************)
(* No replay.                                                              *)
(***************************************************************************)
LEMMA IdFacts ==
  ASSUME TypeOK, IdsOK
  PROVE  /\ MaxAttempts \in Nat /\ Attempts = 1 .. MaxAttempts /\ None = 0
         /\ nextId \in 1 .. MaxAttempts + 1
         /\ occOf \in [Attempts -> AttemptOrNone] /\ dispatched \subseteq Attempts
         /\ \A a \in dispatched :
               a # None /\ a < nextId /\ occOf[a] \in 1 .. a /\ occOf[a] # None
         /\ \A a \in Attempts : a < nextId => occOf[a] \in 1 .. a
         /\ \A a \in Attempts : a >= nextId => occOf[a] = None
  <1>1. /\ MaxAttempts \in Nat /\ Attempts = 1 .. MaxAttempts /\ None = 0
        /\ nextId \in 1 .. MaxAttempts + 1
        /\ occOf \in [Attempts -> AttemptOrNone] /\ dispatched \subseteq Attempts
    BY AttemptsAssumption DEF TypeOK, Attempts, None
  <1>2. /\ \A a \in Attempts : a < nextId => occOf[a] \in 1 .. a
        /\ \A a \in Attempts : a >= nextId => occOf[a] = None
        /\ \A a \in dispatched : a < nextId
    BY DEF IdsOK
  <1>3. ASSUME NEW a \in dispatched
        PROVE  a # None /\ a < nextId /\ occOf[a] \in 1 .. a /\ occOf[a] # None
    <2>1. a \in Attempts /\ a < nextId
      BY <1>1, <1>2
    <2>2. occOf[a] \in 1 .. a
      BY <1>2, <2>1
    <2> QED BY <1>1, <2>1, <2>2
  <1> QED BY <1>1, <1>2, <1>3

\* A job that goes on as another that is safe, with its risk or the mark it needs.
LEMMA LikeSafe ==
  ASSUME TypeOK, IdsOK, NEW j \in Safe, NEW k \in Jobs,
         k.running = j.running, k.occ = j.occ, k.retryOcc \in {None, j.retryOcc},
         k.risk = j.risk \/ (j.running \in dispatched => k.risk = "unsafe")
  PROVE  k \in Safe
  <1>1. \A a \in dispatched : occOf[a] # None
    BY IdFacts
  <1>2. Closed(k)
    BY <1>1 DEF Safe, Closed
  <1>3. Named(k)
    BY IdFacts DEF Safe, Named
  <1> QED BY <1>2, <1>3 DEF Safe

\* An attempt that is over leaves a safe job, if it may be executed again only as
\* long as it dispatched nothing.
LEMMA OverSafe ==
  ASSUME TypeOK, IdsOK, NEW j \in Safe, NEW k \in Jobs, j.running \in Attempts,
         k.running = None, k.occ = None,
         \/ k.retryOcc = None
         \/ /\ k.retryOcc \in {j.occ, j.retryOcc}
            /\ j.running \notin dispatched
  PROVE  k \in Safe
  <1>1. \A a \in dispatched : occOf[a] # None /\ a # None
    BY IdFacts
  <1>2. Closed(k)
    BY <1>1 DEF Safe, Closed
  <1>3. j.occ < nextId
    <2>1. j.running < nextId /\ j.occ = occOf[j.running] /\ j.running # None
      BY IdFacts DEF Safe, Named
    <2>2. j.occ \in 1 .. j.running
      BY <2>1, IdFacts
    <2> QED BY <2>1, <2>2, IdFacts
  <1>4. Named(k)
    BY <1>3, IdFacts DEF Safe, Named
  <1> QED BY <1>2, <1>4 DEF Safe

\* What is marked as safe to execute again dispatched nothing.
LEMMA UnmarkedSafe ==
  ASSUME NEW j \in Safe, j.risk # "unsafe"
  PROVE  j.running \notin dispatched
  BY DEF Safe, Closed

LEMMA ClosedKeeps ==
  ASSUME TypeOK, ClosedOK, UNCHANGED <<disk, nextId, occOf, dispatched>>,
         mem'.job \in Safe,
         UNCHANGED <<mem, writes>> \/ \E c : Saves(c),
         engine'.pc \in {"settling", "saving"} => engine'.snap \in Safe,
         recovery'.pc # "idle" => recovery'.snap \in Safe
  PROVE  ClosedOK'
  <1>0. Safe' = Safe
    BY DEF Safe, Closed, Named
  <1>1. Everywhere(Safe)'
    <2> PICK S : S = Safe
      OBVIOUS
    <2>1. Everywhere(S) /\ mem'.job \in S /\ writes \in Seq(Writes)
      BY DEF ClosedOK, TypeOK
    <2>2. CASE UNCHANGED <<mem, writes>>
      BY <1>0, <2>1, <2>2 DEF Everywhere
    <2>3. CASE \E c : Saves(c)
      <3> PICK c : Saves(c)
        BY <2>3
      <3>1. Everywhere(S)'
        BY <2>1, EverySaves
      <3> QED BY <1>0, <3>1
    <2> QED BY <2>2, <2>3
  <1> QED BY <1>0, <1>1 DEF ClosedOK

\* Claiming makes no safe job unsafe, and the claim itself is safe: its occurrence is
\* a new one, or one to be retried.
LEMMA ClaimSafe ==
  ASSUME TypeOK, TypeOK', IdsOK, ClosedOK, Claim
  PROVE  Safe \subseteq Safe' /\ mem'.job \in Safe'
  <1>0. /\ mem.job \in Safe /\ mem'.job \in Jobs /\ mem.job.running = None
        /\ nextId \in Attempts /\ nextId' = nextId + 1 /\ UNCHANGED dispatched
        /\ mem.job.retryOcc \in AttemptOrNone
    BY StoreTypes DEF ClosedOK, Everywhere, TypeOK, Stores, Claim
  <1>1. /\ mem'.job.running = nextId /\ mem'.job.retryOcc = mem.job.retryOcc
        /\ mem'.job.occ = IF mem.job.retryOcc = None THEN nextId ELSE mem.job.retryOcc
        /\ occOf' = [occOf EXCEPT ![nextId] = mem'.job.occ]
    BY ClaimShape
  <1>2. /\ \A a \in dispatched : occOf'[a] = occOf[a] /\ a # nextId
        /\ \A a \in Attempts : a < nextId => occOf'[a] = occOf[a]
        /\ occOf'[nextId] = mem'.job.occ
    BY <1>0, <1>1, IdFacts
  <1>3. ASSUME NEW j \in Safe PROVE j \in Safe'
    <2>1. Closed(j)'
      BY <1>0, <1>2 DEF Safe, Closed
    <2>2. /\ j.retryOcc < nextId' /\ j.running < nextId'
          /\ j.running # None => j.running \in Attempts /\ j.running < nextId
          /\ j.running # None => j.occ = occOf[j.running]
      <3>1. /\ j.retryOcc < nextId /\ j.running < nextId
            /\ j.retryOcc \in AttemptOrNone /\ j.running \in AttemptOrNone
            /\ j.running # None => j.occ = occOf[j.running]
        BY DEF Safe, Named, Jobs
      <3> QED BY <1>0, <3>1, IdFacts DEF AttemptOrNone
    <2>3. Named(j)'
      BY <1>2, <2>2 DEF Named
    <2> QED BY <2>1, <2>3 DEF Safe
  <1>4. Closed(mem.job)'
    <2> SUFFICES ASSUME NEW a \in dispatched
                 PROVE  occOf[a] \notin {mem'.job.retryOcc, mem'.job.occ}
      BY <1>0, <1>1, <1>2 DEF Closed
    <2>1. a # None /\ occOf[a] \in 1 .. a /\ a < nextId
      BY IdFacts
    <2>2. occOf[a] # mem.job.retryOcc
      BY <1>0, <2>1 DEF Safe, Closed
    <2>3. occOf[a] # nextId
      BY <2>1, <1>0, IdFacts
    <2> QED BY <1>1, <2>2, <2>3
  <1>5. Named(mem.job)'
    <2>1. mem.job.retryOcc < nextId
      BY <1>0 DEF Safe, Named
    <2>2. mem.job.retryOcc < nextId' /\ nextId < nextId'
      BY <1>0, <2>1, IdFacts DEF AttemptOrNone
    <2> QED BY <1>1, <1>2, <2>2 DEF Named
  <1> QED BY <1>0, <1>3, <1>4, <1>5 DEF Safe

\* What is marked everywhere may be dispatched.
LEMMA DispatchSafe ==
  ASSUME UNCHANGED <<nextId, occOf>>, dispatched' \in {dispatched, dispatched \cup {engine.of}},
         NEW j \in Safe, j.running = engine.of, j.risk = "unsafe"
  PROVE  j \in Safe'
  BY DEF Safe, Closed, Named

\* What the steps do to the attempt in the engine's hands, and what they leave alone.
LEMMA EngineFrame ==
  ASSUME TypeOK, OwnerOK, [Next]_vars, ~Claim, ~MarkEnds
  PROVE  /\ UNCHANGED <<nextId, occOf, dispatched>>
         /\ engine'.pc # "idle" => engine.pc # "idle" /\ engine'.of = engine.of
  <1> USE DEF At, Go, Return, Take, Leave, Told, ToldAnything, Happens, EngineOnly,
              RecoveryOnly, CommandOnly, DrainOnly, claimVars, historyVars
  <1>0. engine \in Engines
    BY DEF TypeOK
  <1>1. CASE UNCHANGED vars
    BY <1>1 DEF vars, storeVars
  <1>2. CASE ClaimEnds
    BY <1>2, ClaimEndsShape
  <1>3. CASE Release
    <2>1. engine' = [engine EXCEPT !.pc = "releasing"]
      BY <1>3, ReleaseShape
    <2> QED BY <1>0, <1>3, <2>1, EngineMoves DEF Release
  <1>4. CASE ReleaseEnds
    BY <1>4, EngineStops DEF ReleaseEnds
  <1>5. CASE NoHooks
    BY <1>0, <1>5, EngineMoves DEF NoHooks
  <1>6. CASE FenceHooks
    BY <1>6, FenceHooksShape
  <1>7. CASE FenceEnds
    BY <1>7, FenceEndsShape, EngineStops
  <1>8. CASE Background
    BY <1>0, <1>8, EngineAborts DEF Background
  <1>9. CASE Start
    BY <1>0, <1>9, EngineMoves DEF Start
  <1>10. CASE MarkUnsafe
    BY <1>10, MarkUnsafeShape
  <1>11. CASE UnmarkEnds
    BY <1>0, <1>11, EngineMoves DEF UnmarkEnds
  <1>12. CASE Complete
    BY <1>12, CompleteStepShape
  <1>13. CASE CompleteEnds
    BY <1>13, CompleteEndsShape, EngineStops
  <1>14. CASE Throw
    BY <1>14, ThrowShape
  <1>15. CASE Settle
    <2>1. engine' = [engine EXCEPT !.pc = "saving"]
      BY <1>15, SettleShape
    <2> QED BY <1>0, <1>15, <2>1, EngineMoves DEF Settle
  <1>16. CASE SettleEnds
    BY <1>16, SettleEndsShape, EngineStops
  <1>17. CASE RecoveryFires
    BY <1>0, <1>17, EngineMoves DEF RecoveryFires
  <1>18. CASE RecoveryDelayed
    BY <1>0, <1>18, EngineMoves DEF RecoveryDelayed
  <1>19. CASE Reconcile
    BY <1>0, <1>19, EngineMoves DEF Reconcile
  <1>20. CASE ReconcileEnds
    BY <1>0, <1>20, EngineMoves DEF ReconcileEnds
  <1>21. CASE WriteEnds
    BY <1>0, <1>21, EngineMoves DEF WriteEnds
  <1>22. CASE Boot
    BY <1>0, <1>22, EngineMoves DEF Boot
  <1>23. CASE BootEnds
    BY <1>0, <1>23, EngineMoves DEF BootEnds
  <1>24. CASE Crash
    BY <1>24, EngineStops DEF Crash
  <1>25. CASE Touch \/ Command \/ CommandNext \/ SaverNext \/ DrainNext
    BY <1>25, KeepsStep DEF Keeps
  <1> QED BY <1>1, <1>2, <1>3, <1>4, <1>5, <1>6, <1>7, <1>8, <1>9, <1>10, <1>11, <1>12,
             <1>13, <1>14, <1>15, <1>16, <1>17, <1>18, <1>19, <1>20, <1>21, <1>22,
             <1>23, <1>24, <1>25
          DEF Next, EngineNext, RecoveryNext, BootNext

LEMMA IdsStep ==
  ASSUME TypeOK, TypeOK', OwnerOK, IdsOK, ClosedOK, NoReplay, [Next]_vars
  PROVE  IdsOK' /\ NoReplay'
  <1>1. CASE Claim
    <2>0. /\ mem.job \in Safe /\ mem.job.running = None
          /\ nextId \in Attempts /\ nextId' = nextId + 1 /\ UNCHANGED dispatched
          /\ mem.job.retryOcc \in AttemptOrNone
          /\ engine' = [NoEngine EXCEPT !.pc = "claiming", !.of = nextId]
      BY <1>1, StoreTypes DEF ClosedOK, Everywhere, Claim
    <2>1. occOf' = [occOf EXCEPT ![nextId] = mem'.job.occ]
          /\ mem'.job.occ = IF mem.job.retryOcc = None THEN nextId ELSE mem.job.retryOcc
      BY <1>1, ClaimShape
    <2>2. /\ \A a \in Attempts : a # nextId => occOf'[a] = occOf[a]
          /\ occOf'[nextId] = mem'.job.occ
      BY <2>0, <2>1, IdFacts
    <2>3. mem'.job.occ \in 1 .. nextId
      <3>1. mem.job.retryOcc < nextId
        BY <2>0 DEF Safe, Named
      <3> QED BY <2>0, <2>1, <3>1, IdFacts DEF AttemptOrNone
    <2>4. IdsOK'
      <3>1. engine'.of = nextId
        BY <2>0, EngineStarts
      <3>2. nextId' - 1 = nextId
        BY <2>0, IdFacts
      <3>3. \A a \in Attempts : /\ a < nextId' => occOf'[a] \in 1 .. a
                                /\ a >= nextId' => occOf'[a] = None
        BY <2>0, <2>2, <2>3, IdFacts
      <3>4. \A a \in dispatched' : a < nextId'
        BY <2>0, IdFacts
      <3> QED BY <3>1, <3>2, <3>3, <3>4 DEF IdsOK
    <2>5. NoReplay'
      <3> SUFFICES ASSUME NEW a \in dispatched, NEW b \in Attempts, occOf'[b] = occOf'[a]
                   PROVE  b <= a
        BY <2>0 DEF NoReplay, NotRetried
      <3>1. a < nextId /\ occOf[a] \in 1 .. a /\ a \in Attempts /\ a # None
        BY IdFacts
      <3>2. occOf'[a] = occOf[a]
        BY <2>0, <2>2, <3>1, IdFacts
      <3>3. CASE b = nextId
        <4>1. occOf[a] # mem.job.retryOcc
          BY <2>0, <3>1 DEF Safe, Closed
        <4>2. occOf[a] # nextId
          BY <2>0, <3>1, IdFacts
        <4> QED BY <2>1, <2>2, <3>2, <3>3, <4>1, <4>2
      <3>4. CASE b # nextId
        BY <2>2, <3>1, <3>2, <3>4 DEF NoReplay, NotRetried
      <3> QED BY <3>3, <3>4
    <2> QED BY <2>4, <2>5
  <1>2. CASE MarkEnds
    <2>0. /\ engine.pc = "marking" /\ engine'.of = engine.of
          /\ UNCHANGED claimVars /\ dispatched' \subseteq dispatched \cup {engine.of}
      BY <1>2, MarkEndsShape
    <2>1. engine.of = nextId - 1
      BY <2>0 DEF IdsOK
    <2>2. IdsOK'
      BY <2>0, <2>1, IdFacts DEF IdsOK, claimVars
    <2>3. NotRetried(engine.of)
      <3> SUFFICES ASSUME NEW b \in Attempts, occOf[b] = occOf[engine.of]
                   PROVE  b <= engine.of
        BY DEF NotRetried
      <3>1. engine.of \in Attempts /\ engine.of < nextId
        <4>1. engine.of \in AttemptOrNone /\ engine.of # None
          BY <2>0, StoreTypes DEF OwnerOK
        <4> QED BY <4>1, <2>1, IdFacts DEF AttemptOrNone
      <3>2. occOf[engine.of] # None
        BY <3>1, IdFacts
      <3>3. b < nextId
        BY <3>2, IdFacts
      <3> QED BY <2>1, <3>1, <3>3, IdFacts
    <2>4. NoReplay'
      BY <2>0, <2>3 DEF NoReplay, NotRetried, claimVars
    <2> QED BY <2>2, <2>4
  <1>3. CASE ~Claim /\ ~MarkEnds
    <2>1. /\ UNCHANGED <<nextId, occOf, dispatched>>
          /\ engine'.pc # "idle" => engine.pc # "idle" /\ engine'.of = engine.of
      BY <1>3, EngineFrame
    <2> QED BY <2>1 DEF IdsOK, NoReplay, NotRetried
  <1> QED BY <1>1, <1>2, <1>3

LEMMA MarkStep ==
  ASSUME TypeOK, OwnerOK, IdsOK, ClosedOK, EngineOK, [Next]_vars
  PROVE  EngineOK'
  <1> USE DEF At, Go, Return, Take, Leave, Told, ToldAnything, Happens, EngineOnly,
              RecoveryOnly, CommandOnly, DrainOnly, claimVars, historyVars
  <1>0. engine \in Engines /\ mem.job \in Safe
    BY DEF TypeOK, ClosedOK, Everywhere
  <1>1. CASE UNCHANGED vars
    BY <1>1 DEF vars, storeVars, EngineOK
  <1>2. CASE Claim
    <2>1. engine'.pc = "claiming" /\ engine'.of = nextId /\ UNCHANGED dispatched
      BY <1>2, EngineStarts DEF Claim
    <2>2. nextId \notin dispatched
      BY IdFacts
    <2> QED BY <2>1, <2>2 DEF EngineOK
  <1>3. CASE ClaimEnds
    BY <1>3, ClaimEndsShape DEF EngineOK
  <1>4. CASE Release
    <2>1. engine' = [engine EXCEPT !.pc = "releasing"]
      BY <1>4, ReleaseShape
    <2> QED BY <1>0, <1>4, <2>1, EngineMoves DEF Release, EngineOK
  <1>5. CASE ReleaseEnds
    BY <1>5, EngineStops DEF ReleaseEnds, EngineOK
  <1>6. CASE NoHooks
    BY <1>0, <1>6, EngineMoves DEF NoHooks, EngineOK
  <1>7. CASE FenceHooks
    BY <1>7, FenceHooksShape DEF EngineOK
  <1>8. CASE FenceEnds
    BY <1>8, FenceEndsShape, EngineStops DEF EngineOK
  <1>9. CASE Background
    <2>1. engine' = [engine EXCEPT !.aborted = TRUE] /\ UNCHANGED dispatched
      BY <1>9 DEF Background
    <2> QED BY <1>0, <2>1, EngineAborts DEF EngineOK
  <1>10. CASE Start
    BY <1>0, <1>10, EngineMoves DEF Start, EngineOK
  <1>11. CASE MarkUnsafe
    <2>1. mem.job.running = engine.of
      BY <1>11 DEF MarkUnsafe
    <2>2. engine.of \in dispatched => mem.job.risk = "unsafe"
      BY <1>0, <2>1 DEF Safe, Closed
    <2> QED BY <1>11, <2>2, MarkUnsafeShape DEF EngineOK
  <1>12. CASE MarkEnds
    BY <1>12, MarkEndsShape DEF EngineOK
  <1>13. CASE UnmarkEnds
    BY <1>0, <1>13, EngineMoves DEF UnmarkEnds, EngineOK
  <1>14. CASE Complete
    BY <1>14, CompleteStepShape DEF EngineOK
  <1>15. CASE CompleteEnds
    BY <1>15, CompleteEndsShape, EngineStops DEF EngineOK
  <1>16. CASE Throw
    <2>1. mem.job.running = engine.of
      BY <1>16, ThrowShape DEF OwnerOK
    <2>2. engine.of \in dispatched => mem.job.risk = "unsafe"
      BY <1>0, <2>1 DEF Safe, Closed
    <2> QED BY <1>16, <2>2, ThrowShape DEF EngineOK
  <1>17. CASE Settle
    <2>1. engine' = [engine EXCEPT !.pc = "saving"] /\ engine.pc = "settling"
          /\ UNCHANGED dispatched
      BY <1>17, SettleShape DEF Settle
    <2> QED BY <1>0, <2>1, EngineMoves DEF EngineOK
  <1>18. CASE SettleEnds
    BY <1>18, SettleEndsShape, EngineStops DEF EngineOK
  <1>19. CASE RecoveryFires
    <2>1. UNCHANGED <<engine, dispatched>>
      BY <1>19 DEF RecoveryFires
    <2> QED BY <2>1 DEF EngineOK
  <1>20. CASE RecoveryDelayed
    <2>1. UNCHANGED <<engine, dispatched>>
      BY <1>20 DEF RecoveryDelayed
    <2> QED BY <2>1 DEF EngineOK
  <1>21. CASE Reconcile
    <2>1. UNCHANGED <<engine, dispatched>>
      BY <1>21 DEF Reconcile
    <2> QED BY <2>1 DEF EngineOK
  <1>22. CASE ReconcileEnds
    <2>1. UNCHANGED <<engine, dispatched>>
      BY <1>22 DEF ReconcileEnds
    <2> QED BY <2>1 DEF EngineOK
  <1>23. CASE WriteEnds
    <2>1. UNCHANGED <<engine, dispatched>>
      BY <1>23 DEF WriteEnds
    <2> QED BY <2>1 DEF EngineOK
  <1>24. CASE Boot
    <2>1. UNCHANGED <<engine, dispatched>>
      BY <1>24 DEF Boot
    <2> QED BY <2>1 DEF EngineOK
  <1>25. CASE BootEnds
    <2>1. UNCHANGED <<engine, dispatched>>
      BY <1>25 DEF BootEnds
    <2> QED BY <2>1 DEF EngineOK
  <1>26. CASE Crash
    BY <1>26, EngineStops DEF Crash, EngineOK
  <1>27. CASE Touch \/ Command \/ CommandNext \/ SaverNext \/ DrainNext
    BY <1>27, KeepsStep DEF Keeps, EngineOK
  <1> QED BY <1>1, <1>2, <1>3, <1>4, <1>5, <1>6, <1>7, <1>8, <1>9, <1>10, <1>11, <1>12,
             <1>13, <1>14, <1>15, <1>16, <1>17, <1>18, <1>19, <1>20, <1>21, <1>22,
             <1>23, <1>24, <1>25, <1>26, <1>27
          DEF Next, EngineNext, RecoveryNext, BootNext

LEMMA ClosedStep ==
  ASSUME TypeOK, TypeOK', BootOK, OwnerOK, OwnerOK', IdsOK, ClosedOK, EngineOK, OwnWriteOK,
         DurableClaim, [Next]_vars
  PROVE  ClosedOK'
  <1> USE DEF At, Go, Return, Take, Leave, Told, ToldAnything, Happens, EngineOnly,
              RecoveryOnly, CommandOnly, DrainOnly, claimVars, historyVars
  <1> USE ClientTypes
  <1>0. /\ engine \in Engines /\ recovery \in Recoveries /\ mem \in Stores
        /\ writes \in Seq(Writes) /\ mem' \in Stores /\ mem'.job \in Jobs
        /\ mem.job \in Safe /\ disk.job \in Safe
        /\ engine.pc \in {"settling", "saving"} => engine.snap \in Safe
        /\ recovery.pc # "idle" => recovery.snap \in Safe
        /\ engine'.pc # "idle" => recovery'.pc = "idle"
        /\ None \notin Attempts
    BY DEF TypeOK, Stores, ClosedOK, Everywhere, OwnerOK, None, Attempts
  <1>1. CASE UNCHANGED vars
    BY <1>1, <1>0, ClosedKeeps DEF vars, storeVars
  <1>2. CASE Claim
    <2>1. Safe \subseteq Safe' /\ mem'.job \in Safe'
      BY <1>2, ClaimSafe
    <2>2. /\ engine'.pc = "claiming" /\ UNCHANGED disk /\ recovery'.pc = "idle"
      BY <1>0, <1>2, EngineStarts DEF Claim
    <2>3. Saves("engine")
      BY <1>2, ClaimShape
    <2>4. Everywhere(Safe)'
      <3> PICK S : S = Safe'
        OBVIOUS
      <3>1. Everywhere(S)
        BY <2>1 DEF ClosedOK, Everywhere
      <3>2. Everywhere(S)'
        BY <1>0, <2>1, <2>2, <2>3, <3>1, EverySaves
      <3> QED BY <3>2
    <2> QED BY <2>2, <2>4 DEF ClosedOK
  <1>3. CASE ClaimEnds
    <2>1. /\ UNCHANGED <<mem, disk, writes, nextId, occOf, dispatched>>
          /\ engine'.pc \notin {"settling", "saving"} /\ UNCHANGED recovery
      BY <1>0, <1>3, ClaimEndsShape DEF EngineAlone, claimVars
    <2> QED BY <1>0, <2>1, ClosedKeeps
  <1>4. CASE Release
    <2>1. /\ Saves("engine") /\ Stopped /\ mem'.job.retryOcc = mem.job.retryOcc
          /\ engine' = [engine EXCEPT !.pc = "releasing"]
      BY <1>4, ReleaseShape
    <2>2. engine'.pc = "releasing"
      BY <1>0, <2>1, EngineMoves
    <2>3. /\ engine.pc = "unclaimed" /\ UNCHANGED <<disk, nextId, occOf, dispatched>>
      BY <1>4 DEF Release
    <2>4. mem.job.running = engine.of /\ engine.of \notin dispatched /\ engine.of \in Attempts
      BY <2>3, StoreTypes DEF OwnerOK, EngineOK, AttemptOrNone, Attempts, None
    <2>5. mem'.job \in Safe
      BY <1>0, <2>1, <2>4, OverSafe DEF Stopped
    <2> QED BY <1>0, <2>1, <2>2, <2>3, <2>5, ClosedKeeps
  <1>5. CASE ReleaseEnds
    <2>1. /\ UNCHANGED <<mem, disk, writes, nextId, occOf, dispatched>>
          /\ engine'.pc \notin {"settling", "saving"} /\ UNCHANGED recovery
      BY <1>0, <1>5, EngineStops DEF ReleaseEnds
    <2> QED BY <1>0, <2>1, ClosedKeeps
  <1>6. CASE NoHooks
    <2>1. /\ UNCHANGED <<mem, disk, writes, nextId, occOf, dispatched>>
          /\ engine'.pc \notin {"settling", "saving"} /\ UNCHANGED recovery
      BY <1>0, <1>6, EngineMoves DEF NoHooks
    <2> QED BY <1>0, <2>1, ClosedKeeps
  <1>7. CASE FenceHooks
    <2>1. /\ Saves("engine") /\ mem'.job.running = mem.job.running
          /\ mem'.job.occ = mem.job.occ /\ mem'.job.retryOcc = mem.job.retryOcc
          /\ mem'.job.risk = "unsafe"
      BY <1>7, MarkShape
    <2>2. /\ engine'.pc = "fencing" /\ UNCHANGED <<disk, nextId, occOf, dispatched>>
      BY <1>7, FenceHooksShape DEF EngineAlone, claimVars
    <2>3. mem'.job \in Safe
      BY <1>0, <2>1, LikeSafe
    <2> QED BY <1>0, <2>1, <2>2, <2>3, ClosedKeeps
  <1>8. CASE FenceEnds
    <2>0. /\ engine.pc = "fencing" /\ engine'.pc \in {"ready", "idle"}
          /\ UNCHANGED <<disk, recovery, nextId, occOf, dispatched>>
      BY <1>8, FenceEndsShape, EngineStops DEF EngineAlone, claimVars
    <2>1. CASE Save(WithRisk(mem, engine.prev), "nobody")
      <3>1. /\ Saves("nobody") /\ mem'.job.running = mem.job.running
            /\ mem'.job.occ = mem.job.occ /\ mem'.job.retryOcc = mem.job.retryOcc
        BY <2>1, UnmarkShape
      <3>2. mem.job.running \notin dispatched
        BY <2>0 DEF OwnerOK, EngineOK
      <3>3. mem'.job \in Safe
        BY <1>0, <3>1, <3>2, LikeSafe
      <3> QED BY <1>0, <2>0, <3>1, <3>3, ClosedKeeps
    <2>2. CASE UNCHANGED <<mem, writes>>
      BY <1>0, <2>0, <2>2, ClosedKeeps
    <2> QED BY <1>8, <2>1, <2>2, FenceEndsShape
  <1>9. CASE Background
    <2>1. /\ engine' = [engine EXCEPT !.aborted = TRUE]
          /\ engine.pc \notin {"settling", "saving"}
          /\ UNCHANGED <<mem, disk, writes, nextId, occOf, dispatched, recovery>>
      BY <1>9 DEF Background
    <2>2. engine'.pc = engine.pc
      BY <2>1, <1>0, EngineAborts
    <2> QED BY <1>0, <2>1, <2>2, ClosedKeeps
  <1>10. CASE Start
    <2>1. /\ UNCHANGED <<mem, disk, writes, nextId, occOf, dispatched>>
          /\ engine'.pc \notin {"settling", "saving"} /\ UNCHANGED recovery
      BY <1>0, <1>10, EngineMoves DEF Start
    <2> QED BY <1>0, <2>1, ClosedKeeps
  <1>11. CASE MarkUnsafe
    <2>1. /\ Saves("engine") /\ mem'.job.running = mem.job.running
          /\ mem'.job.occ = mem.job.occ /\ mem'.job.retryOcc = mem.job.retryOcc
          /\ mem'.job.risk = "unsafe"
      BY <1>11, MarkShape
    <2>2. /\ engine'.pc = "marking" /\ UNCHANGED <<disk, nextId, occOf, dispatched>>
      BY <1>11, MarkUnsafeShape DEF EngineAlone, claimVars
    <2>3. mem'.job \in Safe
      BY <1>0, <2>1, LikeSafe
    <2> QED BY <1>0, <2>1, <2>2, <2>3, ClosedKeeps
  <1>12. CASE MarkEnds
    <2>0. /\ engine.pc = "marking" /\ engine'.of = engine.of
          /\ UNCHANGED <<disk, recovery, nextId, occOf>>
          /\ dispatched' \in {dispatched, dispatched \cup {engine.of}}
      BY <1>12, MarkEndsShape DEF EngineAlone, claimVars
    <2>1. CASE /\ Save(WithRisk(mem, engine.prev), "engine") /\ engine'.pc = "unmarking"
               /\ UNCHANGED dispatched
      <3>1. /\ Saves("engine") /\ mem'.job.running = mem.job.running
            /\ mem'.job.occ = mem.job.occ /\ mem'.job.retryOcc = mem.job.retryOcc
            /\ mem'.job.risk = engine.prev
        BY <2>1, UnmarkShape
      <3>2. mem.job.running \in dispatched => mem'.job.risk = "unsafe"
        BY <2>0, <3>1 DEF OwnerOK, EngineOK
      <3>3. mem'.job \in Safe
        BY <1>0, <3>1, <3>2, LikeSafe
      <3> QED BY <1>0, <2>0, <2>1, <3>1, <3>3, ClosedKeeps
    <2>2. CASE /\ answer["engine"] = "ok" /\ engine'.pc = "running"
               /\ UNCHANGED <<mem, writes>>
      <3>1. Everywhere(Marked)
        BY <2>0, <2>2 DEF OwnWriteOK, WaitsFor
      <3>2. Everywhere(RunningIs(engine.of))
        BY <2>0 DEF DurableClaim, Executing
      <3>3. \A j \in Safe : j \in Marked /\ j \in RunningIs(engine.of) => j \in Safe'
        BY <2>0, DispatchSafe DEF Marked, RunningIs
      <3>4. Everywhere(Safe)'
        BY <2>0, <2>2, <3>1, <3>2, <3>3 DEF ClosedOK, Everywhere
      <3> QED BY <1>0, <2>2, <3>4 DEF ClosedOK
    <2> QED BY <1>12, <2>1, <2>2, MarkEndsShape
  <1>13. CASE UnmarkEnds
    <2>1. /\ UNCHANGED <<mem, disk, writes, nextId, occOf, dispatched>>
          /\ engine'.pc \notin {"settling", "saving"} /\ UNCHANGED recovery
      BY <1>0, <1>13, EngineMoves DEF UnmarkEnds
    <2> QED BY <1>0, <2>1, ClosedKeeps
  <1>14. CASE Complete
    <2>1. Saves("engine") /\ SameAttempt
      BY <1>14, CompleteShape
    <2>2. /\ engine'.pc = "completing" /\ UNCHANGED <<disk, nextId, occOf, dispatched>>
      BY <1>14, CompleteStepShape DEF EngineAlone, claimVars
    <2>3. mem'.job \in Safe
      BY <1>0, <2>1, LikeSafe DEF SameAttempt
    <2> QED BY <1>0, <2>1, <2>2, <2>3, ClosedKeeps
  <1>15. CASE CompleteEnds
    <2>1. /\ UNCHANGED <<mem, disk, writes, recovery, nextId, occOf, dispatched>>
          /\ engine'.pc \in {"settling", "saving"} => engine'.snap = mem.job
      BY <1>15, CompleteEndsShape, EngineStops DEF EngineAlone, claimVars
    <2> QED BY <1>0, <2>1, ClosedKeeps
  <1>16. CASE Throw
    <2>1. /\ UNCHANGED <<mem, disk, writes, recovery, nextId, occOf, dispatched>>
          /\ engine'.snap = mem.job
      BY <1>16, ThrowShape DEF EngineAlone, claimVars
    <2> QED BY <1>0, <2>1, ClosedKeeps
  <1>17. CASE Settle
    <2>1. /\ Saves("engine") /\ Stopped /\ engine' = [engine EXCEPT !.pc = "saving"]
          /\ \/ mem'.job.retryOcc = None
             \/ /\ mem'.job.retryOcc = mem.job.occ
                /\ engine.plan = "defer" \/ mem.job.risk # "unsafe"
      BY <1>17, SettleShape
    <2>2. engine'.pc = "saving" /\ engine'.snap = engine.snap
      BY <1>0, <2>1, EngineMoves
    <2>3. /\ engine.pc = "settling" /\ UNCHANGED <<disk, nextId, occOf, dispatched>>
      BY <1>17 DEF Settle
    <2>4. mem.job.running = engine.of /\ engine.of \in Attempts
      BY <2>3, StoreTypes DEF OwnerOK, AttemptOrNone, Attempts, None
    <2>5. mem'.job.retryOcc = None \/ mem.job.running \notin dispatched
      BY <1>0, <2>1, <2>3, <2>4, UnmarkedSafe DEF EngineOK
    <2>6. mem'.job \in Safe
      BY <1>0, <2>1, <2>4, <2>5, OverSafe DEF Stopped
    <2> QED BY <1>0, <2>1, <2>2, <2>3, <2>6, ClosedKeeps
  <1>18. CASE SettleEnds
    <2>0. /\ engine.pc = "saving" /\ engine'.pc = "idle"
          /\ UNCHANGED <<disk, recovery, nextId, occOf, dispatched>>
      BY <1>18, SettleEndsShape, EngineStops DEF EngineAlone, claimVars
    <2>1. CASE Save(Restored(mem, engine.of, engine.snap, engine.plan = "success"), "nobody")
      <3> DEFINE completed == engine.plan = "success"
      <3>1. /\ completed \in BOOLEAN /\ mem.job.running = None
            /\ engine.snap \in Jobs /\ engine.of \in AttemptOrNone
        BY <2>0, StoreTypes DEF OwnerOK
      <3>2. Save(Restored(mem, engine.of, engine.snap, completed), "nobody")
        BY <2>1
      <3> HIDE DEF completed
      <3>3. /\ Saves("nobody")
            /\ mem'.job.running = engine.snap.running /\ mem'.job.occ = engine.snap.occ
            /\ mem'.job.retryOcc = engine.snap.retryOcc
            /\ mem'.job.risk = engine.snap.risk
        BY <3>1, <3>2, RestoreShape
      <3>4. mem'.job \in Safe
        BY <1>0, <2>0, <3>3, LikeSafe
      <3> QED BY <1>0, <2>0, <3>3, <3>4, ClosedKeeps
    <2>2. CASE UNCHANGED <<mem, writes>>
      BY <1>0, <2>0, <2>2, ClosedKeeps
    <2> QED BY <1>18, <2>1, <2>2, SettleEndsShape
  <1>19. CASE RecoveryFires
    <2>1. /\ UNCHANGED <<mem, disk, writes, engine, nextId, occOf, dispatched>>
          /\ recovery'.pc # "idle" => recovery'.snap = mem.job
      BY <1>0, <1>19 DEF RecoveryFires
    <2> QED BY <1>0, <2>1, ClosedKeeps
  <1>20. CASE RecoveryDelayed
    <2>1. /\ UNCHANGED <<mem, disk, writes, engine, nextId, occOf, dispatched>>
          /\ recovery'.pc = "idle"
      BY <1>20 DEF RecoveryDelayed, NoRecovery
    <2> QED BY <1>0, <2>1, ClosedKeeps
  <1>21. CASE Reconcile
    <2>1. /\ recovery.pc = "releasing" /\ mem.job.running = recovery.of
          /\ Save(Reconciled(mem), "recovery")
          /\ recovery' = [recovery EXCEPT !.pc = "saving"]
          /\ UNCHANGED <<disk, engine, nextId, occOf, dispatched>>
      BY <1>21 DEF Reconcile, Mutate, OwnerOK
    <2>2. recovery'.snap = recovery.snap
      BY <2>1, <1>0 DEF Recoveries
    <2>3. /\ Saves("recovery") /\ Stopped
          /\ \/ mem'.job.retryOcc = None
             \/ mem'.job.retryOcc = mem.job.occ /\ mem.job.risk # "unsafe"
      BY <2>1, ReconcileShape
    <2>4. mem.job.running \in Attempts
      BY <2>1, StoreTypes DEF OwnerOK, AttemptOrNone, Attempts, None
    <2>5. mem'.job.retryOcc = None \/ mem.job.running \notin dispatched
      BY <1>0, <2>3, UnmarkedSafe
    <2>6. mem'.job \in Safe
      BY <1>0, <2>3, <2>4, <2>5, OverSafe DEF Stopped
    <2> QED BY <1>0, <2>1, <2>2, <2>3, <2>6, ClosedKeeps
  <1>22. CASE ReconcileEnds
    <2>0. /\ recovery.pc = "saving" /\ recovery'.pc = "idle" /\ mem.job.running = None
          /\ UNCHANGED <<disk, engine, nextId, occOf, dispatched>>
      BY <1>22 DEF ReconcileEnds, NoRecovery, OwnerOK
    <2>1. CASE Save(Restored(mem, recovery.of, recovery.snap, FALSE), "nobody")
      <3>1. recovery.snap \in Jobs /\ recovery.of \in AttemptOrNone
        BY StoreTypes
      <3>2. /\ Saves("nobody")
            /\ mem'.job.running = recovery.snap.running /\ mem'.job.occ = recovery.snap.occ
            /\ mem'.job.retryOcc = recovery.snap.retryOcc
            /\ mem'.job.risk = recovery.snap.risk
        BY <2>0, <2>1, <3>1, RestoreShape
      <3>3. mem'.job \in Safe
        BY <1>0, <2>0, <3>2, LikeSafe
      <3> QED BY <1>0, <2>0, <3>2, <3>3, ClosedKeeps
    <2>2. CASE UNCHANGED <<mem, writes>>
      BY <1>0, <2>0, <2>2, ClosedKeeps
    <2> QED BY <1>22, <2>1, <2>2 DEF ReconcileEnds
  <1>23. CASE WriteEnds
    <2>1. UNCHANGED <<mem, engine, recovery, nextId, occOf, dispatched>>
      BY <1>23 DEF WriteEnds
    <2>2. Safe' = Safe
      BY <2>1 DEF Safe, Closed, Named
    <2>3. Everywhere(Safe)'
      <3> PICK S : S = Safe
        OBVIOUS
      <3>1. Everywhere(S)'
        BY <1>0, <1>23, EveryEnds DEF ClosedOK
      <3> QED BY <2>2, <3>1
    <2> QED BY <2>1, <2>2, <2>3 DEF ClosedOK
  <1>24. CASE Boot
    <2>1. /\ engine'.pc = "idle" /\ recovery'.pc = "idle"
          /\ UNCHANGED <<disk, nextId, occOf, dispatched>>
      BY <1>24, EngineStops DEF Boot, BootOK, NoRecovery
    <2>2. CASE mem.job.running # None
      <3>1. /\ Saves("startup") /\ Stopped
            /\ \/ mem'.job.retryOcc = None
               \/ mem'.job.retryOcc = mem.job.occ /\ mem.job.risk # "unsafe"
        BY <1>24, <2>2, ReconcileShape DEF Boot
      <3>2. mem.job.running \in Attempts
        BY <2>2, StoreTypes DEF AttemptOrNone, Attempts, None
      <3>3. mem'.job.retryOcc = None \/ mem.job.running \notin dispatched
        BY <1>0, <3>1, UnmarkedSafe
      <3>4. mem'.job \in Safe
        BY <1>0, <3>1, <3>2, <3>3, OverSafe DEF Stopped
      <3> QED BY <1>0, <2>1, <3>1, <3>4, ClosedKeeps
    <2>3. CASE mem.job.running = None
      <3>1. UNCHANGED <<mem, writes>> \/ (mem' = mem /\ Saves("startup"))
        BY <1>0, <1>24, <2>3, SaveShape DEF Boot
      <3> QED BY <1>0, <2>1, <3>1, ClosedKeeps
    <2> QED BY <2>2, <2>3
  <1>25. CASE BootEnds
    <2>1. UNCHANGED <<mem, disk, writes, engine, recovery, nextId, occOf, dispatched>>
      BY <1>25 DEF BootEnds
    <2> QED BY <1>0, <2>1, ClosedKeeps
  <1>26. CASE Crash
    <2>1. /\ mem' = disk /\ disk' = disk /\ writes' = <<>> /\ engine'.pc = "idle"
          /\ recovery'.pc = "idle" /\ UNCHANGED <<nextId, occOf, dispatched>>
      BY <1>26, EngineStops DEF Crash, NoRecovery
    <2>2. Safe' = Safe
      BY <2>1 DEF Safe, Closed, Named
    <2> QED BY <1>0, <2>1, <2>2 DEF ClosedOK, Everywhere
  <1>27. CASE Touch \/ Command \/ CommandNext \/ SaverNext \/ DrainNext
    <2>1. Keeps
      BY <1>27, KeepsStep
    <2>2. mem'.job \in Safe
      BY <1>0, <2>1, LikeSafe DEF Keeps, SameAttempt
    <2> QED BY <1>0, <2>1, <2>2, ClosedKeeps DEF Keeps
  <1> QED BY <1>1, <1>2, <1>3, <1>4, <1>5, <1>6, <1>7, <1>8, <1>9, <1>10, <1>11, <1>12,
             <1>13, <1>14, <1>15, <1>16, <1>17, <1>18, <1>19, <1>20, <1>21, <1>22,
             <1>23, <1>24, <1>25, <1>26, <1>27
          DEF Next, EngineNext, RecoveryNext, BootNext

(***************************************************************************)
(* The theorems.                                                           *)
(***************************************************************************)
LEMMA InitInv == Init => ReplayInv
  <1> SUFFICES ASSUME Init PROVE ReplayInv
    OBVIOUS
  <1>1. TypeOK
    BY InitType
  <1>2. NewJob \in Jobs /\ mem.job = NewJob /\ disk.job = NewJob /\ NewJob.running = None
        /\ NewJob.retryOcc = None
    BY NewTypes DEF Init, NewStore, NewJob
  <1>3. LockOK
    BY EngineStops DEF Init, LockOK, NoRecovery, NoCommand, NoDrain
  <1>4. BootOK
    BY DEF Init, BootOK, NoDrain
  <1>5. OwnerOK
    BY <1>2, EngineStops DEF Init, OwnerOK, NoRecovery
  <1>6. IdsOK /\ EngineOK /\ NoReplay
    BY EngineStops, AttemptsAssumption DEF Init, IdsOK, EngineOK, NoReplay, Attempts, None
  <1>7. NewJob \in Safe
    BY <1>2 DEF Init, Safe, Closed, Named, None
  <1>8. ClosedOK
    BY <1>2, <1>7, EngineStops DEF Init, ClosedOK, Everywhere, NoRecovery
  <1>9. OwnWriteOK /\ DurableClaim
    BY EngineStops DEF Init, OwnWriteOK, OwnWrites, DurableClaim, Executing, Clients
  <1> QED BY <1>1, <1>3, <1>4, <1>5, <1>6, <1>8, <1>9 DEF ReplayInv

LEMMA StepInv == ReplayInv /\ [Next]_vars => ReplayInv'
  <1> SUFFICES ASSUME ReplayInv, [Next]_vars PROVE ReplayInv'
    OBVIOUS
  <1>0. /\ TypeOK /\ LockOK /\ BootOK /\ OwnerOK /\ IdsOK /\ ClosedOK /\ EngineOK
        /\ OwnWriteOK /\ NoReplay /\ DurableClaim
    BY DEF ReplayInv
  <1>1. /\ engine.pc # "idle" => engine.of \in Attempts
        /\ recovery.pc # "idle" => recovery.of \in Attempts
    BY <1>0, StoreTypes DEF OwnerOK, AttemptOrNone, Attempts, None
  <1>2. TypeOK'
    BY <1>0, <1>1, TypeStep
  <1>3. LockOK'
    BY <1>0, LockStep
  <1>4. BootOK' /\ OwnerOK'
    BY <1>0, BootStep, OwnerStep
  <1>5. OwnWriteOK' /\ DurableClaim'
    BY <1>0, <1>2, QueueStep
  <1>6. IdsOK' /\ NoReplay'
    BY <1>0, <1>2, IdsStep
  <1>7. EngineOK'
    BY <1>0, MarkStep
  <1>8. ClosedOK'
    BY <1>0, <1>2, <1>4, ClosedStep
  <1> QED BY <1>2, <1>3, <1>4, <1>5, <1>6, <1>7, <1>8 DEF ReplayInv

\* The invariant holds of every reachable state: the hands an attempt is in, the ids,
\* the queue of writes, and what every stored state says of dispatched effects.
THEOREM AttemptsReplayInv == Spec => []ReplayInv
  BY InitInv, StepInv, PTL DEF Spec

\* An occurrence whose attempt dispatched a tool effect is never executed again, by a
\* retry, a restart, a recovery or a settlement that was taken back.
THEOREM AttemptsNoReplay == Spec => []NoReplay
  <1>1. ReplayInv => NoReplay
    BY DEF ReplayInv
  <1> QED BY <1>1, AttemptsReplayInv, PTL

\* While the engine executes an attempt, the memory, the disk and every queued write
\* say that the attempt runs.
THEOREM AttemptsDurableClaim == Spec => []DurableClaim
  <1>1. ReplayInv => DurableClaim
    BY DEF ReplayInv
  <1> QED BY <1>1, AttemptsReplayInv, PTL

\* A running attempt is in exactly one hand: the engine's, a timer's or a recovery's.
THEOREM AttemptsOneOwner == Spec => []OneOwner
  <1>1. ReplayInv => OneOwner
    BY DEF ReplayInv, TypeOK, OwnerOK, OneOwner, Recoveries
  <1> QED BY <1>1, AttemptsReplayInv, PTL
=============================================================================
