----------------------- MODULE ScheduledOutcomesProofs -----------------------
(***************************************************************************)
(* Proofs about ScheduledAttempts: what becomes of the outcome of an       *)
(* attempt.  An output that was recorded on disk stays a success, and an   *)
(* attempt that was on disk does not vanish.  Both rest on the order of    *)
(* the copies of the store: the disk, the queued writes, the memory.       *)
(***************************************************************************)
EXTENDS ScheduledAttemptsProofs

(***************************************************************************)
(* What the steps do to the store in memory.                               *)
(***************************************************************************)
\* The attempt goes on, and a new revision may replace the definition.
Edited(s, t) ==
  /\ t.reports = s.reports
  /\ t.job.running = s.job.running /\ t.job.runRev = s.job.runRev
  /\ t.job.occ = s.job.occ /\ t.job.done = s.job.done
  /\ t.job.retryOcc \in {None, s.job.retryOcc}
  /\ \/ t.job.rev = s.job.rev /\ t.job.enabled = s.job.enabled
     \/ t.job.rev > s.job.rev

\* The attempt is over.  A recorded output becomes its success; otherwise it has a
\* report, unless its definition was replaced or disabled.
Ended(s, t) ==
  /\ t.job.running = None /\ t.job.occ = None /\ t.job.done = FALSE
  /\ t.job.rev = s.job.rev /\ (t.job.enabled => s.job.enabled)
  /\ t.job.retryOcc \in {None, s.job.occ, s.job.retryOcc}
  /\ \E status \in Statuses \cup {"none"} :
        /\ t.reports = [s.reports EXCEPT ![s.job.running] = status]
        /\ s.job.done => status = "success" /\ t.job.retryOcc = None
        /\ status = "none" => s.job.rev # s.job.runRev \/ ~s.job.enabled

LEMMA ClearedFields ==
  ASSUME NEW job \in Jobs
  PROVE  /\ ClearRunning(job).rev = job.rev /\ ClearRunning(job).enabled = job.enabled
         /\ ClearRunning(job).done = FALSE
         /\ ClearRetry(job).rev = job.rev /\ ClearRetry(job).enabled = job.enabled
         /\ ClearRetry(job).done = job.done /\ ClearRetry(job).runRev = job.runRev
         /\ Ran(job).rev = job.rev /\ (Ran(job).enabled => job.enabled)
  <1>1. /\ ClearRunning(job).rev = job.rev /\ ClearRunning(job).enabled = job.enabled
        /\ ClearRunning(job).done = FALSE
    BY DEF ClearRunning, Jobs
  <1>2. /\ ClearRetry(job).rev = job.rev /\ ClearRetry(job).enabled = job.enabled
        /\ ClearRetry(job).done = job.done /\ ClearRetry(job).runRev = job.runRev
    BY DEF ClearRetry, Jobs
  <1>3. Ran(job).rev = job.rev /\ (Ran(job).enabled => job.enabled)
    <2> DEFINE on == job.enabled /\ ~(OneShot /\ job.rev = job.runRev)
    <2>1. Ran(job) = [job EXCEPT !.enabled = on]
      BY DEF Ran, Jobs
    <2>2. [job EXCEPT !.enabled = on].rev = job.rev
          /\ [job EXCEPT !.enabled = on].enabled = on
      BY DEF Jobs
    <2>3. on => job.enabled
      OBVIOUS
    <2> HIDE DEF on
    <2> QED BY <2>1, <2>2, <2>3
  <1> QED BY <1>1, <1>2, <1>3

LEMMA OverFields ==
  ASSUME NEW job \in Jobs
  PROVE  /\ Succeed(job).rev = job.rev /\ (Succeed(job).enabled => job.enabled)
         /\ Succeed(job).done = FALSE
         /\ Terminalize(job).rev = job.rev /\ (Terminalize(job).enabled => job.enabled)
         /\ Terminalize(job).done = FALSE
  <1> DEFINE ran == Ran(job)
  <1>1. ran \in Jobs /\ ran.rev = job.rev /\ (ran.enabled => job.enabled)
    BY ClearedTypes, ClearedFields
  <1> HIDE DEF ran
  <1> DEFINE clear == ClearRetry(ran)
  <1>2. clear \in Jobs /\ clear.rev = ran.rev /\ clear.enabled = ran.enabled
    BY <1>1, ClearedTypes, ClearedFields
  <1> HIDE DEF clear
  <1>3. /\ ClearRunning(clear).rev = clear.rev /\ ClearRunning(clear).enabled = clear.enabled
        /\ ClearRunning(clear).done = FALSE
    BY <1>2, ClearedFields
  <1>4. Succeed(job) = ClearRunning(clear) /\ Terminalize(job) = ClearRunning(clear)
    BY DEF Succeed, Terminalize, clear, ran
  <1> QED BY <1>1, <1>2, <1>3, <1>4

LEMMA LaterFields ==
  ASSUME NEW job \in Jobs
  PROVE  /\ RetryLater(job).rev = job.rev /\ (RetryLater(job).enabled => job.enabled)
         /\ RetryLater(job).done = FALSE
         /\ Defer(job).rev = job.rev /\ (Defer(job).enabled => job.enabled)
         /\ Defer(job).done = FALSE
  <1> DEFINE later == [job EXCEPT !.retries = job.number, !.retryOcc = job.occ]
             soon == [job EXCEPT !.retryOcc = job.occ]
  <1>1. /\ later \in Jobs /\ later.rev = job.rev /\ later.enabled = job.enabled
        /\ soon \in Jobs /\ soon.rev = job.rev /\ soon.enabled = job.enabled
    BY DEF Jobs
  <1>2. /\ RetryLater(job) \in {Terminalize(job), ClearRunning(ClearRetry(job)),
                                ClearRunning(later)}
        /\ Defer(job) \in {ClearRunning(soon), ClearRunning(ClearRetry(job))}
    BY DEF RetryLater, Defer
  <1> HIDE DEF later, soon
  <1>3. /\ ClearRunning(later).rev = job.rev /\ ClearRunning(later).enabled = job.enabled
        /\ ClearRunning(later).done = FALSE
        /\ ClearRunning(soon).rev = job.rev /\ ClearRunning(soon).enabled = job.enabled
        /\ ClearRunning(soon).done = FALSE
    BY <1>1, ClearedFields
  <1>4. /\ ClearRunning(ClearRetry(job)).rev = job.rev
        /\ ClearRunning(ClearRetry(job)).enabled = job.enabled
        /\ ClearRunning(ClearRetry(job)).done = FALSE
    BY ClearedTypes, ClearedFields
  <1> QED BY <1>2, <1>3, <1>4, OverFields

\* A settlement ends the attempt, provided a recorded output is settled as a success.
LEMMA SettledEnds ==
  ASSUME NEW s \in Stores, s.job.running \in Attempts, NEW how \in Plans,
         s.job.done => how = "success"
  PROVE  Ended(s, Settled(s, s.job.running, how))
  <1> DEFINE a == s.job.running
             t == Settled(s, a, how)
  <1> SUFFICES Ended(s, t)
    OBVIOUS
  <1>0. /\ s.job \in Jobs /\ s.reports \in [Attempts -> Statuses \cup {"none"}]
        /\ a \in Attempts /\ a \in AttemptOrNone
        /\ {"success", "error", "retrying"} \subseteq Statuses /\ "none" \notin Statuses
    BY DEF Stores, Statuses, Attempts, AttemptOrNone
  <1>2. CASE how = "success"
    <2>1. t = [job |-> Succeed(s.job), reports |-> [s.reports EXCEPT ![a] = "success"]]
      BY <1>2 DEF Settled, Append1
    <2>2. t.job = Succeed(s.job) /\ t.reports = [s.reports EXCEPT ![a] = "success"]
      BY <2>1
    <2>3. s.job.done => "success" = "success"
      BY <1>2
    <2> HIDE DEF t
    <2>4. /\ Succeed(s.job).running = None /\ Succeed(s.job).occ = None
          /\ Succeed(s.job).done = FALSE /\ Succeed(s.job).rev = s.job.rev
          /\ Succeed(s.job).enabled => s.job.enabled
          /\ Succeed(s.job).retryOcc \in {None, s.job.occ, s.job.retryOcc}
          /\ s.job.done => Succeed(s.job).retryOcc = None
      BY <1>0, <2>3, OverTypes, OverFields
    <2> QED BY <1>0, <2>2, <2>3, <2>4 DEF Ended, a
  <1>3. CASE how = "final"
    <2>1. t = [job |-> Terminalize(s.job), reports |-> [s.reports EXCEPT ![a] = "error"]]
      BY <1>3 DEF Settled, Append1
    <2>2. t.job = Terminalize(s.job) /\ t.reports = [s.reports EXCEPT ![a] = "error"]
      BY <2>1
    <2>3. s.job.done => "error" = "success"
      BY <1>3
    <2> HIDE DEF t
    <2>4. /\ Terminalize(s.job).running = None /\ Terminalize(s.job).occ = None
          /\ Terminalize(s.job).done = FALSE /\ Terminalize(s.job).rev = s.job.rev
          /\ Terminalize(s.job).enabled => s.job.enabled
          /\ Terminalize(s.job).retryOcc \in {None, s.job.occ, s.job.retryOcc}
          /\ s.job.done => Terminalize(s.job).retryOcc = None
      BY <1>0, <2>3, OverTypes, OverFields
    <2> QED BY <1>0, <2>2, <2>3, <2>4 DEF Ended, a
  <1>4. CASE how = "retry"
    <2>1. t = [job |-> RetryLater(s.job), reports |-> [s.reports EXCEPT ![a] = "retrying"]]
      BY <1>4 DEF Settled, Append1
    <2>2. t.job = RetryLater(s.job) /\ t.reports = [s.reports EXCEPT ![a] = "retrying"]
      BY <2>1
    <2>3. s.job.done => "retrying" = "success"
      BY <1>4
    <2> HIDE DEF t
    <2>4. /\ RetryLater(s.job).running = None /\ RetryLater(s.job).occ = None
          /\ RetryLater(s.job).done = FALSE /\ RetryLater(s.job).rev = s.job.rev
          /\ RetryLater(s.job).enabled => s.job.enabled
          /\ RetryLater(s.job).retryOcc \in {None, s.job.occ, s.job.retryOcc}
          /\ s.job.done => RetryLater(s.job).retryOcc = None
      BY <1>0, <2>3, RetryTypes, LaterFields
    <2> QED BY <1>0, <2>2, <2>3, <2>4 DEF Ended, a
  <1>5. CASE how = "defer"
    <2> DEFINE reported == IF CanRetrySafely(s.job)
                           THEN Append1(s.reports, a, "retrying") ELSE s.reports
    <2>1. Settled(s, a, how) = [job |-> Defer(s.job), reports |-> reported]
      BY <1>5 DEF Settled
    <2>2. PICK status \in Statuses \cup {"none"} :
             /\ reported = [s.reports EXCEPT ![a] = status]
             /\ status = "none" => s.job.rev # s.job.runRev \/ ~s.job.enabled
      <3>1. CASE CanRetrySafely(s.job)
        <4>1. reported = [s.reports EXCEPT ![a] = "retrying"]
          BY <3>1 DEF Append1
        <4> QED BY <4>1, <1>0
      <3>2. CASE ~CanRetrySafely(s.job)
        <4>1. reported = [s.reports EXCEPT ![a] = s.reports[a]]
          BY <3>2, <1>0
        <4>2. s.reports[a] \in Statuses \cup {"none"}
          BY <1>0
        <4>3. s.job.rev # s.job.runRev \/ ~s.job.enabled
          BY <3>2 DEF CanRetrySafely
        <4> QED BY <4>1, <4>2, <4>3
      <3> QED BY <3>1, <3>2
    <2>3. ~s.job.done
      BY <1>5
    <2>4. t.job = Defer(s.job) /\ t.reports = [s.reports EXCEPT ![a] = status]
      BY <2>1, <2>2
    <2> HIDE DEF t, reported
    <2>5. /\ Defer(s.job).running = None /\ Defer(s.job).occ = None
          /\ Defer(s.job).done = FALSE /\ Defer(s.job).rev = s.job.rev
          /\ Defer(s.job).enabled => s.job.enabled
          /\ Defer(s.job).retryOcc \in {None, s.job.occ, s.job.retryOcc}
      BY <1>0, DeferTypes, LaterFields
    <2> QED BY <1>0, <2>2, <2>3, <2>4, <2>5 DEF Ended, a
  <1> QED BY <1>2, <1>3, <1>4, <1>5 DEF Plans

\* Only a settlement that lets the occurrence be executed again reports it as retried.
LEMMA SettledReports ==
  ASSUME NEW s \in Stores, NEW a \in Attempts, NEW how \in {"success", "final"}
  PROVE  Settled(s, a, how).reports[a] # "retrying"
  <1>1. s.reports \in [Attempts -> Statuses \cup {"none"}]
    BY DEF Stores
  <1>2. CASE how = "success"
    <2>1. Settled(s, a, how) = [job |-> Succeed(s.job), reports |-> Append1(s.reports, a, "success")]
      BY <1>2 DEF Settled
    <2> QED BY <1>1, <2>1 DEF Append1
  <1>3. CASE how = "final"
    <2>1. Settled(s, a, how) = [job |-> Terminalize(s.job), reports |-> Append1(s.reports, a, "error")]
      BY <1>3 DEF Settled
    <2> QED BY <1>1, <2>1 DEF Append1
  <1> QED BY <1>2, <1>3

LEMMA ReconciledReports ==
  ASSUME NEW s \in Stores, s.job.running \in Attempts, s.job.risk # "safe"
  PROVE  Reconciled(s).reports[s.job.running] # "retrying"
  <1> DEFINE how == IF s.job.done THEN "success" ELSE "final"
  <1>1. Reconciled(s) = Settled(s, s.job.running, how)
    BY DEF Reconciled
  <1> QED BY <1>1, SettledReports

LEMMA ReconciledEnds ==
  ASSUME NEW s \in Stores, s.job.running \in Attempts
  PROVE  Ended(s, Reconciled(s))
  <1> DEFINE how == IF s.job.done THEN "success"
                    ELSE IF s.job.risk = "safe" THEN "defer" ELSE "final"
  <1>1. how \in Plans /\ (s.job.done => how = "success")
    BY DEF Plans
  <1>2. Reconciled(s) = Settled(s, s.job.running, how)
    BY DEF Reconciled
  <1> HIDE DEF how
  <1> QED BY <1>1, <1>2, SettledEnds

\* Taking back a claim ends an attempt whose output is not recorded.
LEMMA ReleasedEnds ==
  ASSUME NEW s \in Stores, s.job.running \in Attempts, ~s.job.done
  PROVE  Ended(s, Released(s, s.job.running))
  <1> DEFINE a == s.job.running
  <1>1. /\ s.job \in Jobs /\ a \in AttemptOrNone
        /\ "retrying" \in Statuses /\ "retrying" # "none"
    BY DEF Stores, Statuses, Attempts, AttemptOrNone
  <1> DEFINE t == Released(s, a)
  <1>2. t.job = ClearRunning(s.job) /\ t.reports = [s.reports EXCEPT ![a] = "retrying"]
    BY DEF Released, Append1
  <1> HIDE DEF t
  <1>3. /\ ClearRunning(s.job).running = None /\ ClearRunning(s.job).occ = None
        /\ ClearRunning(s.job).done = FALSE /\ ClearRunning(s.job).rev = s.job.rev
        /\ ClearRunning(s.job).enabled => s.job.enabled
        /\ ClearRunning(s.job).retryOcc = s.job.retryOcc
    BY <1>1, ClearedTypes, ClearedFields
  <1>4. Ended(s, t)
    BY <1>1, <1>2, <1>3 DEF Ended, a
  <1> QED BY <1>4 DEF t

\* A settlement that was not saved gives way to the snapshot.
LEMMA RestoredFields ==
  ASSUME NEW s \in Stores, s.job.running = None, NEW a \in Attempts,
         NEW snapshot \in Jobs, NEW completed \in BOOLEAN, completed => snapshot.done
  PROVE  /\ Restored(s, a, snapshot, completed).job = snapshot
         /\ Restored(s, a, snapshot, completed).reports
              = [s.reports EXCEPT ![a] = "none"]
  <1>1. [snapshot EXCEPT !.done = @ \/ completed] = snapshot
    <2> DEFINE done == snapshot.done \/ completed
    <2>1. [snapshot EXCEPT !.done = @ \/ completed] = [snapshot EXCEPT !.done = done]
      BY DEF Jobs
    <2>2. done = snapshot.done
      BY DEF Jobs
    <2> HIDE DEF done
    <2> QED BY <2>1, <2>2 DEF Jobs
  <1> QED BY <1>1 DEF Restored, Append1

LEMMA RiskEdits ==
  ASSUME NEW s \in Stores, NEW risk \in Risks
  PROVE  Edited(s, WithRisk(s, risk))
  <1>1. WithRisk(s, risk) = [s EXCEPT !.job = [s.job EXCEPT !.risk = risk]]
    BY DEF WithRisk, Stores
  <1>2. s.job \in Jobs
    BY DEF Stores
  <1> QED BY <1>1, <1>2 DEF Edited, Stores, Jobs

LEMMA SameEdits ==
  ASSUME NEW s \in Stores PROVE Edited(s, s)
  BY DEF Edited

LEMMA CommandedEdits ==
  ASSUME NEW s \in Stores, NEW kind \in Kinds
  PROVE  Edited(s, [s EXCEPT !.job = Commanded(@, kind)])
  <1> DEFINE t == [s EXCEPT !.job = Commanded(s.job, kind)]
             next == [s.job EXCEPT !.rev = s.job.rev + 1]
  <1>0. s.job \in Jobs /\ s.job.rev \in Nat
    BY JobFields DEF Stores
  <1>1. [s EXCEPT !.job = Commanded(@, kind)] = t
    BY DEF Stores
  <1>2. t.job = Commanded(s.job, kind) /\ t.reports = s.reports
    BY DEF Stores
  <1>3. Changed(s.job) = ClearRetry(next)
    BY <1>0 DEF Changed, Jobs
  <1>4. /\ next \in Jobs /\ next.rev = s.job.rev + 1 /\ next.running = s.job.running
        /\ next.runRev = s.job.runRev /\ next.occ = s.job.occ /\ next.done = s.job.done
    BY <1>0 DEF Jobs
  <1> HIDE DEF next, t
  <1> DEFINE c == Changed(s.job)
  <1>5. /\ c \in Jobs /\ c.rev = s.job.rev + 1 /\ c.running = s.job.running
        /\ c.runRev = s.job.runRev /\ c.occ = s.job.occ /\ c.done = s.job.done
        /\ c.retryOcc = None
    BY <1>3, <1>4, ClearedTypes, ClearedFields
  <1>6. \/ Commanded(s.job, kind) = s.job
        \/ Commanded(s.job, kind) = c
        \/ \E on \in BOOLEAN : Commanded(s.job, kind) = [c EXCEPT !.enabled = on]
    BY DEF Commanded, Kinds
  <1> HIDE DEF c
  <1>7. ASSUME NEW on \in BOOLEAN
        PROVE  LET d == [c EXCEPT !.enabled = on] IN
               /\ d.rev = s.job.rev + 1 /\ d.running = s.job.running
               /\ d.runRev = s.job.runRev /\ d.occ = s.job.occ /\ d.done = s.job.done
               /\ d.retryOcc = None
    BY <1>5 DEF Jobs
  <1>8. s.job.rev + 1 > s.job.rev
    BY <1>0
  <1>9. CASE Commanded(s.job, kind) = s.job
    BY <1>1, <1>2, <1>9 DEF Edited
  <1>10. CASE Commanded(s.job, kind) = c
    BY <1>1, <1>2, <1>5, <1>8, <1>10 DEF Edited
  <1>11. CASE \E on \in BOOLEAN : Commanded(s.job, kind) = [c EXCEPT !.enabled = on]
    BY <1>1, <1>2, <1>7, <1>8, <1>11 DEF Edited
  <1> QED BY <1>6, <1>9, <1>10, <1>11

(***************************************************************************)
(* Where the engine and the recovery go.                                   *)
(***************************************************************************)
EnginePhases ==
  /\ engine'.pc \in Early =>
        Claim \/ (engine.pc \in Early /\ engine'.of = engine.of)
  /\ engine'.pc = "completing" => Complete \/ engine.pc = "completing"
  /\ engine'.pc = "settling" =>
        \/ /\ engine.pc = "settling"
           /\ engine'.snap = engine.snap /\ engine'.plan = engine.plan
        \/ /\ engine'.snap = mem.job /\ UNCHANGED mem
           /\ \/ engine.pc = "completing" /\ engine'.plan = "success"
              \/ engine.pc \in Early /\ engine'.plan # "success"
  /\ engine'.pc = "saving" =>
        /\ engine.pc \in {"settling", "saving"}
        /\ engine'.snap = engine.snap /\ engine'.plan = engine.plan

RecoveryPhases ==
  recovery'.pc # "idle" =>
     \/ recovery.pc # "idle" /\ recovery'.snap = recovery.snap
     \/ recovery'.snap = mem.job

LEMMA PhasesSame ==
  ASSUME engine'.pc = engine.pc, engine'.of = engine.of, engine'.snap = engine.snap,
         engine'.plan = engine.plan
  PROVE  EnginePhases
  BY DEF EnginePhases

LEMMA PhasesOver == ASSUME engine' = NoEngine PROVE EnginePhases
  BY EngineStops DEF EnginePhases, Early

LEMMA PhasesEarly ==
  ASSUME engine.pc \in Early, engine'.pc \in Early \cup {"idle", "releasing"},
         engine'.of = engine.of \/ engine'.pc = "idle"
  PROVE  EnginePhases
  BY DEF EnginePhases, Early

LEMMA PhaseStep ==
  ASSUME TypeOK, OwnerOK, [Next]_vars
  PROVE  EnginePhases
  <1> USE DEF At, Go, Return, Take, Leave, Told, ToldAnything, Happens, EngineOnly,
              RecoveryOnly, CommandOnly, DrainOnly
  <1>0. engine \in Engines
    BY DEF TypeOK
  <1>1. CASE UNCHANGED engine
    BY <1>1, PhasesSame
  <1>2. CASE Claim
    BY <1>2, EngineStarts DEF Claim, EnginePhases, Early
  <1>3. CASE ClaimEnds
    BY <1>3, ClaimEndsShape, PhasesEarly DEF Early
  <1>4. CASE Release
    <2>1. engine' = [engine EXCEPT !.pc = "releasing"] /\ engine.pc = "unclaimed"
      BY <1>4, ReleaseShape DEF Release
    <2>2. engine'.pc = "releasing" /\ engine'.of = engine.of
      BY <1>0, <2>1, EngineMoves
    <2> QED BY <2>1, <2>2, PhasesEarly DEF Early
  <1>5. CASE ReleaseEnds
    BY <1>5, PhasesOver DEF ReleaseEnds
  <1>6. CASE NoHooks
    <2>1. engine' = [engine EXCEPT !.pc = "ready"] /\ engine.pc = "claimed"
      BY <1>6 DEF NoHooks
    <2>2. engine'.pc = "ready" /\ engine'.of = engine.of
      BY <1>0, <2>1, EngineMoves
    <2> QED BY <2>1, <2>2, PhasesEarly DEF Early
  <1>7. CASE FenceHooks
    BY <1>7, FenceHooksShape, PhasesEarly DEF Early
  <1>8. CASE FenceEnds
    BY <1>8, FenceEndsShape, PhasesEarly, PhasesOver DEF Early
  <1>9. CASE Background
    <2>1. engine' = [engine EXCEPT !.aborted = TRUE]
      BY <1>9 DEF Background
    <2> QED BY <1>0, <2>1, EngineAborts, PhasesSame
  <1>10. CASE Start
    <2>1. engine' = [engine EXCEPT !.pc = "running"] /\ engine.pc = "ready"
      BY <1>10 DEF Start
    <2>2. engine'.pc = "running" /\ engine'.of = engine.of
      BY <1>0, <2>1, EngineMoves
    <2> QED BY <2>1, <2>2, PhasesEarly DEF Early
  <1>11. CASE MarkUnsafe
    BY <1>11, MarkUnsafeShape, PhasesEarly DEF Early
  <1>12. CASE MarkEnds
    BY <1>12, MarkEndsShape, PhasesEarly DEF Early
  <1>13. CASE UnmarkEnds
    <2>1. engine' = [engine EXCEPT !.pc = "running"] /\ engine.pc = "unmarking"
      BY <1>13 DEF UnmarkEnds
    <2>2. engine'.pc = "running" /\ engine'.of = engine.of
      BY <1>0, <2>1, EngineMoves
    <2> QED BY <2>1, <2>2, PhasesEarly DEF Early
  <1>14. CASE Complete
    BY <1>14, CompleteStepShape DEF EnginePhases, Early
  <1>15. CASE CompleteEnds
    <2>1. CASE engine' = NoEngine
      BY <2>1, PhasesOver
    <2>2. CASE /\ engine'.pc = "settling" /\ engine'.plan = "success"
               /\ engine'.snap = mem.job
      BY <1>15, <2>2, CompleteEndsShape DEF EnginePhases, Early
    <2> QED BY <1>15, <2>1, <2>2, CompleteEndsShape
  <1>16. CASE Throw
    <2>1. engine'.plan # "success"
      <3>1. PICK error : Conclude(PlanFor(mem.job, error))
        BY <1>16 DEF Throw
      <3>2. PlanFor(mem.job, error) # "success"
        BY DEF PlanFor
      <3>3. engine'.plan = PlanFor(mem.job, error)
        BY <1>0, <3>1, EngineConcludes
      <3> QED BY <3>2, <3>3
    <2> QED BY <1>16, <2>1, ThrowShape DEF EnginePhases, Early
  <1>17. CASE Settle
    <2>1. engine' = [engine EXCEPT !.pc = "saving"] /\ engine.pc = "settling"
      BY <1>17, SettleShape DEF Settle
    <2>2. /\ engine'.pc = "saving" /\ engine'.snap = engine.snap
          /\ engine'.plan = engine.plan
      BY <1>0, <2>1, EngineMoves
    <2> QED BY <2>1, <2>2 DEF EnginePhases, Early
  <1>18. CASE SettleEnds
    BY <1>18, SettleEndsShape, PhasesOver
  <1>19. CASE Crash
    BY <1>19, PhasesOver DEF Crash
  <1>20. CASE \/ RecoveryNext \/ WriteEnds \/ Boot \/ BootEnds \/ UNCHANGED vars
             \/ Touch \/ Command \/ CommandNext \/ SaverNext \/ DrainNext
    <2>1. UNCHANGED engine
      BY <1>20, KeepsStep
         DEF Keeps, RecoveryNext, RecoveryFires, RecoveryDelayed, Reconcile,
             ReconcileEnds, WriteEnds, Boot, BootEnds, vars, storeVars
    <2> QED BY <2>1, PhasesSame
  <1> QED BY <1>2, <1>3, <1>4, <1>5, <1>6, <1>7, <1>8, <1>9, <1>10, <1>11, <1>12,
             <1>13, <1>14, <1>15, <1>16, <1>17, <1>18, <1>19, <1>20
          DEF Next, EngineNext, BootNext

LEMMA RecoveryStep ==
  ASSUME TypeOK, [Next]_vars
  PROVE  RecoveryPhases
  <1> USE DEF Take, Leave, Told, Happens, RecoveryOnly, RecoveryPhases
  <1>0. recovery \in Recoveries
    BY DEF TypeOK
  <1>1. CASE RecoveryFires
    BY <1>1 DEF RecoveryFires
  <1>2. CASE RecoveryDelayed \/ ReconcileEnds \/ Crash
    <2>1. recovery' = NoRecovery
      BY <1>2 DEF RecoveryDelayed, ReconcileEnds, Crash
    <2> QED BY <2>1 DEF NoRecovery
  <1>3. CASE Reconcile
    <2>1. recovery' = [recovery EXCEPT !.pc = "saving"] \/ recovery' = NoRecovery
      BY <1>3 DEF Reconcile
    <2>2. recovery.pc = "releasing"
      BY <1>3 DEF Reconcile
    <2> QED BY <1>0, <2>1, <2>2 DEF Recoveries, NoRecovery
  <1>4. CASE Touch \/ Command \/ CommandNext \/ SaverNext \/ DrainNext
    BY <1>4, KeepsStep DEF Keeps
  <1>5. CASE \/ Claim \/ Background \/ MarkUnsafe \/ EngineNext \/ WriteEnds \/ BootNext
             \/ UNCHANGED vars
    <2>1. UNCHANGED recovery
      BY <1>5 DEF Claim, Background, MarkUnsafe, EngineNext, WriteEnds, BootNext, Boot,
         BootEnds, ClaimEnds, Release, ReleaseEnds, NoHooks, FenceHooks, FenceEnds, Start,
         MarkEnds, UnmarkEnds, Complete, CompleteEnds, Throw, Settle, SettleEnds,
         EngineOnly, vars
    <2> QED BY <2>1
  <1> QED BY <1>1, <1>2, <1>3, <1>4, <1>5 DEF Next, RecoveryNext

\* What may be put back into the memory was there, or is the memory.
LEMMA HeldStep ==
  ASSUME EnginePhases, RecoveryPhases
  PROVE  Held' \subseteq Held \cup {mem.job}
  <1> SUFFICES ASSUME NEW job \in Held' PROVE job \in Held \cup {mem.job}
    OBVIOUS
  <1>1. CASE engine'.pc \in {"settling", "saving"} /\ job = engine'.snap
    BY <1>1 DEF EnginePhases, Held
  <1>2. CASE recovery'.pc # "idle" /\ job = recovery'.snap
    BY <1>2 DEF RecoveryPhases, Held
  <1> QED BY <1>1, <1>2 DEF Held

(***************************************************************************)
(* The moves of the store: what a step that neither writes nor dies makes  *)
(* of the memory, and of what may be put back into it.                     *)
(***************************************************************************)
Claimed ==
  /\ nextId \in Attempts /\ nextId' = nextId + 1
  /\ mem.job.running = None /\ mem'.job.running = nextId
  /\ mem'.reports = mem.reports
  /\ mem'.job.rev = mem.job.rev /\ mem'.job.runRev = mem.job.rev
  /\ mem'.job.enabled = mem.job.enabled /\ mem'.job.done = FALSE
  /\ mem'.job.retryOcc = mem.job.retryOcc
  /\ mem'.job.occ = IF mem.job.retryOcc = None THEN nextId ELSE mem.job.retryOcc
  /\ occOf' = [occOf EXCEPT ![nextId] = mem'.job.occ]
  /\ revOf' = [revOf EXCEPT ![nextId] = mem.job.rev]
  /\ engine'.pc = "claiming" /\ engine'.of = nextId
  /\ Held = {} /\ Held' = {}

Completed ==
  /\ engine.pc = "running" /\ mem.job.running = engine.of
  /\ mem' = [mem EXCEPT !.job.done = TRUE]
  /\ engine'.pc = "completing" /\ engine'.of = engine.of

Closes ==
  /\ mem.job.running \in Attempts /\ Ended(mem, mem')
  /\ mem.job.running \in dispatched => mem'.reports[mem.job.running] # "retrying"
  /\ \A job \in Held : job.running = mem.job.running
  /\ Held' \subseteq Held
  /\ engine'.pc \notin Early \cup {"completing", "settling"}

PutsBack ==
  /\ mem.job.running = None
  /\ \E job \in Held :
        /\ job.running \in Attempts /\ mem'.job = job
        /\ mem'.reports = [mem.reports EXCEPT ![job.running] = "none"]
  /\ Held' = {} /\ engine'.pc = "idle"

Acknowledges ==
  /\ mem'.job = mem.job /\ drain.pc # "idle" /\ UNCHANGED engine
  /\ \E status \in {"none", drain.status} :
        mem'.reports = [mem.reports EXCEPT ![drain.of] = status]

Goes == Edited(mem, mem') \/ Completed \/ Closes \/ PutsBack \/ Acknowledges

Sets == UNCHANGED <<mem, writes>> \/ \E c : Saves(c)

Moves ==
  /\ UNCHANGED <<disk, proven>> /\ Sets
  /\ Claimed \/ (UNCHANGED claimVars /\ Goes)

LEMMA StayMoves ==
  ASSUME TypeOK, UNCHANGED <<disk, proven, claimVars>>,
         UNCHANGED <<mem, writes>> \/ (mem' = mem /\ \E c : Saves(c))
  PROVE  Moves
  BY SameEdits, StoreTypes DEF Moves, Goes, Sets

LEMMA SaveMoves ==
  ASSUME UNCHANGED <<disk, proven, claimVars>>, NEW s \in Stores,
         NEW c \in Clients \cup {"nobody"}, Save(s, c), mem' = s => Goes
  PROVE  Moves
  BY SaveShape DEF Moves, Sets

LEMMA ClaimMoves ==
  ASSUME TypeOK, LockOK, OwnerOK, Claim
  PROVE  Moves /\ Claimed
  <1> DEFINE occ == IF mem.job.retryOcc = None THEN nextId ELSE mem.job.retryOcc
  <1> DEFINE risk == IF SlashPrompt THEN "unsafe" ELSE "safe"
  <1>1. /\ occ \in AttemptOrNone /\ nextId \in AttemptOrNone /\ nextId \in Attempts
        /\ risk \in Risks /\ mem.job.rev \in Nat /\ mem.job.retries + 1 \in Nat
    BY StoreTypes, JobFields DEF Claim, Risks, Attempts, AttemptOrNone
  <1> HIDE DEF occ, risk
  <1> DEFINE job == [mem.job EXCEPT !.running = nextId,
                                    !.runRev = mem.job.rev,
                                    !.number = mem.job.retries + 1,
                                    !.risk = risk,
                                    !.occ = occ,
                                    !.done = FALSE]
             claimed == [mem EXCEPT !.job = job]
  <1>2. /\ job \in Jobs /\ job.running = nextId /\ job.runRev = mem.job.rev
        /\ job.rev = mem.job.rev /\ job.enabled = mem.job.enabled /\ job.done = FALSE
        /\ job.retryOcc = mem.job.retryOcc /\ job.occ = occ
    BY <1>1, StoreTypes DEF Jobs
  <1>3. [mem EXCEPT !.job.running = nextId,
                    !.job.runRev = mem.job.rev,
                    !.job.number = mem.job.retries + 1,
                    !.job.risk = risk,
                    !.job.occ = occ,
                    !.job.done = FALSE] = claimed
    BY StoreTypes DEF Stores, Jobs
  <1>4. /\ Save(claimed, "engine")
        /\ occOf' = [occOf EXCEPT ![nextId] = occ]
        /\ revOf' = [revOf EXCEPT ![nextId] = mem.job.rev]
        /\ engine' = [NoEngine EXCEPT !.pc = "claiming", !.of = nextId]
        /\ nextId' = nextId + 1 /\ mem.job.running = None
        /\ UNCHANGED <<disk, proven, recovery>> /\ engine.pc = "idle" /\ lock = "free"
    BY <1>3 DEF Claim, EngineOnly, At, Take, occ, risk
  <1> HIDE DEF job
  <1>5. claimed \in Stores /\ claimed.job = job /\ claimed.reports = mem.reports
    BY <1>2, StoreTypes DEF Stores
  <1> HIDE DEF claimed
  <1>6. mem' = claimed /\ Saves("engine")
    BY <1>4, <1>5, SaveShape, ClientTypes
  <1>7. engine'.pc = "claiming" /\ engine'.of = nextId
    BY <1>4, EngineStarts
  <1>8. recovery.pc = "idle"
    BY <1>1, <1>4 DEF LockOK, OwnerOK, TypeOK, Recoveries
  <1>9. Held = {} /\ Held' = {}
    BY <1>4, <1>7, <1>8 DEF Held
  <1>10. Claimed
    BY <1>1, <1>2, <1>4, <1>5, <1>6, <1>7, <1>9 DEF Claimed, occ
  <1> QED BY <1>4, <1>6, <1>10 DEF Moves, Sets

\* While the engine executes nothing is held, and the attempt is the one that runs.
LEMMA EarlyFacts ==
  ASSUME TypeOK, OwnerOK, engine.pc \in Early \cup {"completing"}
  PROVE  /\ Held = {} /\ engine.of \in Attempts /\ mem.job.running = engine.of
         /\ recovery.pc = "idle"
  <1>1. /\ engine.pc # "idle" /\ mem.job.running = engine.of /\ engine.of # None
        /\ recovery.pc = "idle"
    BY DEF OwnerOK, Early
  <1>2. engine.of \in Attempts
    BY <1>1, StoreTypes DEF AttemptOrNone, Attempts, None
  <1>3. Held = {}
    BY <1>1 DEF Held, Early
  <1> QED BY <1>1, <1>2, <1>3

LEMMA ReleaseMoves ==
  ASSUME TypeOK, OwnerOK, EngineOK, CompletionOK, Release
  PROVE  Moves
  <1> DEFINE s == Released(mem, engine.of)
  <1>1. engine.pc = "unclaimed" /\ UNCHANGED <<disk, proven, claimVars, recovery>>
    BY DEF Release, At, EngineOnly
  <1>2. /\ Held = {} /\ engine.of \in Attempts /\ mem.job.running = engine.of
        /\ recovery.pc = "idle" /\ ~mem.job.done /\ engine.of \notin dispatched
    BY <1>1, EarlyFacts DEF Early, CompletionOK, EngineOK
  <1>3. Save(s, "engine") /\ engine' = [engine EXCEPT !.pc = "releasing"]
    BY <1>2 DEF Release, Mutate, Go
  <1>4. engine'.pc = "releasing"
    BY <1>3, EngineMoves, StoreTypes
  <1>5. Held' = {}
    BY <1>1, <1>2, <1>4 DEF Held
  <1>6. s \in Stores /\ Ended(mem, s)
    BY <1>2, StoreTypes, ReleasedTypes, ReleasedEnds
  <1> HIDE DEF s
  <1>7. mem' = s => Closes
    BY <1>2, <1>4, <1>5, <1>6 DEF Closes, Early
  <1> QED BY <1>1, <1>3, <1>6, <1>7, SaveMoves, ClientTypes DEF Goes

LEMMA RiskMoves ==
  ASSUME TypeOK, UNCHANGED <<disk, proven, claimVars>>, NEW risk \in Risks,
         NEW c \in Clients \cup {"nobody"}, Save(WithRisk(mem, risk), c)
  PROVE  Moves
  <1>1. WithRisk(mem, risk) \in Stores /\ Edited(mem, WithRisk(mem, risk))
    BY StoreTypes, WithRiskTypes, RiskEdits
  <1> QED BY <1>1, SaveMoves DEF Goes

LEMMA CompleteMoves ==
  ASSUME TypeOK, OwnerOK, Complete
  PROVE  Moves /\ Completed
  <1> DEFINE s == [mem EXCEPT !.job.done = TRUE]
  <1>1. /\ engine.pc = "running" /\ engine'.pc = "completing" /\ engine'.of = engine.of
        /\ UNCHANGED claimVars
    BY CompleteStepShape
  <1>2. mem.job.running = engine.of
    BY <1>1, EarlyFacts DEF Early
  <1>3. Save(s, "engine") /\ UNCHANGED <<disk, proven>>
    BY <1>2 DEF Complete, EngineOnly
  <1>4. s \in Stores
    BY StoreTypes, DoneTypes
  <1>5. mem' = s => Completed
    BY <1>1, <1>2 DEF Completed
  <1> HIDE DEF s
  <1>6. mem' = s
    BY <1>3 DEF Save
  <1> QED BY <1>1, <1>3, <1>4, <1>5, <1>6, SaveMoves, ClientTypes DEF Goes

\* The settlement that the engine stages, and the one that a recovery stages.
LEMMA SettleMoves ==
  ASSUME TypeOK, OwnerOK, EngineOK, CompletionOK, Settle
  PROVE  Moves
  <1> DEFINE s == Settled(mem, engine.of, engine.plan)
  <1>1. engine.pc = "settling" /\ UNCHANGED <<disk, proven, claimVars, recovery>>
    BY DEF Settle, At, EngineOnly
  <1>2. /\ mem.job.running = engine.of /\ engine.of \in Attempts
        /\ engine.snap.running = engine.of /\ recovery.pc = "idle"
    BY <1>1, StoreTypes DEF OwnerOK, AttemptOrNone, Attempts, None
  <1>3. mem.job.done => engine.plan = "success"
    BY <1>1 DEF CompletionOK
  <1>4. Save(s, "engine") /\ engine' = [engine EXCEPT !.pc = "saving"]
    BY <1>2 DEF Settle, Mutate, Go
  <1>5. engine'.pc = "saving" /\ engine'.snap = engine.snap
    BY <1>4, EngineMoves, StoreTypes
  <1>6. Held = {engine.snap} /\ Held' = {engine.snap}
    BY <1>1, <1>2, <1>5 DEF Held
  <1>7. s \in Stores /\ Ended(mem, s)
    BY <1>2, <1>3, StoreTypes, SettledTypes, SettledEnds
  <1>8. engine.of \in dispatched => s.reports[engine.of] # "retrying"
    <2>1. engine.of \in dispatched => engine.plan \in {"success", "final"}
      BY <1>1, StoreTypes DEF EngineOK, Plans
    <2> QED BY <1>2, <2>1, StoreTypes, SettledReports
  <1> HIDE DEF s
  <1>9. mem' = s => Closes
    BY <1>2, <1>5, <1>6, <1>7, <1>8 DEF Closes, Early
  <1> QED BY <1>1, <1>4, <1>7, <1>9, SaveMoves, ClientTypes DEF Goes

LEMMA ReconcileMoves ==
  ASSUME TypeOK, ClosedOK, NEW c \in Clients, Save(Reconciled(mem), c),
         mem.job.running # None,
         UNCHANGED <<disk, proven, claimVars>>, Held' \subseteq Held, engine'.pc = "idle",
         \A job \in Held : job.running = mem.job.running
  PROVE  Moves
  <1>1. mem.job.running \in Attempts
    BY StoreTypes DEF AttemptOrNone, Attempts, None
  <1>2. Reconciled(mem) \in Stores /\ Ended(mem, Reconciled(mem))
    BY <1>1, StoreTypes, ReconciledTypes, ReconciledEnds
  <1>3. mem.job.running \in dispatched =>
           Reconciled(mem).reports[mem.job.running] # "retrying"
    <2>1. mem.job.running \in dispatched => mem.job.risk = "unsafe"
      BY UnmarkedSafe DEF ClosedOK, Everywhere
    <2> QED BY <1>1, <2>1, StoreTypes, ReconciledReports
  <1>4. mem' = Reconciled(mem) => Closes
    BY <1>1, <1>2, <1>3 DEF Closes, Early
  <1> QED BY <1>2, <1>4, SaveMoves DEF Goes

LEMMA RestoreMoves ==
  ASSUME TypeOK, mem.job.running = None, NEW a \in Attempts, NEW snapshot \in Jobs,
         snapshot \in Held, snapshot.running = a,
         NEW completed \in BOOLEAN, completed => snapshot.done,
         Save(Restored(mem, a, snapshot, completed), "nobody"),
         UNCHANGED <<disk, proven, claimVars>>, Held' = {}, engine'.pc = "idle"
  PROVE  Moves
  <1> DEFINE s == Restored(mem, a, snapshot, completed)
  <1>0. mem \in Stores /\ a \in AttemptOrNone
    BY StoreTypes DEF Attempts, AttemptOrNone
  <1>1. s \in Stores
    BY <1>0, RestoredTypes
  <1>2. s.job = snapshot /\ s.reports = [mem.reports EXCEPT ![a] = "none"]
    <2>1. completed => snapshot.done
      OBVIOUS
    <2>2. mem.job.running = None
      OBVIOUS
    <2> QED BY ONLY <1>0, <2>1, <2>2, RestoredFields, a \in Attempts, snapshot \in Jobs,
                    completed \in BOOLEAN
  <1> HIDE DEF s
  <1>3. mem' = s => PutsBack
    BY <1>2 DEF PutsBack
  <1>4. Save(s, "nobody")
    BY DEF s
  <1> QED BY <1>1, <1>3, <1>4, SaveMoves DEF Goes

LEMMA EngineMovesStore ==
  ASSUME TypeOK, LockOK, OwnerOK, EngineOK, CompletionOK,
         Claim \/ Background \/ MarkUnsafe \/ EngineNext
  PROVE  Moves
  <1> USE DEF At, Go, Return, Told, ToldAnything, EngineOnly, EngineAlone
  <1>0. "unsafe" \in Risks /\ mem.job.risk \in Risks /\ engine.prev \in Risks
    BY StoreTypes
  <1>1. ASSUME Claim PROVE Moves
    BY <1>1, ClaimMoves
  <1>2. ASSUME \/ Background \/ ClaimEnds \/ ReleaseEnds \/ NoHooks \/ Start \/ UnmarkEnds
               \/ CompleteEnds \/ Throw
        PROVE  Moves
    <2>1. UNCHANGED <<mem, writes, disk, proven, claimVars>>
      BY <1>2 DEF Background, ClaimEnds, ReleaseEnds, NoHooks, Start, UnmarkEnds,
                  CompleteEnds, Throw
    <2> QED BY <2>1, StayMoves
  <1>3. ASSUME Release PROVE Moves
    BY <1>3, ReleaseMoves
  <1>4. ASSUME FenceHooks \/ MarkUnsafe PROVE Moves
    <2>1. Save(WithRisk(mem, "unsafe"), "engine") /\ UNCHANGED <<disk, proven, claimVars>>
      BY <1>4 DEF FenceHooks, MarkUnsafe, Mutate, OwnerOK
    <2> QED BY <1>0, <2>1, RiskMoves, ClientTypes
  <1>5. ASSUME FenceEnds PROVE Moves
    <2>1. /\ UNCHANGED <<disk, proven, claimVars>>
          /\ UNCHANGED <<mem, writes>> \/ Save(WithRisk(mem, engine.prev), "nobody")
      BY <1>5 DEF FenceEnds
    <2> QED BY <1>0, <2>1, RiskMoves, StayMoves
  <1>6. ASSUME MarkEnds PROVE Moves
    <2>1. /\ UNCHANGED <<disk, proven, claimVars>>
          /\ UNCHANGED <<mem, writes>> \/ Save(WithRisk(mem, engine.prev), "engine")
      BY <1>6 DEF MarkEnds
    <2> QED BY <1>0, <2>1, RiskMoves, StayMoves, ClientTypes
  <1>7. ASSUME Complete PROVE Moves
    BY <1>7, CompleteMoves
  <1>8. ASSUME Settle PROVE Moves
    BY <1>8, SettleMoves
  <1>9. ASSUME SettleEnds PROVE Moves
    <2>1. /\ engine.pc = "saving" /\ engine'.pc = "idle"
          /\ UNCHANGED <<disk, proven, claimVars, recovery>>
      BY <1>9, EngineStops DEF SettleEnds
    <2>2. /\ mem.job.running = None /\ engine.snap.running = engine.of
          /\ engine.of \in Attempts /\ recovery.pc = "idle"
      BY <2>1, StoreTypes DEF OwnerOK, AttemptOrNone, Attempts, None
    <2>3. engine.snap \in Held /\ Held' = {} /\ engine.snap \in Jobs
      BY <2>1, <2>2, StoreTypes DEF Held
    <2>4. CASE Save(Restored(mem, engine.of, engine.snap, engine.plan = "success"), "nobody")
      <3> DEFINE completed == engine.plan = "success"
      <3>1. completed \in BOOLEAN /\ (completed => engine.snap.done)
        BY <2>1 DEF CompletionOK
      <3>2. Save(Restored(mem, engine.of, engine.snap, completed), "nobody")
        BY <2>4
      <3> HIDE DEF completed
      <3> QED BY <2>1, <2>2, <2>3, <3>1, <3>2, RestoreMoves
    <2>5. CASE UNCHANGED <<mem, writes>>
      BY <2>1, <2>5, StayMoves
    <2> QED BY <1>9, <2>4, <2>5, SettleEndsShape
  <1> QED BY <1>1, <1>2, <1>3, <1>4, <1>5, <1>6, <1>7, <1>8, <1>9 DEF EngineNext

LEMMA WorldMovesStore ==
  ASSUME TypeOK, BootOK, OwnerOK, ClosedOK,
         \/ Touch \/ Command \/ RecoveryNext \/ CommandNext \/ SaverNext \/ DrainNext
         \/ BootNext \/ UNCHANGED vars
  PROVE  Moves
  <1> USE ClientTypes
      DEF Take, Leave, Told, Happens, RecoveryOnly, CommandOnly, DrainOnly, historyVars
  <1>0. mem \in Stores /\ recovery \in Recoveries
    BY StoreTypes DEF TypeOK
  <1>1. ASSUME UNCHANGED vars PROVE Moves
    BY <1>1, StayMoves DEF vars, storeVars
  <1>2. ASSUME Touch \/ SaverNext PROVE Moves
    <2>1. /\ UNCHANGED <<disk, proven, claimVars>>
          /\ \/ UNCHANGED <<mem, writes>>
             \/ Save(mem, "nobody") \/ Save(mem, "saver")
      BY <1>2 DEF Touch, SaverNext, SaverFires, SaverEnds
    <2> QED BY <1>0, <2>1, SaveShape, StayMoves
  <1>3. ASSUME Command \/ CommandNext PROVE Moves
    <2>1. /\ UNCHANGED <<disk, proven, claimVars>>
          /\ \/ UNCHANGED <<mem, writes>>
             \/ \E kind \in Kinds : Save([mem EXCEPT !.job = Commanded(@, kind)], "command")
      BY <1>3 DEF Command, CommandNext, CommandEnds, FailClosedEnds, Kinds
    <2>2. CASE UNCHANGED <<mem, writes>>
      BY <2>1, <2>2, StayMoves
    <2>3. ASSUME NEW kind \in Kinds, Save([mem EXCEPT !.job = Commanded(@, kind)], "command")
          PROVE  Moves
      <3> DEFINE s == [mem EXCEPT !.job = Commanded(@, kind)]
      <3>1. s \in Stores /\ Edited(mem, s)
        BY <1>0, CommandedTypes, CommandedEdits
      <3>2. Save(s, "command")
        BY <2>3
      <3> HIDE DEF s
      <3> QED BY <2>1, <3>1, <3>2, SaveMoves DEF Goes
    <2> QED BY <2>1, <2>2, <2>3
  <1>4. ASSUME Deliver PROVE Moves
    BY <1>4, StayMoves DEF Deliver
  <1>5. ASSUME Acknowledge \/ AcknowledgeEnds PROVE Moves
    <2>1. /\ UNCHANGED <<disk, proven, claimVars, engine>> /\ drain.pc # "idle"
          /\ \/ UNCHANGED <<mem, writes>>
             \/ Save([mem EXCEPT !.reports[drain.of] = "none"], "drain")
             \/ Save([mem EXCEPT !.reports[drain.of] = drain.status], "nobody")
      BY <1>5 DEF Acknowledge, AcknowledgeEnds
    <2>2. ASSUME NEW status \in {"none", drain.status}, NEW c \in {"drain", "nobody"},
                 Save([mem EXCEPT !.reports[drain.of] = status], c)
          PROVE  Moves
      <3> DEFINE s == [mem EXCEPT !.reports[drain.of] = status]
      <3>1. s \in Stores /\ s.job = mem.job
            /\ s.reports = [mem.reports EXCEPT ![drain.of] = status]
        BY <1>0, StoreTypes, ReportTypes DEF Stores
      <3>2. Save(s, c)
        BY <2>2
      <3> HIDE DEF s
      <3>3. mem' = s => Acknowledges
        BY <2>1, <3>1 DEF Acknowledges
      <3> QED BY <2>1, <3>1, <3>2, <3>3, SaveMoves DEF Goes
    <2>3. CASE UNCHANGED <<mem, writes>>
      BY <2>1, <2>3, StayMoves
    <2> QED BY <2>1, <2>2, <2>3
  <1>6. ASSUME RecoveryFires \/ RecoveryDelayed \/ BootEnds PROVE Moves
    BY <1>6, StayMoves DEF RecoveryFires, RecoveryDelayed, BootEnds
  <1>7. ASSUME Reconcile PROVE Moves
    <2>1. /\ recovery.pc = "releasing" /\ mem.job.running = recovery.of
          /\ Save(Reconciled(mem), "recovery") /\ UNCHANGED <<disk, proven, claimVars, engine>>
          /\ recovery' = [recovery EXCEPT !.pc = "saving"]
      BY <1>7 DEF Reconcile, Mutate, OwnerOK
    <2>2. /\ recovery'.pc = "saving" /\ recovery'.snap = recovery.snap
      BY <1>0, <2>1 DEF Recoveries
    <2>3. /\ engine.pc = "idle" /\ recovery.of # None
          /\ recovery.snap.running = recovery.of
      BY <2>1 DEF OwnerOK
    <2>4. Held = {recovery.snap} /\ Held' = {recovery.snap}
      BY <2>1, <2>2, <2>3 DEF Held
    <2> QED BY <2>1, <2>3, <2>4, ReconcileMoves
  <1>8. ASSUME ReconcileEnds PROVE Moves
    <2>1. /\ recovery.pc = "saving" /\ recovery' = NoRecovery
          /\ UNCHANGED <<disk, proven, claimVars, engine>>
          /\ \/ UNCHANGED <<mem, writes>>
             \/ Save(Restored(mem, recovery.of, recovery.snap, FALSE), "nobody")
      BY <1>8 DEF ReconcileEnds
    <2>2. /\ mem.job.running = None /\ recovery.snap.running = recovery.of
          /\ recovery.of \in Attempts /\ engine.pc = "idle"
      BY <2>1, StoreTypes DEF OwnerOK, AttemptOrNone, Attempts, None
    <2>3. recovery.snap \in Held /\ Held' = {} /\ recovery.snap \in Jobs
      BY <2>1, <2>2, StoreTypes DEF Held, NoRecovery
    <2>4. CASE Save(Restored(mem, recovery.of, recovery.snap, FALSE), "nobody")
      <3> PICK completed \in BOOLEAN : completed = FALSE
        OBVIOUS
      <3>1. Save(Restored(mem, recovery.of, recovery.snap, completed), "nobody")
        BY <2>4
      <3>2. completed => recovery.snap.done
        OBVIOUS
      <3> QED BY <2>1, <2>2, <2>3, <3>1, <3>2, RestoreMoves
    <2>5. CASE UNCHANGED <<mem, writes>>
      BY <2>1, <2>5, StayMoves
    <2> QED BY <2>1, <2>4, <2>5
  <1>9. ASSUME Boot PROVE Moves
    <2>1. /\ engine'.pc = "idle" /\ UNCHANGED <<disk, proven, claimVars, engine, recovery>>
          /\ engine.pc = "idle" /\ recovery.pc = "idle"
      BY <1>9, EngineStops DEF Boot, BootOK, NoRecovery
    <2>2. Held = {} /\ Held' = {}
      BY <2>1 DEF Held
    <2>3. CASE mem.job.running # None
      BY <1>9, <2>1, <2>2, <2>3, ReconcileMoves DEF Boot
    <2>4. CASE mem.job.running = None
      BY <1>0, <1>9, <2>1, <2>4, SaveShape, StayMoves DEF Boot
    <2> QED BY <2>3, <2>4
  <1> QED BY <1>1, <1>2, <1>3, <1>4, <1>5, <1>6, <1>7, <1>8, <1>9
          DEF RecoveryNext, DrainNext, BootNext

LEMMA MoveStep ==
  ASSUME TypeOK, LockOK, BootOK, OwnerOK, ClosedOK, EngineOK, CompletionOK, [Next]_vars
  PROVE  Moves \/ WriteEnds \/ Crash
  BY EngineMovesStore, WorldMovesStore DEF Next

(***************************************************************************)
(* The order of the copies.                                                *)
(***************************************************************************)
LEMMA CopyFacts ==
  ASSUME writes \in Seq(Writes)
  PROVE  /\ mem \in Copies /\ disk \in Copies
         /\ \A s \in Copies : <<s, mem>> \in Successions /\ <<disk, s>> \in Successions
         /\ \A p \in Successions : \E s, t \in Copies : p = <<s, t>>
  <1>1. Len(writes) \in Nat /\ DOMAIN writes = 1 .. Len(writes)
    OBVIOUS
  <1>2. /\ Stage(0) = disk /\ 0 \in Stages
        /\ Stage(Len(writes) + 1) = mem /\ Len(writes) + 1 \in Stages
    BY <1>1 DEF Stage, Stages
  <1>3. \A i, j \in Stages : i <= j => <<Stage(i), Stage(j)>> \in Successions
    <2> TAKE i, j \in Stages
    <2> HAVE i <= j
    <2> DEFINE q == <<i, j>>
    <2>1. q \in {k \in Stages \X Stages : k[1] <= k[2]} /\ q[1] = i /\ q[2] = j
      OBVIOUS
    <2> HIDE DEF q
    <2>2. <<Stage(q[1]), Stage(q[2])>> \in Successions
      BY <2>1 DEF Successions
    <2> QED BY <2>1, <2>2
  <1>4. \A s \in Copies : <<s, mem>> \in Successions /\ <<disk, s>> \in Successions
    <2> TAKE s \in Copies
    <2> PICK i \in Stages : s = Stage(i)
      BY DEF Copies
    <2>1. i <= Len(writes) + 1 /\ 0 <= i
      BY <1>1 DEF Stages
    <2> QED BY <1>2, <1>3, <2>1
  <1>5. \A p \in Successions : \E s, t \in Copies : p = <<s, t>>
    BY DEF Successions, Copies
  <1> QED BY <1>2, <1>4, <1>5 DEF Copies

\* The two ends of a succession, by their places.
LEMMA SuccessionPlaces ==
  ASSUME NEW p \in Successions
  PROVE  \E i, j \in Stages : i <= j /\ p[1] = Stage(i) /\ p[2] = Stage(j)
  BY DEF Successions

LEMMA PlacesSuccession ==
  ASSUME NEW i \in Stages, NEW j \in Stages, i <= j
  PROVE  <<Stage(i), Stage(j)>> \in Successions
  <1> DEFINE q == <<i, j>>
  <1>1. q \in {k \in Stages \X Stages : k[1] <= k[2]} /\ q[1] = i /\ q[2] = j
    OBVIOUS
  <1> HIDE DEF q
  <1>2. <<Stage(q[1]), Stage(q[2])>> \in Successions
    BY <1>1 DEF Successions
  <1> QED BY <1>1, <1>2

\* What is set comes behind all the copies there are.
LEMMA SetCopies ==
  ASSUME writes \in Seq(Writes), Sets, UNCHANGED disk
  PROVE  /\ Copies' \subseteq Copies \cup {mem'}
         /\ \A p \in Successions' :
               \/ \E q \in Successions : p[1] = q[1] /\ p[2] = q[2]
               \/ p[1] \in Copies \cup {mem'} /\ p[2] = mem'
  <1>0. Len(writes) \in Nat /\ DOMAIN writes = 1 .. Len(writes)
    OBVIOUS
  <1>1. CASE UNCHANGED <<mem, writes>>
    <2>1. Stages' = Stages /\ \A i : Stage(i)' = Stage(i)
      BY <1>1 DEF Stages, Stage
    <2>2. Copies' = Copies
      BY <2>1 DEF Copies
    <2>3. ASSUME NEW p \in Successions'
          PROVE  \E q \in Successions : p[1] = q[1] /\ p[2] = q[2]
      <3>1. PICK i \in Stages, j \in Stages : i <= j /\ p[1] = Stage(i) /\ p[2] = Stage(j)
        BY <2>1 DEF Successions
      <3>2. <<Stage(i), Stage(j)>> \in Successions
        BY <3>1, PlacesSuccession
      <3> QED BY <3>1, <3>2
    <2> QED BY <2>2, <2>3
  <1>2. CASE \E c : Saves(c)
    <2>0. PICK c : Saves(c)
      BY <1>2
    <2>1. /\ DOMAIN writes' = 1 .. Len(writes) + 1 /\ Len(writes') = Len(writes) + 1
          /\ \A i \in DOMAIN writes : writes'[i] = writes[i]
          /\ writes'[Len(writes) + 1].state = mem'
      <3>1. PICK w \in Writes : w.state = mem' /\ writes' = Append(writes, w)
        BY <2>0 DEF Saves
      <3> QED BY <3>1
    <2>2. Stages' = 0 .. Len(writes) + 2
      BY <1>0, <2>1 DEF Stages
    <2>3. /\ \A i \in 0 .. Len(writes) : Stage(i)' = Stage(i) /\ i \in Stages
          /\ \A i \in Stages' : i > Len(writes) => Stage(i)' = mem'
      BY <1>0, <2>1, <2>2 DEF Stage, Stages
    <2>4. \A i \in Stages' : i \in 0 .. Len(writes) \/ i > Len(writes)
      BY <1>0, <2>2
    <2>5. Copies' \subseteq Copies \cup {mem'}
      BY <2>3, <2>4 DEF Copies
    <2>6. ASSUME NEW p \in Successions'
          PROVE  \/ \E q \in Successions : p[1] = q[1] /\ p[2] = q[2]
                 \/ p[1] \in Copies \cup {mem'} /\ p[2] = mem'
      <3>1. PICK i \in Stages', j \in Stages' :
               i <= j /\ p[1] = Stage(i)' /\ p[2] = Stage(j)'
        BY DEF Successions
      <3>2. CASE j > Len(writes)
        <4>1. p[1] \in Copies'
          BY <3>1 DEF Copies
        <4> QED BY <2>3, <2>5, <3>1, <3>2, <4>1
      <3>3. CASE ~(j > Len(writes))
        <4>1. i \in 0 .. Len(writes) /\ j \in 0 .. Len(writes)
          BY <1>0, <2>2, <3>1, <3>3
        <4>2. p[1] = Stage(i) /\ p[2] = Stage(j) /\ i \in Stages /\ j \in Stages
          BY <2>3, <3>1, <4>1
        <4>3. <<Stage(i), Stage(j)>> \in Successions
          BY <3>1, <4>2, PlacesSuccession
        <4> QED BY <4>2, <4>3
      <3> QED BY <3>2, <3>3
    <2> QED BY <2>5, <2>6
  <1> QED BY <1>1, <1>2 DEF Sets

\* A write that ends drops a copy, the oldest or the one behind it.
LEMMA WriteCopies ==
  ASSUME writes \in Seq(Writes), WriteEnds
  PROVE  /\ Copies' \subseteq Copies
         /\ \A p \in Successions' : \E q \in Successions : p[1] = q[1] /\ p[2] = q[2]
  <1>1. /\ Len(writes) \in Nat \ {0} /\ DOMAIN writes = 1 .. Len(writes)
        /\ DOMAIN writes' = 1 .. Len(writes) - 1 /\ Len(writes') = Len(writes) - 1
        /\ \A i \in DOMAIN writes' : writes'[i] = writes[i + 1]
        /\ disk' \in {disk, writes[1].state} /\ mem' = mem
    <2>1. writes' = Tail(writes) /\ writes # <<>> /\ mem' = mem
      BY DEF WriteEnds
    <2> QED BY <2>1, WritesEnd
  <1>2. Stages' = 0 .. Len(writes)
    BY <1>1 DEF Stages
  <1>3. \A i \in Stages' : i > 0 => i + 1 \in Stages /\ Stage(i)' = Stage(i + 1)
    <2> SUFFICES ASSUME NEW i \in 1 .. Len(writes)
                 PROVE  i + 1 \in Stages /\ Stage(i)' = Stage(i + 1)
      BY <1>1, <1>2
    <2>1. i + 1 \in Stages /\ i + 1 # 0 /\ i # 0
      BY <1>1 DEF Stages
    <2>2. CASE i = Len(writes)
      <3>1. i \notin DOMAIN writes' /\ i + 1 \notin DOMAIN writes
        BY <1>1, <2>2
      <3> QED BY <1>1, <2>1, <3>1 DEF Stage
    <2>3. CASE i # Len(writes)
      <3>0. Len(writes) \in Nat
        BY <1>1
      <3>1. i \in 1 .. Len(writes) - 1 /\ i + 1 \in 1 .. Len(writes)
        BY <2>3, <3>0
      <3>2. i \in DOMAIN writes' /\ i + 1 \in DOMAIN writes
        BY <1>1, <3>1
      <3> QED BY <1>1, <2>1, <3>2 DEF Stage
    <2> QED BY <2>1, <2>2, <2>3
  <1>4. \E k \in {0, 1} : k \in Stages /\ Stage(0)' = Stage(k)
    BY <1>1 DEF Stage, Stages
  <1>5. \A i \in Stages' : i = 0 \/ i > 0
    BY <1>1, <1>2
  <1>6. Copies' \subseteq Copies
    BY <1>3, <1>4, <1>5 DEF Copies
  <1>7. ASSUME NEW p \in Successions'
        PROVE  \E q \in Successions : p[1] = q[1] /\ p[2] = q[2]
    <2>1. PICK i \in Stages', j \in Stages' : i <= j /\ p[1] = Stage(i)' /\ p[2] = Stage(j)'
      BY DEF Successions
    <2>2. PICK k \in {0, 1} : k \in Stages /\ Stage(0)' = Stage(k)
      BY <1>4
    <2>3. \E l, m \in Stages : l <= m /\ p[1] = Stage(l) /\ p[2] = Stage(m)
      <3>1. CASE i = 0 /\ j = 0
        BY <2>1, <2>2, <3>1
      <3>2. CASE i = 0 /\ j > 0
        <4>1. k <= j + 1
          BY <1>2, <2>2, <3>2
        <4> QED BY <1>3, <2>1, <2>2, <3>2, <4>1
      <3>3. CASE i > 0
        <4>1. j > 0 /\ i + 1 <= j + 1
          BY <1>1, <1>2, <2>1, <3>3
        <4> QED BY <1>3, <2>1, <3>3, <4>1
      <3> QED BY <1>5, <3>1, <3>2, <3>3
    <2>4. PICK l \in Stages, m \in Stages : l <= m /\ p[1] = Stage(l) /\ p[2] = Stage(m)
      BY <2>3
    <2>5. <<Stage(l), Stage(m)>> \in Successions
      BY <2>4, PlacesSuccession
    <2> QED BY <2>4, <2>5
  <1> QED BY <1>6, <1>7

\* A process that died starts from the oldest copy.
LEMMA CrashCopies ==
  ASSUME Crash
  PROVE  /\ Copies' = {disk} /\ mem' = disk /\ UNCHANGED disk
         /\ \A p \in Successions' : p[1] = disk /\ p[2] = disk
  <1>1. mem' = disk /\ disk' = disk /\ writes' = <<>>
    BY DEF Crash
  <1>2. 0 \in Stages' /\ \A i : Stage(i)' = disk
    BY <1>1 DEF Stages, Stage
  <1>3. Copies' = {disk}
    BY <1>2 DEF Copies
  <1>4. \A p \in Successions' : p[1] = disk /\ p[2] = disk
    BY <1>2 DEF Successions
  <1> QED BY <1>1, <1>3, <1>4

(***************************************************************************)
(* The drain, and what reaches the disk.                                   *)
(***************************************************************************)
Delivers ==
  \E a \in Attempts :
     /\ mem.reports[a] \in Statuses /\ drain'.of = a /\ drain'.status = mem.reports[a]
     /\ delivered' = delivered \cup {<<a, mem.reports[a]>>}
     /\ UNCHANGED <<mem, engine, nextId>>

Rests ==
  /\ UNCHANGED delivered
  /\ \/ /\ drain'.of = drain.of /\ drain'.status = drain.status
        /\ drain'.pc # "idle" => drain.pc # "idle"
     \/ drain' = NoDrain

LEMMA DrainStep ==
  ASSUME TypeOK, [Next]_vars
  PROVE  (Deliver /\ Delivers) \/ Rests
  <1>0. drain \in Drains /\ mem.reports \in [Attempts -> Statuses \cup {"none"}]
    BY StoreTypes DEF TypeOK, Stores
  <1>1. CASE Deliver
    <2>1. PICK a \in Attempts :
            /\ mem.reports[a] # "none"
            /\ drain' = [pc |-> "delivered", of |-> a, status |-> mem.reports[a]]
            /\ delivered' = delivered \cup {<<a, mem.reports[a]>>}
      BY <1>1 DEF Deliver
    <2>2. mem.reports[a] \in Statuses
      BY <1>0, <2>1
    <2>3. UNCHANGED <<mem, engine, nextId>>
      BY <1>1 DEF Deliver, DrainOnly, claimVars
    <2> QED BY <1>1, <2>1, <2>2, <2>3 DEF Delivers
  <1>2. CASE Acknowledge
    <2>1. /\ drain.pc = "delivered" /\ UNCHANGED delivered
          /\ drain' = [drain EXCEPT !.pc = "saving"] \/ drain' = NoDrain
      BY <1>2 DEF Acknowledge
    <2> QED BY <1>0, <2>1 DEF Rests, Drains
  <1>3. CASE AcknowledgeEnds
    BY <1>3 DEF AcknowledgeEnds, Rests
  <1>4. CASE Crash
    BY <1>4 DEF Crash, Rests, historyVars
  <1>5. CASE \/ UNCHANGED vars \/ WriteEnds \/ Touch \/ Claim \/ Background \/ MarkUnsafe
             \/ Command \/ EngineNext \/ RecoveryNext \/ CommandNext \/ SaverNext
             \/ BootNext
    <2>1. UNCHANGED <<drain, delivered>>
      BY <1>5 DEF vars, historyVars, WriteEnds, Touch, Claim, Background, MarkUnsafe,
         Command, EngineNext, RecoveryNext, CommandNext, SaverNext, BootNext, Boot,
         BootEnds, ClaimEnds, Release, ReleaseEnds, NoHooks, FenceHooks, FenceEnds, Start,
         MarkEnds, UnmarkEnds, Complete, CompleteEnds, Throw, Settle, SettleEnds,
         EngineOnly, RecoveryFires, RecoveryDelayed, Reconcile, ReconcileEnds,
         RecoveryOnly, CommandEnds, FailClosedEnds, SaverFires, SaverEnds, CommandOnly
    <2> QED BY <2>1 DEF Rests
  <1> QED BY <1>1, <1>2, <1>3, <1>4, <1>5 DEF Next, DrainNext

\* A completion is proven when it reaches the disk.
LEMMA ProvenStep ==
  ASSUME writes \in Seq(Writes), WriteEnds, disk.job.done => disk.job.running \in proven
  PROVE  /\ disk'.job.done => disk'.job.running \in proven'
         /\ \A a \in proven' : a \in proven \/ RecordedBy(disk.job, a)'
         /\ UNCHANGED <<mem, engine, recovery, drain, delivered, claimVars>>
  <1>1. PICK applied \in BOOLEAN :
          /\ disk' = IF applied THEN Head(writes).state ELSE disk
          /\ proven' = IF applied /\ Head(writes).state.job.done
                       THEN proven \cup {Head(writes).state.job.running} ELSE proven
    BY DEF WriteEnds
  <1>2. UNCHANGED <<mem, engine, recovery, drain, delivered, claimVars>>
    BY DEF WriteEnds
  <1> QED BY <1>1, <1>2 DEF RecordedBy

LEMMA CrashFrame ==
  ASSUME Crash
  PROVE  /\ UNCHANGED <<proven, delivered, claimVars>> /\ engine'.pc = "idle"
         /\ Held' = {} /\ drain' = NoDrain /\ NoDrain.of = None /\ NoDrain.pc = "idle"
  BY EngineStops DEF Crash, Held, NoRecovery, NoDrain, historyVars

(***************************************************************************)
(* Attempts that are not claimed yet, and what the engine knows.           *)
(***************************************************************************)
\* What the invariant that rules a replay out says of the job in memory and of the
\* jobs that may be put back.
LEMMA JobIds ==
  ASSUME TypeOK, OwnerOK, ClosedOK
  PROVE  /\ mem.job \in Safe /\ mem.job.running < nextId
         /\ \A job \in Held : /\ job \in Safe /\ job \in Jobs /\ job.running \in Attempts
                              /\ job.running < nextId
         /\ mem.reports \in [Attempts -> Statuses \cup {"none"}]
         /\ nextId \in Nat /\ Attempts \subseteq Nat /\ None \notin Attempts
         /\ AttemptOrNone = Attempts \cup {None}
  <1>1. mem.job \in Safe /\ mem.reports \in [Attempts -> Statuses \cup {"none"}]
    BY StoreTypes DEF ClosedOK, Everywhere, Stores
  <1>2. /\ nextId \in Nat /\ Attempts \subseteq Nat /\ None \notin Attempts
        /\ AttemptOrNone = Attempts \cup {None}
    BY AttemptsAssumption DEF TypeOK, Attempts, AttemptOrNone, None
  <1>3. ASSUME NEW job \in Held
        PROVE  job \in Safe /\ job \in Jobs /\ job.running \in Attempts
    <2>1. CASE engine.pc \in {"settling", "saving"} /\ job = engine.snap
      BY <1>2, <2>1, StoreTypes DEF OwnerOK, ClosedOK
    <2>2. CASE recovery.pc # "idle" /\ job = recovery.snap
      BY <1>2, <2>2, StoreTypes DEF OwnerOK, ClosedOK
    <2> QED BY <2>1, <2>2 DEF Held
  <1> QED BY <1>1, <1>2, <1>3 DEF Safe, Named

LEMMA FreshStep ==
  ASSUME TypeOK, OwnerOK, ClosedOK, FreshOK,
         Moves \/ WriteEnds \/ Crash, Delivers \/ Rests
  PROVE  FreshOK'
  <1>0. /\ writes \in Seq(Writes) /\ delivered \subseteq Attempts \X (Statuses \cup {"none"})
        /\ mem \in Copies /\ disk \in Copies
        /\ drain.of \in AttemptOrNone /\ 0 < nextId
    BY CopyFacts, StoreTypes DEF TypeOK
  <1>1. nextId' \in Nat /\ nextId <= nextId'
    <2>1. CASE Moves
      BY <2>1, JobIds DEF Moves, Claimed, claimVars
    <2>2. CASE WriteEnds \/ Crash
      BY <2>2, JobIds DEF WriteEnds, Crash, claimVars
    <2> QED BY <2>1, <2>2
  <1>2. \A a \in Attempts : a >= nextId' => mem'.reports[a] = "none"
    <2> SUFFICES ASSUME NEW a \in Attempts, a >= nextId' PROVE mem'.reports[a] = "none"
      OBVIOUS
    <2>1. a >= nextId /\ \A s \in Copies : s.reports[a] = "none"
      BY <1>1, JobIds DEF FreshOK
    <2>2. CASE Moves
      <3>1. CASE Claimed \/ Edited(mem, mem')
        BY <1>0, <2>1, <3>1 DEF Claimed, Edited
      <3>2. CASE Completed
        BY <1>0, <2>1, <3>2, StoreTypes DEF Completed, Stores
      <3>3. CASE Closes
        <4>1. a # mem.job.running
          BY <2>1, JobIds
        <4> QED BY <1>0, <2>1, <3>3, <4>1, JobIds DEF Closes, Ended
      <3>4. CASE PutsBack
        BY <1>0, <2>1, <3>4, JobIds DEF PutsBack
      <3>5. CASE Acknowledges
        <4>1. a # drain.of
          BY <2>1, JobIds DEF FreshOK
        <4> QED BY <1>0, <2>1, <3>5, <4>1, JobIds DEF Acknowledges
      <3> QED BY <2>2, <3>1, <3>2, <3>3, <3>4, <3>5 DEF Moves, Goes
    <2>3. CASE WriteEnds
      BY <1>0, <2>1, <2>3 DEF WriteEnds
    <2>4. CASE Crash
      BY <1>0, <2>1, <2>4 DEF Crash
    <2> QED BY <2>2, <2>3, <2>4
  <1>3. Copies' \subseteq Copies \cup {mem'}
    <2>1. CASE Moves
      BY <1>0, <2>1, SetCopies DEF Moves
    <2>2. CASE WriteEnds
      BY <1>0, <2>2, WriteCopies
    <2>3. CASE Crash
      BY <1>0, <2>3, CrashCopies
    <2> QED BY <2>1, <2>2, <2>3
  <1>4. \A s \in Copies', a \in Attempts : a >= nextId' => s.reports[a] = "none"
    BY <1>1, <1>2, <1>3, JobIds DEF FreshOK
  <1>5. /\ \A a \in Attempts : Reported(a)' => a < nextId'
        /\ drain'.of < nextId'
        /\ drain'.pc # "idle" => Reported(drain.of)'
    <2>1. CASE Delivers
      <3>1. PICK a \in Attempts :
              /\ mem.reports[a] \in Statuses /\ drain'.of = a
              /\ delivered' = delivered \cup {<<a, mem.reports[a]>>}
        BY <2>1 DEF Delivers
      <3>2. a < nextId
        BY <1>0, <3>1, JobIds DEF FreshOK, Statuses
      <3>3. \A b \in Attempts : Reported(b)' => Reported(b) \/ b = a
        BY <3>1 DEF Reported
      <3>4. Reported(a)'
        BY <3>1 DEF Reported
      <3> QED BY <1>1, <3>1, <3>2, <3>3, <3>4, JobIds DEF FreshOK
    <2>2. CASE Rests
      <3>1. \A b : Reported(b)' <=> Reported(b)
        BY <2>2 DEF Rests, Reported
      <3>2. drain'.of < nextId'
        BY <1>0, <1>1, <2>2, JobIds DEF Rests, NoDrain, None, FreshOK
      <3>3. drain'.pc # "idle" => drain.pc # "idle" /\ drain'.of = drain.of
        BY <2>2 DEF Rests, NoDrain
      <3>4. drain'.pc # "idle" => Reported(drain.of)'
        BY <3>1, <3>3 DEF FreshOK
      <3> QED BY <1>1, <3>1, <3>2, <3>4, JobIds DEF FreshOK
    <2> QED BY <2>1, <2>2
  <1> QED BY <1>4, <1>5 DEF FreshOK

\* A step makes no copy but of the memory.
LEMMA CopiesStep ==
  ASSUME writes \in Seq(Writes), Moves \/ WriteEnds \/ Crash
  PROVE  /\ Copies' \subseteq Copies \cup {mem'}
         /\ WriteEnds \/ Crash => mem' \in Copies
  <1>0. mem \in Copies /\ disk \in Copies
    BY CopyFacts
  <1>1. CASE Moves /\ ~(WriteEnds \/ Crash)
    BY <1>1, SetCopies DEF Moves
  <1>2. CASE WriteEnds
    BY <1>0, <1>2, WriteCopies DEF WriteEnds
  <1>3. CASE Crash
    BY <1>0, <1>3, CrashCopies
  <1> QED BY <1>1, <1>2, <1>3

\* While the engine goes on with its attempt, the job in memory is the same attempt.
LEMMA StaysSame ==
  ASSUME TypeOK, OwnerOK, engine.pc \in Early \cup {"completing", "settling"},
         engine'.pc \in Early \cup {"completing", "settling"},
         Moves \/ WriteEnds \/ Crash
  PROVE  \/ mem'.job.done = mem.job.done /\ mem'.reports = mem.reports
         \/ mem'.job.done = mem.job.done /\ Acknowledges
         \/ Completed
  <1>1. mem.job.running # None
    BY DEF OwnerOK, Early
  <1>2. CASE WriteEnds
    BY <1>2 DEF WriteEnds
  <1>3. CASE Crash
    BY <1>3, EngineStops DEF Crash, Early
  <1>4. CASE Moves
    BY <1>1, <1>4 DEF Moves, Goes, Claimed, Edited, Closes, PutsBack, Acknowledges, Early
  <1> QED BY <1>2, <1>3, <1>4

LEMMA EarlyStep ==
  ASSUME TypeOK, LockOK, OwnerOK, ClosedOK, FreshOK, CompletionOK, EnginePhases,
         Moves \/ WriteEnds \/ Crash, Delivers \/ Rests, engine'.pc \in Early
  PROVE  /\ ~mem'.job.done /\ \A s \in Copies' : s.reports[engine'.of] = "none"
         /\ ~Reported(engine.of)' /\ drain'.of # engine'.of
  <1>0. mem \in Copies /\ Copies' \subseteq Copies \cup {mem'}
    BY CopyFacts, CopiesStep DEF TypeOK
  <1>1. CASE Claim
    <2>1. Claimed
      BY <1>1, ClaimMoves
    <2>2. Rests /\ engine'.of = nextId /\ nextId \in Attempts
      BY <2>1, JobIds DEF Claimed, Delivers
    <2>3. ~mem'.job.done /\ \A s \in Copies' : s.reports[nextId] = "none"
      BY <1>0, <2>1, <2>2, JobIds DEF Claimed, FreshOK
    <2>4. ~Reported(nextId)
      BY <2>2, JobIds DEF FreshOK
    <2>5. ~Reported(engine.of)'
      BY <2>2, <2>4 DEF Rests, Reported
    <2>6. drain'.of # nextId
      <3>1. drain.of # nextId
        BY <1>0, <2>2, StoreTypes, JobIds DEF FreshOK
      <3> QED BY <2>2, <3>1, JobIds DEF Rests, NoDrain
    <2> QED BY <2>2, <2>3, <2>5, <2>6
  <1>2. CASE engine.pc \in Early /\ engine'.of = engine.of
    <2>0. /\ ~mem.job.done /\ \A s \in Copies : s.reports[engine.of] = "none"
          /\ ~Reported(engine.of) /\ drain.of # engine.of
          /\ engine.of \in Attempts
      BY <1>2, EarlyFacts DEF CompletionOK
    <2>1. ~Completed
      BY DEF Completed, Early
    <2>2. ~mem'.job.done /\ \A s \in Copies' : s.reports[engine.of] = "none"
      <3>1. CASE mem'.job.done = mem.job.done /\ mem'.reports = mem.reports
        BY <1>0, <2>0, <3>1
      <3>2. CASE mem'.job.done = mem.job.done /\ Acknowledges
        BY <1>0, <2>0, <3>2, JobIds DEF Acknowledges
      <3> QED BY <1>2, <2>1, <3>1, <3>2, StaysSame
    <2>3. ~Reported(engine.of)' /\ drain'.of # engine.of
      <3>1. CASE Delivers
        <4>1. PICK a \in Attempts :
                /\ mem.reports[a] \in Statuses /\ drain'.of = a
                /\ delivered' = delivered \cup {<<a, mem.reports[a]>>}
          BY <3>1 DEF Delivers
        <4>2. a # engine.of
          BY <1>0, <2>0, <4>1 DEF Statuses
        <4> QED BY <1>2, <2>0, <4>1, <4>2 DEF Reported
      <3>2. CASE Rests
        <4>1. drain'.of # engine.of
          BY <2>0, <3>2, JobIds DEF Rests, NoDrain
        <4> QED BY <1>2, <2>0, <3>2, <4>1 DEF Rests, Reported
      <3> QED BY <3>1, <3>2
    <2> QED BY <1>2, <2>2, <2>3
  <1> QED BY <1>1, <1>2 DEF EnginePhases

LEMMA CompletionStep ==
  ASSUME TypeOK, LockOK, OwnerOK, ClosedOK, FreshOK, CompletionOK, EnginePhases,
         Moves \/ WriteEnds \/ Crash, Delivers \/ Rests
  PROVE  CompletionOK'
  <1>0. /\ writes \in Seq(Writes) /\ mem \in Copies /\ disk \in Copies
        /\ mem.job.done \in BOOLEAN
    BY CopyFacts, StoreTypes, JobFields DEF TypeOK
  <1>1. engine'.pc \in Early =>
           /\ ~mem'.job.done /\ \A s \in Copies' : s.reports[engine'.of] = "none"
           /\ ~Reported(engine.of)' /\ drain'.of # engine'.of
    BY EarlyStep
  <1>2. ASSUME engine'.pc = "completing" PROVE mem'.job.done
    <2>1. CASE Complete
      <3>1. Completed
        BY <2>1, CompleteMoves
      <3> QED BY <3>1, StoreTypes DEF Completed, Stores, Jobs
    <2>2. CASE engine.pc = "completing"
      BY <1>0, <1>2, <2>2, StaysSame DEF CompletionOK, Completed
    <2> QED BY <1>2, <2>1, <2>2 DEF EnginePhases
  <1>3. ASSUME engine'.pc = "settling" PROVE mem'.job.done = engine'.snap.done
    <2>1. CASE engine.pc = "settling" /\ engine'.snap = engine.snap
      BY <1>3, <2>1, StaysSame DEF CompletionOK, Completed
    <2>2. CASE engine'.snap = mem.job /\ UNCHANGED mem
      BY <2>2
    <2> QED BY <1>3, <2>1, <2>2 DEF EnginePhases
  <1>4. ASSUME engine'.pc \in {"settling", "saving"}
        PROVE  engine'.snap.done <=> engine'.plan = "success"
    <2>1. CASE /\ engine.pc \in {"settling", "saving"}
               /\ engine'.snap = engine.snap /\ engine'.plan = engine.plan
      BY <2>1 DEF CompletionOK
    <2>2. CASE /\ engine'.snap = mem.job
               /\ \/ engine.pc = "completing" /\ engine'.plan = "success"
                  \/ engine.pc \in Early /\ engine'.plan # "success"
      BY <2>2 DEF CompletionOK
    <2> QED BY <1>4, <2>1, <2>2 DEF EnginePhases
  <1>5. ASSUME NEW s \in Copies', s.job.done PROVE s.job.running # None
    <2>1. CASE s \in Copies
      BY <1>5, <2>1 DEF CompletionOK
    <2>2. CASE s = mem' /\ Moves
      <3>1. CASE Claimed \/ Closes
        BY <1>5, <2>2, <3>1 DEF Claimed, Closes, Ended
      <3>2. CASE Edited(mem, mem') \/ Acknowledges
        BY <1>0, <1>5, <2>2, <3>2 DEF Edited, Acknowledges, CompletionOK
      <3>3. CASE Completed
        <4>1. mem.job.running \in Attempts
          BY <3>3, EarlyFacts DEF Completed, Early
        <4>2. mem'.job.running = mem.job.running
          BY <3>3, StoreTypes DEF Completed, Stores, Jobs
        <4> QED BY <2>2, <4>1, <4>2, JobIds
      <3>4. CASE PutsBack
        BY <2>2, <3>4, JobIds DEF PutsBack
      <3> QED BY <2>2, <3>1, <3>2, <3>3, <3>4 DEF Moves, Goes
    <2> QED BY <1>0, <2>1, <2>2, CopiesStep
  <1> QED BY <1>1, <1>2, <1>3, <1>4, <1>5 DEF CompletionOK

(***************************************************************************)
(* Recorded outputs.                                                       *)
(***************************************************************************)
Ordered ==
  /\ mem \in Copies /\ disk \in Copies
  /\ \A s \in Copies : <<s, mem>> \in Successions /\ <<disk, s>> \in Successions

LEMMA CopiesOrdered == writes \in Seq(Writes) => Ordered
  BY CopyFacts DEF Ordered

LEMMA CopiesOrderedNext == (writes \in Seq(Writes) => Ordered)'
  BY CopiesOrdered, PTL

\* What each copy says of its own attempt.
LEMMA CopySafe ==
  ASSUME TypeOK, ClosedOK
  PROVE  \A s \in Copies : s \in Stores /\ s.job \in Safe
  <1>0. writes \in Seq(Writes)
    BY DEF TypeOK
  <1>1. \A i \in DOMAIN writes : writes[i].state \in Stores
    <2>1. \A i \in DOMAIN writes : writes[i] \in Writes
      BY <1>0
    <2> QED BY <2>1 DEF Writes
  <1> SUFFICES ASSUME NEW i \in Stages PROVE Stage(i) \in Stores /\ Stage(i).job \in Safe
    BY DEF Copies
  <1>2. Stage(i) \in {disk, mem} \cup {writes[j].state : j \in DOMAIN writes}
    BY DEF Stage
  <1> QED BY <1>1, <1>2, StoreTypes DEF ClosedOK, Everywhere, TypeOK

LEMMA RecordedFacts ==
  ASSUME TypeOK, OwnerOK, IdsOK, ClosedOK, RecordsOK, NEW a \in Attempts, Recorded(a)
  PROVE  /\ a < nextId /\ occOf[a] \in 1 .. a /\ occOf[a] # None
         /\ a # nextId /\ occOf[a] # nextId
         /\ NotRetried(a) /\ Kept(mem, a)
         /\ \A job \in Held : KeptIn(job, a)
         /\ mem.reports[a] \in Statuses => mem.reports[a] = "success"
  <1>0. nextId \in Nat /\ a \in Nat
    BY JobIds
  <1>1. a < nextId
    <2>1. CASE a \in proven
      BY <1>0, <2>1 DEF RecordsOK
    <2>2. CASE \E job \in {s.job : s \in Copies} \cup Held : RecordedBy(job, a)
      BY <2>2, CopySafe, JobIds DEF RecordedBy, Safe, Named
    <2> QED BY <2>1, <2>2 DEF Recorded
  <1>2. occOf[a] \in 1 .. a
    BY <1>1 DEF IdsOK
  <1>3. /\ NotRetried(a) /\ Kept(mem, a)
        /\ \A job \in Held : KeptIn(job, a)
    BY DEF RecordsOK
  <1>4. mem.reports[a] \in Statuses => mem.reports[a] = "success"
    BY <1>3 DEF Kept, Statuses
  <1> QED BY <1>0, <1>1, <1>2, <1>3, <1>4 DEF None

\* The attempt whose output a step records.
LEMMA CompletedFacts ==
  ASSUME TypeOK, OwnerOK, IdsOK, CompletionOK, Completed
  PROVE  /\ engine.of \in Attempts /\ mem.job.running = engine.of
         /\ mem'.job.running = engine.of /\ mem'.job.done /\ mem'.reports = mem.reports
         /\ mem'.job.retryOcc = mem.job.retryOcc /\ mem'.job.occ = mem.job.occ
         /\ mem.reports[engine.of] = "none" /\ ~Reported(engine.of)
         /\ drain.of # engine.of /\ NotRetried(engine.of)
         /\ mem'.job.rev = mem.job.rev /\ mem'.job.runRev = mem.job.runRev
         /\ mem'.job.enabled = mem.job.enabled
  <1>1. engine.pc \in Early /\ engine.pc # "idle" /\ mem \in Copies
    BY CopyFacts DEF Completed, Early, TypeOK
  <1>2. /\ engine.of \in Attempts /\ mem.job.running = engine.of
        /\ mem.reports[engine.of] = "none" /\ ~Reported(engine.of)
        /\ drain.of # engine.of
    BY <1>1, EarlyFacts DEF CompletionOK
  <1>3. mem' = [mem EXCEPT !.job = [mem.job EXCEPT !.done = TRUE]]
    BY StoreTypes DEF Completed, Stores, Jobs
  <1>4. /\ mem'.job.running = mem.job.running /\ mem'.job.done
        /\ mem'.reports = mem.reports
        /\ mem'.job.retryOcc = mem.job.retryOcc /\ mem'.job.occ = mem.job.occ
        /\ mem'.job.rev = mem.job.rev /\ mem'.job.runRev = mem.job.runRev
        /\ mem'.job.enabled = mem.job.enabled
    BY <1>3, StoreTypes DEF Stores, Jobs
  <1>5. NotRetried(engine.of)
    <2> SUFFICES ASSUME NEW b \in Attempts, occOf[b] = occOf[engine.of]
                 PROVE  b <= engine.of
      BY DEF NotRetried
    <2>1. nextId \in Nat /\ b \in Nat /\ engine.of = nextId - 1 /\ engine.of \in Nat
      BY <1>1, <1>2, StoreTypes DEF IdsOK, Attempts, TypeOK
    <2>2. occOf[engine.of] # None
      BY <1>2, <2>1 DEF IdsOK, None
    <2> QED BY <2>1, <2>2 DEF IdsOK
  <1> QED BY <1>2, <1>4, <1>5

\* What is recorded after a step was recorded before, or is the output that the engine
\* records.
Becomes(a) == Recorded(a) \/ (Completed /\ a = engine.of)

LEMMA RecordedStep ==
  ASSUME TypeOK, OwnerOK, RecordsOK, CompletionOK, TypeOK',
         Moves \/ WriteEnds \/ Crash, Held' \subseteq Held \cup {mem.job},
         NEW a \in Attempts, Recorded(a)'
  PROVE  Becomes(a)
  <1>0. writes \in Seq(Writes) /\ mem \in Copies /\ disk \in Copies /\ disk' \in Copies'
    BY CopyFacts, CopiesOrderedNext DEF TypeOK, Ordered
  <1> USE DEF Recorded, RecordedBy
  <1>1. ASSUME mem'.job.done, mem'.job.running = a PROVE Becomes(a)
    <2>1. CASE mem' \in Copies
      BY <1>1, <2>1 DEF Becomes
    <2>2. CASE Moves
      <3>1. CASE Claimed \/ Closes
        BY <1>1, <3>1 DEF Claimed, Closes, Ended
      <3>2. CASE Edited(mem, mem') \/ Acknowledges
        BY <1>0, <1>1, <3>2 DEF Edited, Acknowledges, Becomes
      <3>3. CASE Completed
        <4>1. mem'.job.running = mem.job.running
          BY <3>3, StoreTypes DEF Completed, Stores, Jobs
        <4> QED BY <1>1, <3>3, <4>1 DEF Completed, Becomes
      <3>4. CASE PutsBack
        BY <1>1, <3>4 DEF PutsBack, Becomes
      <3> QED BY <2>2, <3>1, <3>2, <3>3, <3>4 DEF Moves, Goes
    <2> QED BY <1>0, <2>1, <2>2, CopiesStep
  <1>2. ASSUME NEW s \in Copies', s.job.done, s.job.running = a PROVE Becomes(a)
    BY <1>0, <1>1, <1>2, CopiesStep DEF Becomes
  <1>3. ASSUME a \in proven' PROVE Becomes(a)
    <2>1. CASE a \in proven
      BY <2>1 DEF Becomes
    <2>2. CASE a \notin proven
      <3>1. WriteEnds
        BY <1>3, <2>2, CrashFrame DEF Moves
      <3>2. RecordedBy(disk.job, a)'
        BY <1>0, <1>3, <2>2, <3>1, ProvenStep DEF RecordsOK
      <3> QED BY <1>0, <1>2, <3>2
    <2> QED BY <2>1, <2>2
  <1>4. ASSUME NEW job \in Held', job.done, job.running = a PROVE Becomes(a)
    BY <1>0, <1>4 DEF Becomes
  <1> QED BY <1>2, <1>3, <1>4

\* The memory keeps what is recorded.
LEMMA KeptMoves ==
  ASSUME TypeOK, OwnerOK, IdsOK, ClosedOK, CompletionOK, RecordsOK, Moves,
         NEW a \in Attempts, Becomes(a)
  PROVE  Kept(mem, a)'
  <1>0. /\ Attempts \subseteq Nat /\ nextId \in Nat /\ None \notin Attempts
        /\ mem.reports \in [Attempts -> Statuses \cup {"none"}]
    BY JobIds
  <1>1. CASE Completed /\ a = engine.of
    <2>1. mem'.job.running = a /\ mem'.job.done /\ mem'.reports[a] = "none"
      BY <1>1, CompletedFacts
    <2> QED BY <2>1 DEF Kept, KeptIn
  <1>2. CASE Recorded(a)
    <2>0. /\ a < nextId /\ occOf[a] # None /\ a # nextId /\ occOf[a] # nextId
          /\ mem.job.running = a => mem.job.done
          /\ mem.job.running # a => occOf[a] \notin {mem.job.retryOcc, mem.job.occ}
          /\ mem.reports[a] \in {"none", "success"}
      BY <1>2, RecordedFacts DEF Kept, KeptIn
    <2>1. CASE Claimed
      <3>1. occOf'[a] = occOf[a]
        BY <2>0, <2>1 DEF Claimed
      <3>2. mem.job.running # a /\ mem'.job.running # a
        BY <1>0, <2>0, <2>1 DEF Claimed
      <3>3. occOf'[a] \notin {mem'.job.retryOcc, mem'.job.occ}
        BY <2>0, <2>1, <3>1, <3>2 DEF Claimed
      <3> QED BY <2>0, <2>1, <3>2, <3>3 DEF Claimed, Kept, KeptIn
    <2>2. CASE UNCHANGED claimVars /\ Edited(mem, mem')
      BY <2>0, <2>2 DEF claimVars, Edited, Kept, KeptIn
    <2>3. CASE UNCHANGED claimVars /\ Completed
      BY <2>0, <2>3, CompletedFacts DEF claimVars, Kept, KeptIn
    <2>4. CASE UNCHANGED claimVars /\ Closes
      <3>1. PICK status \in Statuses \cup {"none"} :
              /\ mem'.reports = [mem.reports EXCEPT ![mem.job.running] = status]
              /\ mem.job.done => status = "success" /\ mem'.job.retryOcc = None
        BY <2>4 DEF Closes, Ended
      <3>2. /\ mem'.job.running = None /\ mem'.job.occ = None
            /\ mem'.job.retryOcc \in {None, mem.job.occ, mem.job.retryOcc}
        BY <2>4 DEF Closes, Ended
      <3>3. mem'.reports[a] \in {"none", "success"}
        BY <1>0, <2>0, <3>1
      <3>4. occOf[a] \notin {mem'.job.retryOcc, mem'.job.occ}
        BY <2>0, <3>1, <3>2
      <3> QED BY <1>0, <2>4, <3>2, <3>3, <3>4 DEF claimVars, Kept, KeptIn
    <2>5. CASE UNCHANGED claimVars /\ PutsBack
      <3>1. PICK job \in Held :
              /\ mem'.job = job
              /\ mem'.reports = [mem.reports EXCEPT ![job.running] = "none"]
        BY <2>5 DEF PutsBack
      <3>2. KeptIn(job, a)
        BY <1>2, RecordedFacts
      <3>3. mem'.reports[a] \in {"none", "success"}
        BY <1>0, <2>0, <3>1
      <3> QED BY <2>5, <3>1, <3>2, <3>3 DEF claimVars, Kept, KeptIn
    <2>6. CASE UNCHANGED claimVars /\ Acknowledges
      <3>1. PICK status \in {"none", drain.status} :
              mem'.reports = [mem.reports EXCEPT ![drain.of] = status]
        BY <2>6 DEF Acknowledges
      <3>2. drain.of = a => drain.status = "success"
        BY <1>2 DEF RecordsOK
      <3>3. mem'.reports[a] \in {"none", "success"}
        BY <1>0, <2>0, <3>1, <3>2
      <3> QED BY <2>0, <2>6, <3>3 DEF Acknowledges, claimVars, Kept, KeptIn
    <2> QED BY <2>1, <2>2, <2>3, <2>4, <2>5, <2>6 DEF Moves, Goes
  <1> QED BY <1>1, <1>2 DEF Becomes

\* A recorded attempt keeps its occurrence for itself.
LEMMA NotRetriedStep ==
  ASSUME TypeOK, OwnerOK, IdsOK, ClosedOK, CompletionOK, RecordsOK,
         Moves \/ WriteEnds \/ Crash, NEW a \in Attempts, Becomes(a)
  PROVE  NotRetried(a)'
  <1>0. Attempts \subseteq Nat /\ nextId \in Nat
    BY JobIds
  <1>1. CASE UNCHANGED claimVars
    <2>1. NotRetried(a)
      BY CompletedFacts, RecordedFacts DEF Becomes
    <2> QED BY <1>1, <2>1 DEF NotRetried, claimVars
  <1>2. CASE Claimed
    <2>1. Recorded(a)
      <3>1. ~Completed
        BY <1>2 DEF Claimed, Completed
      <3> QED BY <3>1 DEF Becomes
    <2>2. /\ NotRetried(a) /\ a # nextId /\ occOf[a] # nextId /\ mem.job.running # a
          /\ occOf[a] # mem.job.retryOcc
      BY <1>0, <1>2, <2>1, RecordedFacts, JobIds DEF Kept, KeptIn, Claimed
    <2>3. mem'.job.occ # occOf[a]
      BY <1>2, <2>2 DEF Claimed
    <2>4. ASSUME NEW b \in Attempts, occOf'[b] = occOf'[a] PROVE b <= a
      <3>1. occOf'[a] = occOf[a] /\ b # nextId
        BY <1>2, <2>2, <2>3, <2>4, StoreTypes DEF Claimed, TypeOK
      <3>2. occOf'[b] = occOf[b]
        BY <1>2, <3>1 DEF Claimed
      <3> QED BY <2>2, <2>4, <3>1, <3>2 DEF NotRetried
    <2> QED BY <2>4 DEF NotRetried
  <1>3. UNCHANGED claimVars \/ Claimed
    BY DEF Moves, WriteEnds, Crash
  <1> QED BY <1>1, <1>2, <1>3

LEMMA ClaimsKeep ==
  ASSUME TypeOK, IdsOK, Moves \/ WriteEnds \/ Crash, NEW a \in Attempts, a < nextId
  PROVE  /\ occOf'[a] = occOf[a] /\ revOf'[a] = revOf[a] /\ a < nextId'
         /\ nextId' \in Nat /\ nextId <= nextId'
  <1>0. nextId \in Nat /\ a \in Nat
    BY AttemptsAssumption DEF TypeOK, Attempts
  <1>1. UNCHANGED claimVars \/ Claimed
    BY DEF Moves, WriteEnds, Crash
  <1> QED BY <1>0, <1>1 DEF claimVars, Claimed, TypeOK

LEMMA ReportsRecorded ==
  ASSUME TypeOK, OwnerOK, IdsOK, ClosedOK, CompletionOK, RecordsOK, Delivers \/ Rests,
         NEW a \in Attempts, Becomes(a)
  PROVE  /\ \A status \in Statuses : <<a, status>> \in delivered' => status = "success"
         /\ drain'.of = a => drain'.status = "success"
  <1>0. /\ \A status \in Statuses : <<a, status>> \in delivered => status = "success"
        /\ drain.of = a => drain.status = "success"
    BY CompletedFacts DEF Becomes, RecordsOK, Reported
  <1>1. CASE Delivers
    <2>1. PICK b \in Attempts :
            /\ mem.reports[b] \in Statuses /\ drain'.of = b
            /\ drain'.status = mem.reports[b]
            /\ delivered' = delivered \cup {<<b, mem.reports[b]>>}
      BY <1>1 DEF Delivers
    <2>2. Recorded(a)
      <3>1. ~Completed
        BY <1>1 DEF Delivers, Completed
      <3> QED BY <3>1 DEF Becomes
    <2>3. b = a => mem.reports[b] = "success"
      BY <2>1, <2>2, RecordedFacts
    <2> QED BY <1>0, <2>1, <2>3
  <1>2. CASE Rests
    BY <1>0, <1>2, JobIds DEF Rests, NoDrain
  <1> QED BY <1>1, <1>2

LEMMA RecordsStep ==
  ASSUME TypeOK, OwnerOK, IdsOK, ClosedOK, CompletionOK, RecordsOK, TypeOK', OwnerOK',
         Moves \/ WriteEnds \/ Crash, Held' \subseteq Held \cup {mem.job},
         Delivers \/ Rests
  PROVE  RecordsOK'
  <1>0. /\ writes \in Seq(Writes) /\ mem \in Copies /\ disk \in Copies
        /\ mem' \in Copies' /\ disk' \in Copies' /\ <<disk, disk>> \in Successions
        /\ \A s \in Copies' : <<disk', s>> \in Successions'
        /\ Attempts \subseteq Nat
    BY CopyFacts, CopiesOrderedNext, JobIds DEF TypeOK, Ordered
  <1>1. disk'.job.done => disk'.job.running \in proven'
    <2>1. disk.job.done => disk.job.running \in proven
      BY DEF RecordsOK
    <2>2. CASE Moves
      BY <2>1, <2>2 DEF Moves
    <2>3. CASE WriteEnds
      BY <1>0, <2>1, <2>3, ProvenStep
    <2>4. CASE Crash
      BY <2>1, <2>4 DEF Crash, historyVars
    <2> QED BY <2>2, <2>3, <2>4
  <1>2. proven' \subseteq 1 .. nextId' - 1
    <2> SUFFICES ASSUME NEW a \in proven' PROVE a \in Attempts /\ a < nextId'
      BY DEF Attempts, TypeOK
    <2>1. ASSUME a \in proven PROVE a \in Attempts /\ a < nextId
      <3>1. a \in 1 .. nextId - 1 /\ nextId \in 1 .. MaxAttempts + 1
        BY <2>1 DEF RecordsOK, TypeOK
      <3> QED BY <3>1, AttemptsAssumption DEF Attempts
    <2>2. CASE a \in proven
      BY <2>1, <2>2, ClaimsKeep
    <2>3. CASE a \notin proven
      <3>1. WriteEnds
        BY <2>3, CrashFrame DEF Moves
      <3>2. disk'.job.done /\ disk'.job.running = a /\ UNCHANGED nextId
        BY <1>0, <2>3, <3>1, ProvenStep DEF RecordsOK, RecordedBy, claimVars
      <3>3. disk' \in Copies
        BY <1>0, <3>1, WriteCopies
      <3>4. a # None /\ a < nextId /\ a \in AttemptOrNone
        BY <3>2, <3>3, CopySafe, JobFields DEF CompletionOK, Safe, Named, Stores
      <3> QED BY <3>2, <3>4, JobIds
    <2> QED BY <2>2, <2>3
  <1>3. ASSUME NEW p \in Successions', NEW a \in Attempts, RecordedBy(p[1].job, a)
        PROVE  Kept(p[2], a)'
    <2>1. ASSUME NEW q \in Successions, p[1] = q[1], p[2] = q[2]
          PROVE  Kept(p[2], a)'
      <3>1. Kept(p[2], a)
        BY <1>3, <2>1 DEF RecordsOK
      <3>2. Recorded(a)
        <4>1. q[1] \in Copies
          BY <1>0, CopyFacts
        <4> QED BY <1>3, <2>1, <4>1 DEF Recorded
      <3>3. occOf'[a] = occOf[a]
        BY <3>2, RecordedFacts, ClaimsKeep
      <3> QED BY <3>1, <3>3 DEF Kept, KeptIn
    <2>2. CASE Moves
      <3>1. CASE p[1] \in Copies \cup {mem'} /\ p[2] = mem'
        <4>1. Becomes(a)
          <5>1. CASE p[1] \in Copies
            BY <1>3, <5>1 DEF Becomes, Recorded
          <5>2. CASE p[1] = mem'
            <6>1. Recorded(a)'
              BY <1>0, <1>3, <5>2 DEF Recorded, RecordedBy
            <6> QED BY <6>1, RecordedStep
          <5> QED BY <3>1, <5>1, <5>2
        <4> QED BY <2>2, <3>1, <4>1, KeptMoves DEF Kept, KeptIn
      <3> QED BY <1>0, <2>1, <2>2, <3>1, SetCopies DEF Moves
    <2>3. CASE WriteEnds
      BY <1>0, <2>1, <2>3, WriteCopies
    <2>4. CASE Crash
      <3>1. p[1] = <<disk, disk>>[1] /\ p[2] = <<disk, disk>>[2]
        BY <2>4, CrashCopies
      <3> QED BY <1>0, <2>1, <3>1
    <2> QED BY <2>2, <2>3, <2>4
  <1>4. ASSUME NEW a \in proven', NEW s \in Copies' PROVE Kept(s, a)'
    <2>0. a \in Attempts
      <3>1. PICK n \in 1 .. MaxAttempts + 1 : a \in 1 .. n - 1
        BY <1>2, <1>4 DEF TypeOK
      <3> QED BY <3>1, AttemptsAssumption DEF Attempts
    <2>1. CASE a \in proven /\ s \in Copies
      <3>1. Kept(s, a) /\ Recorded(a)
        BY <2>1 DEF RecordsOK, Recorded
      <3>2. occOf'[a] = occOf[a]
        BY <2>0, <3>1, RecordedFacts, ClaimsKeep
      <3> QED BY <3>1, <3>2 DEF Kept, KeptIn
    <2>2. CASE a \in proven /\ s = mem' /\ Moves
      <3>1. Becomes(a)
        BY <2>2 DEF Becomes, Recorded
      <3> QED BY <2>0, <2>2, <3>1, KeptMoves DEF Kept, KeptIn
    <2>3. CASE a \notin proven
      <3>1. WriteEnds
        BY <1>4, <2>3, CrashFrame DEF Moves
      <3>2. RecordedBy(disk'.job, a)
        BY <1>0, <1>4, <2>3, <3>1, ProvenStep DEF RecordsOK, RecordedBy
      <3> DEFINE p == <<disk', s>>
      <3>3. p \in Successions' /\ p[1] = disk' /\ p[2] = s
        BY <1>0
      <3> HIDE DEF p
      <3> QED BY <1>3, <2>0, <3>2, <3>3
    <2> QED BY <1>0, <2>1, <2>2, <2>3, CopiesStep
  <1>5. ASSUME NEW a \in Attempts, Recorded(a)'
        PROVE  /\ NotRetried(a)' /\ Kept(mem, a)'
               /\ \A job \in Held' : KeptIn(job, a)'
               /\ \A status \in Statuses :
                     <<a, status>> \in delivered' => status = "success"
               /\ drain'.of = a => drain'.status = "success"
    <2>1. Becomes(a)
      BY <1>5, RecordedStep
    <2>2. Kept(mem, a)'
      <3>1. CASE Moves
        BY <2>1, <3>1, KeptMoves
      <3>2. CASE WriteEnds
        <4>1. Recorded(a)
          BY <2>1, <3>2 DEF Becomes, Completed, WriteEnds
        <4> QED BY <3>2, <4>1, RecordedFacts DEF WriteEnds, claimVars, Kept, KeptIn
      <3>3. CASE Crash
        <4>1. a \in proven' \/ RecordedBy(disk'.job, a)
          BY <1>5, <3>3, CrashFrame, CrashCopies DEF Recorded, RecordedBy
        <4>2. a \in proven'
          BY <1>1, <4>1 DEF RecordedBy
        <4> QED BY <1>0, <1>4, <4>2 DEF Kept, KeptIn
      <3> QED BY <3>1, <3>2, <3>3
    <2>3. ASSUME NEW job \in Held' PROVE KeptIn(job, a)'
      <3>1. CASE Recorded(a)
        <4>1. KeptIn(job, a) /\ occOf'[a] = occOf[a]
          BY <3>1, RecordedFacts, ClaimsKeep DEF Kept
        <4> QED BY <4>1 DEF KeptIn
      <3>2. CASE Completed
        <4>1. engine'.pc = "completing" /\ recovery'.pc = "idle"
          BY <3>2 DEF Completed, OwnerOK
        <4> QED BY <4>1 DEF Held
      <3> QED BY <2>1, <3>1, <3>2 DEF Becomes
    <2> QED BY <2>1, <2>2, <2>3, NotRetriedStep, ReportsRecorded
  <1> QED BY <1>1, <1>2, <1>3, <1>4, <1>5 DEF RecordsOK

(***************************************************************************)
(* Attempts that were on disk.                                             *)
(***************************************************************************)
\* Answers, of a state with this job and these reports.
AnswersWith(job, reports, a) ==
  /\ revOf[a] <= job.rev
  /\ \/ job.running = a \/ reports[a] # "none" \/ Reported(a)
     \/ job.rev # revOf[a] \/ ~job.enabled

LEMMA AnswersParts ==
  mem \in Stores =>
     \A a : /\ Answers(mem, a) <=> AnswersWith(mem.job, mem.reports, a)
            /\ \A job : Answers([mem EXCEPT !.job = job], a)
                          <=> AnswersWith(job, mem.reports, a)
  <1> SUFFICES ASSUME mem \in Stores, NEW a, NEW job
               PROVE  /\ Answers(mem, a) <=> AnswersWith(mem.job, mem.reports, a)
                      /\ Answers([mem EXCEPT !.job = job], a)
                           <=> AnswersWith(job, mem.reports, a)
    OBVIOUS
  <1> DEFINE t == [mem EXCEPT !.job = job]
  <1>1. t.job = job /\ t.reports = mem.reports
    BY DEF Stores
  <1> HIDE DEF t
  <1>2. Answers(t, a) <=> AnswersWith(t.job, t.reports, a)
    BY DEF Answers, AnswersWith, Accounted, Reported
  <1>3. Answers(mem, a) <=> AnswersWith(mem.job, mem.reports, a)
    BY DEF Answers, AnswersWith, Accounted, Reported
  <1> QED BY <1>1, <1>2, <1>3 DEF t

LEMMA AnswersPartsNext ==
  (mem \in Stores =>
     \A a : /\ Answers(mem, a) <=> AnswersWith(mem.job, mem.reports, a)
            /\ \A job : Answers([mem EXCEPT !.job = job], a)
                          <=> AnswersWith(job, mem.reports, a))'
  BY AnswersParts, PTL

\* Something that may be read again tells of the attempt.
ToldOf(a) ==
  \/ \E s \in Copies : Tells(s, a)
  \/ \E job \in Held : job.running = a
  \/ drain.of = a
Arises(a) == ToldOf(a) \/ (Claimed /\ a = nextId)

LEMMA ToldFacts ==
  ASSUME TypeOK, OwnerOK, ClosedOK, FreshOK, AnswersOK, NEW a \in Attempts, ToldOf(a)
  PROVE  /\ a < nextId
         /\ AnswersWith(mem.job, mem.reports, a)
         /\ \A job \in Held : AnswersWith(job, mem.reports, a)
  <1>1. a < nextId
    <2>1. CASE \E s \in Copies : Tells(s, a)
      BY <2>1, CopySafe, JobIds DEF Tells, FreshOK, Safe, Named
    <2>2. CASE \E job \in Held : job.running = a
      BY <2>2, JobIds
    <2>3. CASE drain.of = a
      BY <2>3 DEF FreshOK
    <2> QED BY <2>1, <2>2, <2>3 DEF ToldOf
  <1>2. Answers(mem, a) /\ \A job \in Held : Answers([mem EXCEPT !.job = job], a)
    BY DEF AnswersOK, ToldOf
  <1> QED BY <1>1, <1>2, AnswersParts, StoreTypes

LEMMA ToldStep ==
  ASSUME TypeOK, OwnerOK, ClosedOK, FreshOK, Moves \/ WriteEnds \/ Crash,
         Held' \subseteq Held \cup {mem.job}, Delivers \/ Rests,
         NEW a \in Attempts, ToldOf(a)'
  PROVE  Arises(a)
  <1>0. /\ writes \in Seq(Writes) /\ mem \in Copies
        /\ mem.reports \in [Attempts -> Statuses \cup {"none"}] /\ None # a
    BY CopyFacts, JobIds DEF TypeOK
  <1> USE DEF Arises, ToldOf, Tells
  <1>1. ASSUME Moves, Tells(mem', a) PROVE Arises(a)
    <2>1. CASE Claimed \/ Edited(mem, mem')
      BY <1>0, <1>1, <2>1 DEF Claimed, Edited
    <2>2. CASE Completed
      <3>1. mem'.job.running = mem.job.running /\ mem'.reports = mem.reports
        BY <2>2, StoreTypes DEF Completed, Stores, Jobs
      <3> QED BY <1>0, <1>1, <3>1
    <2>3. CASE Closes
      BY <1>0, <1>1, <2>3 DEF Closes, Ended
    <2>4. CASE PutsBack
      BY <1>0, <1>1, <2>4 DEF PutsBack
    <2>5. CASE Acknowledges
      BY <1>0, <1>1, <2>5 DEF Acknowledges
    <2> QED BY <1>1, <2>1, <2>2, <2>3, <2>4, <2>5 DEF Moves, Goes
  <1>2. ASSUME NEW s \in Copies', Tells(s, a) PROVE Arises(a)
    BY <1>0, <1>1, <1>2, CopiesStep
  <1>3. ASSUME NEW job \in Held', job.running = a PROVE Arises(a)
    BY <1>0, <1>3
  <1>4. ASSUME drain'.of = a PROVE Arises(a)
    BY <1>0, <1>4 DEF Delivers, Rests, NoDrain, Statuses
  <1> QED BY <1>2, <1>3, <1>4

\* The memory answers for each attempt that something told of.
LEMMA AnswersMoves ==
  ASSUME TypeOK, OwnerOK, IdsOK, ClosedOK, FreshOK, CompletionOK, AnswersOK, TypeOK',
         Moves, Delivers \/ Rests, NEW a \in Attempts, Arises(a)
  PROVE  AnswersWith(mem.job, mem.reports, a)'
  <1>0. /\ writes \in Seq(Writes) /\ mem \in Copies /\ mem.job.rev \in Nat
        /\ mem.reports \in [Attempts -> Statuses \cup {"none"}]
        /\ Attempts \subseteq Nat /\ nextId \in Nat /\ None \notin Attempts
        /\ revOf \in [Attempts -> Nat]
    BY CopyFacts, JobIds, StoreTypes, JobFields DEF TypeOK
  <1> USE DEF AnswersWith
  <1>1. CASE Claimed /\ a = nextId
    <2>1. revOf'[a] = mem'.job.rev /\ mem'.job.running = a
      BY <1>0, <1>1 DEF Claimed
    <2> QED BY <1>0, <1>1, <2>1 DEF Claimed
  <1>2. CASE ToldOf(a)
    <2>0. /\ AnswersWith(mem.job, mem.reports, a) /\ revOf'[a] = revOf[a]
          /\ Reported(a) => Reported(a)' /\ revOf[a] \in Nat /\ a # nextId
      <3>1. AnswersWith(mem.job, mem.reports, a) /\ a < nextId
        BY <1>2, ToldFacts
      <3>2. Reported(a) => Reported(a)'
        BY DEF Delivers, Rests, Reported
      <3> QED BY <1>0, <3>1, <3>2, ClaimsKeep
    <2>1. CASE Claimed
      BY <1>0, <2>0, <2>1 DEF Claimed
    <2>2. CASE Edited(mem, mem')
      <3>1. CASE mem'.job.rev = mem.job.rev /\ mem'.job.enabled = mem.job.enabled
        BY <2>0, <2>2, <3>1 DEF Edited
      <3>2. CASE mem'.job.rev > mem.job.rev
        <4>1. mem'.job.rev \in Nat
          BY JobFields DEF TypeOK, Stores
        <4> QED BY <1>0, <2>0, <3>2, <4>1
      <3> QED BY <2>2, <3>1, <3>2 DEF Edited
    <2>3. CASE Completed
      BY <2>0, <2>3, CompletedFacts
    <2>4. CASE Closes
      <3>1. PICK status \in Statuses \cup {"none"} :
              /\ mem'.reports = [mem.reports EXCEPT ![mem.job.running] = status]
              /\ status = "none" => mem.job.rev # mem.job.runRev \/ ~mem.job.enabled
        BY <2>4 DEF Closes, Ended
      <3>2. mem'.job.rev = mem.job.rev /\ (mem'.job.enabled => mem.job.enabled)
        BY <2>4 DEF Closes, Ended
      <3>3. CASE a = mem.job.running
        <4>1. mem.job.runRev = revOf[a] /\ mem'.reports[a] = status
          BY <1>0, <3>1, <3>3 DEF AnswersOK
        <4> QED BY <2>0, <3>1, <3>2, <4>1
      <3>4. CASE a # mem.job.running
        <4>1. mem'.reports[a] = mem.reports[a]
          BY <1>0, <3>1, <3>4
        <4> QED BY <2>0, <3>2, <3>4, <4>1
      <3> QED BY <3>3, <3>4
    <2>5. CASE PutsBack
      <3>1. PICK job \in Held :
              /\ mem'.job = job
              /\ mem'.reports = [mem.reports EXCEPT ![job.running] = "none"]
        BY <2>5 DEF PutsBack
      <3>2. AnswersWith(job, mem.reports, a)
        BY <1>2, ToldFacts
      <3>3. job.running = a \/ mem'.reports[a] = mem.reports[a]
        BY <1>0, <3>1
      <3> QED BY <2>0, <3>1, <3>2, <3>3
    <2>6. CASE Acknowledges
      <3>1. a = drain.of => Reported(a)
        BY <2>6 DEF Acknowledges, FreshOK
      <3>2. a # drain.of => mem'.reports[a] = mem.reports[a]
        BY <1>0, <2>6 DEF Acknowledges
      <3> QED BY <2>0, <2>6, <3>1, <3>2 DEF Acknowledges
    <2> QED BY <2>1, <2>2, <2>3, <2>4, <2>5, <2>6 DEF Moves, Goes
  <1> QED BY <1>1, <1>2 DEF Arises

\* So does what may be put back into it.
LEMMA AnswersHeld ==
  ASSUME TypeOK, OwnerOK, IdsOK, ClosedOK, FreshOK, CompletionOK, AnswersOK,
         Moves \/ WriteEnds, Delivers \/ Rests, Held' \subseteq Held \cup {mem.job},
         NEW a \in Attempts, ToldOf(a), NEW job \in Held'
  PROVE  AnswersWith(job, mem.reports, a)'
  <1> USE DEF AnswersWith
  <1>0. /\ mem.reports \in [Attempts -> Statuses \cup {"none"}]
        /\ AnswersWith(job, mem.reports, a) /\ revOf'[a] = revOf[a]
        /\ Reported(a) => Reported(a)'
    <2>1. AnswersWith(job, mem.reports, a) /\ a < nextId
      BY ToldFacts
    <2>2. Reported(a) => Reported(a)'
      BY DEF Delivers, Rests, Reported
    <2> QED BY <2>1, <2>2, JobIds, ClaimsKeep
  <1>1. \/ mem'.reports[a] = mem.reports[a] \/ job.running = a \/ Reported(a)
    <2>1. CASE WriteEnds
      BY <2>1 DEF WriteEnds
    <2>2. CASE Claimed \/ PutsBack
      BY <2>2 DEF Claimed, PutsBack
    <2>3. CASE Edited(mem, mem')
      BY <2>3 DEF Edited
    <2>4. CASE Completed
      BY <2>4, CompletedFacts
    <2>5. CASE Closes
      BY <1>0, <2>5 DEF Closes, Ended
    <2>6. CASE Acknowledges
      <3>1. a = drain.of => Reported(a)
        BY <2>6 DEF Acknowledges, FreshOK
      <3> QED BY <1>0, <2>6, <3>1 DEF Acknowledges
    <2> QED BY <2>1, <2>2, <2>3, <2>4, <2>5, <2>6 DEF Moves, Goes
  <1> QED BY <1>0, <1>1

\* The revision an attempt was claimed for is the one the store says.
LEMMA RevisionsStep ==
  ASSUME TypeOK, OwnerOK, IdsOK, ClosedOK, CompletionOK, AnswersOK,
         Moves \/ WriteEnds \/ Crash, Held' \subseteq Held \cup {mem.job},
         NEW job \in {s.job : s \in Copies'} \cup Held', job.running # None
  PROVE  job.runRev = revOf'[job.running]
  <1>0. /\ writes \in Seq(Writes) /\ mem \in Copies /\ revOf \in [Attempts -> Nat]
        /\ AttemptOrNone = Attempts \cup {None}
    BY CopyFacts, JobIds DEF TypeOK
  <1> DEFINE Jobs0 == {s.job : s \in Copies} \cup Held
  <1>1. ASSUME NEW j \in Jobs0, j.running # None PROVE j.runRev = revOf'[j.running]
    <2>1. j.running \in Attempts /\ j.running < nextId
      BY <1>0, <1>1, CopySafe, JobIds, JobFields DEF Safe, Named
    <2>2. j.runRev = revOf[j.running]
      BY <1>1 DEF AnswersOK
    <2> QED BY <2>1, <2>2, ClaimsKeep
  <1>2. ASSUME Moves, mem'.job.running # None PROVE mem'.job.runRev = revOf'[mem'.job.running]
    <2>0. mem.job \in Jobs0
      BY <1>0
    <2>1. CASE Claimed
      BY <1>0, <2>1 DEF Claimed
    <2>2. CASE Edited(mem, mem') \/ Acknowledges
      BY <1>1, <1>2, <2>0, <2>2 DEF Edited, Acknowledges
    <2>3. CASE Completed
      BY <1>1, <1>2, <2>0, <2>3, CompletedFacts
    <2>4. CASE Closes
      BY <1>2, <2>4 DEF Closes, Ended
    <2>5. CASE PutsBack
      BY <1>1, <1>2, <2>5 DEF PutsBack
    <2> QED BY <1>2, <2>1, <2>2, <2>3, <2>4, <2>5 DEF Moves, Goes
  <1>3. job \in Jobs0 \/ (Moves /\ job = mem'.job)
    BY <1>0, CopiesStep
  <1> QED BY <1>1, <1>2, <1>3

LEMMA AnswersStep ==
  ASSUME TypeOK, OwnerOK, IdsOK, ClosedOK, FreshOK, CompletionOK, AnswersOK, TypeOK',
         Moves \/ WriteEnds \/ Crash, Held' \subseteq Held \cup {mem.job},
         Delivers \/ Rests
  PROVE  AnswersOK'
  <1>0. /\ writes \in Seq(Writes) /\ mem \in Copies /\ disk \in Copies
        /\ mem' \in Copies' /\ <<disk, disk>> \in Successions /\ mem' \in Stores
        /\ \A a \in Attempts : Reported(a) => Reported(a)'
    <2>1. \A a \in Attempts : Reported(a) => Reported(a)'
      BY DEF Delivers, Rests, Reported
    <2> QED BY <2>1, CopyFacts, CopiesOrderedNext DEF TypeOK, Ordered
  <1>1. \A job \in {s.job : s \in Copies'} \cup Held' :
           job.running # None => job.runRev = revOf'[job.running]
    BY RevisionsStep
  <1>2. ASSUME NEW p \in Successions', NEW a \in Attempts, Tells(p[1], a)
        PROVE  Answers(p[2], a)'
    <2>1. ASSUME NEW q \in Successions, p[1] = q[1], p[2] = q[2]
          PROVE  Answers(p[2], a)'
      <3>1. Answers(p[2], a)
        BY <1>2, <2>1 DEF AnswersOK
      <3>2. ToldOf(a)
        <4>1. q[1] \in Copies
          BY <1>0, CopyFacts
        <4> QED BY <1>2, <2>1, <4>1 DEF ToldOf
      <3>3. revOf'[a] = revOf[a]
        BY <3>2, ToldFacts, ClaimsKeep
      <3> QED BY <1>0, <3>1, <3>3 DEF Answers, Accounted, Reported
    <2>2. CASE Moves
      <3>1. CASE p[1] \in Copies \cup {mem'} /\ p[2] = mem'
        <4>1. Arises(a)
          <5>1. CASE p[1] \in Copies
            BY <1>2, <5>1 DEF Arises, ToldOf
          <5>2. CASE p[1] = mem'
            <6>1. ToldOf(a)'
              BY <1>0, <1>2, <5>2 DEF ToldOf, Tells
            <6> QED BY <6>1, ToldStep
          <5> QED BY <3>1, <5>1, <5>2
        <4>2. Answers(mem, a)'
          BY <1>0, <2>2, <4>1, AnswersMoves, AnswersPartsNext
        <4> QED BY <3>1, <4>2 DEF Answers, Accounted
      <3> QED BY <1>0, <2>1, <2>2, <3>1, SetCopies DEF Moves
    <2>3. CASE WriteEnds
      BY <1>0, <2>1, <2>3, WriteCopies
    <2>4. CASE Crash
      <3>1. p[1] = <<disk, disk>>[1] /\ p[2] = <<disk, disk>>[2]
        BY <2>4, CrashCopies
      <3> QED BY <1>0, <2>1, <3>1
    <2> QED BY <2>2, <2>3, <2>4
  <1>3. ASSUME NEW a \in Attempts, ToldOf(a)'
        PROVE  /\ Answers(mem, a)'
               /\ \A job \in Held' : Answers([mem EXCEPT !.job = job], a)'
    <2>1. Arises(a)
      BY <1>3, ToldStep
    <2>2. Answers(mem, a)'
      <3>1. CASE Moves
        BY <1>0, <2>1, <3>1, AnswersMoves, AnswersPartsNext
      <3>2. CASE WriteEnds
        <4>1. ToldOf(a) /\ UNCHANGED <<mem, claimVars>>
          BY <2>1, <3>2 DEF Arises, Claimed, WriteEnds, claimVars, TypeOK
        <4>2. Answers(mem, a)
          BY <4>1 DEF AnswersOK, ToldOf
        <4> QED BY <1>0, <4>1, <4>2 DEF Answers, Accounted, Reported, claimVars
      <3>3. CASE Crash
        <4>1. drain'.of # a
          BY <3>3, CrashFrame, JobIds
        <4>2. Tells(mem', a)
          BY <1>3, <3>3, <4>1, CrashFrame, CrashCopies DEF ToldOf, Tells
        <4>3. <<mem', mem'>> \in Successions'
          BY <1>0, CopiesOrderedNext DEF TypeOK, Ordered
        <4>4. PICK p \in Successions' : p[1] = mem' /\ p[2] = mem'
          BY <4>3
        <4>5. Answers(p[2], a)'
          BY <1>2, <4>2, <4>4
        <4> QED BY <4>4, <4>5 DEF Answers, Accounted
      <3> QED BY <3>1, <3>2, <3>3
    <2>3. ASSUME NEW job \in Held' PROVE Answers([mem EXCEPT !.job = job], a)'
      <3>1. ~Crash /\ ~Claimed
        BY <2>3, CrashFrame DEF Claimed
      <3>2. ToldOf(a)
        BY <2>1, <3>1 DEF Arises
      <3>3. AnswersWith(job, mem.reports, a)'
        BY <3>1, <3>2, AnswersHeld
      <3> QED BY <1>0, <3>3, AnswersPartsNext
    <2> QED BY <2>2, <2>3
  <1> QED BY <1>1, <1>2, <1>3 DEF AnswersOK, ToldOf

(***************************************************************************)
(* Retried attempts.                                                       *)
(***************************************************************************)
\* Only the end of a mark dispatches an effect.
LEMMA DispatchStep ==
  ASSUME TypeOK, OwnerOK, [Next]_vars
  PROVE  \/ UNCHANGED dispatched
         \/ /\ MarkEnds /\ engine.pc = "marking" /\ engine'.pc = "running"
            /\ engine'.of = engine.of /\ dispatched' = dispatched \cup {engine.of}
            /\ UNCHANGED <<claimVars, proven, delivered>>
  <1>1. CASE Claim
    BY <1>1 DEF Claim
  <1>2. CASE MarkEnds
    <2>1. UNCHANGED <<proven, delivered>>
      BY <1>2 DEF MarkEnds, EngineOnly
    <2> QED BY <1>2, <2>1, MarkEndsShape
  <1> QED BY <1>1, <1>2, EngineFrame

\* Nothing is reported as retried after its effect.
LEMMA RetriesStep ==
  ASSUME TypeOK, OwnerOK, ClosedOK, RetriesOK, CompletionOK', [Next]_vars,
         Moves \/ WriteEnds \/ Crash, Delivers \/ Rests
  PROVE  RetriesOK'
  <1>0. /\ writes \in Seq(Writes) /\ mem \in Copies /\ dispatched \subseteq Attempts
        /\ Copies' \subseteq Copies \cup {mem'}
        /\ WriteEnds \/ Crash => mem' \in Copies
    BY CopyFacts, CopiesStep DEF TypeOK
  <1>1. ASSUME NEW a \in dispatched', a \notin dispatched
        PROVE  /\ \A s \in Copies' : s.reports[a] # "retrying"
               /\ <<a, "retrying">> \notin delivered' /\ drain'.of # a
    <2>1. engine'.pc \in Early /\ engine'.of = a
      BY <1>1, DispatchStep DEF Early
    <2>2. /\ \A s \in Copies' : s.reports[a] = "none"
          /\ ~Reported(engine.of)' /\ drain'.of # a
      BY <2>1 DEF CompletionOK
    <2> QED BY <2>1, <2>2 DEF Reported, Statuses
  <1>2. ASSUME NEW a \in dispatched
        PROVE  /\ \A s \in Copies' : s.reports[a] # "retrying"
               /\ <<a, "retrying">> \notin delivered'
               /\ drain'.of = a => drain'.status # "retrying"
    <2>0. /\ a \in Attempts /\ mem.reports[a] # "retrying"
          /\ <<a, "retrying">> \notin delivered
          /\ drain.of = a => drain.status # "retrying"
      BY <1>0 DEF RetriesOK
    <2>1. mem'.reports[a] # "retrying"
      <3>1. CASE Claimed \/ Edited(mem, mem') \/ Completed
        BY <2>0, <3>1, StoreTypes DEF Claimed, Edited, Completed, Stores
      <3>2. CASE Closes
        <4>1. CASE a = mem.job.running
          BY <3>2, <4>1 DEF Closes
        <4>2. CASE a # mem.job.running
          BY <2>0, <3>2, <4>2, JobIds DEF Closes, Ended
        <4> QED BY <4>1, <4>2
      <3>3. CASE PutsBack
        BY <2>0, <3>3, JobIds DEF PutsBack
      <3>4. CASE Acknowledges
        BY <2>0, <3>4, JobIds DEF Acknowledges
      <3>5. CASE mem' \in Copies
        BY <3>5 DEF RetriesOK
      <3> QED BY <1>0, <3>1, <3>2, <3>3, <3>4, <3>5 DEF Moves, Goes
    <2>2. <<a, "retrying">> \notin delivered' /\ (drain'.of = a => drain'.status # "retrying")
      <3>1. CASE Delivers
        BY <2>0, <3>1 DEF Delivers
      <3>2. CASE Rests
        BY <2>0, <3>2, JobIds DEF Rests, NoDrain
      <3> QED BY <3>1, <3>2
    <2> QED BY <1>0, <2>1, <2>2 DEF RetriesOK
  <1> QED BY <1>1, <1>2 DEF RetriesOK

(***************************************************************************)
(* The theorems.                                                           *)
(***************************************************************************)
LEMMA InitOutcomes ==
  ASSUME Init
  PROVE  FreshOK /\ CompletionOK /\ RecordsOK /\ RetriesOK /\ AnswersOK
  <1>1. /\ engine.pc = "idle" /\ Held = {} /\ drain.of = None /\ drain.pc = "idle"
        /\ proven = {} /\ delivered = {} /\ nextId = 1
    BY EngineStops DEF Init, Held, NoRecovery, NoDrain
  <1>2. mem = NewStore /\ disk = NewStore /\ \A i : Stage(i) = NewStore
    BY DEF Init, Stage
  <1>3. Copies \subseteq {NewStore}
    BY <1>2 DEF Copies
  <1>4. \A p \in Successions : p[1] = NewStore /\ p[2] = NewStore
    BY <1>2 DEF Successions
  <1>5. /\ NewStore.job.done = FALSE /\ NewStore.job.running = None
        /\ \A a \in Attempts : NewStore.reports[a] = "none"
    BY DEF NewStore, NewJob
  <1>6. Attempts \subseteq Nat /\ None \notin Attempts /\ \A a \in Attempts : a # None
    BY DEF Attempts, None
  <1>7. FreshOK
    BY <1>1, <1>3, <1>5 DEF FreshOK, Reported, None
  <1>8. CompletionOK
    BY <1>1, <1>3, <1>5 DEF CompletionOK, Early
  <1>9. RecordsOK
    BY <1>1, <1>2, <1>3, <1>4, <1>5 DEF RecordsOK, Recorded, RecordedBy
  <1>10. AnswersOK
    BY <1>1, <1>2, <1>3, <1>4, <1>5, <1>6 DEF AnswersOK, Tells
  <1>11. RetriesOK
    BY DEF Init, RetriesOK
  <1> QED BY <1>7, <1>8, <1>9, <1>10, <1>11

\* What every step is, under the invariant.
LEMMA OutcomeStep ==
  ASSUME AttemptsInv, [Next]_vars
  PROVE  /\ Moves \/ WriteEnds \/ Crash
         /\ Delivers \/ Rests
         /\ EnginePhases /\ Held' \subseteq Held \cup {mem.job}
  <1>1. TypeOK /\ LockOK /\ BootOK /\ OwnerOK /\ ClosedOK /\ EngineOK /\ CompletionOK
    BY DEF AttemptsInv, ReplayInv
  <1>2. EnginePhases /\ RecoveryPhases
    BY <1>1, PhaseStep, RecoveryStep
  <1> QED BY <1>1, <1>2, MoveStep, DrainStep, HeldStep

LEMMA StepOutcomes == AttemptsInv /\ [Next]_vars => AttemptsInv'
  <1> SUFFICES ASSUME AttemptsInv, [Next]_vars PROVE AttemptsInv'
    OBVIOUS
  <1>0. /\ ReplayInv /\ TypeOK /\ LockOK /\ OwnerOK /\ IdsOK /\ ClosedOK
        /\ FreshOK /\ CompletionOK /\ RecordsOK /\ RetriesOK /\ AnswersOK
    BY DEF AttemptsInv, ReplayInv
  <1>1. /\ Moves \/ WriteEnds \/ Crash
        /\ Delivers \/ Rests
        /\ EnginePhases /\ Held' \subseteq Held \cup {mem.job}
    BY OutcomeStep
  <1>2. ReplayInv' /\ TypeOK' /\ OwnerOK'
    BY <1>0, StepInv DEF ReplayInv
  <1>3. FreshOK'
    BY <1>0, <1>1, FreshStep
  <1>4. CompletionOK'
    BY <1>0, <1>1, CompletionStep
  <1>5. RecordsOK'
    BY <1>0, <1>1, <1>2, RecordsStep
  <1>6. AnswersOK'
    BY <1>0, <1>1, <1>2, AnswersStep
  <1>7. RetriesOK'
    BY <1>0, <1>1, <1>4, RetriesStep
  <1> QED BY <1>2, <1>3, <1>4, <1>5, <1>6, <1>7 DEF AttemptsInv

\* The whole invariant holds of every reachable state: the one that rules a replay out,
\* and what each copy of the store, the disk, a queued write or the memory, keeps of
\* the outputs and the attempts that the copies before it tell of.
THEOREM AttemptsInvariant == Spec => []AttemptsInv
  <1>1. Init => AttemptsInv
    BY InitInv, InitOutcomes DEF AttemptsInv
  <1> QED BY <1>1, StepOutcomes, PTL DEF Spec

\* An attempt whose output was recorded on disk stays a success: its occurrence is not
\* executed again and no other outcome is reported, whichever write fails, settlement
\* is taken back or process dies in between.
THEOREM AttemptsProvenIsSuccess == Spec => []ProvenIsSuccess
  <1>1. AttemptsInv => ProvenIsSuccess
    <2> SUFFICES ASSUME AttemptsInv, NEW a \in proven
                 PROVE  /\ NotRetried(a) /\ mem.reports[a] \in {"none", "success"}
                        /\ \A status \in Statuses :
                              <<a, status>> \in delivered => status = "success"
      BY DEF ProvenIsSuccess
    <2>1. TypeOK /\ RecordsOK
      BY DEF AttemptsInv, ReplayInv
    <2>2. a \in Attempts /\ Recorded(a)
      <3>1. a \in 1 .. nextId - 1 /\ nextId \in 1 .. MaxAttempts + 1
        BY <2>1 DEF RecordsOK, TypeOK
      <3> QED BY <3>1, AttemptsAssumption DEF Attempts, Recorded
    <2> QED BY <2>1, <2>2 DEF RecordsOK, Kept
  <1> QED BY <1>1, AttemptsInvariant, PTL

\* A write that reaches the disk, or a restart from it, makes no attempt vanish: what
\* was claimed still runs there, has a report or had one, unless the user changed or
\* disabled the job.
THEOREM AttemptsNothingVanishes == Spec => NothingVanishes
  <1> DEFINE Stays == \A a \in Attempts :
                Accounted(disk, a) =>
                   Accounted(disk, a)' \/ disk'.job.rev # revOf[a] \/ ~disk'.job.enabled
  <1>1. AttemptsInv /\ [Next]_vars => [Stays]_vars
    <2> SUFFICES ASSUME AttemptsInv, [Next]_vars, NEW a \in Attempts, Accounted(disk, a)
                 PROVE  Accounted(disk, a)' \/ disk'.job.rev # revOf[a] \/ ~disk'.job.enabled
      OBVIOUS
    <2>0. TypeOK /\ AnswersOK /\ writes \in Seq(Writes)
      BY DEF AttemptsInv, ReplayInv, TypeOK
    <2>1. /\ Moves \/ WriteEnds \/ Crash
          /\ Reported(a) => Reported(a)'
      BY OutcomeStep DEF Delivers, Rests, Reported
    <2>2. CASE disk' = disk
      BY <2>1, <2>2 DEF Accounted, Reported
    <2>3. CASE disk' # disk
      <3>1. WriteEnds
        BY <2>1, <2>3 DEF Moves, Crash
      <3>2. disk' \in Copies /\ UNCHANGED <<claimVars, delivered>>
        <4>1. disk' \in Copies'
          BY <2>0, CopiesOrderedNext, StepOutcomes DEF AttemptsInv, ReplayInv, TypeOK, Ordered
        <4> QED BY <2>0, <3>1, <4>1, WriteCopies DEF WriteEnds
      <3>3. CASE Reported(a)
        BY <2>1, <3>3 DEF Accounted, Reported
      <3>4. CASE Tells(disk, a)
        <4>1. PICK p \in Successions : p[1] = disk /\ p[2] = disk'
          BY <2>0, <3>2, CopyFacts
        <4>2. Answers(disk', a)
          BY <2>0, <3>4, <4>1 DEF AnswersOK
        <4> QED BY <3>2, <4>2 DEF Answers, Accounted
      <3> QED BY <3>3, <3>4 DEF Accounted, Tells, Reported
    <2> QED BY <2>2, <2>3
  <1> HIDE DEF Stays
  <1>2. Spec => [][Stays]_vars
    BY <1>1, AttemptsInvariant, PTL DEF Spec
  <1> QED BY <1>2 DEF NothingVanishes, Stays

(***************************************************************************)
(* The scheduler implements its promise.                                   *)
(***************************************************************************)
\* A claim takes up an occurrence that is not over.
LEMMA ClaimImplements ==
  ASSUME AttemptsInv, AttemptsInv', Claim
  PROVE  Occurrences!Next
  <1> DEFINE occ == mem'.job.occ
  <1>0. /\ TypeOK /\ OwnerOK /\ IdsOK /\ ClosedOK /\ RecordsOK /\ IdsOK'
        /\ nextId \in Attempts /\ nextId' = nextId + 1 /\ nextId \in Nat
        /\ mem.job.running = None /\ mem.job \in Safe
        /\ UNCHANGED <<dispatched, proven, delivered>>
    BY JobIds DEF AttemptsInv, ReplayInv, Claim, EngineOnly
  <1>1. /\ occOf' = [occOf EXCEPT ![nextId] = occ]
        /\ occ = IF mem.job.retryOcc = None THEN nextId ELSE mem.job.retryOcc
    BY <1>0, ClaimShape
  <1> HIDE DEF occ
  <1>2. occ \in 1 .. nextId
    <2>1. occOf'[nextId] = occ
      BY <1>0, <1>1, IdFacts
    <2>2. nextId < nextId'
      BY <1>0
    <2> QED BY <1>0, <2>1, <2>2 DEF IdsOK
  <1>3. ASSUME NEW a \in dispatched \cup proven PROVE occOf[a] # occ
    <2>1. CASE a \in dispatched
      <3>1. a \in Attempts /\ a # None /\ a < nextId /\ occOf[a] \in 1 .. a
        BY <1>0, <2>1, IdFacts
      <3>2. occOf[a] # mem.job.retryOcc
        BY <1>0, <2>1, <3>1 DEF Safe, Closed
      <3> QED BY <1>0, <1>1, <3>1, <3>2, IdFacts
    <2>2. CASE a \in proven
      <3>1. a \in Attempts /\ Recorded(a)
        BY <1>0, <2>2, AttemptsAssumption DEF RecordsOK, TypeOK, Attempts, Recorded
      <3>2. occOf[a] # nextId /\ Kept(mem, a) /\ a # None
        BY <1>0, <3>1, RecordedFacts, JobIds
      <3> QED BY <1>0, <1>1, <3>2 DEF Kept, KeptIn
    <2> QED BY <2>1, <2>2
  <1>4. \A b \in Attempts : occOf[b] # 0 <=> b < nextId
    BY <1>0, IdFacts
  <1>5. Occurrences!Claim(nextId, occ)
    BY <1>0, <1>1, <1>3, <1>4
       DEF Occurrences!Claim, Occurrences!Claimed, Occurrences!Over,
           Occurrences!Attempts, Attempts
  <1> QED BY <1>0, <1>2, <1>5 DEF Occurrences!Next, Occurrences!Attempts, Attempts

\* Only the last attempt acts, and before its outcome is known to anyone.
LEMMA MarkImplements ==
  ASSUME AttemptsInv, MarkEnds, dispatched' # dispatched
  PROVE  Occurrences!Next
  <1>0. TypeOK /\ OwnerOK /\ IdsOK /\ ClosedOK /\ CompletionOK /\ RecordsOK
    BY DEF AttemptsInv, ReplayInv
  <1>1. /\ engine.pc = "marking" /\ dispatched' = dispatched \cup {engine.of}
        /\ UNCHANGED <<claimVars, proven, delivered>>
    BY <1>0, MarkEndsShape DEF MarkEnds, EngineOnly
  <1>2. /\ engine.of \in Attempts /\ mem.job.running = engine.of
        /\ ~mem.job.done /\ ~Reported(engine.of) /\ engine.of = nextId - 1
        /\ nextId \in Nat
    BY <1>0, <1>1, EarlyFacts, JobIds DEF Early, CompletionOK, IdsOK
  <1>3. engine.of \notin proven
    <2>1. Recorded(engine.of) => Kept(mem, engine.of)
      BY <1>0, <1>2 DEF RecordsOK
    <2> QED BY <1>2, <2>1 DEF Recorded, Kept, KeptIn
  <1>4. occOf[engine.of] # 0 /\ \A b \in Attempts : occOf[b] # 0 => b <= engine.of
    BY <1>0, <1>2, IdFacts
  <1>5. Occurrences!Act(engine.of)
    BY <1>1, <1>2, <1>3, <1>4
       DEF Occurrences!Act, Occurrences!Last, Occurrences!Claimed, Occurrences!Untold,
           Occurrences!Attempts, Occurrences!Statuses, Attempts, Statuses, Reported,
           claimVars
  <1> QED BY <1>2, <1>5 DEF Occurrences!Next, Occurrences!Attempts, Attempts

\* What is recorded is the last attempt at its occurrence, told of as nothing else.
LEMMA WriteImplements ==
  ASSUME AttemptsInv, WriteEnds, proven' # proven
  PROVE  Occurrences!Next
  <1>0. /\ TypeOK /\ OwnerOK /\ IdsOK /\ ClosedOK /\ CompletionOK /\ RecordsOK
        /\ writes \in Seq(Writes) /\ writes # <<>>
    BY DEF AttemptsInv, ReplayInv, TypeOK, WriteEnds
  <1> DEFINE s == Head(writes).state
             a == s.job.running
  <1>1. /\ s.job.done /\ proven' = proven \cup {a}
        /\ UNCHANGED <<claimVars, dispatched, delivered>>
    BY DEF WriteEnds
  <1>2. s \in Copies
    <2>1. 1 \in DOMAIN writes /\ s = writes[1].state /\ 1 \in Stages
      BY <1>0 DEF Stages
    <2> QED BY <2>1 DEF Copies, Stage
  <1> HIDE DEF s
  <1>3. a \in Attempts /\ Recorded(a)
    <2>1. a # None /\ s \in Stores
      BY <1>0, <1>1, <1>2, CopySafe DEF CompletionOK
    <2>2. a \in AttemptOrNone
      BY <2>1, JobFields DEF Stores
    <2> QED BY <1>0, <1>1, <1>2, <2>1, <2>2, JobIds DEF Recorded, RecordedBy
  <1> HIDE DEF a
  <1>4. /\ occOf[a] # 0 /\ NotRetried(a)
        /\ \A status \in Statuses : <<a, status>> \in delivered => status = "success"
    BY <1>0, <1>3, RecordedFacts DEF RecordsOK, None
  <1>5. Occurrences!Record(a)
    BY <1>1, <1>4
       DEF Occurrences!Record, Occurrences!LastAtIt, Occurrences!Claimed, NotRetried,
           Occurrences!Attempts, Occurrences!Statuses, Attempts, Statuses, claimVars
  <1> QED BY <1>3, <1>5 DEF Occurrences!Next, Occurrences!Attempts, Attempts

\* A report contradicts neither the record nor the effects of its attempt.
LEMMA DeliverImplements ==
  ASSUME AttemptsInv, Deliver
  PROVE  Occurrences!Next
  <1>0. /\ TypeOK /\ OwnerOK /\ IdsOK /\ ClosedOK /\ FreshOK /\ RecordsOK /\ RetriesOK
        /\ mem \in Copies
    BY CopyFacts DEF AttemptsInv, ReplayInv, TypeOK
  <1>1. PICK a \in Attempts :
          mem.reports[a] # "none" /\ delivered' = delivered \cup {<<a, mem.reports[a]>>}
    BY DEF Deliver
  <1>2. UNCHANGED <<claimVars, dispatched, proven>> /\ mem.reports[a] \in Statuses
    BY <1>0, <1>1, JobIds DEF Deliver, DrainOnly
  <1>3. occOf[a] # 0
    <2>1. a < nextId
      BY <1>0, <1>1, JobIds DEF FreshOK
    <2> QED BY <1>0, <2>1, IdFacts
  <1>4. a \in proven => mem.reports[a] = "success"
    BY <1>0, <1>2, RecordedFacts DEF Recorded
  <1>5. a \in dispatched => mem.reports[a] # "retrying"
    BY <1>0 DEF RetriesOK
  <1>6. Occurrences!Report(a, mem.reports[a])
    BY <1>1, <1>2, <1>3, <1>4, <1>5
       DEF Occurrences!Report, Occurrences!Claimed, claimVars
  <1> QED BY <1>1, <1>2, <1>6
          DEF Occurrences!Next, Occurrences!Attempts, Occurrences!Statuses, Attempts,
              Statuses

\* The scheduler implements what it promises to the world outside: an occurrence is
\* attempted again only while no attempt at it had an effect or has its output on
\* record, only the last attempt acts, and no report contradicts the record or the
\* effects of its attempt.
THEOREM AttemptsImplementOccurrences == Spec => ImplementsOccurrences
  <1>1. Init => Occurrences!Init
    BY DEF Init, Occurrences!Init, Occurrences!Attempts, Attempts, None
  <1>2. AttemptsInv /\ AttemptsInv' /\ [Next]_vars => [Occurrences!Next]_(Occurrences!vars)
    <2> SUFFICES ASSUME AttemptsInv, AttemptsInv', [Next]_vars
                 PROVE  Occurrences!Next \/ UNCHANGED <<occOf, dispatched, proven, delivered>>
      BY DEF Occurrences!vars
    <2>0. TypeOK /\ OwnerOK
      BY DEF AttemptsInv, ReplayInv
    <2>1. CASE Claim
      BY <2>1, ClaimImplements
    <2>2. CASE MarkEnds
      <3>1. UNCHANGED <<claimVars, proven, delivered>>
        BY <2>0, <2>2, MarkEndsShape DEF MarkEnds, EngineOnly
      <3> QED BY <2>2, <3>1, MarkImplements DEF claimVars
    <2>3. CASE WriteEnds
      <3>1. UNCHANGED <<claimVars, dispatched, delivered>>
        BY <2>3 DEF WriteEnds
      <3> QED BY <2>3, <3>1, WriteImplements DEF claimVars
    <2>4. CASE Deliver
      BY <2>4, DeliverImplements
    <2>5. CASE ~(Claim \/ MarkEnds \/ WriteEnds \/ Deliver)
      <3>1. UNCHANGED <<occOf, dispatched>>
        BY <2>0, <2>5, EngineFrame
      <3>2. UNCHANGED proven
        BY <2>5, OutcomeStep, CrashFrame DEF Moves
      <3>3. UNCHANGED delivered
        BY <2>0, <2>5, DrainStep DEF Rests
      <3> QED BY <3>1, <3>2, <3>3
    <2> QED BY <2>1, <2>2, <2>3, <2>4, <2>5
  <1> QED BY <1>1, <1>2, AttemptsInvariant, PTL
          DEF Spec, ImplementsOccurrences, Occurrences!Spec
=============================================================================
