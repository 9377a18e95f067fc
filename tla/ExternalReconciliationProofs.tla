--------------------- MODULE ExternalReconciliationProofs ---------------------
(***************************************************************************)
(* Proofs about ExternalReconciliation, for any provider, any attempts and *)
(* tool calls, and any bounds: ReconciliationInv is an invariant; fences   *)
(* are exclusive, a snapshot is settled once, a closed run is final, and   *)
(* the journal implements the register of an observed operation.           *)
(***************************************************************************)
EXTENDS ExternalReconciliation, TLAPS

\* The parts of the invariant that speak of one attempt, in terms of its record.
AttemptOK(a) ==
    /\ a.pc # "idle" => a.generation > 0 /\ a.generation <= journal.generation
    /\ a.pc \in {"claimed", "inspected"} =>
           /\ a.expected \in Unresolved
           /\ journal.generation = a.generation => a.expected = journal.handle
    /\ a.pc = "inspected" =>
           /\ a.disposition # "none"
           /\ a.disposition = "completed" <=> a.seen \in Outcomes
           /\ a.disposition = "blocked" => a.seen \in {"none", a.expected}

FenceOK(r, a) ==
    spent.slow = 0 /\ a.pc \in {"fenced", "claimed", "inspected"} =>
        /\ dispatches[a.generation].state # "none"
        /\ dispatches[a.generation].fence = r
        /\ ~dispatches[a.generation].expired

SeenOK(a) == a.seen \in Outcomes => a.seen = remote

DispatchOK(g) ==
    /\ dispatches[g].state # "none" => g <= journal.generation /\ g > 0
    /\ dispatches[g].state \in Settled => g < journal.generation

SpentTypeOK == spent \in [checks : 0 .. MaxChecks, slow : 0 .. MaxSlow, crashes : 0 .. MaxCrashes]

\* The invariant in these terms.
LEMMA InTerms ==
  /\ AttemptsOK <=> \A r \in Reconcilers : AttemptOK(reconciler[r])
  /\ FencesOK <=> \A r \in Reconcilers : FenceOK(r, reconciler[r])
  /\ DispatchesOK <=> \A g \in Generations : DispatchOK(g)
  /\ OutcomesAreTrue <=>
       /\ journal.handle \in Outcomes => journal.handle = remote
       /\ \A o \in Observers : SeenOK(observer[o])
       /\ \A r \in Reconcilers : SeenOK(reconciler[r])
<1>1. AttemptsOK <=> \A r \in Reconcilers : AttemptOK(reconciler[r])
  BY DEF AttemptsOK, AttemptOK, IsCurrent
<1>2. FencesOK <=> \A r \in Reconcilers : FenceOK(r, reconciler[r])
  BY DEF FencesOK, FenceOK
<1>3. DispatchesOK <=> \A g \in Generations : DispatchOK(g)
  BY DEF DispatchesOK, DispatchOK
<1> QED BY <1>1, <1>2, <1>3 DEF OutcomesAreTrue, SeenOK

\* An attempt that knows its generation claims nothing else.
LEMMA FreshFacts ==
  ASSUME NEW pc \in {"scheduled", "deferred", "fenced"}, NEW g \in Generations,
         g > 0, g <= journal.generation
  PROVE  /\ AttemptAt(pc, g) \in Attempts
         /\ AttemptOK(AttemptAt(pc, g)) /\ SeenOK(AttemptAt(pc, g))
         /\ AttemptAt(pc, g).pc = pc /\ AttemptAt(pc, g).generation = g
         /\ \A r : pc # "fenced" => FenceOK(r, AttemptAt(pc, g))
<1>1. AttemptAt(pc, g) \in Attempts
  BY DEF AttemptAt, Attempts
<1> QED BY <1>1 DEF AttemptAt, AttemptOK, SeenOK, FenceOK, Outcomes

\* An attempt that is not under way claims nothing.
LEMMA IdleIsOK ==
  /\ Idle \in Attempts /\ AttemptOK(Idle) /\ SeenOK(Idle) /\ Idle.pc = "idle"
  /\ \A r : FenceOK(r, Idle)
<1>1. Idle \in Attempts
  BY ReconciliationAssumption DEF Idle, AttemptAt, Attempts, Generations, ReconciliationAssumption
<1> QED BY <1>1 DEF Idle, AttemptAt, AttemptOK, SeenOK, FenceOK, Outcomes

\* The first state: nothing is known of the operation.
LEMMA InitInv == Init => ReconciliationInv
<1> SUFFICES ASSUME Init PROVE ReconciliationInv
  OBVIOUS
<1> USE ReconciliationAssumption
<1>1. NoRun \in Journals
  BY DEF NoRun, Journals, Generations, ReconciliationAssumption
<1>2. NoDispatch \in Dispatches
  BY DEF NoDispatch, Dispatches
<1>3. TypeOK
  <2>1. remote \in RemoteStates /\ journal \in Journals /\ due \in BOOLEAN
    BY <1>1 DEF Init, ReconciliationAssumption
  <2>2. dispatches \in [Generations -> Dispatches] /\ reconciler \in [Reconcilers -> Attempts]
    BY <1>2, IdleIsOK DEF Init
  <2>3. observer \in [Observers -> Observations] /\ SpentTypeOK
    BY DEF Init, Observations, SpentTypeOK, ReconciliationAssumption
  <2> QED BY <2>1, <2>2, <2>3 DEF TypeOK, SpentTypeOK
<1>4. RecordsAgree
  BY DEF Init, RecordsAgree, Closed, NoRun, Outcomes
<1>5. OutcomesAreTrue /\ DispatchesOK
  BY DEF Init, OutcomesAreTrue, DispatchesOK, NoRun, NoDispatch, Idle, AttemptAt, Outcomes, Settled
<1>6. AttemptsOK /\ FencesOK
  BY DEF Init, AttemptsOK, FencesOK, Idle, AttemptAt
<1> QED BY <1>3, <1>4, <1>5, <1>6 DEF ReconciliationInv

(***************************************************************************)
(* Steps of an attempt that write nothing.                                 *)
(***************************************************************************)
\* An attempt moves to a; the tables stay.
LEMMA AttemptMoves ==
  ASSUME ReconciliationInv, NEW r \in Reconcilers, NEW a \in Attempts,
         reconciler' = [reconciler EXCEPT ![r] = a],
         UNCHANGED <<remote, journal, due, dispatches, observer>>,
         SpentTypeOK', spent'.slow = spent.slow,
         AttemptOK(a), FenceOK(r, a), SeenOK(a)
  PROVE  ReconciliationInv'
<1>1. /\ TypeOK /\ reconciler \in [Reconcilers -> Attempts]
      /\ \A q \in Reconcilers : AttemptOK(reconciler[q]) /\ FenceOK(q, reconciler[q]) /\ SeenOK(reconciler[q])
      /\ \A q \in Reconcilers : reconciler'[q] = IF q = r THEN a ELSE reconciler[q]
  BY InTerms DEF ReconciliationInv, TypeOK
<1>2. TypeOK'
  BY <1>1 DEF TypeOK, SpentTypeOK
<1>3. RecordsAgree' /\ DispatchesOK'
  BY DEF ReconciliationInv, RecordsAgree, DispatchesOK, Closed
<1>4. AttemptsOK'
  <2>1. \A b : AttemptOK(b) <=> AttemptOK(b)'
    BY DEF AttemptOK
  <2> QED BY <1>1, <2>1 DEF AttemptsOK, AttemptOK, IsCurrent
<1>5. FencesOK'
  BY <1>1 DEF FencesOK, FenceOK
<1>6. OutcomesAreTrue'
  BY <1>1, InTerms DEF ReconciliationInv, OutcomesAreTrue, SeenOK
<1> QED BY <1>2, <1>3, <1>4, <1>5, <1>6 DEF ReconciliationInv

\* What the invariant knows of an attempt.
LEMMA AttemptFacts ==
  ASSUME ReconciliationInv, NEW r \in Reconcilers
  PROVE  /\ reconciler[r] \in Attempts
         /\ reconciler \in [Reconcilers -> Attempts]
         /\ AttemptOK(reconciler[r]) /\ FenceOK(r, reconciler[r]) /\ SeenOK(reconciler[r])
         /\ reconciler[r].generation \in Generations
         /\ SpentTypeOK /\ journal \in Journals
         /\ journal.generation \in Nat
  BY InTerms, ReconciliationAssumption
     DEF ReconciliationInv, TypeOK, SpentTypeOK, Attempts, Journals, Generations, ReconciliationAssumption

\* The bounds are kept.
LEMMA SpentFacts ==
  ASSUME ReconciliationInv
  PROVE  SpentTypeOK /\ spent.slow \in 0 .. MaxSlow
  BY DEF ReconciliationInv, TypeOK, SpentTypeOK

\* An attempt that gives up.
LEMMA DeferInv ==
  ASSUME ReconciliationInv, NEW r \in Reconcilers, ~At(r, "idle"), Defer(r),
         UNCHANGED <<remote, journal, due, dispatches, observer, spent>>
  PROVE  ReconciliationInv'
<1> DEFINE a == AttemptAt("deferred", reconciler[r].generation)
<1>1. reconciler[r].generation > 0 /\ reconciler[r].generation <= journal.generation
  BY AttemptFacts DEF AttemptOK, At
<1>2. a \in Attempts /\ AttemptOK(a) /\ FenceOK(r, a) /\ SeenOK(a)
  BY <1>1, AttemptFacts, FreshFacts
<1>3. SpentTypeOK' /\ spent'.slow = spent.slow /\ reconciler' = [reconciler EXCEPT ![r] = a]
  BY AttemptFacts DEF SpentTypeOK, Defer
<1> HIDE DEF a
<1> QED BY <1>2, <1>3, AttemptMoves

\* The run of an armed monitor is open, and its handle unresolved.
LEMMA ArmedIsOpen ==
  ASSUME ReconciliationInv
  PROVE  /\ journal.monitor = "armed" => journal.status \in {"waiting", "blocked"}
         /\ journal.status \in {"waiting", "blocked"} =>
                /\ journal.handle \in Unresolved
                /\ journal.monitor \in {"armed", "blocked"}
<1>1. journal.status \in {"absent", "waiting", "blocked"} \cup Outcomes
  BY DEF ReconciliationInv, TypeOK, Journals
<1>2. RecordsAgree
  BY DEF ReconciliationInv
<1>3. journal.status = "absent" => journal.monitor = "none"
  BY <1>2 DEF RecordsAgree, NoRun
<1> QED BY <1>1, <1>2, <1>3 DEF RecordsAgree, Closed, Outcomes

\* The snapshot of an open run has been written at least once.
LEMMA OpenIsWritten ==
  ASSUME ReconciliationInv, journal.status # "absent"
  PROVE  journal.generation > 0 /\ journal.generation \in Generations
<1>1. journal.generation \in 0 .. MaxGeneration /\ RecordsAgree
  BY DEF ReconciliationInv, TypeOK, Journals, Generations
<1>2. journal.generation # 0
  BY <1>1 DEF RecordsAgree, NoRun
<1> QED BY <1>1, <1>2, ReconciliationAssumption DEF Generations, ReconciliationAssumption

LEMMA ScheduleInv ==
  ASSUME ReconciliationInv, NEW r \in Reconcilers, Schedule(r)
  PROVE  ReconciliationInv'
<1> DEFINE a == AttemptAt("scheduled", journal.generation)
<1>1. journal.generation > 0 /\ journal.generation \in Generations /\ journal.generation <= journal.generation
  BY OpenIsWritten, AttemptFacts DEF Schedule, ReconcilePlanned
<1>2. a \in Attempts /\ AttemptOK(a) /\ FenceOK(r, a) /\ SeenOK(a)
  BY <1>1, FreshFacts
<1>3. SpentTypeOK' /\ spent'.slow = spent.slow /\ reconciler' = [reconciler EXCEPT ![r] = a]
  BY AttemptFacts DEF SpentTypeOK, Schedule
<1>4. UNCHANGED <<remote, journal, due, dispatches, observer>>
  BY DEF Schedule
<1> HIDE DEF a
<1> QED BY <1>2, <1>3, <1>4, AttemptMoves

\* Query and Revalidate: an attempt that goes on still claims nothing.
LEMMA QueryInv ==
  ASSUME ReconciliationInv, NEW r \in Reconcilers, Query(r) \/ Revalidate(r)
  PROVE  ReconciliationInv'
<1>1. UNCHANGED <<remote, journal, due, dispatches, observer, spent>> /\ ~At(r, "idle")
  BY DEF Query, Revalidate, At
<1>2. CASE Defer(r)
  BY <1>1, <1>2, DeferInv
<1>3. ASSUME NEW a, reconciler' = [reconciler EXCEPT ![r] = a], a \in Attempts,
             a.pc \in {"planned", "authorized"}, a.seen = reconciler[r].seen,
             a.generation = reconciler[r].generation
      PROVE  ReconciliationInv'
  <2>1. AttemptOK(a) /\ FenceOK(r, a) /\ SeenOK(a)
    BY <1>1, <1>3, AttemptFacts DEF AttemptOK, FenceOK, SeenOK, At
  <2>2. SpentTypeOK' /\ spent'.slow = spent.slow
    BY <1>1, AttemptFacts DEF SpentTypeOK
  <2> QED BY <1>1, <1>3, <2>1, <2>2, AttemptMoves
<1>4. CASE reconciler' = [reconciler EXCEPT ![r].pc = "planned"]
  <2> DEFINE a == [reconciler[r] EXCEPT !.pc = "planned"]
  <2>1. a \in Attempts /\ a.pc = "planned" /\ a.seen = reconciler[r].seen
        /\ a.generation = reconciler[r].generation
    BY AttemptFacts DEF Attempts
  <2>2. reconciler' = [reconciler EXCEPT ![r] = a]
    BY <1>4, AttemptFacts
  <2> QED BY <1>3, <2>1, <2>2
<1>5. CASE reconciler' = [reconciler EXCEPT ![r].pc = "authorized",
                                            ![r].cancellation = journal.cancellation]
  <2> DEFINE a == [reconciler[r] EXCEPT !.pc = "authorized", !.cancellation = journal.cancellation]
  <2>1. a \in Attempts /\ a.pc = "authorized" /\ a.seen = reconciler[r].seen
        /\ a.generation = reconciler[r].generation
    BY AttemptFacts DEF Attempts, Journals
  <2>2. reconciler' = [reconciler EXCEPT ![r] = a]
    BY <1>5, AttemptFacts
  <2> QED BY <1>3, <2>1, <2>2
<1> QED BY <1>2, <1>4, <1>5 DEF Query, Revalidate

\* The provider answers: what the attempt saw is what the provider said.
LEMMA InspectedInv ==
  ASSUME ReconciliationInv, NEW r \in Reconcilers, At(r, "claimed"),
         NEW s \in {"none"} \cup HandleStatuses, NEW d \in Settled, Inspected(r, s, d),
         s \in Outcomes => s = remote,
         d = "completed" <=> s \in Outcomes,
         d = "blocked" => s \in {"none", reconciler[r].expected},
         UNCHANGED <<remote, journal, due, dispatches, observer>>,
         SpentTypeOK', spent'.slow = spent.slow
  PROVE  ReconciliationInv'
<1> DEFINE a == [reconciler[r] EXCEPT !.pc = "inspected", !.seen = s, !.disposition = d]
<1>1. /\ a \in Attempts /\ a.pc = "inspected" /\ a.seen = s /\ a.disposition = d
      /\ a.generation = reconciler[r].generation /\ a.expected = reconciler[r].expected
  BY AttemptFacts DEF Attempts
<1>2. reconciler' = [reconciler EXCEPT ![r] = a]
  BY AttemptFacts DEF Inspected
<1> HIDE DEF a
<1>3. AttemptOK(a) /\ FenceOK(r, a) /\ SeenOK(a)
  BY <1>1, AttemptFacts DEF AttemptOK, FenceOK, SeenOK, At, Settled
<1> QED BY <1>1, <1>2, <1>3, AttemptMoves

LEMMA InspectInv ==
  ASSUME ReconciliationInv, NEW r \in Reconcilers, InspectOutcome(r) \/ InspectUnresolved(r)
  PROVE  ReconciliationInv'
<1>1. At(r, "claimed") /\ UNCHANGED <<remote, journal, due, dispatches, observer>>
  BY DEF InspectOutcome, InspectUnresolved
<1>2. reconciler[r].expected \in Unresolved
  BY <1>1, AttemptFacts DEF AttemptOK, At
<1>3. CASE InspectOutcome(r)
  <2>1. SpentTypeOK' /\ spent'.slow = spent.slow
    BY <1>3, AttemptFacts DEF InspectOutcome, SpentTypeOK
  <2>2. /\ remote \in HandleStatuses /\ remote \in Outcomes
        /\ "completed" \in Settled /\ "completed" # "blocked"
        /\ Inspected(r, remote, "completed")
    BY <1>3 DEF InspectOutcome, HandleStatuses, Settled
  <2> QED BY <1>1, <2>1, <2>2, InspectedInv
<1>4. CASE InspectUnresolved(r)
  <2>1. SpentTypeOK' /\ spent'.slow = spent.slow
    BY <1>4, AttemptFacts, ReconciliationAssumption
       DEF InspectUnresolved, SpentTypeOK, ReconciliationAssumption
  <2>2. CASE remote \in {"pending", "running"} /\ Inspected(r, remote, "pending")
    BY <1>1, <2>1, <2>2, InspectedInv DEF Settled, Outcomes, HandleStatuses, Unresolved
  <2>3. CASE Inspected(r, reconciler[r].expected, "blocked")
    BY <1>1, <1>2, <2>1, <2>3, InspectedInv DEF Settled, Outcomes, HandleStatuses, Unresolved
  <2>4. CASE \E d \in {"pending", "blocked"} : Inspected(r, "none", d)
    BY <1>1, <2>1, <2>4, InspectedInv DEF Settled, Outcomes
  <2> QED BY <1>4, <2>2, <2>3, <2>4 DEF InspectUnresolved
<1> QED BY <1>3, <1>4

(***************************************************************************)
(* Steps that write a dispatch and nothing else of the run.                *)
(***************************************************************************)
\* The dispatch of the current snapshot becomes row, and an attempt moves to a.
LEMMA DispatchWritten ==
  ASSUME ReconciliationInv, NEW g \in Generations, g = journal.generation, g > 0,
         NEW row \in Dispatches, row.state \in Open,
         dispatches' = [dispatches EXCEPT ![g] = row],
         UNCHANGED <<remote, journal, due, observer>>,
         SpentTypeOK', reconciler' \in [Reconcilers -> Attempts],
         \A r \in Reconcilers : AttemptOK(reconciler'[r]) /\ FenceOK(r, reconciler[r])' /\ SeenOK(reconciler'[r])
  PROVE  ReconciliationInv'
<1>1. /\ dispatches \in [Generations -> Dispatches]
      /\ \A h \in Generations : DispatchOK(h)
      /\ \A h \in Generations : dispatches'[h] = IF h = g THEN row ELSE dispatches[h]
  BY InTerms DEF ReconciliationInv, TypeOK
<1>2. TypeOK'
  BY <1>1 DEF ReconciliationInv, TypeOK, SpentTypeOK
<1>3. RecordsAgree'
  BY DEF ReconciliationInv, RecordsAgree, Closed
<1>4. DispatchesOK'
  <2> SUFFICES ASSUME NEW h \in Generations
               PROVE  /\ dispatches'[h].state # "none" => h <= journal.generation /\ h > 0
                      /\ dispatches'[h].state \in Settled => h < journal.generation
    BY DEF DispatchesOK
  <2>1. row.state \notin Settled /\ g <= journal.generation
    BY AttemptFacts DEF Open, Settled, Generations
  <2> QED BY <1>1, <2>1 DEF DispatchOK
<1>5. AttemptsOK'
  <2>1. \A b : AttemptOK(b) <=> AttemptOK(b)'
    BY DEF AttemptOK
  <2> QED BY <2>1 DEF AttemptsOK, AttemptOK, IsCurrent
<1>6. FencesOK'
  BY DEF FencesOK, FenceOK
<1>7. OutcomesAreTrue'
  BY InTerms DEF ReconciliationInv, OutcomesAreTrue, SeenOK
<1> QED BY <1>2, <1>3, <1>4, <1>5, <1>6, <1>7 DEF ReconciliationInv

\* A dispatch of the invariant.
LEMMA RowFacts ==
  ASSUME ReconciliationInv, NEW g \in Generations
  PROVE  /\ dispatches[g] \in Dispatches
         /\ dispatches \in [Generations -> Dispatches]
         /\ dispatches[g].expired \in BOOLEAN
         /\ DispatchOK(g)
  BY InTerms DEF ReconciliationInv, TypeOK, Dispatches

\* The fence goes to r only when nobody has it, so the others keep theirs.
LEMMA AcquireInv ==
  ASSUME ReconciliationInv, NEW r \in Reconcilers, AcquireDispatchFence(r)
  PROVE  ReconciliationInv'
<1> DEFINE g == reconciler[r].generation
<1>1. /\ At(r, "authorized") /\ ~At(r, "idle")
      /\ UNCHANGED <<remote, journal, due, observer, spent>>
  BY DEF AcquireDispatchFence, At
<1>2. CASE Defer(r) /\ dispatches' = dispatches
  BY <1>1, <1>2, DeferInv
<1>3. CASE /\ IsCurrent(r) /\ FenceIsFree(g)
           /\ reconciler' = [reconciler EXCEPT ![r] = AttemptAt("fenced", g)]
           /\ dispatches' = [dispatches EXCEPT ![g] =
                  [state |-> "acquired", fence |-> r, expired |-> FALSE,
                   cancellation |-> IF dispatches[g].state = "none"
                                    THEN reconciler[r].cancellation
                                    ELSE dispatches[g].cancellation]]
  <2> DEFINE row == [state |-> "acquired", fence |-> r, expired |-> FALSE,
                     cancellation |-> IF dispatches[g].state = "none"
                                      THEN reconciler[r].cancellation
                                      ELSE dispatches[g].cancellation]
  <2>1. g \in Generations /\ g = journal.generation /\ g > 0 /\ g <= journal.generation
    BY <1>1, <1>3, AttemptFacts DEF IsCurrent, AttemptOK, At
  <2>2. row \in Dispatches /\ row.state \in Open /\ row.state = "acquired" /\ row.fence = r /\ row.expired = FALSE
    <3>1. dispatches[g] \in Dispatches /\ reconciler[r] \in Attempts
      BY <2>1, RowFacts, AttemptFacts
    <3> QED BY <3>1 DEF Dispatches, Attempts, Open
  <2>3. dispatches' = [dispatches EXCEPT ![g] = row]
    BY <1>3
  <2> HIDE DEF row
  <2>4. \A h \in Generations : dispatches'[h] = IF h = g THEN row ELSE dispatches[h]
    BY <2>1, <2>3, RowFacts
  <2>5. /\ AttemptAt("fenced", g) \in Attempts /\ AttemptOK(AttemptAt("fenced", g))
        /\ SeenOK(AttemptAt("fenced", g)) /\ AttemptAt("fenced", g).generation = g
    BY <2>1, FreshFacts
  <2>6. reconciler' \in [Reconcilers -> Attempts]
    BY <1>3, <2>5, AttemptFacts
  <2>7. ASSUME NEW q \in Reconcilers
        PROVE  AttemptOK(reconciler'[q]) /\ FenceOK(q, reconciler[q])' /\ SeenOK(reconciler'[q])
    <3>1. CASE q = r
      <4>1. reconciler'[q] = AttemptAt("fenced", g)
        BY <1>3, <3>1, AttemptFacts
      <4>2. dispatches'[g] = row
        BY <2>1, <2>4
      <4> QED BY <2>2, <2>5, <3>1, <4>1, <4>2 DEF FenceOK
    <3>2. CASE q # r
      <4>1. reconciler'[q] = reconciler[q]
        BY <1>3, <3>2, AttemptFacts
      <4>2. AttemptOK(reconciler[q]) /\ FenceOK(q, reconciler[q]) /\ SeenOK(reconciler[q])
        BY AttemptFacts
      <4>3. CASE reconciler[q].generation # g
        BY <1>1, <2>4, <4>1, <4>2, <4>3, AttemptFacts DEF FenceOK
      <4>4. CASE reconciler[q].generation = g
        BY <1>1, <1>3, <4>1, <4>2, <4>4, RowFacts, <2>1 DEF FenceOK, FenceIsFree
      <4> QED BY <4>1, <4>2, <4>3, <4>4
    <3> QED BY <3>1, <3>2
  <2>8. SpentTypeOK'
    BY <1>1, AttemptFacts DEF SpentTypeOK
  <2> QED BY <1>1, <2>1, <2>2, <2>3, <2>6, <2>7, <2>8, DispatchWritten
<1> QED BY <1>2, <1>3 DEF AcquireDispatchFence

\* A claim changes hands with nobody.
LEMMA ClaimInv ==
  ASSUME ReconciliationInv, NEW r \in Reconcilers, Claim(r)
  PROVE  ReconciliationInv'
<1> DEFINE g == reconciler[r].generation
           row == [dispatches[g] EXCEPT !.state = "claimed"]
           a == [reconciler[r] EXCEPT !.pc = "claimed", !.expected = journal.handle]
<1>1. /\ At(r, "fenced") /\ ~At(r, "idle") /\ g \in Generations
      /\ UNCHANGED <<remote, journal, due, observer, spent>>
  BY AttemptFacts DEF Claim, At
<1>2. CASE Defer(r) /\ dispatches' = dispatches
  BY <1>1, <1>2, DeferInv
<1>3. CASE /\ ClaimIsLegal(r)
           /\ dispatches' = [dispatches EXCEPT ![g].state = "claimed"]
           /\ reconciler' = [reconciler EXCEPT ![r].pc = "claimed",
                                               ![r].expected = journal.handle]
  <2>1. g = journal.generation /\ g > 0
    BY <1>1, <1>3, AttemptFacts DEF ClaimIsLegal, IsCurrent, AttemptOK, At
  <2>2. /\ row \in Dispatches /\ row.state = "claimed" /\ row.state \in Open
        /\ row.fence = dispatches[g].fence /\ row.expired = dispatches[g].expired
    BY <1>1, RowFacts DEF Dispatches, Open
  <2>3. /\ a \in Attempts /\ a.pc = "claimed" /\ a.expected = journal.handle
        /\ a.generation = g /\ a.seen = reconciler[r].seen
    BY AttemptFacts DEF Attempts, Journals
  <2>4. dispatches' = [dispatches EXCEPT ![g] = row] /\ reconciler' = [reconciler EXCEPT ![r] = a]
    BY <1>1, <1>3, RowFacts, AttemptFacts
  <2>5. journal.handle \in Unresolved
    BY <1>3, ArmedIsOpen DEF ClaimIsLegal
  <2>6. dispatches[g].state # "none"
    BY <1>3 DEF ClaimIsLegal
  <2>7. \A h \in Generations : dispatches'[h] = IF h = g THEN row ELSE dispatches[h]
    BY <1>1, <2>4, RowFacts
  <2> HIDE DEF row, a, g
  <2>8. reconciler' \in [Reconcilers -> Attempts]
    BY <2>3, <2>4, AttemptFacts
  <2>9. ASSUME NEW q \in Reconcilers
        PROVE  AttemptOK(reconciler'[q]) /\ FenceOK(q, reconciler[q])' /\ SeenOK(reconciler'[q])
    <3>1. AttemptOK(reconciler[q]) /\ FenceOK(q, reconciler[q]) /\ SeenOK(reconciler[q])
      BY AttemptFacts
    <3>2. reconciler[q].generation \in Generations
      BY AttemptFacts
    <3>3. \A h \in Generations : /\ dispatches[h].state # "none" => dispatches'[h].state # "none"
                                 /\ dispatches'[h].fence = dispatches[h].fence
                                 /\ dispatches'[h].expired = dispatches[h].expired
      BY <2>2, <2>7
    <3>4. CASE q = r
      <4>1. reconciler'[q] = a /\ reconciler[q].generation = g /\ reconciler[q].pc = "fenced"
        BY <1>1, <2>4, <3>4, AttemptFacts DEF At, g
      <4> QED BY <1>1, <2>1, <2>3, <2>5, <3>1, <3>2, <3>3, <4>1, AttemptFacts DEF FenceOK, AttemptOK, SeenOK
    <3>5. CASE q # r
      <4>1. reconciler'[q] = reconciler[q]
        BY <2>4, <3>5, AttemptFacts
      <4> QED BY <1>1, <3>1, <3>2, <3>3, <4>1 DEF FenceOK
    <3> QED BY <3>4, <3>5
  <2>10. SpentTypeOK'
    BY <1>1, AttemptFacts DEF SpentTypeOK
  <2> QED BY <1>1, <2>1, <2>2, <2>4, <2>8, <2>9, <2>10, DispatchWritten
<1> QED BY <1>2, <1>3 DEF Claim

(***************************************************************************)
(* Steps that write the run.                                               *)
(***************************************************************************)
\* A write makes every snapshot that was read before a past one: what attempts
\* believe of the journal no longer concerns it, and the dispatch it settles is
\* the one of the snapshot that it replaces.
LEMMA JournalWritten ==
  ASSUME ReconciliationInv,
         journal' \in Journals, RecordsAgree',
         journal'.generation = journal.generation + 1,
         journal'.handle \in Outcomes => journal'.handle = remote,
         UNCHANGED <<remote, spent>>, due' \in BOOLEAN,
         dispatches' \in [Generations -> Dispatches],
         \A g \in Generations :
             \/ dispatches'[g] = dispatches[g]
             \/ /\ g = journal.generation /\ g > 0
                /\ dispatches'[g].state \in Settled
                /\ dispatches'[g].fence = dispatches[g].fence
                /\ dispatches'[g].expired = dispatches[g].expired,
         reconciler' \in [Reconcilers -> Attempts],
         \A r \in Reconcilers : reconciler'[r] \in {reconciler[r], Idle},
         observer' \in [Observers -> Observations],
         \A o \in Observers : observer'[o].seen \in {observer[o].seen, "none"}
  PROVE  ReconciliationInv'
<1>1. journal.generation \in Nat /\ SpentTypeOK
  BY AttemptFacts, ReconciliationAssumption
     DEF ReconciliationInv, TypeOK, Journals, Generations, SpentTypeOK, ReconciliationAssumption
<1>2. TypeOK'
  BY <1>1 DEF ReconciliationInv, TypeOK, SpentTypeOK
<1>3. DispatchesOK'
  <2> SUFFICES ASSUME NEW g \in Generations
               PROVE  /\ dispatches'[g].state # "none" => g <= journal.generation + 1 /\ g > 0
                      /\ dispatches'[g].state \in Settled => g < journal.generation + 1
    BY DEF DispatchesOK
  <2>1. DispatchOK(g) /\ g \in Nat
    BY InTerms, ReconciliationAssumption DEF ReconciliationInv, Generations, ReconciliationAssumption
  <2>2. CASE dispatches'[g] = dispatches[g]
    BY <1>1, <2>1, <2>2 DEF DispatchOK
  <2>3. CASE g = journal.generation /\ g > 0
    BY <1>1, <2>3
  <2> QED BY <2>2, <2>3
<1>4. AttemptsOK'
  <2> SUFFICES ASSUME NEW r \in Reconcilers PROVE AttemptOK(reconciler[r])'
    BY DEF AttemptsOK, AttemptOK, IsCurrent
  <2>1. AttemptOK(reconciler[r]) /\ reconciler[r].generation \in Nat
    BY AttemptFacts, ReconciliationAssumption DEF Generations, ReconciliationAssumption
  <2>2. CASE reconciler'[r] = Idle
    BY <2>2, IdleIsOK DEF AttemptOK
  <2>3. CASE reconciler'[r] = reconciler[r]
    <3>1. reconciler[r].pc # "idle" => reconciler[r].generation # journal'.generation
      BY <1>1, <2>1 DEF AttemptOK
    <3> QED BY <1>1, <2>1, <2>3, <3>1 DEF AttemptOK
  <2> QED BY <2>2, <2>3
<1>5. FencesOK'
  <2> SUFFICES ASSUME NEW r \in Reconcilers PROVE FenceOK(r, reconciler[r])'
    BY DEF FencesOK, FenceOK
  <2>1. FenceOK(r, reconciler[r]) /\ reconciler[r].generation \in Generations
    BY AttemptFacts
  <2>2. CASE reconciler'[r] = Idle
    BY <2>2, IdleIsOK DEF FenceOK
  <2>3. CASE reconciler'[r] = reconciler[r]
    <3>1. \/ dispatches'[reconciler[r].generation] = dispatches[reconciler[r].generation]
          \/ /\ dispatches'[reconciler[r].generation].state # "none"
             /\ dispatches'[reconciler[r].generation].fence = dispatches[reconciler[r].generation].fence
             /\ dispatches'[reconciler[r].generation].expired = dispatches[reconciler[r].generation].expired
      BY <2>1 DEF Settled
    <3> QED BY <2>1, <2>3, <3>1 DEF FenceOK
  <2> QED BY <2>2, <2>3
<1>6. OutcomesAreTrue'
  <2>1. /\ \A o \in Observers : SeenOK(observer[o])
        /\ \A r \in Reconcilers : SeenOK(reconciler[r])
    BY InTerms DEF ReconciliationInv
  <2>2. \A o \in Observers : SeenOK(observer[o])'
    BY <2>1 DEF SeenOK, Outcomes
  <2>3. \A r \in Reconcilers : SeenOK(reconciler[r])'
    <3> SUFFICES ASSUME NEW r \in Reconcilers PROVE reconciler'[r].seen \in Outcomes => reconciler'[r].seen = remote
      BY DEF SeenOK
    <3> QED BY <2>1, IdleIsOK DEF SeenOK
  <2> QED BY <2>2, <2>3 DEF OutcomesAreTrue, SeenOK
<1> QED BY <1>2, <1>3, <1>4, <1>5, <1>6 DEF ReconciliationInv

\* The fields of the run.
LEMMA JournalFields ==
  ASSUME ReconciliationInv
  PROVE  /\ journal \in Journals /\ RecordsAgree
         /\ journal.generation \in 0 .. MaxGeneration
         /\ CanWrite => journal.generation + 1 \in Generations
         /\ journal.status \in {"absent", "waiting", "blocked"} \cup Outcomes
         /\ journal.handle \in {"none"} \cup HandleStatuses
<1>1. journal \in Journals /\ RecordsAgree
  BY DEF ReconciliationInv, TypeOK
<1>2. journal.generation \in 0 .. MaxGeneration
  BY <1>1 DEF Journals, Generations
<1>3. CanWrite => journal.generation + 1 \in Generations
  BY <1>2, ReconciliationAssumption DEF CanWrite, Generations, ReconciliationAssumption
<1> QED BY <1>1, <1>2, <1>3 DEF Journals

\* The rows of a first observation.
LEMMA CreatedRows ==
  ASSUME ReconciliationInv, NEW s \in HandleStatuses, journal' = Created(s)
  PROVE  journal' \in Journals /\ RecordsAgree' /\ journal'.generation = 1 /\ journal'.handle = s
<1>1. 1 \in Generations
  BY ReconciliationAssumption DEF Generations, ReconciliationAssumption
<1>2. journal' \in Journals
  BY <1>1 DEF Created, Journals, HandleStatuses, Outcomes, Unresolved
<1>3. /\ journal'.status = IF s \in Outcomes THEN s ELSE "waiting"
      /\ journal'.generation = 1 /\ journal'.handle = s /\ journal'.lastObserved = s
      /\ journal'.cancellation = IF s = "cancelled" THEN "cancelled" ELSE "active"
      /\ journal'.effect = IF s \in Outcomes THEN "verified" ELSE "started"
      /\ journal'.monitor = IF s \in Outcomes THEN "acted" ELSE "armed"
      /\ journal'.boundary = IF s \in Outcomes THEN "terminal" ELSE "waiting_external"
  BY DEF Created
<1>4. RecordsAgree'
  BY <1>3 DEF RecordsAgree, Closed, HandleStatuses, Outcomes, Unresolved
<1> QED BY <1>2, <1>3, <1>4

\* The rows of a recorded outcome.
LEMMA ClosedRows ==
  ASSUME ReconciliationInv, NEW s \in Outcomes, journal' = ClosedWith(s), CanWrite,
         journal.status \in {"waiting", "blocked"}
  PROVE  /\ journal' \in Journals /\ RecordsAgree'
         /\ journal'.generation = journal.generation + 1
         /\ journal'.handle = s /\ journal'.status = s
<1>1. journal' \in Journals
  <2> DEFINE cancellation == IF s = "cancelled" THEN "cancelled" ELSE journal.cancellation
  <2>1. journal' = [journal EXCEPT !.status = s, !.generation = journal.generation + 1,
                                   !.cancellation = cancellation, !.handle = s,
                                   !.effect = "verified", !.monitor = "acted",
                                   !.lastObserved = s, !.boundary = "terminal"]
    BY DEF ClosedWith
  <2>2. cancellation \in {"active", "cancel_requested", "cancelled"} /\ s \in HandleStatuses
    BY JournalFields DEF Journals, HandleStatuses
  <2>3. journal.generation + 1 \in Generations /\ journal \in Journals
    BY JournalFields
  <2> HIDE DEF cancellation
  <2> QED BY <2>1, <2>2, <2>3 DEF Journals
<1>2. /\ journal'.status = s /\ journal'.generation = journal.generation + 1
      /\ journal'.cancellation = IF s = "cancelled" THEN "cancelled" ELSE journal.cancellation
      /\ journal'.handle = s /\ journal'.effect = "verified" /\ journal'.monitor = "acted"
      /\ journal'.lastObserved = s /\ journal'.boundary = "terminal"
      /\ journal'.attention = journal.attention
  BY JournalFields DEF ClosedWith, Journals
<1>3. journal.cancellation # "cancelled" /\ journal.generation \in Nat
  BY JournalFields, ReconciliationAssumption DEF RecordsAgree, Outcomes, Generations, ReconciliationAssumption
<1>4. RecordsAgree'
  BY <1>2, <1>3 DEF RecordsAgree, Closed, Outcomes
<1> QED BY <1>1, <1>2, <1>4

\* The rows after a status that is not an outcome.
LEMMA AdvancedRows ==
  ASSUME ReconciliationInv, NEW s \in Unresolved, journal' = Advanced(s), CanWrite,
         journal.status \in {"waiting", "blocked"}
  PROVE  /\ journal' \in Journals /\ RecordsAgree'
         /\ journal'.generation = journal.generation + 1
         /\ journal'.handle = s /\ journal'.status = journal.status
<1>1. journal.generation + 1 \in Generations /\ journal \in Journals /\ RecordsAgree
      /\ journal.generation \in Nat
  BY JournalFields, AttemptFacts
<1>2. journal' \in Journals
  BY <1>1 DEF Advanced, Journals, HandleStatuses
<1>3. /\ journal'.status = journal.status /\ journal'.generation = journal.generation + 1
      /\ journal'.cancellation = journal.cancellation /\ journal'.handle = s
      /\ journal'.effect = journal.effect /\ journal'.monitor = journal.monitor
      /\ journal'.lastObserved = s /\ journal'.boundary = journal.boundary
      /\ journal'.attention = journal.attention
  BY <1>1 DEF Advanced, Journals
<1>4. RecordsAgree'
  BY <1>1, <1>3 DEF RecordsAgree, Closed, Outcomes
<1> QED BY <1>2, <1>3, <1>4

LEMMA CheckedRows ==
  ASSUME ReconciliationInv, NEW s \in {"none"} \cup Unresolved, NEW d,
         journal' = Checked(s, d), CanWrite,
         journal.status \in {"waiting", "blocked"}
  PROVE  /\ journal' \in Journals /\ RecordsAgree'
         /\ journal'.generation = journal.generation + 1
         /\ journal'.handle = (IF s = "none" THEN journal.handle ELSE s)
         /\ journal'.status = journal.status
<1> DEFINE handle == IF s = "none" THEN journal.handle ELSE s
           effect == IF s # "none" /\ journal.effect = "started" THEN "applied" ELSE journal.effect
           monitor == IF d = "blocked" THEN "blocked" ELSE "armed"
           observed == IF s = "none" THEN journal.lastObserved ELSE s
<1>1. journal.generation + 1 \in Generations /\ journal \in Journals /\ RecordsAgree
      /\ journal.generation \in Nat
  BY JournalFields, AttemptFacts
<1>2. journal' = [journal EXCEPT !.generation = journal.generation + 1, !.handle = handle,
                                 !.effect = effect, !.monitor = monitor, !.lastObserved = observed]
  BY DEF Checked
<1>3. /\ handle \in Unresolved /\ observed = handle
      /\ effect \in {"started", "applied"} /\ monitor \in {"armed", "blocked"}
  BY <1>1 DEF RecordsAgree, Unresolved
<1>4. handle = IF s = "none" THEN journal.handle ELSE s
  OBVIOUS
<1> HIDE DEF handle, effect, monitor, observed
<1>5. journal' \in Journals
  BY <1>1, <1>2, <1>3 DEF Journals, HandleStatuses
<1>6. /\ journal'.status = journal.status /\ journal'.generation = journal.generation + 1
      /\ journal'.cancellation = journal.cancellation /\ journal'.handle = handle
      /\ journal'.effect = effect /\ journal'.monitor = monitor
      /\ journal'.lastObserved = observed /\ journal'.boundary = journal.boundary
      /\ journal'.attention = journal.attention
  BY <1>1, <1>2 DEF Journals
<1>7. RecordsAgree'
  BY <1>1, <1>3, <1>6 DEF RecordsAgree, Closed, Outcomes
<1> QED BY <1>4, <1>5, <1>6, <1>7

\* What a writer leaves alone.
LEMMA TablesStay ==
  ASSUME ReconciliationInv
  PROVE  /\ dispatches \in [Generations -> Dispatches]
         /\ reconciler \in [Reconcilers -> Attempts]
         /\ observer \in [Observers -> Observations]
         /\ due \in BOOLEAN
         /\ Idle \in Attempts
         /\ \A o \in Observers : SeenOK(observer[o]) /\ observer[o].seen \in {"none"} \cup HandleStatuses
  BY InTerms, IdleIsOK DEF ReconciliationInv, TypeOK, Observations

LEMMA CancellationInv ==
  ASSUME ReconciliationInv, RequestCancellation
  PROVE  ReconciliationInv'
<1>1. journal.generation + 1 \in Generations /\ journal \in Journals /\ RecordsAgree
      /\ journal.status \in {"waiting", "blocked"} /\ journal.generation \in Nat
  BY JournalFields, AttemptFacts DEF RequestCancellation
<1>2. journal' = [journal EXCEPT !.cancellation = "cancel_requested", !.generation = journal.generation + 1]
  BY DEF RequestCancellation
<1>3. journal' \in Journals
  BY <1>1, <1>2 DEF Journals
<1>4. /\ journal'.status = journal.status /\ journal'.generation = journal.generation + 1
      /\ journal'.cancellation = "cancel_requested" /\ journal'.handle = journal.handle
      /\ journal'.effect = journal.effect /\ journal'.monitor = journal.monitor
      /\ journal'.lastObserved = journal.lastObserved /\ journal'.boundary = journal.boundary
      /\ journal'.attention = journal.attention
  BY <1>1, <1>2 DEF Journals
<1>5. RecordsAgree' /\ journal'.handle \notin Outcomes
  BY <1>1, <1>4 DEF RecordsAgree, Closed, Outcomes, Unresolved
<1>6. UNCHANGED <<remote, due, dispatches, reconciler, observer, spent>>
  BY DEF RequestCancellation
<1> QED BY <1>3, <1>4, <1>5, <1>6, TablesStay, JournalWritten

LEMMA AttentionInv ==
  ASSUME ReconciliationInv, NEW r \in Reconcilers, RequireAttention(r)
  PROVE  ReconciliationInv'
<1>1. journal.generation + 1 \in Generations /\ journal \in Journals /\ RecordsAgree
      /\ journal.status \in {"waiting", "blocked"} /\ journal.generation \in Nat
  BY JournalFields, AttemptFacts DEF RequireAttention, ReconcilePlanned
<1>2. journal' = [journal EXCEPT !.status = "blocked", !.attention = TRUE, !.generation = journal.generation + 1]
  BY DEF RequireAttention
<1>3. journal' \in Journals
  BY <1>1, <1>2 DEF Journals
<1>4. /\ journal'.status = "blocked" /\ journal'.generation = journal.generation + 1
      /\ journal'.cancellation = journal.cancellation /\ journal'.handle = journal.handle
      /\ journal'.effect = journal.effect /\ journal'.monitor = journal.monitor
      /\ journal'.lastObserved = journal.lastObserved /\ journal'.boundary = journal.boundary
      /\ journal'.attention = TRUE
  BY <1>1, <1>2 DEF Journals
<1>5. RecordsAgree' /\ journal'.handle \notin Outcomes
  BY <1>1, <1>4 DEF RecordsAgree, Closed, Outcomes, Unresolved
<1>6. /\ UNCHANGED <<remote, due, dispatches, observer, spent>>
      /\ reconciler' = [reconciler EXCEPT ![r] = Idle]
  BY DEF RequireAttention
<1>7. reconciler' \in [Reconcilers -> Attempts] /\ \A q \in Reconcilers : reconciler'[q] \in {reconciler[q], Idle}
  BY <1>6, TablesStay
<1> QED BY <1>3, <1>4, <1>5, <1>6, <1>7, TablesStay, JournalWritten

\* An inspection is recorded for the snapshot it was made for, or not at all.
LEMMA CompleteInv ==
  ASSUME ReconciliationInv, NEW r \in Reconcilers, Complete(r)
  PROVE  ReconciliationInv'
<1> DEFINE g == reconciler[r].generation
           seen == reconciler[r].seen
           d == reconciler[r].disposition
<1>1. /\ At(r, "inspected") /\ ~At(r, "idle") /\ g \in Generations
      /\ UNCHANGED <<remote, observer, spent>>
  BY AttemptFacts DEF Complete, At
<1>2. CASE Defer(r) /\ UNCHANGED <<journal, due, dispatches>>
  BY <1>1, <1>2, DeferInv
<1>3. CASE /\ CompletionIsLegal(r) /\ CanWrite /\ due' = FALSE
           /\ journal' = IF d = "completed" THEN ClosedWith(seen) ELSE Checked(seen, d)
           /\ dispatches' = [dispatches EXCEPT ![g].state = d]
           /\ reconciler' = [reconciler EXCEPT ![r] = Idle]
  <2>1. /\ journal.generation = g /\ g > 0 /\ journal.monitor = "armed"
        /\ dispatches[g].state = "claimed"
    BY <1>1, <1>3, AttemptFacts DEF CompletionIsLegal, IsCurrent, AttemptOK, At
  <2>2. /\ journal.status \in {"waiting", "blocked"}
    BY <2>1, ArmedIsOpen
  <2>3. /\ d = "completed" <=> seen \in Outcomes
        /\ seen \in Outcomes => seen = remote
        /\ d \in Settled
        /\ seen \in {"none"} \cup HandleStatuses
    <3>1. reconciler[r] \in Attempts /\ AttemptOK(reconciler[r]) /\ SeenOK(reconciler[r])
      BY AttemptFacts
    <3>2. d \in {"none"} \cup Settled /\ seen \in {"none"} \cup HandleStatuses
      BY <3>1 DEF Attempts
    <3> QED BY <1>1, <3>1, <3>2 DEF AttemptOK, SeenOK, At
  <2>4. /\ journal' \in Journals /\ RecordsAgree'
        /\ journal'.generation = journal.generation + 1
        /\ journal'.handle \in Outcomes => journal'.handle = remote
    <3>1. CASE d = "completed"
      <4>1. journal' = ClosedWith(seen) /\ seen \in Outcomes
        BY <1>3, <2>3, <3>1
      <4> QED BY <1>3, <2>2, <2>3, <4>1, ClosedRows
    <3>2. CASE d # "completed"
      <4>1. journal' = Checked(seen, d) /\ seen \in {"none"} \cup Unresolved
        BY <1>3, <2>3, <3>2 DEF HandleStatuses
      <4>2. journal.handle \in Unresolved
        BY <2>2, ArmedIsOpen
      <4>3. /\ journal' \in Journals /\ RecordsAgree'
            /\ journal'.generation = journal.generation + 1
            /\ journal'.handle = (IF seen = "none" THEN journal.handle ELSE seen)
        BY <1>3, <2>2, <4>1, CheckedRows
      <4> QED BY <4>1, <4>2, <4>3 DEF Outcomes, Unresolved
    <3> QED BY <3>1, <3>2
  <2> DEFINE row == [dispatches[g] EXCEPT !.state = d]
  <2>5. /\ row \in Dispatches /\ row.state = d
        /\ row.fence = dispatches[g].fence /\ row.expired = dispatches[g].expired
        /\ dispatches' = [dispatches EXCEPT ![g] = row]
    BY <1>1, <1>3, <2>3, RowFacts DEF Dispatches
  <2> HIDE DEF row, d, seen, g
  <2>6. /\ dispatches' \in [Generations -> Dispatches]
        /\ \A h \in Generations : dispatches'[h] = IF h = g THEN row ELSE dispatches[h]
    BY <1>1, <2>5, TablesStay
  <2>7. \A h \in Generations :
          \/ dispatches'[h] = dispatches[h]
          \/ /\ h = journal.generation /\ h > 0
             /\ dispatches'[h].state \in Settled
             /\ dispatches'[h].fence = dispatches[h].fence
             /\ dispatches'[h].expired = dispatches[h].expired
    BY <2>1, <2>3, <2>5, <2>6
  <2>8. reconciler' \in [Reconcilers -> Attempts] /\ \A q \in Reconcilers : reconciler'[q] \in {reconciler[q], Idle}
    BY <1>3, TablesStay
  <2>9. due' \in BOOLEAN
    BY <1>3
  <2>10. observer' \in [Observers -> Observations] /\ \A o \in Observers : observer'[o].seen \in {observer[o].seen, "none"}
    BY <1>1, TablesStay
  <2> QED BY <1>1, <2>4, <2>6, <2>7, <2>8, <2>9, <2>10, JournalWritten
<1> QED BY <1>2, <1>3 DEF Complete

(***************************************************************************)
(* The tool calls and the rest of the world.                               *)
(***************************************************************************)
\* A step of the world that writes no table and moves no attempt.
LEMMA QuietInv ==
  ASSUME ReconciliationInv, UNCHANGED <<journal, dispatches, reconciler, spent>>,
         remote' \in RemoteStates, remote \in Outcomes => remote' = remote,
         due' \in BOOLEAN,
         observer' \in [Observers -> Observations],
         \A o \in Observers : observer'[o].seen \in Outcomes => observer'[o].seen = remote
  PROVE  ReconciliationInv'
<1>1. TypeOK' /\ RecordsAgree' /\ DispatchesOK'
  BY DEF ReconciliationInv, TypeOK, RecordsAgree, DispatchesOK, Closed
<1>2. AttemptsOK' /\ FencesOK'
  BY DEF ReconciliationInv, AttemptsOK, FencesOK, IsCurrent
<1>3. OutcomesAreTrue'
  BY DEF ReconciliationInv, OutcomesAreTrue
<1> QED BY <1>1, <1>2, <1>3 DEF ReconciliationInv

LEMMA ObserveInv ==
  ASSUME ReconciliationInv, NEW o \in Observers, Observe(o)
  PROVE  ReconciliationInv'
<1>1. PICK s \in Reported : observer' = [observer EXCEPT ![o] = [seen |-> s, refused |-> FALSE]]
  BY DEF Observe
<1>2. remote \in RemoteStates /\ UNCHANGED <<remote, journal, due, dispatches, reconciler, spent>>
  BY DEF Observe, ReconciliationInv, TypeOK
<1>3. s \in HandleStatuses /\ (s \in Outcomes => s = remote)
  BY <1>2, ReconciliationAssumption DEF Reported, HandleStatuses, Unresolved, Outcomes, ReconciliationAssumption
<1>4. [seen |-> s, refused |-> FALSE] \in Observations
  BY <1>3 DEF Observations
<1>5. observer' \in [Observers -> Observations]
  BY <1>1, <1>4, TablesStay
<1>6. \A p \in Observers : observer'[p].seen \in Outcomes => observer'[p].seen = remote
  BY <1>1, <1>3, TablesStay DEF SeenOK
<1> QED BY <1>2, <1>5, <1>6, TablesStay, QuietInv

LEMMA PersistInv ==
  ASSUME ReconciliationInv, NEW o \in Observers, PersistObservation(o)
  PROVE  ReconciliationInv'
<1> DEFINE s == observer[o].seen
           result == ObservationResult(s)
<1>1. /\ s \in HandleStatuses /\ (s \in Outcomes => s = remote)
      /\ UNCHANGED <<remote, dispatches, reconciler, spent>>
      /\ result \in {"created", "advanced"} => CanWrite
      /\ observer' = [observer EXCEPT ![o] = [seen |-> "none", refused |-> result = "refused"]]
      /\ due' = IF result \in {"created", "advanced"} THEN s \notin Outcomes ELSE due
      /\ journal' = CASE result = "created" -> Created(s)
                      [] result = "advanced" /\ s \in Outcomes -> ClosedWith(s)
                      [] result = "advanced" /\ s \notin Outcomes -> Advanced(s)
                      [] OTHER -> journal
  BY TablesStay DEF PersistObservation, SeenOK
<1>2. /\ observer' \in [Observers -> Observations]
      /\ \A p \in Observers : observer'[p].seen \in {observer[p].seen, "none"}
  <2>1. [seen |-> "none", refused |-> result = "refused"] \in Observations
    BY DEF Observations
  <2>2. [seen |-> "none", refused |-> result = "refused"].seen = "none"
    OBVIOUS
  <2> QED BY <1>1, <2>1, <2>2, TablesStay
<1>3. due' \in BOOLEAN
  BY <1>1, TablesStay
<1>4. /\ result = "created" => journal.status = "absent"
      /\ result = "advanced" => journal.status # "absent" /\ ~(journal.handle \in Outcomes)
  <2>1. CASE journal.status = "absent"
    BY <2>1 DEF ObservationResult
  <2>2. CASE journal.status # "absent"
    BY <2>2 DEF ObservationResult
  <2> QED BY <2>1, <2>2
<1> HIDE DEF result
<1>5. ASSUME journal' \in Journals, RecordsAgree', journal'.generation = journal.generation + 1,
             journal'.handle = s
      PROVE  ReconciliationInv'
  BY <1>1, <1>2, <1>3, <1>5, TablesStay, JournalWritten
<1>6. CASE result = "created"
  <2>1. journal' = Created(s) /\ journal.generation = 0
    BY <1>1, <1>4, <1>6, JournalFields DEF RecordsAgree, NoRun
  <2> QED BY <1>1, <1>5, <2>1, CreatedRows
<1>7. CASE result = "advanced"
  <2>1. journal.status \in {"waiting", "blocked"} /\ CanWrite
    BY <1>1, <1>4, <1>7, JournalFields DEF RecordsAgree, Closed
  <2>2. CASE s \in Outcomes
    BY <1>1, <1>5, <1>7, <2>1, <2>2, ClosedRows
  <2>3. CASE s \notin Outcomes
    BY <1>1, <1>5, <1>7, <2>1, <2>3, AdvancedRows DEF HandleStatuses
  <2> QED BY <2>2, <2>3
<1>8. CASE result \notin {"created", "advanced"}
  <2>1. journal' = journal
    BY <1>1, <1>8
  <2>2. \A p \in Observers : observer'[p].seen \in Outcomes => observer'[p].seen = remote
    BY <1>2, TablesStay DEF SeenOK, Outcomes
  <2>3. remote' \in RemoteStates
    BY <1>1 DEF ReconciliationInv, TypeOK
  <2> QED BY <1>1, <1>2, <1>3, <2>1, <2>2, <2>3, QuietInv
<1> QED BY <1>6, <1>7, <1>8

\* A lease that runs out under a live attempt is counted.
LEMMA LeaseInv ==
  ASSUME ReconciliationInv, LeaseRunsOut
  PROVE  ReconciliationInv'
<1>1. PICK g \in Generations :
        /\ g = journal.generation /\ dispatches[g].state \in Open
        /\ IsHeld(g) => spent.slow < MaxSlow
        /\ dispatches' = [dispatches EXCEPT ![g].expired = TRUE]
        /\ spent' = IF IsHeld(g) THEN [spent EXCEPT !.slow = @ + 1] ELSE spent
        /\ UNCHANGED <<remote, journal, due, reconciler, observer>>
  BY DEF LeaseRunsOut
<1> DEFINE row == [dispatches[g] EXCEPT !.expired = TRUE]
<1>2. /\ row \in Dispatches /\ row.state = dispatches[g].state /\ row.fence = dispatches[g].fence
      /\ dispatches' = [dispatches EXCEPT ![g] = row]
  BY <1>1, RowFacts DEF Dispatches
<1> HIDE DEF row
<1>3. \A h \in Generations : dispatches'[h] = IF h = g THEN row ELSE dispatches[h]
  BY <1>2, RowFacts
<1>4. g > 0 /\ row.state \in Open
  BY <1>1, <1>2, RowFacts DEF DispatchOK, Open
<1>5. SpentTypeOK /\ spent.slow \in 0 .. MaxSlow
  BY SpentFacts
<1>6. SpentTypeOK'
  BY <1>1, <1>5, ReconciliationAssumption DEF SpentTypeOK, ReconciliationAssumption
<1>7. IsHeld(g) => spent'.slow # 0
  BY <1>1, <1>5, ReconciliationAssumption DEF SpentTypeOK, ReconciliationAssumption
<1>8. ~IsHeld(g) => spent'.slow = spent.slow
  BY <1>1
<1>9. ASSUME NEW r \in Reconcilers
      PROVE  AttemptOK(reconciler'[r]) /\ FenceOK(r, reconciler[r])' /\ SeenOK(reconciler'[r])
  <2>1. /\ AttemptOK(reconciler[r]) /\ FenceOK(r, reconciler[r]) /\ SeenOK(reconciler[r])
        /\ reconciler[r].generation \in Generations /\ reconciler' = reconciler
    BY <1>1, AttemptFacts
  <2>2. CASE IsHeld(g)
    BY <1>7, <2>1, <2>2 DEF FenceOK
  <2>3. CASE ~IsHeld(g) /\ reconciler[r].generation # g
    BY <1>3, <1>8, <2>1, <2>3 DEF FenceOK
  <2>4. CASE ~IsHeld(g) /\ reconciler[r].generation = g
    <3>1. reconciler[r].pc \in {"fenced", "claimed", "inspected"} => dispatches[g].fence # r
      BY <2>4 DEF IsHeld
    <3> QED BY <1>8, <2>1, <2>4, <3>1 DEF FenceOK
  <2> QED BY <2>2, <2>3, <2>4
<1>10. reconciler' \in [Reconcilers -> Attempts]
  BY <1>1, TablesStay
<1> QED BY <1>1, <1>2, <1>4, <1>6, <1>9, <1>10, DispatchWritten

\* A crash leaves no attempt that could hold a stale belief.
LEMMA CrashInv ==
  ASSUME ReconciliationInv, Crash
  PROVE  ReconciliationInv'
<1>1. /\ reconciler' = [r \in Reconcilers |-> Idle]
      /\ observer' = [o \in Observers |-> [seen |-> "none", refused |-> FALSE]]
      /\ UNCHANGED <<remote, journal, due, dispatches>>
  BY DEF Crash
<1>2. SpentTypeOK'
  BY SpentFacts, ReconciliationAssumption DEF Crash, SpentTypeOK, ReconciliationAssumption
<1>3. TypeOK'
  <2>1. [seen |-> "none", refused |-> FALSE] \in Observations
    BY DEF Observations
  <2>2. reconciler' \in [Reconcilers -> Attempts] /\ observer' \in [Observers -> Observations]
    BY <1>1, <2>1, TablesStay
  <2> QED BY <1>1, <1>2, <2>2 DEF ReconciliationInv, TypeOK, SpentTypeOK
<1>4. RecordsAgree' /\ DispatchesOK'
  BY <1>1 DEF ReconciliationInv, RecordsAgree, DispatchesOK, Closed
<1>5. AttemptsOK' /\ FencesOK'
  BY <1>1, IdleIsOK DEF AttemptsOK, FencesOK
<1>6. OutcomesAreTrue'
  BY <1>1, IdleIsOK DEF ReconciliationInv, OutcomesAreTrue, SeenOK, Outcomes
<1> QED BY <1>3, <1>4, <1>5, <1>6 DEF ReconciliationInv

\* Every step of every actor keeps the invariant.
LEMMA StepInv == ReconciliationInv /\ [Next]_vars => ReconciliationInv'
<1> SUFFICES ASSUME ReconciliationInv, [Next]_vars PROVE ReconciliationInv'
  OBVIOUS
<1>1. CASE UNCHANGED vars
  BY <1>1 DEF vars, ReconciliationInv, TypeOK, RecordsAgree, Closed, OutcomesAreTrue,
              DispatchesOK, AttemptsOK, IsCurrent, FencesOK
<1>2. ASSUME NEW o \in Observers, Observe(o) \/ PersistObservation(o) PROVE ReconciliationInv'
  BY <1>2, ObserveInv, PersistInv
<1>3. ASSUME NEW r \in Reconcilers, Schedule(r) \/ Attempt(r) \/ RequireAttention(r)
      PROVE  ReconciliationInv'
  <2>1. CASE Schedule(r) \/ RequireAttention(r)
    BY <2>1, ScheduleInv, AttentionInv
  <2>2. CASE Query(r) \/ Revalidate(r) \/ AcquireDispatchFence(r) \/ Claim(r)
    BY <2>2, QueryInv, AcquireInv, ClaimInv
  <2>3. CASE InspectOutcome(r) \/ InspectUnresolved(r) \/ Complete(r)
    BY <2>3, InspectInv, CompleteInv
  <2>4. CASE Release(r)
    <3>1. SpentTypeOK' /\ spent'.slow = spent.slow
      BY <2>4, AttemptFacts DEF Release, SpentTypeOK
    <3> QED BY <2>4, <3>1, IdleIsOK, AttemptMoves DEF Release
  <2> QED BY <1>3, <2>1, <2>2, <2>3, <2>4 DEF Attempt
<1>4. CASE RequestCancellation \/ LeaseRunsOut \/ Crash
  BY <1>4, CancellationInv, LeaseInv, CrashInv
<1>5. CASE RemoteMoves \/ MonitorFallsDue
  <2>1. /\ UNCHANGED <<journal, dispatches, reconciler, spent, observer>>
        /\ remote' \in RemoteStates /\ (remote \in Outcomes => remote' = remote)
        /\ due' \in BOOLEAN
    BY <1>5, TablesStay DEF RemoteMoves, MonitorFallsDue, ReconciliationInv, TypeOK
  <2>2. observer' \in [Observers -> Observations]
        /\ \A o \in Observers : observer'[o].seen \in Outcomes => observer'[o].seen = remote
    BY <2>1, TablesStay DEF SeenOK
  <2> QED BY <2>1, <2>2, QuietInv
<1> QED BY <1>1, <1>2, <1>3, <1>4, <1>5 DEF Next

\* The inductive invariant holds of every state.
THEOREM ReconciliationInvariance == Spec => []ReconciliationInv
  BY InitInv, StepInv, PTL DEF Spec

\* The tables of a run agree after every transaction, whoever wrote: tool calls,
\* recovery attempts, cancellation, and requests for attention.
THEOREM TablesAgree == Spec => []RecordsAgree
<1>1. ReconciliationInv => RecordsAgree
  BY DEF ReconciliationInv
<1> QED BY <1>1, ReconciliationInvariance, PTL

\* The fence of a snapshot has one live holder until a lease runs out under it.
THEOREM FencesAreExclusive == Spec => []OneInspectorPerLease
<1>1. ReconciliationInv => OneInspectorPerLease
  <2> SUFFICES ASSUME ReconciliationInv, NEW q \in Reconcilers, NEW r \in Reconcilers,
                      reconciler[q].pc \in {"claimed", "inspected"},
                      reconciler[r].pc \in {"claimed", "inspected"},
                      reconciler[q].generation = reconciler[r].generation,
                      q # r
               PROVE  spent.slow > 0
    BY DEF OneInspectorPerLease
  <2>1. spent.slow \in Nat
    BY AttemptFacts DEF SpentTypeOK
  <2>2. spent.slow # 0
    BY AttemptFacts DEF FenceOK
  <2> QED BY <2>1, <2>2
<1> QED BY <1>1, ReconciliationInvariance, PTL

(***************************************************************************)
(* What a step may never do.                                               *)
(***************************************************************************)
\* The dispatch of a snapshot changes in four ways.
DispatchStep ==
  \/ dispatches' = dispatches
  \/ \E g \in Generations :
       /\ dispatches[g].state \notin Settled
       /\ \A h \in Generations \ {g} : dispatches'[h] = dispatches[h]
       /\ dispatches'[g].state \in Settled =>
              g = journal.generation /\ journal'.generation = g + 1

LEMMA DispatchSteps == ReconciliationInv /\ [Next]_vars => DispatchStep
<1> SUFFICES ASSUME ReconciliationInv, [Next]_vars PROVE DispatchStep
  OBVIOUS
<1>1. CASE dispatches' = dispatches
  BY <1>1 DEF DispatchStep
<1>2. CASE LeaseRunsOut
  <2>1. PICK g \in Generations : /\ dispatches[g].state \in Open
                                 /\ dispatches' = [dispatches EXCEPT ![g].expired = TRUE]
    BY <1>2 DEF LeaseRunsOut
  <2>2. /\ dispatches'[g].state = dispatches[g].state
        /\ \A h \in Generations \ {g} : dispatches'[h] = dispatches[h]
    BY <2>1, RowFacts DEF Dispatches
  <2> QED BY <2>1, <2>2 DEF DispatchStep, Open, Settled
<1>3. ASSUME NEW r \in Reconcilers, AcquireDispatchFence(r) PROVE DispatchStep
  <2> DEFINE g == reconciler[r].generation
  <2>1. CASE dispatches' = dispatches
    BY <2>1 DEF DispatchStep
  <2>2. CASE /\ FenceIsFree(g)
             /\ dispatches' = [dispatches EXCEPT ![g] =
                    [state |-> "acquired", fence |-> r, expired |-> FALSE,
                     cancellation |-> IF dispatches[g].state = "none"
                                      THEN reconciler[r].cancellation
                                      ELSE dispatches[g].cancellation]]
    <3>1. g \in Generations /\ dispatches \in [Generations -> Dispatches]
      BY AttemptFacts, TablesStay
    <3>2. dispatches'[g].state = "acquired" /\ \A h \in Generations \ {g} : dispatches'[h] = dispatches[h]
      BY <2>2, <3>1
    <3>3. dispatches[g].state \notin Settled
      BY <2>2 DEF FenceIsFree, Open, Settled
    <3> QED BY <3>1, <3>2, <3>3 DEF DispatchStep, Settled
  <2> QED BY <1>3, <2>1, <2>2 DEF AcquireDispatchFence
<1>4. ASSUME NEW r \in Reconcilers, Claim(r) PROVE DispatchStep
  <2> DEFINE g == reconciler[r].generation
  <2>1. CASE dispatches' = dispatches
    BY <2>1 DEF DispatchStep
  <2>2. CASE ClaimIsLegal(r) /\ dispatches' = [dispatches EXCEPT ![g].state = "claimed"]
    <3>1. g \in Generations /\ dispatches[g].state = "acquired"
      BY <2>2, AttemptFacts DEF ClaimIsLegal
    <3>2. dispatches'[g].state = "claimed" /\ \A h \in Generations \ {g} : dispatches'[h] = dispatches[h]
      BY <2>2, <3>1, RowFacts DEF Dispatches
    <3> QED BY <3>1, <3>2 DEF DispatchStep, Settled
  <2> QED BY <1>4, <2>1, <2>2 DEF Claim
<1>5. ASSUME NEW r \in Reconcilers, Complete(r) PROVE DispatchStep
  <2> DEFINE g == reconciler[r].generation
  <2>1. CASE dispatches' = dispatches
    BY <2>1 DEF DispatchStep
  <2>2. CASE /\ CompletionIsLegal(r)
             /\ dispatches' = [dispatches EXCEPT ![g].state = reconciler[r].disposition]
             /\ journal' = IF reconciler[r].disposition = "completed"
                           THEN ClosedWith(reconciler[r].seen)
                           ELSE Checked(reconciler[r].seen, reconciler[r].disposition)
    <3>1. g \in Generations /\ dispatches[g].state = "claimed" /\ g = journal.generation
      BY <2>2, AttemptFacts DEF CompletionIsLegal, IsCurrent
    <3>2. \A h \in Generations \ {g} : dispatches'[h] = dispatches[h]
      BY <2>2, <3>1, RowFacts
    <3>3. journal'.generation = journal.generation + 1
      BY <2>2, AttemptFacts DEF Journals, ClosedWith, Checked
    <3> QED BY <3>1, <3>2, <3>3 DEF DispatchStep, Settled
  <2> QED BY <1>5, <2>1, <2>2 DEF Complete
<1>6. CASE UNCHANGED vars
  BY <1>1, <1>6 DEF vars
<1>7. ASSUME NEW o \in Observers, Observe(o) \/ PersistObservation(o) PROVE DispatchStep
  BY <1>1, <1>7 DEF Observe, PersistObservation
<1>8. CASE RequestCancellation \/ RemoteMoves \/ MonitorFallsDue \/ Crash
  BY <1>1, <1>8 DEF RequestCancellation, RemoteMoves, MonitorFallsDue, Crash
<1>9. ASSUME NEW r \in Reconcilers, Schedule(r) \/ Attempt(r) \/ RequireAttention(r)
      PROVE  DispatchStep
  <2>1. CASE Schedule(r) \/ RequireAttention(r) \/ Query(r) \/ Revalidate(r)
    BY <1>1, <2>1 DEF Schedule, RequireAttention, Query, Revalidate
  <2>2. CASE InspectOutcome(r) \/ InspectUnresolved(r) \/ Release(r)
    BY <1>1, <2>2 DEF InspectOutcome, InspectUnresolved, Release
  <2> QED BY <1>3, <1>4, <1>5, <1>9, <2>1, <2>2 DEF Attempt
<1> QED BY <1>2, <1>6, <1>7, <1>8, <1>9 DEF Next

\* complete() settles a snapshot once, and only the current one: what a slow attempt
\* found out about a past snapshot is never recorded.
THEOREM SnapshotsSettleOnce == Spec => SettlesTheCurrentSnapshotOnce
<1>1. DispatchStep =>
        \A g \in Generations :
          /\ dispatches[g].state \in Settled => dispatches'[g] = dispatches[g]
          /\ dispatches'[g].state \in Settled /\ dispatches[g].state \notin Settled =>
                 /\ g = journal.generation
                 /\ journal'.generation = g + 1
  BY DEF DispatchStep
<1>2. ReconciliationInv /\ [Next]_vars =>
        [\A g \in Generations :
          /\ dispatches[g].state \in Settled => dispatches'[g] = dispatches[g]
          /\ dispatches'[g].state \in Settled /\ dispatches[g].state \notin Settled =>
                 /\ g = journal.generation
                 /\ journal'.generation = g + 1]_vars
  BY <1>1, DispatchSteps
<1> QED BY <1>2, ReconciliationInvariance, PTL DEF Spec, SettlesTheCurrentSnapshotOnce

(***************************************************************************)
(* The register of an observed operation.                                  *)
(***************************************************************************)
\* What a step does to the run, as the register sees it.
RegisterStep ==
  \/ Operation!Advance /\ journal' = journal
  \/ remote' = remote /\ journal.status \notin Outcomes /\ Operation!Note
  \/ remote' = remote /\ journal.status \notin Outcomes /\ Operation!Close
  \/ /\ remote' = remote
     /\ \/ journal' = journal
        \/ journal.status \notin Outcomes /\ journal'.status \notin Outcomes /\ journal'.handle = journal.handle

\* A write of a status that is not an outcome is a Note, of an outcome a Close.
LEMMA Telling ==
  ASSUME remote' = remote, journal.status \notin Outcomes, NEW s,
         journal'.handle = s,
         \/ s \in Unresolved /\ journal'.status \notin Outcomes
         \/ s \in Outcomes /\ s = remote /\ journal'.status = s
  PROVE  RegisterStep
<1>1. CASE s \in Unresolved /\ journal'.status \notin Outcomes
  BY <1>1 DEF RegisterStep, Operation!Note, Closed
<1>2. CASE s \in Outcomes /\ s = remote /\ journal'.status = s
  BY <1>2 DEF RegisterStep, Operation!Close, Closed
<1> QED BY <1>1, <1>2

LEMMA PersistTells ==
  ASSUME ReconciliationInv, NEW o \in Observers, PersistObservation(o)
  PROVE  RegisterStep
<1> DEFINE s == observer[o].seen
           result == ObservationResult(s)
<1>1. /\ s \in HandleStatuses /\ (s \in Outcomes => s = remote)
      /\ remote' = remote
      /\ result \in {"created", "advanced"} => CanWrite
      /\ journal' = CASE result = "created" -> Created(s)
                      [] result = "advanced" /\ s \in Outcomes -> ClosedWith(s)
                      [] result = "advanced" /\ s \notin Outcomes -> Advanced(s)
                      [] OTHER -> journal
  BY TablesStay DEF PersistObservation, SeenOK
<1>2. /\ result = "created" => journal.status = "absent"
      /\ result = "advanced" => journal.status # "absent" /\ ~(journal.handle \in Outcomes)
  <2>1. CASE journal.status = "absent"
    BY <2>1 DEF ObservationResult
  <2>2. CASE journal.status # "absent"
    BY <2>2 DEF ObservationResult
  <2> QED BY <2>1, <2>2
<1> HIDE DEF result
<1>3. CASE result = "created"
  <2>1. /\ journal' = Created(s) /\ journal.status \notin Outcomes
    BY <1>1, <1>2, <1>3 DEF Outcomes
  <2>2. /\ journal'.handle = s
        /\ journal'.status = IF s \in Outcomes THEN s ELSE "waiting"
    BY <2>1 DEF Created
  <2> QED BY <1>1, <2>1, <2>2, Telling DEF HandleStatuses, Outcomes
<1>4. CASE result = "advanced"
  <2>1. journal.status \in {"waiting", "blocked"} /\ CanWrite /\ journal.status \notin Outcomes
    BY <1>1, <1>2, <1>4, JournalFields DEF RecordsAgree, Closed
  <2>2. CASE s \in Outcomes
    <3>1. journal'.handle = s /\ journal'.status = s
      BY <1>1, <1>4, <2>1, <2>2, ClosedRows
    <3> QED BY <1>1, <2>1, <2>2, <3>1, Telling
  <2>3. CASE s \notin Outcomes
    <3>1. s \in Unresolved /\ journal'.handle = s /\ journal'.status = journal.status
      BY <1>1, <1>4, <2>1, <2>3, AdvancedRows DEF HandleStatuses
    <3> QED BY <1>1, <2>1, <3>1, Telling
  <2> QED BY <2>2, <2>3
<1>5. CASE result \notin {"created", "advanced"}
  BY <1>1, <1>5 DEF RegisterStep
<1> QED BY <1>3, <1>4, <1>5

LEMMA CompleteTells ==
  ASSUME ReconciliationInv, NEW r \in Reconcilers, Complete(r)
  PROVE  RegisterStep
<1> DEFINE seen == reconciler[r].seen
           d == reconciler[r].disposition
<1>1. At(r, "inspected") /\ remote' = remote
  BY DEF Complete
<1>2. CASE journal' = journal
  BY <1>1, <1>2 DEF RegisterStep
<1>3. CASE /\ CompletionIsLegal(r) /\ CanWrite
           /\ journal' = IF d = "completed" THEN ClosedWith(seen) ELSE Checked(seen, d)
  <2>1. journal.status \in {"waiting", "blocked"} /\ journal.status \notin Outcomes
    BY <1>3, ArmedIsOpen DEF CompletionIsLegal, Outcomes
  <2>2. /\ d = "completed" <=> seen \in Outcomes
        /\ seen \in Outcomes => seen = remote
        /\ seen \in {"none"} \cup HandleStatuses
    <3>1. reconciler[r] \in Attempts /\ AttemptOK(reconciler[r]) /\ SeenOK(reconciler[r])
      BY AttemptFacts
    <3>2. seen \in {"none"} \cup HandleStatuses
      BY <3>1 DEF Attempts
    <3> QED BY <1>1, <3>1, <3>2 DEF AttemptOK, SeenOK, At
  <2>3. CASE d = "completed"
    <3>1. journal' = ClosedWith(seen) /\ seen \in Outcomes /\ seen = remote
      BY <1>3, <2>2, <2>3
    <3>2. journal'.handle = seen /\ journal'.status = seen
      BY <1>3, <2>1, <3>1, ClosedRows
    <3> QED BY <1>1, <2>1, <3>1, <3>2, Telling
  <2>4. CASE d # "completed"
    <3>1. journal' = Checked(seen, d) /\ seen \in {"none"} \cup Unresolved
      BY <1>3, <2>2, <2>4 DEF HandleStatuses
    <3>2. /\ journal'.handle = (IF seen = "none" THEN journal.handle ELSE seen)
          /\ journal'.status = journal.status
      BY <1>3, <2>1, <3>1, CheckedRows
    <3>3. journal'.handle \in Unresolved
      BY <2>1, <3>1, <3>2, ArmedIsOpen
    <3> QED BY <1>1, <2>1, <3>2, <3>3, Telling
  <2> QED BY <2>3, <2>4
<1> QED BY <1>2, <1>3 DEF Complete

LEMMA RegisterSteps == ReconciliationInv /\ [Next]_vars => RegisterStep
<1> SUFFICES ASSUME ReconciliationInv, [Next]_vars PROVE RegisterStep
  OBVIOUS
<1>1. CASE remote' = remote /\ journal' = journal
  BY <1>1 DEF RegisterStep
<1>2. CASE RequestCancellation
  <2>1. remote' = remote /\ journal'.status = journal.status /\ journal'.handle = journal.handle
    BY <1>2, JournalFields DEF RequestCancellation, Journals
  <2> QED BY <1>2, <2>1 DEF RequestCancellation, RegisterStep, Outcomes
<1>3. ASSUME NEW r \in Reconcilers, RequireAttention(r) PROVE RegisterStep
  <2>1. remote' = remote /\ journal'.status = "blocked" /\ journal'.handle = journal.handle
    BY <1>3, JournalFields DEF RequireAttention, Journals
  <2> QED BY <1>3, <2>1 DEF RequireAttention, ReconcilePlanned, RegisterStep, Outcomes
<1>4. CASE RemoteMoves
  BY <1>4 DEF RemoteMoves, RegisterStep, Operation!Advance, Closed
<1>5. CASE UNCHANGED vars
  BY <1>1, <1>5 DEF vars
<1>6. ASSUME NEW o \in Observers, Observe(o) \/ PersistObservation(o) PROVE RegisterStep
  BY <1>1, <1>6, PersistTells DEF Observe
<1>7. CASE MonitorFallsDue \/ Crash \/ LeaseRunsOut
  BY <1>1, <1>7 DEF MonitorFallsDue, Crash, LeaseRunsOut
<1>8. ASSUME NEW r \in Reconcilers, Schedule(r) \/ Attempt(r) PROVE RegisterStep
  <2>1. CASE Schedule(r) \/ Query(r) \/ Revalidate(r) \/ AcquireDispatchFence(r) \/ Claim(r)
    BY <1>1, <2>1 DEF Schedule, Query, Revalidate, AcquireDispatchFence, Claim
  <2>2. CASE InspectOutcome(r) \/ InspectUnresolved(r) \/ Release(r)
    BY <1>1, <2>2 DEF InspectOutcome, InspectUnresolved, Release
  <2> QED BY <1>8, <2>1, <2>2, CompleteTells DEF Attempt
<1> QED BY <1>2, <1>3, <1>4, <1>5, <1>6, <1>7, <1>8 DEF Next

\* No late answer, tool call, cancellation or request for attention writes the rows of
\* a closed run.
THEOREM ClosedRunsAreFinal == Spec => ClosedIsFinal
<1>1. ReconciliationInv /\ RegisterStep => [Closed => journal' = journal]_vars
  BY DEF RegisterStep, Closed, Operation!Note, Operation!Close
<1>2. ReconciliationInv /\ [Next]_vars => [Closed => journal' = journal]_vars
  BY <1>1, RegisterSteps
<1> QED BY <1>2, ReconciliationInvariance, PTL DEF Spec, ClosedIsFinal

\* The journal is the register of an observed operation: it records what it was told
\* last, an outcome only if it is the operation's, and nothing after that.
THEOREM ImplementsTheOperation == Spec => ImplementsOperation
<1>1. Init => Operation!Init
  BY DEF Init, Operation!Init, Closed, NoRun, Outcomes
<1>2. RegisterStep => [Operation!Next]_(Operation!vars)
  <2> SUFFICES ASSUME RegisterStep PROVE [Operation!Next]_(Operation!vars)
    OBVIOUS
  <2>1. CASE remote' = remote /\ journal' = journal
    BY <2>1 DEF Operation!vars, Closed
  <2>2. CASE /\ remote' = remote /\ journal.status \notin Outcomes
             /\ journal'.status \notin Outcomes /\ journal'.handle = journal.handle
    BY <2>2 DEF Operation!vars, Closed
  <2> QED BY <2>1, <2>2 DEF RegisterStep, Operation!Next
<1>3. ReconciliationInv /\ [Next]_vars => [Operation!Next]_(Operation!vars)
  BY <1>2, RegisterSteps
<1> QED BY <1>1, <1>3, ReconciliationInvariance, PTL DEF Spec, ImplementsOperation, Operation!Spec

=============================================================================
