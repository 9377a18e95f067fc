----------------------- MODULE ForegroundTurnsProofs -----------------------
(***************************************************************************)
(* ForegroundTurns, for any number of turns, failures and deaths of the    *)
(* process: ForegroundInv is inductive (one lemma per action), and the     *)
(* safety properties follow from it.                                       *)
(***************************************************************************)
EXTENDS ForegroundTurns, TLAPS

USE TurnsAssumption, BoundsAssumption
    DEF Early, Reserving, Running, Unowned, Closed, Ended, Labels, Holding, Working, Initial,
        OpenStatuses, ClosedStatuses, Replies, Answers

(***************************************************************************)
(* The counters and flags of the fault model, whatever the step.           *)
(***************************************************************************)
LEMMA FaultCounted ==
  ASSUME FaultsOK, Fault, UNCHANGED crashes
  PROVE  FaultsOK'
  <1>1. faults' \in 0..MaxFaults
    BY DEF FaultsOK, Fault
  <1>2. troubled' \in BOOLEAN
    BY DEF Fault
  <1> QED BY <1>1, <1>2 DEF FaultsOK

LEMMA FaultsKept ==
  ASSUME FaultsOK, UNCHANGED faultVars, UNCHANGED crashes
  PROVE  FaultsOK'
  BY DEF FaultsOK, faultVars

LEMMA CrashCounted ==
  ASSUME FaultsOK, Crash
  PROVE  FaultsOK'
  <1>1. crashes' \in 0..MaxCrashes
    BY DEF FaultsOK, Crash
  <1>2. troubled' \in BOOLEAN
    BY DEF Crash
  <1> QED BY <1>1, <1>2 DEF FaultsOK, Crash

(***************************************************************************)
(* Every action keeps the invariant: one lemma per action, and in it one   *)
(* step per part the action can disturb; the parts whose variables it      *)
(* leaves alone come together.                                             *)
(***************************************************************************)

LEMMA SendKeeps ==
  ASSUME ForegroundInv, NEW t \in Turns, Send(t)
  PROVE  ForegroundInv'
  <1>1. TypeOK'
    BY DEF ForegroundInv, TypeOK, FaultsOK, Conversations, Gone, Send, Goto, sweepVars,
       faultVars
  <1>2. PendingRunIsOwned' /\ SucceededIsDurable' /\ SweepOK' /\ SweepReclaims'
    BY DEF ForegroundInv, PendingRunIsOwned, SucceededIsDurable, SweepOK, SweepReclaims,
       Send, Goto, sweepVars, faultVars
  <1>3. RunsOK'
    BY DEF ForegroundInv, TypeOK, RunsOK, Send, Goto, sweepVars, faultVars
  <1>4. OwnersOK'
    BY DEF ForegroundInv, TypeOK, RunsOK, OwnersOK, PendingRunIsOwned, Gone, Send, Goto,
       sweepVars, faultVars
  <1>5. AnswersOK'
    BY DEF ForegroundInv, TypeOK, RunsOK, OwnersOK, AnswersOK, SucceededIsDurable,
       PendingRunIsOwned, Send, Goto, sweepVars, faultVars
  <1>6. RestartReclaims'
    BY DEF ForegroundInv, TypeOK, RunsOK, OwnersOK, PendingRunIsOwned, SweepReclaims,
       RestartReclaims, Send, Goto, sweepVars, faultVars
  <1> QED BY <1>1, <1>2, <1>3, <1>4, <1>5, <1>6 DEF ForegroundInv

LEMMA AwaitReadinessKeeps ==
  ASSUME ForegroundInv, NEW t \in Turns, AwaitReadiness(t)
  PROVE  ForegroundInv'
  <1>1. TypeOK'
    BY DEF ForegroundInv, TypeOK, FaultsOK, Conversations, Gone, AwaitReadiness, Goto,
       faultVars
  <1>2. PendingRunIsOwned' /\ SucceededIsDurable'
    BY DEF ForegroundInv, PendingRunIsOwned, SucceededIsDurable, AwaitReadiness, Goto,
       faultVars
  <1>3. RunsOK'
    BY DEF ForegroundInv, TypeOK, RunsOK, SweepOK, AwaitReadiness, Goto, faultVars
  <1>4. OwnersOK'
    BY DEF ForegroundInv, TypeOK, RunsOK, OwnersOK, PendingRunIsOwned, SweepOK, Gone,
       AwaitReadiness, Goto, faultVars
  <1>5. AnswersOK'
    BY DEF ForegroundInv, TypeOK, RunsOK, OwnersOK, AnswersOK, SucceededIsDurable,
       PendingRunIsOwned, SweepOK, AwaitReadiness, Goto, faultVars
  <1>6. SweepOK'
    BY DEF ForegroundInv, TypeOK, RunsOK, OwnersOK, PendingRunIsOwned, SweepOK,
       AwaitReadiness, Goto, faultVars
  <1>7. SweepReclaims'
    BY DEF ForegroundInv, TypeOK, RunsOK, OwnersOK, PendingRunIsOwned, SweepOK,
       SweepReclaims, AwaitReadiness, Goto, faultVars
  <1>8. RestartReclaims'
    BY DEF ForegroundInv, TypeOK, RunsOK, OwnersOK, PendingRunIsOwned, SweepOK,
       SweepReclaims, RestartReclaims, AwaitReadiness, Goto, faultVars
  <1> QED BY <1>1, <1>2, <1>3, <1>4, <1>5, <1>6, <1>7, <1>8 DEF ForegroundInv

LEMMA PassWaitKeeps ==
  ASSUME ForegroundInv, NEW t \in Turns, PassWait(t)
  PROVE  ForegroundInv'
  <1>1. TypeOK'
    BY DEF ForegroundInv, TypeOK, FaultsOK, Conversations, Gone, PassWait, Goto, sweepVars,
       faultVars
  <1>2. PendingRunIsOwned' /\ SucceededIsDurable' /\ SweepOK' /\ SweepReclaims'
    BY DEF ForegroundInv, PendingRunIsOwned, SucceededIsDurable, SweepOK, SweepReclaims,
       PassWait, Goto, sweepVars, faultVars
  <1>3. RunsOK'
    BY DEF ForegroundInv, TypeOK, RunsOK, PassWait, Goto, sweepVars, faultVars
  <1>4. OwnersOK'
    BY DEF ForegroundInv, TypeOK, RunsOK, OwnersOK, PendingRunIsOwned, Gone, PassWait, Goto,
       sweepVars, faultVars
  <1>5. AnswersOK'
    BY DEF ForegroundInv, TypeOK, RunsOK, OwnersOK, AnswersOK, SucceededIsDurable,
       PendingRunIsOwned, PassWait, Goto, sweepVars, faultVars
  <1>6. RestartReclaims'
    BY DEF ForegroundInv, TypeOK, RunsOK, OwnersOK, PendingRunIsOwned, SweepReclaims,
       RestartReclaims, PassWait, Goto, sweepVars, faultVars
  <1> QED BY <1>1, <1>2, <1>3, <1>4, <1>5, <1>6 DEF ForegroundInv

LEMMA GiveUpKeeps ==
  ASSUME ForegroundInv, NEW t \in Turns, GiveUp(t)
  PROVE  ForegroundInv'
  <1>1. TypeOK'
    BY DEF ForegroundInv, TypeOK, FaultsOK, Conversations, Gone, GiveUp, Finish, sweepVars,
       faultVars, Goto, Clear
  <1>2. PendingRunIsOwned' /\ SucceededIsDurable' /\ SweepOK' /\ SweepReclaims'
    BY DEF ForegroundInv, PendingRunIsOwned, SucceededIsDurable, SweepOK, SweepReclaims,
       GiveUp, Finish, sweepVars, faultVars, Goto, Clear
  <1>3. RunsOK'
    BY DEF ForegroundInv, TypeOK, RunsOK, GiveUp, Finish, sweepVars, faultVars, Goto, Clear
  <1>4. OwnersOK'
    BY DEF ForegroundInv, TypeOK, RunsOK, OwnersOK, PendingRunIsOwned, Gone, GiveUp, Finish,
       sweepVars, faultVars, Goto, Clear
  <1>5. AnswersOK'
    BY DEF ForegroundInv, TypeOK, RunsOK, OwnersOK, AnswersOK, SucceededIsDurable,
       PendingRunIsOwned, GiveUp, Finish, sweepVars, faultVars, Goto, Clear
  <1>6. RestartReclaims'
    BY DEF ForegroundInv, TypeOK, RunsOK, OwnersOK, PendingRunIsOwned, SweepReclaims,
       RestartReclaims, GiveUp, Finish, sweepVars, faultVars, Goto, Clear
  <1> QED BY <1>1, <1>2, <1>3, <1>4, <1>5, <1>6 DEF ForegroundInv

LEMMA ReserveKeeps ==
  ASSUME ForegroundInv, NEW t \in Turns, Reserve(t)
  PROVE  ForegroundInv'
  <1>1. TypeOK'
    BY DEF ForegroundInv, TypeOK, FaultsOK, Conversations, Gone, Reserve, Goto, IsCurrent,
       sweepVars, faultVars
  <1>2. SucceededIsDurable'
    BY DEF ForegroundInv, SucceededIsDurable, Reserve, Goto, IsCurrent, sweepVars, faultVars
  <1>3. RunsOK'
    BY DEF ForegroundInv, TypeOK, RunsOK, Conversations, Gone, Reserve, Goto, IsCurrent,
       sweepVars, faultVars
  <1>4. OwnersOK'
    BY DEF ForegroundInv, TypeOK, RunsOK, OwnersOK, PendingRunIsOwned, Conversations, Gone,
       Reserve, Goto, IsCurrent, sweepVars, faultVars
  <1>5. PendingRunIsOwned'
    BY DEF ForegroundInv, TypeOK, RunsOK, OwnersOK, PendingRunIsOwned, Conversations, Gone,
       Reserve, Goto, IsCurrent, sweepVars, faultVars
  <1>6. AnswersOK'
    BY DEF ForegroundInv, TypeOK, RunsOK, OwnersOK, AnswersOK, SucceededIsDurable,
       PendingRunIsOwned, Conversations, Gone, Reserve, Goto, IsCurrent, sweepVars,
       faultVars
  <1>7. SweepOK'
    BY DEF ForegroundInv, TypeOK, RunsOK, OwnersOK, PendingRunIsOwned, SweepOK,
       Conversations, Gone, Reserve, Goto, IsCurrent, sweepVars, faultVars
  <1>8. SweepReclaims'
    BY DEF ForegroundInv, TypeOK, RunsOK, OwnersOK, PendingRunIsOwned, SweepOK,
       SweepReclaims, Conversations, Gone, Reserve, Goto, IsCurrent, sweepVars, faultVars
  <1>9. RestartReclaims'
    BY DEF ForegroundInv, TypeOK, RunsOK, OwnersOK, PendingRunIsOwned, SweepReclaims,
       RestartReclaims, Conversations, Gone, Reserve, Goto, IsCurrent, sweepVars, faultVars
  <1> QED BY <1>1, <1>2, <1>3, <1>4, <1>5, <1>6, <1>7, <1>8, <1>9 DEF ForegroundInv

LEMMA RefuseKeeps ==
  ASSUME ForegroundInv, NEW t \in Turns, Refuse(t)
  PROVE  ForegroundInv'
  <1>1. TypeOK'
    BY DEF ForegroundInv, TypeOK, FaultsOK, Conversations, Gone, Refuse, Finish, sweepVars,
       faultVars, Goto, Clear
  <1>2. PendingRunIsOwned' /\ SucceededIsDurable' /\ SweepOK' /\ SweepReclaims'
    BY DEF ForegroundInv, PendingRunIsOwned, SucceededIsDurable, SweepOK, SweepReclaims,
       Refuse, Finish, sweepVars, faultVars, Goto, Clear
  <1>3. RunsOK'
    BY DEF ForegroundInv, TypeOK, RunsOK, Refuse, Finish, sweepVars, faultVars, Goto, Clear
  <1>4. OwnersOK'
    BY DEF ForegroundInv, TypeOK, RunsOK, OwnersOK, PendingRunIsOwned, Gone, Refuse, Finish,
       sweepVars, faultVars, Goto, Clear
  <1>5. AnswersOK'
    BY DEF ForegroundInv, TypeOK, RunsOK, OwnersOK, AnswersOK, SucceededIsDurable,
       PendingRunIsOwned, Refuse, Finish, sweepVars, faultVars, Goto, Clear
  <1>6. RestartReclaims'
    BY DEF ForegroundInv, TypeOK, RunsOK, OwnersOK, PendingRunIsOwned, SweepReclaims,
       RestartReclaims, Refuse, Finish, sweepVars, faultVars, Goto, Clear
  <1> QED BY <1>1, <1>2, <1>3, <1>4, <1>5, <1>6 DEF ForegroundInv

LEMMA PersistReservationKeeps ==
  ASSUME ForegroundInv, NEW t \in Turns, PersistReservation(t)
  PROVE  ForegroundInv'
  <1>1. FaultsOK'
    BY FaultCounted, FaultsKept DEF ForegroundInv, TypeOK, PersistReservation
  <1>2. TypeOK'
    BY <1>1 DEF ForegroundInv, TypeOK, Conversations, Gone, PersistReservation, Goto,
       Finish, Land, Fault, Unwind, Owns, sweepVars, faultVars, Clear, Marked
  <1>3. RunsOK'
    BY DEF ForegroundInv, TypeOK, RunsOK, Conversations, Gone, PersistReservation, Goto,
       Finish, Land, Fault, Unwind, Owns, sweepVars, faultVars, Clear, Marked
  <1>4. OwnersOK'
    BY DEF ForegroundInv, TypeOK, RunsOK, OwnersOK, PendingRunIsOwned, Conversations, Gone,
       PersistReservation, Goto, Finish, Land, Fault, Unwind, Owns, sweepVars, faultVars,
       Clear, Marked
  <1>5. PendingRunIsOwned'
    BY DEF ForegroundInv, TypeOK, RunsOK, OwnersOK, PendingRunIsOwned, Conversations, Gone,
       PersistReservation, Goto, Finish, Land, Fault, Unwind, Owns, sweepVars, faultVars,
       Clear, Marked
  <1>6. SucceededIsDurable'
    BY DEF ForegroundInv, TypeOK, RunsOK, SucceededIsDurable, AnswersOK, OwnersOK,
       Conversations, Gone, PersistReservation, Goto, Finish, Land, Fault, Unwind, Owns,
       sweepVars, faultVars, Clear, Marked
  <1>7. AnswersOK'
    BY DEF ForegroundInv, TypeOK, RunsOK, OwnersOK, AnswersOK, SucceededIsDurable,
       PendingRunIsOwned, Conversations, Gone, PersistReservation, Goto, Finish, Land,
       Fault, Unwind, Owns, sweepVars, faultVars, Clear, Marked
  <1>8. SweepOK'
    BY DEF ForegroundInv, TypeOK, RunsOK, OwnersOK, PendingRunIsOwned, SweepOK,
       Conversations, Gone, PersistReservation, Goto, Finish, Land, Fault, Unwind, Owns,
       sweepVars, faultVars, Clear, Marked
  <1>9. SweepReclaims'
    BY DEF ForegroundInv, TypeOK, RunsOK, OwnersOK, PendingRunIsOwned, SweepOK,
       SweepReclaims, Conversations, Gone, PersistReservation, Goto, Finish, Land, Fault,
       Unwind, Owns, sweepVars, faultVars, Clear, Marked
  <1>10. RestartReclaims'
    BY DEF ForegroundInv, TypeOK, RunsOK, OwnersOK, PendingRunIsOwned, SweepReclaims,
       RestartReclaims, Conversations, Gone, PersistReservation, Goto, Finish, Land, Fault,
       Unwind, Owns, sweepVars, faultVars, Clear, Marked
  <1> QED BY <1>1, <1>2, <1>3, <1>4, <1>5, <1>6, <1>7, <1>8, <1>9, <1>10 DEF ForegroundInv

LEMMA PrepareKeeps ==
  ASSUME ForegroundInv, NEW t \in Turns, Prepare(t)
  PROVE  ForegroundInv'
  <1>1. TypeOK'
    BY DEF ForegroundInv, TypeOK, FaultsOK, Conversations, Gone, Prepare, Goto, IsCurrent,
       sweepVars, faultVars
  <1>2. PendingRunIsOwned' /\ SucceededIsDurable' /\ SweepOK' /\ SweepReclaims'
    BY DEF ForegroundInv, PendingRunIsOwned, SucceededIsDurable, SweepOK, SweepReclaims,
       Prepare, Goto, IsCurrent, sweepVars, faultVars
  <1>3. RunsOK'
    BY DEF ForegroundInv, TypeOK, RunsOK, Prepare, Goto, IsCurrent, sweepVars, faultVars
  <1>4. OwnersOK'
    BY DEF ForegroundInv, TypeOK, RunsOK, OwnersOK, PendingRunIsOwned, Gone, Prepare, Goto,
       IsCurrent, sweepVars, faultVars
  <1>5. AnswersOK'
    BY DEF ForegroundInv, TypeOK, RunsOK, OwnersOK, AnswersOK, SucceededIsDurable,
       PendingRunIsOwned, Prepare, Goto, IsCurrent, sweepVars, faultVars
  <1>6. RestartReclaims'
    BY DEF ForegroundInv, TypeOK, RunsOK, OwnersOK, PendingRunIsOwned, SweepReclaims,
       RestartReclaims, Prepare, Goto, IsCurrent, sweepVars, faultVars
  <1> QED BY <1>1, <1>2, <1>3, <1>4, <1>5, <1>6 DEF ForegroundInv

LEMMA AbandonKeeps ==
  ASSUME ForegroundInv, NEW t \in Turns, Abandon(t)
  PROVE  ForegroundInv'
  <1>1. TypeOK'
    BY DEF ForegroundInv, TypeOK, FaultsOK, Conversations, Gone, Abandon, Finish, Unwind,
       Owns, Throw, sweepVars, faultVars, Goto, Clear, Marked
  <1>2. SucceededIsDurable'
    BY DEF ForegroundInv, SucceededIsDurable, Abandon, Finish, Unwind, Owns, Throw,
       sweepVars, faultVars, Goto, Clear, Marked
  <1>3. RunsOK'
    BY DEF ForegroundInv, TypeOK, RunsOK, Conversations, Gone, Abandon, Finish, Unwind,
       Owns, Throw, sweepVars, faultVars, Goto, Clear, Marked
  <1>4. OwnersOK'
    BY DEF ForegroundInv, TypeOK, RunsOK, OwnersOK, PendingRunIsOwned, Conversations, Gone,
       Abandon, Finish, Unwind, Owns, Throw, sweepVars, faultVars, Goto, Clear, Marked
  <1>5. PendingRunIsOwned'
    BY DEF ForegroundInv, TypeOK, RunsOK, OwnersOK, PendingRunIsOwned, Conversations, Gone,
       Abandon, Finish, Unwind, Owns, Throw, sweepVars, faultVars, Goto, Clear, Marked
  <1>6. AnswersOK'
    BY DEF ForegroundInv, TypeOK, RunsOK, OwnersOK, AnswersOK, SucceededIsDurable,
       PendingRunIsOwned, Conversations, Gone, Abandon, Finish, Unwind, Owns, Throw,
       sweepVars, faultVars, Goto, Clear, Marked
  <1>7. SweepOK'
    BY DEF ForegroundInv, TypeOK, RunsOK, OwnersOK, PendingRunIsOwned, SweepOK,
       Conversations, Gone, Abandon, Finish, Unwind, Owns, Throw, sweepVars, faultVars,
       Goto, Clear, Marked
  <1>8. SweepReclaims'
    BY DEF ForegroundInv, TypeOK, RunsOK, OwnersOK, PendingRunIsOwned, SweepOK,
       SweepReclaims, Conversations, Gone, Abandon, Finish, Unwind, Owns, Throw, sweepVars,
       faultVars, Goto, Clear, Marked
  <1>9. RestartReclaims'
    BY DEF ForegroundInv, TypeOK, RunsOK, OwnersOK, PendingRunIsOwned, SweepReclaims,
       RestartReclaims, Conversations, Gone, Abandon, Finish, Unwind, Owns, Throw,
       sweepVars, faultVars, Goto, Clear, Marked
  <1> QED BY <1>1, <1>2, <1>3, <1>4, <1>5, <1>6, <1>7, <1>8, <1>9 DEF ForegroundInv

LEMMA PersistUnwindingKeeps ==
  ASSUME ForegroundInv, NEW t \in Turns, PersistUnwinding(t)
  PROVE  ForegroundInv'
  <1>1. FaultsOK'
    BY FaultCounted, FaultsKept DEF ForegroundInv, TypeOK, PersistUnwinding
  <1>2. TypeOK'
    BY <1>1 DEF ForegroundInv, TypeOK, Conversations, Gone, PersistUnwinding, Goto, Land,
       Fault, Throw, sweepVars, faultVars
  <1>3. RunsOK'
    BY DEF ForegroundInv, TypeOK, RunsOK, PersistUnwinding, Goto, Land, Fault, Throw,
       sweepVars, faultVars
  <1>4. OwnersOK'
    BY DEF ForegroundInv, TypeOK, RunsOK, OwnersOK, PendingRunIsOwned, Gone,
       PersistUnwinding, Goto, Land, Fault, Throw, sweepVars, faultVars
  <1>5. PendingRunIsOwned'
    BY DEF ForegroundInv, TypeOK, RunsOK, OwnersOK, PendingRunIsOwned, PersistUnwinding,
       Goto, Land, Fault, Throw, sweepVars, faultVars
  <1>6. SucceededIsDurable'
    BY DEF ForegroundInv, TypeOK, RunsOK, SucceededIsDurable, AnswersOK, OwnersOK,
       PersistUnwinding, Goto, Land, Fault, Throw, sweepVars, faultVars
  <1>7. AnswersOK'
    BY DEF ForegroundInv, TypeOK, RunsOK, OwnersOK, AnswersOK, SucceededIsDurable,
       PendingRunIsOwned, PersistUnwinding, Goto, Land, Fault, Throw, sweepVars, faultVars
  <1>8. SweepOK'
    BY DEF ForegroundInv, TypeOK, RunsOK, OwnersOK, PendingRunIsOwned, SweepOK,
       PersistUnwinding, Goto, Land, Fault, Throw, sweepVars, faultVars
  <1>9. SweepReclaims'
    BY DEF ForegroundInv, TypeOK, RunsOK, OwnersOK, PendingRunIsOwned, SweepOK,
       SweepReclaims, PersistUnwinding, Goto, Land, Fault, Throw, sweepVars, faultVars
  <1>10. RestartReclaims'
    BY DEF ForegroundInv, TypeOK, RunsOK, OwnersOK, PendingRunIsOwned, SweepReclaims,
       RestartReclaims, PersistUnwinding, Goto, Land, Fault, Throw, sweepVars, faultVars
  <1> QED BY <1>1, <1>2, <1>3, <1>4, <1>5, <1>6, <1>7, <1>8, <1>9, <1>10 DEF ForegroundInv

LEMMA ReleaseReservationKeeps ==
  ASSUME ForegroundInv, NEW t \in Turns, ReleaseReservation(t)
  PROVE  ForegroundInv'
  <1>1. TypeOK'
    BY DEF ForegroundInv, TypeOK, FaultsOK, Conversations, Gone, ReleaseReservation, Goto,
       Owns, Throw, sweepVars, faultVars
  <1>2. SucceededIsDurable'
    BY DEF ForegroundInv, SucceededIsDurable, ReleaseReservation, Goto, Owns, Throw,
       sweepVars, faultVars
  <1>3. RunsOK'
    BY DEF ForegroundInv, TypeOK, RunsOK, Conversations, Gone, ReleaseReservation, Goto,
       Owns, Throw, sweepVars, faultVars
  <1>4. OwnersOK'
    BY DEF ForegroundInv, TypeOK, RunsOK, OwnersOK, PendingRunIsOwned, Conversations, Gone,
       ReleaseReservation, Goto, Owns, Throw, sweepVars, faultVars
  <1>5. PendingRunIsOwned'
    BY DEF ForegroundInv, TypeOK, RunsOK, OwnersOK, PendingRunIsOwned, Conversations, Gone,
       ReleaseReservation, Goto, Owns, Throw, sweepVars, faultVars
  <1>6. AnswersOK'
    BY DEF ForegroundInv, TypeOK, RunsOK, OwnersOK, AnswersOK, SucceededIsDurable,
       PendingRunIsOwned, Conversations, Gone, ReleaseReservation, Goto, Owns, Throw,
       sweepVars, faultVars
  <1>7. SweepOK'
    BY DEF ForegroundInv, TypeOK, RunsOK, OwnersOK, PendingRunIsOwned, SweepOK,
       Conversations, Gone, ReleaseReservation, Goto, Owns, Throw, sweepVars, faultVars
  <1>8. SweepReclaims'
    BY DEF ForegroundInv, TypeOK, RunsOK, OwnersOK, PendingRunIsOwned, SweepOK,
       SweepReclaims, Conversations, Gone, ReleaseReservation, Goto, Owns, Throw, sweepVars,
       faultVars
  <1>9. RestartReclaims'
    BY DEF ForegroundInv, TypeOK, RunsOK, OwnersOK, PendingRunIsOwned, SweepReclaims,
       RestartReclaims, Conversations, Gone, ReleaseReservation, Goto, Owns, Throw,
       sweepVars, faultVars
  <1> QED BY <1>1, <1>2, <1>3, <1>4, <1>5, <1>6, <1>7, <1>8, <1>9 DEF ForegroundInv

LEMMA PersistReleaseKeeps ==
  ASSUME ForegroundInv, NEW t \in Turns, PersistRelease(t)
  PROVE  ForegroundInv'
  <1>1. FaultsOK'
    BY FaultCounted, FaultsKept DEF ForegroundInv, TypeOK, PersistRelease
  <1>2. TypeOK'
    BY <1>1 DEF ForegroundInv, TypeOK, Conversations, Gone, PersistRelease, Finish, Land,
       Fault, Throw, sweepVars, faultVars, Goto, Clear
  <1>3. RunsOK'
    BY DEF ForegroundInv, TypeOK, RunsOK, PersistRelease, Finish, Land, Fault, Throw,
       sweepVars, faultVars, Goto, Clear
  <1>4. OwnersOK'
    BY DEF ForegroundInv, TypeOK, RunsOK, OwnersOK, PendingRunIsOwned, Gone, PersistRelease,
       Finish, Land, Fault, Throw, sweepVars, faultVars, Goto, Clear
  <1>5. PendingRunIsOwned'
    BY DEF ForegroundInv, TypeOK, RunsOK, OwnersOK, PendingRunIsOwned, PersistRelease,
       Finish, Land, Fault, Throw, sweepVars, faultVars, Goto, Clear
  <1>6. SucceededIsDurable'
    BY DEF ForegroundInv, TypeOK, RunsOK, SucceededIsDurable, AnswersOK, OwnersOK,
       PersistRelease, Finish, Land, Fault, Throw, sweepVars, faultVars, Goto, Clear
  <1>7. AnswersOK'
    BY DEF ForegroundInv, TypeOK, RunsOK, OwnersOK, AnswersOK, SucceededIsDurable,
       PendingRunIsOwned, PersistRelease, Finish, Land, Fault, Throw, sweepVars, faultVars,
       Goto, Clear
  <1>8. SweepOK'
    BY DEF ForegroundInv, TypeOK, RunsOK, OwnersOK, PendingRunIsOwned, SweepOK,
       PersistRelease, Finish, Land, Fault, Throw, sweepVars, faultVars, Goto, Clear
  <1>9. SweepReclaims'
    BY DEF ForegroundInv, TypeOK, RunsOK, OwnersOK, PendingRunIsOwned, SweepOK,
       SweepReclaims, PersistRelease, Finish, Land, Fault, Throw, sweepVars, faultVars,
       Goto, Clear
  <1>10. RestartReclaims'
    BY DEF ForegroundInv, TypeOK, RunsOK, OwnersOK, PendingRunIsOwned, SweepReclaims,
       RestartReclaims, PersistRelease, Finish, Land, Fault, Throw, sweepVars, faultVars,
       Goto, Clear
  <1> QED BY <1>1, <1>2, <1>3, <1>4, <1>5, <1>6, <1>7, <1>8, <1>9, <1>10 DEF ForegroundInv

LEMMA CreateRunKeeps ==
  ASSUME ForegroundInv, NEW t \in Turns, CreateRun(t)
  PROVE  ForegroundInv'
  <1>1. FaultsOK'
    BY FaultCounted, FaultsKept DEF ForegroundInv, TypeOK, CreateRun
  <1>2. TypeOK'
    BY <1>1 DEF ForegroundInv, TypeOK, Conversations, Gone, CreateRun, Goto, Finish, Clear,
       Fault, Unwind, Owns, sweepVars, faultVars, Marked
  <1>3. RunsOK'
    BY DEF ForegroundInv, TypeOK, RunsOK, Conversations, Gone, CreateRun, Goto, Finish,
       Clear, Fault, Unwind, Owns, sweepVars, faultVars, Marked
  <1>4. OwnersOK'
    BY DEF ForegroundInv, TypeOK, RunsOK, OwnersOK, PendingRunIsOwned, Conversations, Gone,
       CreateRun, Goto, Finish, Clear, Fault, Unwind, Owns, sweepVars, faultVars, Marked
  <1>5. PendingRunIsOwned'
    BY DEF ForegroundInv, TypeOK, RunsOK, OwnersOK, PendingRunIsOwned, Conversations, Gone,
       CreateRun, Goto, Finish, Clear, Fault, Unwind, Owns, sweepVars, faultVars, Marked
  <1>6. SucceededIsDurable'
    BY DEF ForegroundInv, TypeOK, RunsOK, SucceededIsDurable, AnswersOK, OwnersOK,
       Conversations, Gone, CreateRun, Goto, Finish, Clear, Fault, Unwind, Owns, sweepVars,
       faultVars, Marked
  <1>7. AnswersOK'
    BY DEF ForegroundInv, TypeOK, RunsOK, OwnersOK, AnswersOK, SucceededIsDurable,
       PendingRunIsOwned, Conversations, Gone, CreateRun, Goto, Finish, Clear, Fault,
       Unwind, Owns, sweepVars, faultVars, Marked
  <1>8. SweepOK'
    BY DEF ForegroundInv, TypeOK, RunsOK, OwnersOK, PendingRunIsOwned, SweepOK,
       Conversations, Gone, CreateRun, Goto, Finish, Clear, Fault, Unwind, Owns, sweepVars,
       faultVars, Marked
  <1>9. SweepReclaims'
    BY DEF ForegroundInv, TypeOK, RunsOK, OwnersOK, PendingRunIsOwned, SweepOK,
       SweepReclaims, Conversations, Gone, CreateRun, Goto, Finish, Clear, Fault, Unwind,
       Owns, sweepVars, faultVars, Marked
  <1>10. RestartReclaims'
    BY DEF ForegroundInv, TypeOK, RunsOK, OwnersOK, PendingRunIsOwned, SweepReclaims,
       RestartReclaims, Conversations, Gone, CreateRun, Goto, Finish, Clear, Fault, Unwind,
       Owns, sweepVars, faultVars, Marked
  <1> QED BY <1>1, <1>2, <1>3, <1>4, <1>5, <1>6, <1>7, <1>8, <1>9, <1>10 DEF ForegroundInv

LEMMA CheckRunKeeps ==
  ASSUME ForegroundInv, NEW t \in Turns, CheckRun(t)
  PROVE  ForegroundInv'
  <1>1. TypeOK'
    BY DEF ForegroundInv, TypeOK, FaultsOK, Conversations, Gone, CheckRun, Goto, Clear,
       Owns, IsCurrent, CloseUnowned, Close, sweepVars, faultVars
  <1>2. PendingRunIsOwned' /\ SucceededIsDurable' /\ SweepReclaims'
    BY DEF ForegroundInv, PendingRunIsOwned, SucceededIsDurable, SweepReclaims, CheckRun,
       Goto, Clear, Owns, IsCurrent, CloseUnowned, Close, sweepVars, faultVars
  <1>3. RunsOK'
    BY DEF ForegroundInv, TypeOK, RunsOK, CheckRun, Goto, Clear, Owns, IsCurrent,
       CloseUnowned, Close, sweepVars, faultVars
  <1>4. OwnersOK'
    BY DEF ForegroundInv, TypeOK, RunsOK, OwnersOK, PendingRunIsOwned, Gone, CheckRun, Goto,
       Clear, Owns, IsCurrent, CloseUnowned, Close, sweepVars, faultVars
  <1>5. AnswersOK'
    BY DEF ForegroundInv, TypeOK, RunsOK, OwnersOK, AnswersOK, SucceededIsDurable,
       PendingRunIsOwned, CheckRun, Goto, Clear, Owns, IsCurrent, CloseUnowned, Close,
       sweepVars, faultVars
  <1>6. SweepOK'
    BY DEF ForegroundInv, TypeOK, RunsOK, OwnersOK, PendingRunIsOwned, SweepOK, CheckRun,
       Goto, Clear, Owns, IsCurrent, CloseUnowned, Close, sweepVars, faultVars
  <1>7. RestartReclaims'
    BY DEF ForegroundInv, TypeOK, RunsOK, OwnersOK, PendingRunIsOwned, SweepReclaims,
       RestartReclaims, CheckRun, Goto, Clear, Owns, IsCurrent, CloseUnowned, Close,
       sweepVars, faultVars
  <1> QED BY <1>1, <1>2, <1>3, <1>4, <1>5, <1>6, <1>7 DEF ForegroundInv

LEMMA ActivateKeeps ==
  ASSUME ForegroundInv, NEW t \in Turns, Activate(t)
  PROVE  ForegroundInv'
  <1>1. FaultsOK'
    BY FaultCounted, FaultsKept DEF ForegroundInv, TypeOK, Activate
  <1>2. TypeOK'
    BY <1>1 DEF ForegroundInv, TypeOK, Conversations, Gone, Activate, Goto, Clear, Fault,
       Owns, CloseUnowned, Close, sweepVars, faultVars
  <1>3. RunsOK'
    BY DEF ForegroundInv, TypeOK, RunsOK, Activate, Goto, Clear, Fault, Owns, CloseUnowned,
       Close, sweepVars, faultVars
  <1>4. OwnersOK'
    BY DEF ForegroundInv, TypeOK, RunsOK, OwnersOK, PendingRunIsOwned, Gone, Activate, Goto,
       Clear, Fault, Owns, CloseUnowned, Close, sweepVars, faultVars
  <1>5. PendingRunIsOwned'
    BY DEF ForegroundInv, TypeOK, RunsOK, OwnersOK, PendingRunIsOwned, Activate, Goto,
       Clear, Fault, Owns, CloseUnowned, Close, sweepVars, faultVars
  <1>6. SucceededIsDurable'
    BY DEF ForegroundInv, TypeOK, RunsOK, SucceededIsDurable, AnswersOK, OwnersOK, Activate,
       Goto, Clear, Fault, Owns, CloseUnowned, Close, sweepVars, faultVars
  <1>7. AnswersOK'
    BY DEF ForegroundInv, TypeOK, RunsOK, OwnersOK, AnswersOK, SucceededIsDurable,
       PendingRunIsOwned, Activate, Goto, Clear, Fault, Owns, CloseUnowned, Close,
       sweepVars, faultVars
  <1>8. SweepOK'
    BY DEF ForegroundInv, TypeOK, RunsOK, OwnersOK, PendingRunIsOwned, SweepOK, Activate,
       Goto, Clear, Fault, Owns, CloseUnowned, Close, sweepVars, faultVars
  <1>9. SweepReclaims'
    BY DEF ForegroundInv, TypeOK, RunsOK, OwnersOK, PendingRunIsOwned, SweepOK,
       SweepReclaims, Activate, Goto, Clear, Fault, Owns, CloseUnowned, Close, sweepVars,
       faultVars
  <1>10. RestartReclaims'
    BY DEF ForegroundInv, TypeOK, RunsOK, OwnersOK, PendingRunIsOwned, SweepReclaims,
       RestartReclaims, Activate, Goto, Clear, Fault, Owns, CloseUnowned, Close, sweepVars,
       faultVars
  <1> QED BY <1>1, <1>2, <1>3, <1>4, <1>5, <1>6, <1>7, <1>8, <1>9, <1>10 DEF ForegroundInv

LEMMA StartKeeps ==
  ASSUME ForegroundInv, NEW t \in Turns, Start(t)
  PROVE  ForegroundInv'
  <1>1. TypeOK'
    BY DEF ForegroundInv, TypeOK, FaultsOK, Conversations, Gone, Start, Goto, Clear,
       IsCurrent, Close, sweepVars, faultVars
  <1>2. PendingRunIsOwned' /\ SucceededIsDurable' /\ SweepReclaims'
    BY DEF ForegroundInv, PendingRunIsOwned, SucceededIsDurable, SweepReclaims, Start, Goto,
       Clear, IsCurrent, Close, sweepVars, faultVars
  <1>3. RunsOK'
    BY DEF ForegroundInv, TypeOK, RunsOK, Start, Goto, Clear, IsCurrent, Close, sweepVars,
       faultVars
  <1>4. OwnersOK'
    BY DEF ForegroundInv, TypeOK, RunsOK, OwnersOK, PendingRunIsOwned, Gone, Start, Goto,
       Clear, IsCurrent, Close, sweepVars, faultVars
  <1>5. AnswersOK'
    BY DEF ForegroundInv, TypeOK, RunsOK, OwnersOK, AnswersOK, SucceededIsDurable,
       PendingRunIsOwned, Start, Goto, Clear, IsCurrent, Close, sweepVars, faultVars
  <1>6. SweepOK'
    BY DEF ForegroundInv, TypeOK, RunsOK, OwnersOK, PendingRunIsOwned, SweepOK, Start, Goto,
       Clear, IsCurrent, Close, sweepVars, faultVars
  <1>7. RestartReclaims'
    BY DEF ForegroundInv, TypeOK, RunsOK, OwnersOK, PendingRunIsOwned, SweepReclaims,
       RestartReclaims, Start, Goto, Clear, IsCurrent, Close, sweepVars, faultVars
  <1> QED BY <1>1, <1>2, <1>3, <1>4, <1>5, <1>6, <1>7 DEF ForegroundInv

LEMMA GenerateKeeps ==
  ASSUME ForegroundInv, NEW t \in Turns, Generate(t)
  PROVE  ForegroundInv'
  <1>1. TypeOK'
    BY DEF ForegroundInv, TypeOK, FaultsOK, Conversations, Gone, Generate, Clear,
       CloseUnowned, Close, Project, sweepVars, faultVars, Goto, Owns
  <1>2. SucceededIsDurable'
    BY DEF ForegroundInv, SucceededIsDurable, Generate, Clear, CloseUnowned, Close, Project,
       sweepVars, faultVars, Goto, Owns
  <1>3. RunsOK'
    BY DEF ForegroundInv, TypeOK, RunsOK, Conversations, Gone, Generate, Clear,
       CloseUnowned, Close, Project, sweepVars, faultVars, Goto, Owns
  <1>4. OwnersOK'
    BY DEF ForegroundInv, TypeOK, RunsOK, OwnersOK, PendingRunIsOwned, Conversations, Gone,
       Generate, Clear, CloseUnowned, Close, Project, sweepVars, faultVars, Goto, Owns
  <1>5. PendingRunIsOwned'
    BY DEF ForegroundInv, TypeOK, RunsOK, OwnersOK, PendingRunIsOwned, Conversations, Gone,
       Generate, Clear, CloseUnowned, Close, Project, sweepVars, faultVars, Goto, Owns
  <1>6. AnswersOK'
    BY DEF ForegroundInv, TypeOK, RunsOK, OwnersOK, AnswersOK, SucceededIsDurable,
       PendingRunIsOwned, Conversations, Gone, Generate, Clear, CloseUnowned, Close,
       Project, sweepVars, faultVars, Goto, Owns
  <1>7. SweepOK'
    BY DEF ForegroundInv, TypeOK, RunsOK, OwnersOK, PendingRunIsOwned, SweepOK,
       Conversations, Gone, Generate, Clear, CloseUnowned, Close, Project, sweepVars,
       faultVars, Goto, Owns
  <1>8. SweepReclaims'
    BY DEF ForegroundInv, TypeOK, RunsOK, OwnersOK, PendingRunIsOwned, SweepOK,
       SweepReclaims, Conversations, Gone, Generate, Clear, CloseUnowned, Close, Project,
       sweepVars, faultVars, Goto, Owns
  <1>9. RestartReclaims'
    BY DEF ForegroundInv, TypeOK, RunsOK, OwnersOK, PendingRunIsOwned, SweepReclaims,
       RestartReclaims, Conversations, Gone, Generate, Clear, CloseUnowned, Close, Project,
       sweepVars, faultVars, Goto, Owns
  <1> QED BY <1>1, <1>2, <1>3, <1>4, <1>5, <1>6, <1>7, <1>8, <1>9 DEF ForegroundInv

LEMMA PersistReplyKeeps ==
  ASSUME ForegroundInv, NEW t \in Turns, PersistReply(t)
  PROVE  ForegroundInv'
  <1>1. FaultsOK'
    BY FaultCounted, FaultsKept DEF ForegroundInv, TypeOK, PersistReply, FaultsOK, faultVars
  <1>2. TypeOK'
    BY <1>1 DEF ForegroundInv, TypeOK, Conversations, Gone, PersistReply, Goto, Land, Fault,
       Owns, FailClose, sweepVars, faultVars, Throw
  <1>3. RunsOK'
    BY DEF ForegroundInv, TypeOK, RunsOK, PersistReply, Goto, Land, Fault, Owns, FailClose,
       sweepVars, faultVars, Throw
  <1>4. OwnersOK'
    BY DEF ForegroundInv, TypeOK, RunsOK, OwnersOK, PendingRunIsOwned, Gone, PersistReply,
       Goto, Land, Fault, Owns, FailClose, sweepVars, faultVars, Throw
  <1>5. PendingRunIsOwned'
    BY DEF ForegroundInv, TypeOK, RunsOK, OwnersOK, PendingRunIsOwned, PersistReply, Goto,
       Land, Fault, Owns, FailClose, sweepVars, faultVars, Throw
  <1>6. SucceededIsDurable'
    BY DEF ForegroundInv, TypeOK, RunsOK, SucceededIsDurable, AnswersOK, OwnersOK,
       PersistReply, Goto, Land, Fault, Owns, FailClose, sweepVars, faultVars, Throw
  <1>7. AnswersOK'
    BY DEF ForegroundInv, TypeOK, RunsOK, OwnersOK, AnswersOK, SucceededIsDurable,
       PendingRunIsOwned, PersistReply, Goto, Land, Fault, Owns, FailClose, sweepVars,
       faultVars, Throw
  <1>8. SweepOK'
    BY DEF ForegroundInv, TypeOK, RunsOK, OwnersOK, PendingRunIsOwned, SweepOK,
       PersistReply, Goto, Land, Fault, Owns, FailClose, sweepVars, faultVars, Throw
  <1>9. SweepReclaims'
    BY DEF ForegroundInv, TypeOK, RunsOK, OwnersOK, PendingRunIsOwned, SweepOK,
       SweepReclaims, PersistReply, Goto, Land, Fault, Owns, FailClose, sweepVars,
       faultVars, Throw
  <1>10. RestartReclaims'
    BY DEF ForegroundInv, TypeOK, RunsOK, OwnersOK, PendingRunIsOwned, SweepReclaims,
       RestartReclaims, PersistReply, Goto, Land, Fault, Owns, FailClose, sweepVars,
       faultVars, Throw
  <1> QED BY <1>1, <1>2, <1>3, <1>4, <1>5, <1>6, <1>7, <1>8, <1>9, <1>10 DEF ForegroundInv

LEMMA CheckOwnerKeeps ==
  ASSUME ForegroundInv, NEW t \in Turns, CheckOwner(t)
  PROVE  ForegroundInv'
  <1>1. FaultsOK'
    BY DEF ForegroundInv, TypeOK, FaultsOK, faultVars, CheckOwner
  <1>2. TypeOK'
    BY <1>1 DEF ForegroundInv, TypeOK, Conversations, Gone, CheckOwner, Goto, Owns,
       FailClose, sweepVars, Throw
  <1>3. PendingRunIsOwned' /\ SucceededIsDurable' /\ SweepOK'
    BY DEF ForegroundInv, PendingRunIsOwned, SucceededIsDurable, SweepOK, CheckOwner, Goto,
       Owns, FailClose, sweepVars, Throw
  <1>4. RunsOK'
    BY DEF ForegroundInv, TypeOK, RunsOK, CheckOwner, Goto, Owns, FailClose, sweepVars,
       Throw
  <1>5. OwnersOK'
    BY DEF ForegroundInv, TypeOK, RunsOK, OwnersOK, PendingRunIsOwned, Gone, CheckOwner,
       Goto, Owns, FailClose, sweepVars, Throw
  <1>6. AnswersOK'
    BY DEF ForegroundInv, TypeOK, RunsOK, OwnersOK, AnswersOK, SucceededIsDurable,
       PendingRunIsOwned, CheckOwner, Goto, Owns, FailClose, sweepVars, Throw
  <1>7. SweepReclaims'
    BY DEF ForegroundInv, TypeOK, RunsOK, OwnersOK, PendingRunIsOwned, SweepOK,
       SweepReclaims, CheckOwner, Goto, Owns, FailClose, sweepVars, Throw
  <1>8. RestartReclaims'
    BY DEF ForegroundInv, TypeOK, RunsOK, OwnersOK, PendingRunIsOwned, SweepReclaims,
       RestartReclaims, CheckOwner, Goto, Owns, FailClose, sweepVars, Throw
  <1> QED BY <1>1, <1>2, <1>3, <1>4, <1>5, <1>6, <1>7, <1>8 DEF ForegroundInv

LEMMA CompleteKeeps ==
  ASSUME ForegroundInv, NEW t \in Turns, Complete(t)
  PROVE  ForegroundInv'
  <1>1. FaultsOK'
    BY FaultCounted, FaultsKept DEF ForegroundInv, TypeOK, Complete
  <1>2. TypeOK'
    BY <1>1 DEF ForegroundInv, TypeOK, Conversations, Gone, Complete, Goto, Fault,
       FailClose, sweepVars, faultVars, Throw
  <1>3. RunsOK'
    BY DEF ForegroundInv, TypeOK, RunsOK, Complete, Goto, Fault, FailClose, sweepVars,
       faultVars, Throw
  <1>4. OwnersOK'
    BY DEF ForegroundInv, TypeOK, RunsOK, OwnersOK, PendingRunIsOwned, Gone, Complete, Goto,
       Fault, FailClose, sweepVars, faultVars, Throw
  <1>5. PendingRunIsOwned'
    BY DEF ForegroundInv, TypeOK, RunsOK, OwnersOK, PendingRunIsOwned, Complete, Goto,
       Fault, FailClose, sweepVars, faultVars, Throw
  <1>6. SucceededIsDurable'
    BY DEF ForegroundInv, TypeOK, RunsOK, SucceededIsDurable, AnswersOK, OwnersOK, Complete,
       Goto, Fault, FailClose, sweepVars, faultVars, Throw
  <1>7. AnswersOK'
    BY DEF ForegroundInv, TypeOK, RunsOK, OwnersOK, AnswersOK, SucceededIsDurable,
       PendingRunIsOwned, Complete, Goto, Fault, FailClose, sweepVars, faultVars, Throw
  <1>8. SweepOK'
    BY DEF ForegroundInv, TypeOK, RunsOK, OwnersOK, PendingRunIsOwned, SweepOK, Complete,
       Goto, Fault, FailClose, sweepVars, faultVars, Throw
  <1>9. SweepReclaims'
    BY DEF ForegroundInv, TypeOK, RunsOK, OwnersOK, PendingRunIsOwned, SweepOK,
       SweepReclaims, Complete, Goto, Fault, FailClose, sweepVars, faultVars, Throw
  <1>10. RestartReclaims'
    BY DEF ForegroundInv, TypeOK, RunsOK, OwnersOK, PendingRunIsOwned, SweepReclaims,
       RestartReclaims, Complete, Goto, Fault, FailClose, sweepVars, faultVars, Throw
  <1> QED BY <1>1, <1>2, <1>3, <1>4, <1>5, <1>6, <1>7, <1>8, <1>9, <1>10 DEF ForegroundInv

LEMMA ReleaseKeeps ==
  ASSUME ForegroundInv, NEW t \in Turns, Release(t)
  PROVE  ForegroundInv'
  <1>1. FaultsOK'
    BY DEF ForegroundInv, TypeOK, FaultsOK, faultVars, Release
  <1>2. TypeOK'
    BY <1>1 DEF ForegroundInv, TypeOK, Conversations, Gone, Release, Goto, Owns, FailClose,
       sweepVars, faultVars, Throw
  <1>3. SucceededIsDurable'
    BY DEF ForegroundInv, SucceededIsDurable, Release, Goto, Owns, FailClose, sweepVars,
       faultVars, Throw
  <1>4. RunsOK'
    BY DEF ForegroundInv, TypeOK, RunsOK, Conversations, Gone, Release, Goto, Owns,
       FailClose, sweepVars, faultVars, Throw
  <1>5. OwnersOK'
    BY DEF ForegroundInv, TypeOK, RunsOK, OwnersOK, PendingRunIsOwned, Conversations, Gone,
       Release, Goto, Owns, FailClose, sweepVars, faultVars, Throw
  <1>6. PendingRunIsOwned'
    BY DEF ForegroundInv, TypeOK, RunsOK, OwnersOK, PendingRunIsOwned, Conversations, Gone,
       Release, Goto, Owns, FailClose, sweepVars, faultVars, Throw
  <1>7. AnswersOK'
    BY DEF ForegroundInv, TypeOK, RunsOK, OwnersOK, AnswersOK, SucceededIsDurable,
       PendingRunIsOwned, Conversations, Gone, Release, Goto, Owns, FailClose, sweepVars,
       faultVars, Throw
  <1>8. SweepOK'
    BY DEF ForegroundInv, TypeOK, RunsOK, OwnersOK, PendingRunIsOwned, SweepOK,
       Conversations, Gone, Release, Goto, Owns, FailClose, sweepVars, faultVars, Throw
  <1>9. SweepReclaims'
    BY DEF ForegroundInv, TypeOK, RunsOK, OwnersOK, PendingRunIsOwned, SweepOK,
       SweepReclaims, Conversations, Gone, Release, Goto, Owns, FailClose, sweepVars,
       faultVars, Throw
  <1>10. RestartReclaims'
    BY DEF ForegroundInv, TypeOK, RunsOK, OwnersOK, PendingRunIsOwned, SweepReclaims,
       RestartReclaims, Conversations, Gone, Release, Goto, Owns, FailClose, sweepVars,
       faultVars, Throw
  <1> QED BY <1>1, <1>2, <1>3, <1>4, <1>5, <1>6, <1>7, <1>8, <1>9, <1>10 DEF ForegroundInv

LEMMA EndTurnKeeps ==
  ASSUME ForegroundInv, NEW t \in Turns, EndTurn(t)
  PROVE  ForegroundInv'
  <1>1. FaultsOK'
    BY FaultCounted, FaultsKept DEF ForegroundInv, TypeOK, EndTurn
  <1>2. TypeOK'
    BY <1>1 DEF ForegroundInv, TypeOK, Conversations, Gone, EndTurn, Land, Fault, Throw,
       FailClose, sweepVars, faultVars, Goto
  <1>3. RunsOK'
    BY DEF ForegroundInv, TypeOK, RunsOK, EndTurn, Land, Fault, Throw, FailClose, sweepVars,
       faultVars, Goto
  <1>4. OwnersOK'
    BY DEF ForegroundInv, TypeOK, RunsOK, OwnersOK, PendingRunIsOwned, Gone, EndTurn, Land,
       Fault, Throw, FailClose, sweepVars, faultVars, Goto
  <1>5. PendingRunIsOwned'
    BY DEF ForegroundInv, TypeOK, RunsOK, OwnersOK, PendingRunIsOwned, EndTurn, Land, Fault,
       Throw, FailClose, sweepVars, faultVars, Goto
  <1>6. SucceededIsDurable'
    BY DEF ForegroundInv, TypeOK, RunsOK, SucceededIsDurable, AnswersOK, OwnersOK, EndTurn,
       Land, Fault, Throw, FailClose, sweepVars, faultVars, Goto
  <1>7. AnswersOK'
    BY DEF ForegroundInv, TypeOK, RunsOK, OwnersOK, AnswersOK, SucceededIsDurable,
       PendingRunIsOwned, EndTurn, Land, Fault, Throw, FailClose, sweepVars, faultVars, Goto
  <1>8. SweepOK'
    BY DEF ForegroundInv, TypeOK, RunsOK, OwnersOK, PendingRunIsOwned, SweepOK, EndTurn,
       Land, Fault, Throw, FailClose, sweepVars, faultVars, Goto
  <1>9. SweepReclaims'
    BY DEF ForegroundInv, TypeOK, RunsOK, OwnersOK, PendingRunIsOwned, SweepOK,
       SweepReclaims, EndTurn, Land, Fault, Throw, FailClose, sweepVars, faultVars, Goto
  <1>10. RestartReclaims'
    BY DEF ForegroundInv, TypeOK, RunsOK, OwnersOK, PendingRunIsOwned, SweepReclaims,
       RestartReclaims, EndTurn, Land, Fault, Throw, FailClose, sweepVars, faultVars, Goto
  <1> QED BY <1>1, <1>2, <1>3, <1>4, <1>5, <1>6, <1>7, <1>8, <1>9, <1>10 DEF ForegroundInv

LEMMA PersistUnownedKeeps ==
  ASSUME ForegroundInv, NEW t \in Turns, PersistUnowned(t)
  PROVE  ForegroundInv'
  <1>1. FaultsOK'
    BY FaultCounted, FaultsKept DEF ForegroundInv, TypeOK, PersistUnowned
  <1>2. TypeOK'
    BY <1>1 DEF ForegroundInv, TypeOK, Conversations, Gone, PersistUnowned, Goto, Land,
       Fault, FailClose, sweepVars, faultVars, Throw
  <1>3. RunsOK'
    BY DEF ForegroundInv, TypeOK, RunsOK, PersistUnowned, Goto, Land, Fault, FailClose,
       sweepVars, faultVars, Throw
  <1>4. OwnersOK'
    BY DEF ForegroundInv, TypeOK, RunsOK, OwnersOK, PendingRunIsOwned, Gone, PersistUnowned,
       Goto, Land, Fault, FailClose, sweepVars, faultVars, Throw
  <1>5. PendingRunIsOwned'
    BY DEF ForegroundInv, TypeOK, RunsOK, OwnersOK, PendingRunIsOwned, PersistUnowned, Goto,
       Land, Fault, FailClose, sweepVars, faultVars, Throw
  <1>6. SucceededIsDurable'
    BY DEF ForegroundInv, TypeOK, RunsOK, SucceededIsDurable, AnswersOK, OwnersOK,
       PersistUnowned, Goto, Land, Fault, FailClose, sweepVars, faultVars, Throw
  <1>7. AnswersOK'
    BY DEF ForegroundInv, TypeOK, RunsOK, OwnersOK, AnswersOK, SucceededIsDurable,
       PendingRunIsOwned, PersistUnowned, Goto, Land, Fault, FailClose, sweepVars,
       faultVars, Throw
  <1>8. SweepOK'
    BY DEF ForegroundInv, TypeOK, RunsOK, OwnersOK, PendingRunIsOwned, SweepOK,
       PersistUnowned, Goto, Land, Fault, FailClose, sweepVars, faultVars, Throw
  <1>9. SweepReclaims'
    BY DEF ForegroundInv, TypeOK, RunsOK, OwnersOK, PendingRunIsOwned, SweepOK,
       SweepReclaims, PersistUnowned, Goto, Land, Fault, FailClose, sweepVars, faultVars,
       Throw
  <1>10. RestartReclaims'
    BY DEF ForegroundInv, TypeOK, RunsOK, OwnersOK, PendingRunIsOwned, SweepReclaims,
       RestartReclaims, PersistUnowned, Goto, Land, Fault, FailClose, sweepVars, faultVars,
       Throw
  <1> QED BY <1>1, <1>2, <1>3, <1>4, <1>5, <1>6, <1>7, <1>8, <1>9, <1>10 DEF ForegroundInv

LEMMA CompleteUnownedKeeps ==
  ASSUME ForegroundInv, NEW t \in Turns, CompleteUnowned(t)
  PROVE  ForegroundInv'
  <1>1. FaultsOK'
    BY FaultCounted, FaultsKept DEF ForegroundInv, TypeOK, CompleteUnowned
  <1>2. TypeOK'
    BY <1>1 DEF ForegroundInv, TypeOK, Conversations, Gone, CompleteUnowned, Fault,
       FailClose, sweepVars, faultVars, Throw, Goto
  <1>3. RunsOK'
    BY DEF ForegroundInv, TypeOK, RunsOK, CompleteUnowned, Fault, FailClose, sweepVars,
       faultVars, Throw, Goto
  <1>4. OwnersOK'
    BY DEF ForegroundInv, TypeOK, RunsOK, OwnersOK, PendingRunIsOwned, Gone,
       CompleteUnowned, Fault, FailClose, sweepVars, faultVars, Throw, Goto
  <1>5. PendingRunIsOwned'
    BY DEF ForegroundInv, TypeOK, RunsOK, OwnersOK, PendingRunIsOwned, CompleteUnowned,
       Fault, FailClose, sweepVars, faultVars, Throw, Goto
  <1>6. SucceededIsDurable'
    BY DEF ForegroundInv, TypeOK, RunsOK, SucceededIsDurable, AnswersOK, OwnersOK,
       CompleteUnowned, Fault, FailClose, sweepVars, faultVars, Throw, Goto
  <1>7. AnswersOK'
    BY DEF ForegroundInv, TypeOK, RunsOK, OwnersOK, AnswersOK, SucceededIsDurable,
       PendingRunIsOwned, CompleteUnowned, Fault, FailClose, sweepVars, faultVars, Throw,
       Goto
  <1>8. SweepOK'
    BY DEF ForegroundInv, TypeOK, RunsOK, OwnersOK, PendingRunIsOwned, SweepOK,
       CompleteUnowned, Fault, FailClose, sweepVars, faultVars, Throw, Goto
  <1>9. SweepReclaims'
    BY DEF ForegroundInv, TypeOK, RunsOK, OwnersOK, PendingRunIsOwned, SweepOK,
       SweepReclaims, CompleteUnowned, Fault, FailClose, sweepVars, faultVars, Throw, Goto
  <1>10. RestartReclaims'
    BY DEF ForegroundInv, TypeOK, RunsOK, OwnersOK, PendingRunIsOwned, SweepReclaims,
       RestartReclaims, CompleteUnowned, Fault, FailClose, sweepVars, faultVars, Throw, Goto
  <1> QED BY <1>1, <1>2, <1>3, <1>4, <1>5, <1>6, <1>7, <1>8, <1>9, <1>10 DEF ForegroundInv

LEMMA OpenKeeps ==
  ASSUME ForegroundInv, Open
  PROVE  ForegroundInv'
  <1>1. FaultsOK'
    BY FaultCounted, FaultsKept DEF ForegroundInv, TypeOK, Open
  <1>2. TypeOK'
    BY <1>1 DEF ForegroundInv, TypeOK, Conversations, Gone, Open, Fault, Pending,
       SweepFails, faultVars
  <1>3. PendingRunIsOwned' /\ SucceededIsDurable'
    BY DEF ForegroundInv, PendingRunIsOwned, SucceededIsDurable, Open, Fault, Pending,
       SweepFails, faultVars
  <1>4. RunsOK'
    BY DEF ForegroundInv, TypeOK, RunsOK, SweepOK, Open, Fault, Pending, SweepFails,
       faultVars
  <1>5. OwnersOK'
    BY DEF ForegroundInv, TypeOK, RunsOK, OwnersOK, PendingRunIsOwned, SweepOK, Gone, Open,
       Fault, Pending, SweepFails, faultVars
  <1>6. AnswersOK'
    BY DEF ForegroundInv, TypeOK, RunsOK, OwnersOK, AnswersOK, SucceededIsDurable,
       PendingRunIsOwned, SweepOK, Open, Fault, Pending, SweepFails, faultVars
  <1>7. SweepOK'
    BY DEF ForegroundInv, TypeOK, RunsOK, OwnersOK, PendingRunIsOwned, SweepOK, Open, Fault,
       Pending, SweepFails, faultVars
  <1>8. SweepReclaims'
    BY DEF ForegroundInv, TypeOK, RunsOK, OwnersOK, PendingRunIsOwned, SweepOK,
       SweepReclaims, Open, Fault, Pending, SweepFails, faultVars
  <1>9. RestartReclaims'
    BY DEF ForegroundInv, TypeOK, RunsOK, OwnersOK, PendingRunIsOwned, SweepOK,
       SweepReclaims, RestartReclaims, Open, Fault, Pending, SweepFails, faultVars
  <1> QED BY <1>1, <1>2, <1>3, <1>4, <1>5, <1>6, <1>7, <1>8, <1>9 DEF ForegroundInv

LEMMA AbortRecoveryKeeps ==
  ASSUME ForegroundInv, AbortRecovery
  PROVE  ForegroundInv'
  <1>1. FaultsOK'
    BY FaultCounted, FaultsKept DEF ForegroundInv, TypeOK, AbortRecovery
  <1>2. TypeOK'
    BY <1>1 DEF ForegroundInv, TypeOK, Conversations, Gone, AbortRecovery, Fault, SkipTo,
       turnVars
  <1>3. RunsOK' /\ OwnersOK' /\ PendingRunIsOwned' /\ SucceededIsDurable' /\ AnswersOK'
    BY DEF ForegroundInv, RunsOK, OwnersOK, PendingRunIsOwned, SucceededIsDurable,
       AnswersOK, Gone, AbortRecovery, Fault, SkipTo, turnVars
  <1>4. SweepOK'
    BY DEF ForegroundInv, TypeOK, RunsOK, OwnersOK, PendingRunIsOwned, SweepOK,
       AbortRecovery, Fault, SkipTo, turnVars
  <1>5. SweepReclaims'
    BY DEF ForegroundInv, TypeOK, RunsOK, OwnersOK, PendingRunIsOwned, SweepOK,
       SweepReclaims, AbortRecovery, Fault, SkipTo, turnVars
  <1>6. RestartReclaims'
    BY DEF ForegroundInv, TypeOK, RunsOK, OwnersOK, PendingRunIsOwned, SweepOK,
       SweepReclaims, RestartReclaims, AbortRecovery, Fault, SkipTo, turnVars
  <1> QED BY <1>1, <1>2, <1>3, <1>4, <1>5, <1>6 DEF ForegroundInv

LEMMA PersistPlanKeeps ==
  ASSUME ForegroundInv, PersistPlan
  PROVE  ForegroundInv'
  <1>1. FaultsOK'
    BY FaultCounted, FaultsKept DEF ForegroundInv, TypeOK, PersistPlan
  <1>2. TypeOK'
    BY <1>1 DEF ForegroundInv, TypeOK, Conversations, Gone, PersistPlan, Land, Fault,
       SkipTo, turnVars, faultVars
  <1>3. RunsOK'
    BY DEF ForegroundInv, RunsOK, PersistPlan, Land, Fault, SkipTo, turnVars, faultVars
  <1>4. OwnersOK'
    BY DEF ForegroundInv, TypeOK, RunsOK, OwnersOK, PendingRunIsOwned, SweepOK, Gone,
       PersistPlan, Land, Fault, SkipTo, turnVars, faultVars
  <1>5. PendingRunIsOwned'
    BY DEF ForegroundInv, TypeOK, RunsOK, OwnersOK, PendingRunIsOwned, SweepOK, PersistPlan,
       Land, Fault, SkipTo, turnVars, faultVars
  <1>6. SucceededIsDurable'
    BY DEF ForegroundInv, TypeOK, RunsOK, SucceededIsDurable, AnswersOK, OwnersOK, SweepOK,
       PersistPlan, Land, Fault, SkipTo, turnVars, faultVars
  <1>7. AnswersOK'
    BY DEF ForegroundInv, TypeOK, RunsOK, OwnersOK, AnswersOK, SucceededIsDurable,
       PendingRunIsOwned, SweepOK, PersistPlan, Land, Fault, SkipTo, turnVars, faultVars
  <1>8. SweepOK'
    BY DEF ForegroundInv, TypeOK, RunsOK, OwnersOK, PendingRunIsOwned, SweepOK, PersistPlan,
       Land, Fault, SkipTo, turnVars, faultVars
  <1>9. SweepReclaims'
    BY DEF ForegroundInv, TypeOK, RunsOK, OwnersOK, PendingRunIsOwned, SweepOK,
       SweepReclaims, PersistPlan, Land, Fault, SkipTo, turnVars, faultVars
  <1>10. RestartReclaims'
    BY DEF ForegroundInv, TypeOK, RunsOK, OwnersOK, PendingRunIsOwned, SweepOK,
       SweepReclaims, RestartReclaims, PersistPlan, Land, Fault, SkipTo, turnVars, faultVars
  <1> QED BY <1>1, <1>2, <1>3, <1>4, <1>5, <1>6, <1>7, <1>8, <1>9, <1>10 DEF ForegroundInv

LEMMA SettleKeeps ==
  ASSUME ForegroundInv, Settle
  PROVE  ForegroundInv'
  <1>1. FaultsOK'
    BY FaultCounted, FaultsKept DEF ForegroundInv, TypeOK, Settle
  <1>2. TypeOK'
    BY <1>1 DEF ForegroundInv, TypeOK, Conversations, Gone, Settle, Fault, Owns, SkipTo,
       turnVars, faultVars
  <1>3. RunsOK'
    BY DEF ForegroundInv, TypeOK, RunsOK, SweepOK, Conversations, Gone, Settle, Fault, Owns,
       SkipTo, turnVars, faultVars
  <1>4. OwnersOK'
    BY DEF ForegroundInv, TypeOK, RunsOK, OwnersOK, PendingRunIsOwned, SweepOK,
       Conversations, Gone, Settle, Fault, Owns, SkipTo, turnVars, faultVars
  <1>5. PendingRunIsOwned'
    BY DEF ForegroundInv, TypeOK, RunsOK, OwnersOK, PendingRunIsOwned, SweepOK,
       Conversations, Gone, Settle, Fault, Owns, SkipTo, turnVars, faultVars
  <1>6. SucceededIsDurable'
    BY DEF ForegroundInv, TypeOK, RunsOK, SucceededIsDurable, AnswersOK, OwnersOK, SweepOK,
       Conversations, Gone, Settle, Fault, Owns, SkipTo, turnVars, faultVars
  <1>7. AnswersOK'
    BY DEF ForegroundInv, TypeOK, RunsOK, OwnersOK, AnswersOK, SucceededIsDurable,
       PendingRunIsOwned, SweepOK, Conversations, Gone, Settle, Fault, Owns, SkipTo,
       turnVars, faultVars
  <1>8. SweepOK'
    BY DEF ForegroundInv, TypeOK, RunsOK, OwnersOK, PendingRunIsOwned, SweepOK,
       Conversations, Gone, Settle, Fault, Owns, SkipTo, turnVars, faultVars
  <1>9. SweepReclaims'
    BY DEF ForegroundInv, TypeOK, RunsOK, OwnersOK, PendingRunIsOwned, SweepOK,
       SweepReclaims, Conversations, Gone, Settle, Fault, Owns, SkipTo, turnVars, faultVars
  <1>10. RestartReclaims'
    BY DEF ForegroundInv, TypeOK, RunsOK, OwnersOK, PendingRunIsOwned, SweepOK,
       SweepReclaims, RestartReclaims, Conversations, Gone, Settle, Fault, Owns, SkipTo,
       turnVars, faultVars
  <1> QED BY <1>1, <1>2, <1>3, <1>4, <1>5, <1>6, <1>7, <1>8, <1>9, <1>10 DEF ForegroundInv

LEMMA PersistSettledKeeps ==
  ASSUME ForegroundInv, PersistSettled
  PROVE  ForegroundInv'
  <1>1. FaultsOK'
    BY FaultCounted, FaultsKept DEF ForegroundInv, TypeOK, PersistSettled
  <1>2. TypeOK'
    BY <1>1 DEF ForegroundInv, TypeOK, Conversations, Gone, PersistSettled, Land, Fault,
       SkipTo, turnVars, faultVars
  <1>3. RunsOK'
    BY DEF ForegroundInv, RunsOK, PersistSettled, Land, Fault, SkipTo, turnVars, faultVars
  <1>4. OwnersOK'
    BY DEF ForegroundInv, TypeOK, RunsOK, OwnersOK, PendingRunIsOwned, SweepOK, Gone,
       PersistSettled, Land, Fault, SkipTo, turnVars, faultVars
  <1>5. PendingRunIsOwned'
    BY DEF ForegroundInv, TypeOK, RunsOK, OwnersOK, PendingRunIsOwned, SweepOK,
       PersistSettled, Land, Fault, SkipTo, turnVars, faultVars
  <1>6. SucceededIsDurable'
    BY DEF ForegroundInv, TypeOK, RunsOK, SucceededIsDurable, AnswersOK, OwnersOK, SweepOK,
       PersistSettled, Land, Fault, SkipTo, turnVars, faultVars
  <1>7. AnswersOK'
    BY DEF ForegroundInv, TypeOK, RunsOK, OwnersOK, AnswersOK, SucceededIsDurable,
       PendingRunIsOwned, SweepOK, PersistSettled, Land, Fault, SkipTo, turnVars, faultVars
  <1>8. SweepOK'
    BY DEF ForegroundInv, TypeOK, RunsOK, OwnersOK, PendingRunIsOwned, SweepOK,
       PersistSettled, Land, Fault, SkipTo, turnVars, faultVars
  <1>9. SweepReclaims'
    BY DEF ForegroundInv, TypeOK, RunsOK, OwnersOK, PendingRunIsOwned, SweepOK,
       SweepReclaims, PersistSettled, Land, Fault, SkipTo, turnVars, faultVars
  <1>10. RestartReclaims'
    BY DEF ForegroundInv, TypeOK, RunsOK, OwnersOK, PendingRunIsOwned, SweepOK,
       SweepReclaims, RestartReclaims, PersistSettled, Land, Fault, SkipTo, turnVars,
       faultVars
  <1> QED BY <1>1, <1>2, <1>3, <1>4, <1>5, <1>6, <1>7, <1>8, <1>9, <1>10 DEF ForegroundInv

LEMMA CleanKeeps ==
  ASSUME ForegroundInv, Clean
  PROVE  ForegroundInv'
  <1>1. TypeOK'
    BY DEF ForegroundInv, TypeOK, FaultsOK, Conversations, Gone, Clean, Marked, turnVars,
       faultVars
  <1>2. RunsOK' /\ SucceededIsDurable'
    BY DEF ForegroundInv, RunsOK, SucceededIsDurable, Clean, Marked, turnVars, faultVars
  <1>3. OwnersOK'
    BY DEF ForegroundInv, TypeOK, RunsOK, OwnersOK, PendingRunIsOwned, SweepOK,
       Conversations, Gone, Clean, Marked, turnVars, faultVars
  <1>4. PendingRunIsOwned'
    BY DEF ForegroundInv, TypeOK, RunsOK, OwnersOK, PendingRunIsOwned, SweepOK,
       Conversations, Gone, Clean, Marked, turnVars, faultVars
  <1>5. AnswersOK'
    BY DEF ForegroundInv, TypeOK, RunsOK, OwnersOK, AnswersOK, SucceededIsDurable,
       PendingRunIsOwned, SweepOK, Conversations, Gone, Clean, Marked, turnVars, faultVars
  <1>6. SweepOK'
    BY DEF ForegroundInv, TypeOK, RunsOK, OwnersOK, PendingRunIsOwned, SweepOK,
       Conversations, Gone, Clean, Marked, turnVars, faultVars
  <1>7. SweepReclaims'
    BY DEF ForegroundInv, TypeOK, RunsOK, OwnersOK, PendingRunIsOwned, SweepOK,
       SweepReclaims, Conversations, Gone, Clean, Marked, turnVars, faultVars
  <1>8. RestartReclaims'
    BY DEF ForegroundInv, TypeOK, RunsOK, OwnersOK, PendingRunIsOwned, SweepOK,
       SweepReclaims, RestartReclaims, Conversations, Gone, Clean, Marked, turnVars,
       faultVars
  <1> QED BY <1>1, <1>2, <1>3, <1>4, <1>5, <1>6, <1>7, <1>8 DEF ForegroundInv

LEMMA PersistMarkKeeps ==
  ASSUME ForegroundInv, PersistMark
  PROVE  ForegroundInv'
  <1>1. FaultsOK'
    BY FaultCounted, FaultsKept DEF ForegroundInv, TypeOK, PersistMark
  <1>2. TypeOK'
    BY <1>1 DEF ForegroundInv, TypeOK, Conversations, Gone, PersistMark, Land, Fault,
       SkipTo, turnVars, faultVars
  <1>3. RunsOK'
    BY DEF ForegroundInv, RunsOK, PersistMark, Land, Fault, SkipTo, turnVars, faultVars
  <1>4. OwnersOK'
    BY DEF ForegroundInv, TypeOK, RunsOK, OwnersOK, PendingRunIsOwned, SweepOK, Gone,
       PersistMark, Land, Fault, SkipTo, turnVars, faultVars
  <1>5. PendingRunIsOwned'
    BY DEF ForegroundInv, TypeOK, RunsOK, OwnersOK, PendingRunIsOwned, SweepOK, PersistMark,
       Land, Fault, SkipTo, turnVars, faultVars
  <1>6. SucceededIsDurable'
    BY DEF ForegroundInv, TypeOK, RunsOK, SucceededIsDurable, AnswersOK, OwnersOK, SweepOK,
       PersistMark, Land, Fault, SkipTo, turnVars, faultVars
  <1>7. AnswersOK'
    BY DEF ForegroundInv, TypeOK, RunsOK, OwnersOK, AnswersOK, SucceededIsDurable,
       PendingRunIsOwned, SweepOK, PersistMark, Land, Fault, SkipTo, turnVars, faultVars
  <1>8. SweepOK'
    BY DEF ForegroundInv, TypeOK, RunsOK, OwnersOK, PendingRunIsOwned, SweepOK, PersistMark,
       Land, Fault, SkipTo, turnVars, faultVars
  <1>9. SweepReclaims'
    BY DEF ForegroundInv, TypeOK, RunsOK, OwnersOK, PendingRunIsOwned, SweepOK,
       SweepReclaims, PersistMark, Land, Fault, SkipTo, turnVars, faultVars
  <1>10. RestartReclaims'
    BY DEF ForegroundInv, TypeOK, RunsOK, OwnersOK, PendingRunIsOwned, SweepOK,
       SweepReclaims, RestartReclaims, PersistMark, Land, Fault, SkipTo, turnVars, faultVars
  <1> QED BY <1>1, <1>2, <1>3, <1>4, <1>5, <1>6, <1>7, <1>8, <1>9, <1>10 DEF ForegroundInv

LEMMA ReleaseMarkedKeeps ==
  ASSUME ForegroundInv, ReleaseMarked
  PROVE  ForegroundInv'
  <1>1. TypeOK'
    BY DEF ForegroundInv, TypeOK, FaultsOK, Conversations, Gone, ReleaseMarked, Owns,
       SkipTo, turnVars, faultVars
  <1>2. RunsOK' /\ SucceededIsDurable'
    BY DEF ForegroundInv, RunsOK, SucceededIsDurable, ReleaseMarked, Owns, SkipTo, turnVars,
       faultVars
  <1>3. OwnersOK'
    BY DEF ForegroundInv, TypeOK, RunsOK, OwnersOK, PendingRunIsOwned, SweepOK,
       Conversations, Gone, ReleaseMarked, Owns, SkipTo, turnVars, faultVars
  <1>4. PendingRunIsOwned'
    BY DEF ForegroundInv, TypeOK, RunsOK, OwnersOK, PendingRunIsOwned, SweepOK,
       Conversations, Gone, ReleaseMarked, Owns, SkipTo, turnVars, faultVars
  <1>5. AnswersOK'
    BY DEF ForegroundInv, TypeOK, RunsOK, OwnersOK, AnswersOK, SucceededIsDurable,
       PendingRunIsOwned, SweepOK, Conversations, Gone, ReleaseMarked, Owns, SkipTo,
       turnVars, faultVars
  <1>6. SweepOK'
    BY DEF ForegroundInv, TypeOK, RunsOK, OwnersOK, PendingRunIsOwned, SweepOK,
       Conversations, Gone, ReleaseMarked, Owns, SkipTo, turnVars, faultVars
  <1>7. SweepReclaims'
    BY DEF ForegroundInv, TypeOK, RunsOK, OwnersOK, PendingRunIsOwned, SweepOK,
       SweepReclaims, Conversations, Gone, ReleaseMarked, Owns, SkipTo, turnVars, faultVars
  <1>8. RestartReclaims'
    BY DEF ForegroundInv, TypeOK, RunsOK, OwnersOK, PendingRunIsOwned, SweepOK,
       SweepReclaims, RestartReclaims, Conversations, Gone, ReleaseMarked, Owns, SkipTo,
       turnVars, faultVars
  <1> QED BY <1>1, <1>2, <1>3, <1>4, <1>5, <1>6, <1>7, <1>8 DEF ForegroundInv

LEMMA PersistCleanedKeeps ==
  ASSUME ForegroundInv, PersistCleaned
  PROVE  ForegroundInv'
  <1>1. FaultsOK'
    BY FaultCounted, FaultsKept DEF ForegroundInv, TypeOK, PersistCleaned
  <1>2. TypeOK'
    BY <1>1 DEF ForegroundInv, TypeOK, Conversations, Gone, PersistCleaned, Land, Fault,
       SkipTo, turnVars, faultVars
  <1>3. RunsOK'
    BY DEF ForegroundInv, RunsOK, PersistCleaned, Land, Fault, SkipTo, turnVars, faultVars
  <1>4. OwnersOK'
    BY DEF ForegroundInv, TypeOK, RunsOK, OwnersOK, PendingRunIsOwned, SweepOK, Gone,
       PersistCleaned, Land, Fault, SkipTo, turnVars, faultVars
  <1>5. PendingRunIsOwned'
    BY DEF ForegroundInv, TypeOK, RunsOK, OwnersOK, PendingRunIsOwned, SweepOK,
       PersistCleaned, Land, Fault, SkipTo, turnVars, faultVars
  <1>6. SucceededIsDurable'
    BY DEF ForegroundInv, TypeOK, RunsOK, SucceededIsDurable, AnswersOK, OwnersOK, SweepOK,
       PersistCleaned, Land, Fault, SkipTo, turnVars, faultVars
  <1>7. AnswersOK'
    BY DEF ForegroundInv, TypeOK, RunsOK, OwnersOK, AnswersOK, SucceededIsDurable,
       PendingRunIsOwned, SweepOK, PersistCleaned, Land, Fault, SkipTo, turnVars, faultVars
  <1>8. SweepOK'
    BY DEF ForegroundInv, TypeOK, RunsOK, OwnersOK, PendingRunIsOwned, SweepOK,
       PersistCleaned, Land, Fault, SkipTo, turnVars, faultVars
  <1>9. SweepReclaims'
    BY DEF ForegroundInv, TypeOK, RunsOK, OwnersOK, PendingRunIsOwned, SweepOK,
       SweepReclaims, PersistCleaned, Land, Fault, SkipTo, turnVars, faultVars
  <1>10. RestartReclaims'
    BY DEF ForegroundInv, TypeOK, RunsOK, OwnersOK, PendingRunIsOwned, SweepOK,
       SweepReclaims, RestartReclaims, PersistCleaned, Land, Fault, SkipTo, turnVars,
       faultVars
  <1> QED BY <1>1, <1>2, <1>3, <1>4, <1>5, <1>6, <1>7, <1>8, <1>9, <1>10 DEF ForegroundInv

LEMMA ResolveKeeps ==
  ASSUME ForegroundInv, Resolve
  PROVE  ForegroundInv'
  <1>1. FaultsOK'
    BY FaultCounted, FaultsKept DEF ForegroundInv, TypeOK, Resolve
  <1>2. reconciled' \in BOOLEAN /\ ready' \in BOOLEAN
    BY DEF ForegroundInv, TypeOK, Resolve, SweepFails
  <1>3. TypeOK'
    BY <1>1, <1>2 DEF ForegroundInv, TypeOK, Conversations, Gone, Resolve, Fault,
       SweepFails, faultVars
  <1>4. PendingRunIsOwned' /\ SucceededIsDurable'
    BY DEF ForegroundInv, PendingRunIsOwned, SucceededIsDurable, Resolve, Fault, SweepFails,
       faultVars
  <1>5. RunsOK'
    BY DEF ForegroundInv, TypeOK, RunsOK, SweepOK, Resolve, Fault, SweepFails, faultVars
  <1>6. OwnersOK'
    BY DEF ForegroundInv, TypeOK, RunsOK, OwnersOK, PendingRunIsOwned, SweepOK, Gone,
       Resolve, Fault, SweepFails, faultVars
  <1>7. AnswersOK'
    BY DEF ForegroundInv, TypeOK, RunsOK, OwnersOK, AnswersOK, SucceededIsDurable,
       PendingRunIsOwned, SweepOK, Resolve, Fault, SweepFails, faultVars
  <1>8. SweepOK'
    BY DEF ForegroundInv, TypeOK, RunsOK, OwnersOK, PendingRunIsOwned, SweepOK, Resolve,
       Fault, SweepFails, faultVars
  <1>9. SweepReclaims'
    BY DEF ForegroundInv, TypeOK, RunsOK, OwnersOK, PendingRunIsOwned, SweepOK,
       SweepReclaims, Resolve, Fault, SweepFails, faultVars
  <1>10. RestartReclaims'
    BY DEF ForegroundInv, TypeOK, RunsOK, OwnersOK, PendingRunIsOwned, SweepOK,
       SweepReclaims, RestartReclaims, Resolve, Fault, SweepFails, faultVars
  <1> QED BY <1>1, <1>2, <1>3, <1>4, <1>5, <1>6, <1>7, <1>8, <1>9, <1>10 DEF ForegroundInv

LEMMA EndSweepKeeps ==
  ASSUME ForegroundInv, EndSweep
  PROVE  ForegroundInv'
  <1>1. FaultsOK'
    BY FaultCounted, FaultsKept DEF ForegroundInv, TypeOK, EndSweep
  <1>2. reconciled' \in BOOLEAN /\ ready' \in BOOLEAN
    BY DEF ForegroundInv, TypeOK, EndSweep, SweepSucceeds, SweepFails
  <1>3. SucceededIsDurable'
    BY DEF ForegroundInv, TypeOK, RunsOK, SucceededIsDurable, AnswersOK, OwnersOK, SweepOK,
       Conversations, Gone, EndSweep, Land
  <1>4. CASE Land /\ SweepSucceeds /\ UNCHANGED faultVars
    <2> USE <1>4 DEF ForegroundInv, TypeOK
    <2>1. /\ reconciled /\ reconciled' /\ ready'
          /\ todo = {} /\ todo' = {} /\ plan = None /\ plan' = None
      BY DEF SweepOK, Initial, EndSweep, SweepSucceeds
    <2>2. \A t \in Turns : pc'[t] = IF pc[t] = "joining" THEN "waiting" ELSE pc[t]
      BY DEF SweepSucceeds
    <2>3. /\ disk' = chat /\ sweep = "flushing" /\ sweep' = "idle"
          /\ UNCHANGED <<aborted, current, verdict, mine, chat, journal, troubled>>
      BY DEF EndSweep, Land, SweepSucceeds, faultVars
    <2>4. TypeOK'
      BY <1>1, <1>2, <2>3 DEF Conversations, EndSweep, SweepSucceeds
    <2>5. RunsOK'
      BY <2>1, <2>2, <2>3 DEF RunsOK
    <2>6. OwnersOK' /\ PendingRunIsOwned'
      BY <2>2, <2>3 DEF OwnersOK, PendingRunIsOwned, Gone
    <2>7. AnswersOK'
      BY <2>2, <2>3 DEF AnswersOK
    <2>8. SweepOK'
      BY <2>1, <2>3 DEF SweepOK
    <2>9. SweepReclaims'
      BY <2>1 DEF SweepReclaims
    <2>10. RestartReclaims'
      <3>1. CASE ready
        BY <2>2, <2>3, <3>1 DEF RestartReclaims
      <3>2. CASE ~ready
        BY <2>1, <2>3, <3>2 DEF RestartReclaims, SweepReclaims
      <3> QED BY <3>1, <3>2
    <2> QED BY <1>3, <2>4, <2>5, <2>6, <2>7, <2>8, <2>9, <2>10
  <1>5. CASE Fault /\ SweepFails /\ UNCHANGED disk
    <2> USE <1>5 DEF ForegroundInv, TypeOK
    <2>1. \A t \in Turns : pc'[t] = IF pc[t] = "joining" THEN "done" ELSE pc[t]
      BY DEF SweepFails
    <2>2. /\ sweep = "flushing" /\ sweep' = "idle" /\ troubled'
          /\ UNCHANGED <<aborted, verdict, mine, chat, disk, journal, todo, plan, reconciled, ready>>
      BY DEF EndSweep, SweepFails, Fault
    <2>3. TypeOK'
      BY <1>1, <1>2, <2>2 DEF Conversations, EndSweep, SweepFails
    <2>4. RunsOK' /\ OwnersOK' /\ PendingRunIsOwned' /\ AnswersOK'
      BY <2>1, <2>2 DEF RunsOK, OwnersOK, PendingRunIsOwned, AnswersOK, Gone
    <2>5. SweepOK' /\ SweepReclaims' /\ RestartReclaims'
      BY <2>2 DEF SweepOK, SweepReclaims, RestartReclaims
    <2> QED BY <1>3, <2>3, <2>4, <2>5
  <1> QED BY <1>4, <1>5 DEF EndSweep

LEMMA RecoverOwnedKeeps ==
  ASSUME ForegroundInv, NEW t \in Turns, RecoverOwned(t)
  PROVE  ForegroundInv'
  <1>1. TypeOK'
    BY DEF ForegroundInv, TypeOK, FaultsOK, Conversations, Gone, RecoverOwned, Owns,
       faultVars
  <1>2. SucceededIsDurable'
    BY DEF ForegroundInv, SucceededIsDurable, RecoverOwned, Owns, faultVars
  <1>3. RunsOK'
    BY DEF ForegroundInv, TypeOK, RunsOK, SweepOK, Conversations, Gone, RecoverOwned, Owns,
       faultVars
  <1>4. OwnersOK'
    BY DEF ForegroundInv, TypeOK, RunsOK, OwnersOK, PendingRunIsOwned, SweepOK,
       Conversations, Gone, RecoverOwned, Owns, faultVars
  <1>5. PendingRunIsOwned'
    BY DEF ForegroundInv, TypeOK, RunsOK, OwnersOK, PendingRunIsOwned, SweepOK,
       Conversations, Gone, RecoverOwned, Owns, faultVars
  <1>6. AnswersOK'
    BY DEF ForegroundInv, TypeOK, RunsOK, OwnersOK, AnswersOK, SucceededIsDurable,
       PendingRunIsOwned, SweepOK, Conversations, Gone, RecoverOwned, Owns, faultVars
  <1>7. SweepOK'
    BY DEF ForegroundInv, TypeOK, RunsOK, OwnersOK, PendingRunIsOwned, SweepOK,
       Conversations, Gone, RecoverOwned, Owns, faultVars
  <1>8. SweepReclaims'
    BY DEF ForegroundInv, TypeOK, RunsOK, OwnersOK, PendingRunIsOwned, SweepOK,
       SweepReclaims, Conversations, Gone, RecoverOwned, Owns, faultVars
  <1>9. RestartReclaims'
    BY DEF ForegroundInv, TypeOK, RunsOK, OwnersOK, PendingRunIsOwned, SweepOK,
       SweepReclaims, RestartReclaims, Conversations, Gone, RecoverOwned, Owns, faultVars
  <1> QED BY <1>1, <1>2, <1>3, <1>4, <1>5, <1>6, <1>7, <1>8, <1>9 DEF ForegroundInv

LEMMA RecoverUnownedKeeps ==
  ASSUME ForegroundInv, NEW t \in Turns, RecoverUnowned(t)
  PROVE  ForegroundInv'
  <1>1. FaultsOK'
    BY FaultCounted, FaultsKept DEF ForegroundInv, TypeOK, RecoverUnowned
  <1>2. TypeOK'
    BY <1>1 DEF ForegroundInv, TypeOK, Conversations, Gone, RecoverUnowned, Fault, Owns,
       turnVars, faultVars
  <1>3. OwnersOK'
    BY DEF ForegroundInv, OwnersOK, Gone, RecoverUnowned, Fault, Owns, turnVars, faultVars
  <1>4. RunsOK'
    BY DEF ForegroundInv, TypeOK, RunsOK, SweepOK, RecoverUnowned, Fault, Owns, turnVars,
       faultVars
  <1>5. PendingRunIsOwned'
    BY DEF ForegroundInv, TypeOK, RunsOK, OwnersOK, PendingRunIsOwned, SweepOK,
       RecoverUnowned, Fault, Owns, turnVars, faultVars
  <1>6. SucceededIsDurable'
    BY DEF ForegroundInv, TypeOK, RunsOK, SucceededIsDurable, AnswersOK, OwnersOK, SweepOK,
       RecoverUnowned, Fault, Owns, turnVars, faultVars
  <1>7. AnswersOK'
    BY DEF ForegroundInv, TypeOK, RunsOK, OwnersOK, AnswersOK, SucceededIsDurable,
       PendingRunIsOwned, SweepOK, RecoverUnowned, Fault, Owns, turnVars, faultVars
  <1>8. SweepOK'
    BY DEF ForegroundInv, TypeOK, RunsOK, OwnersOK, PendingRunIsOwned, SweepOK,
       RecoverUnowned, Fault, Owns, turnVars, faultVars
  <1>9. SweepReclaims'
    BY DEF ForegroundInv, TypeOK, RunsOK, OwnersOK, PendingRunIsOwned, SweepOK,
       SweepReclaims, RecoverUnowned, Fault, Owns, turnVars, faultVars
  <1>10. RestartReclaims'
    BY DEF ForegroundInv, TypeOK, RunsOK, OwnersOK, PendingRunIsOwned, SweepOK,
       SweepReclaims, RestartReclaims, RecoverUnowned, Fault, Owns, turnVars, faultVars
  <1> QED BY <1>1, <1>2, <1>3, <1>4, <1>5, <1>6, <1>7, <1>8, <1>9, <1>10 DEF ForegroundInv

LEMMA ForegroundKeeps ==
  ASSUME ForegroundInv, Foreground
  PROVE  ForegroundInv'
  <1>1. TypeOK'
    BY DEF ForegroundInv, TypeOK, FaultsOK, Conversations, Gone, Foreground, turnVars,
       faultVars
  <1>2. RunsOK' /\ OwnersOK' /\ PendingRunIsOwned' /\ SucceededIsDurable' /\ AnswersOK' /\ RestartReclaims'
    BY DEF ForegroundInv, RunsOK, OwnersOK, PendingRunIsOwned, SucceededIsDurable,
       AnswersOK, RestartReclaims, Gone, Foreground, turnVars, faultVars
  <1>3. SweepOK'
    BY DEF ForegroundInv, TypeOK, RunsOK, OwnersOK, PendingRunIsOwned, SweepOK, Foreground,
       turnVars, faultVars
  <1>4. SweepReclaims'
    BY DEF ForegroundInv, TypeOK, RunsOK, OwnersOK, PendingRunIsOwned, SweepOK,
       SweepReclaims, Foreground, turnVars, faultVars
  <1> QED BY <1>1, <1>2, <1>3, <1>4 DEF ForegroundInv

LEMMA StopKeeps ==
  ASSUME ForegroundInv, Stop
  PROVE  ForegroundInv'
  <1>1. TypeOK'
    BY DEF ForegroundInv, TypeOK, FaultsOK, Conversations, Gone, Stop, sweepVars, faultVars
  <1>2. RunsOK' /\ OwnersOK' /\ PendingRunIsOwned' /\ SucceededIsDurable' /\ AnswersOK' /\ SweepOK' /\ SweepReclaims' /\ RestartReclaims'
    BY DEF ForegroundInv, RunsOK, OwnersOK, PendingRunIsOwned, SucceededIsDurable,
       AnswersOK, SweepOK, SweepReclaims, RestartReclaims, Gone, Stop, sweepVars, faultVars
  <1> QED BY <1>1, <1>2 DEF ForegroundInv

LEMMA ClearHistoryKeeps ==
  ASSUME ForegroundInv, ClearHistory
  PROVE  ForegroundInv'
  <1>1. TypeOK'
    BY DEF ForegroundInv, TypeOK, FaultsOK, Conversations, Gone, ClearHistory, turnVars,
       sweepVars, faultVars
  <1>2. RunsOK' /\ SucceededIsDurable'
    BY DEF ForegroundInv, RunsOK, SucceededIsDurable, ClearHistory, turnVars, sweepVars,
       faultVars
  <1>3. OwnersOK'
    BY DEF ForegroundInv, TypeOK, RunsOK, OwnersOK, PendingRunIsOwned, Conversations, Gone,
       ClearHistory, turnVars, sweepVars, faultVars
  <1>4. PendingRunIsOwned'
    BY DEF ForegroundInv, TypeOK, RunsOK, OwnersOK, PendingRunIsOwned, Conversations, Gone,
       ClearHistory, turnVars, sweepVars, faultVars
  <1>5. AnswersOK'
    BY DEF ForegroundInv, TypeOK, RunsOK, OwnersOK, AnswersOK, SucceededIsDurable,
       PendingRunIsOwned, Conversations, Gone, ClearHistory, turnVars, sweepVars, faultVars
  <1>6. SweepOK'
    BY DEF ForegroundInv, TypeOK, RunsOK, OwnersOK, PendingRunIsOwned, SweepOK,
       Conversations, Gone, ClearHistory, turnVars, sweepVars, faultVars
  <1>7. SweepReclaims'
    BY DEF ForegroundInv, TypeOK, RunsOK, OwnersOK, PendingRunIsOwned, SweepOK,
       SweepReclaims, Conversations, Gone, ClearHistory, turnVars, sweepVars, faultVars
  <1>8. RestartReclaims'
    BY DEF ForegroundInv, TypeOK, RunsOK, OwnersOK, PendingRunIsOwned, SweepReclaims,
       RestartReclaims, Conversations, Gone, ClearHistory, turnVars, sweepVars, faultVars
  <1> QED BY <1>1, <1>2, <1>3, <1>4, <1>5, <1>6, <1>7, <1>8 DEF ForegroundInv

LEMMA CheckpointKeeps ==
  ASSUME ForegroundInv, Checkpoint
  PROVE  ForegroundInv'
  <1>1. TypeOK'
    BY DEF ForegroundInv, TypeOK, FaultsOK, Conversations, Gone, Checkpoint, Land, turnVars,
       sweepVars, faultVars
  <1>2. RunsOK' /\ SweepReclaims' /\ RestartReclaims'
    BY DEF ForegroundInv, RunsOK, SweepReclaims, RestartReclaims, Checkpoint, Land,
       turnVars, sweepVars, faultVars
  <1>3. OwnersOK'
    BY DEF ForegroundInv, TypeOK, RunsOK, OwnersOK, PendingRunIsOwned, Gone, Checkpoint,
       Land, turnVars, sweepVars, faultVars
  <1>4. PendingRunIsOwned'
    BY DEF ForegroundInv, TypeOK, RunsOK, OwnersOK, PendingRunIsOwned, Checkpoint, Land,
       turnVars, sweepVars, faultVars
  <1>5. SucceededIsDurable'
    BY DEF ForegroundInv, TypeOK, RunsOK, SucceededIsDurable, AnswersOK, OwnersOK,
       Checkpoint, Land, turnVars, sweepVars, faultVars
  <1>6. AnswersOK'
    BY DEF ForegroundInv, TypeOK, RunsOK, OwnersOK, AnswersOK, SucceededIsDurable,
       PendingRunIsOwned, Checkpoint, Land, turnVars, sweepVars, faultVars
  <1>7. SweepOK'
    BY DEF ForegroundInv, TypeOK, RunsOK, OwnersOK, PendingRunIsOwned, SweepOK, Checkpoint,
       Land, turnVars, sweepVars, faultVars
  <1> QED BY <1>1, <1>2, <1>3, <1>4, <1>5, <1>6, <1>7 DEF ForegroundInv

LEMMA CrashKeeps ==
  ASSUME ForegroundInv, Crash
  PROVE  ForegroundInv'
  <1>1. FaultsOK'
    BY CrashCounted DEF ForegroundInv, TypeOK
  <1>2. reconciled' \in BOOLEAN /\ ready' \in BOOLEAN
    BY DEF ForegroundInv, TypeOK, Crash
  <1>3. TypeOK'
    BY <1>1, <1>2 DEF ForegroundInv, TypeOK, Conversations, Gone, Crash
  <1>4. SucceededIsDurable'
    BY DEF ForegroundInv, SucceededIsDurable, Crash
  <1>5. RunsOK'
    BY DEF ForegroundInv, TypeOK, RunsOK, SweepOK, Conversations, Gone, Crash
  <1>6. OwnersOK'
    BY DEF ForegroundInv, TypeOK, RunsOK, OwnersOK, PendingRunIsOwned, SweepOK,
       Conversations, Gone, Crash
  <1>7. PendingRunIsOwned'
    BY DEF ForegroundInv, TypeOK, RunsOK, OwnersOK, PendingRunIsOwned, SweepOK,
       Conversations, Gone, Crash
  <1>8. AnswersOK'
    BY DEF ForegroundInv, TypeOK, RunsOK, OwnersOK, AnswersOK, SucceededIsDurable,
       PendingRunIsOwned, SweepOK, Conversations, Gone, Crash
  <1>9. SweepOK'
    BY DEF ForegroundInv, TypeOK, RunsOK, OwnersOK, PendingRunIsOwned, SweepOK,
       Conversations, Gone, Crash
  <1>10. SweepReclaims'
    BY DEF ForegroundInv, TypeOK, RunsOK, OwnersOK, PendingRunIsOwned, SweepOK,
       SweepReclaims, Conversations, Gone, Crash
  <1>11. RestartReclaims'
    BY DEF ForegroundInv, TypeOK, RunsOK, OwnersOK, PendingRunIsOwned, SweepOK,
       SweepReclaims, RestartReclaims, Conversations, Gone, Crash
  <1> QED BY <1>1, <1>2, <1>3, <1>4, <1>5, <1>6, <1>7, <1>8, <1>9, <1>10, <1>11 DEF ForegroundInv

(***************************************************************************)
(* The inductive invariant.                                                *)
(***************************************************************************)
LEMMA InitInv == Init => ForegroundInv
  <1> SUFFICES ASSUME Init PROVE ForegroundInv
    OBVIOUS
  <1>1. FaultsOK
    <2>1. faults \in 0..MaxFaults /\ crashes \in 0..MaxCrashes
      BY DEF Init
    <2>2. troubled \in BOOLEAN
      BY DEF Init
    <2> QED BY <2>1, <2>2 DEF FaultsOK
  <1>2. TypeOK
    BY <1>1 DEF Init, TypeOK, Conversations, Gone
  <1>3. RunsOK /\ OwnersOK /\ PendingRunIsOwned
    BY DEF Init, RunsOK, OwnersOK, PendingRunIsOwned, Gone
  <1>4. SucceededIsDurable /\ AnswersOK
    BY DEF Init, SucceededIsDurable, AnswersOK
  <1>5. SweepOK /\ SweepReclaims /\ RestartReclaims
    BY DEF Init, SweepOK, SweepReclaims, RestartReclaims
  <1> QED BY <1>2, <1>3, <1>4, <1>5 DEF ForegroundInv

LEMMA StutterKeeps ==
  ASSUME ForegroundInv, UNCHANGED vars
  PROVE  ForegroundInv'
  BY DEF ForegroundInv, TypeOK, FaultsOK, RunsOK, OwnersOK, PendingRunIsOwned,
         SucceededIsDurable, AnswersOK, SweepOK, SweepReclaims, RestartReclaims,
         Conversations, Gone, vars, turnVars, sweepVars, faultVars

LEMMA NextKeeps ==
  ASSUME ForegroundInv, [Next]_vars
  PROVE  ForegroundInv'
  <1>1. ASSUME NEW t \in Turns, TurnStep(t) PROVE ForegroundInv'
    BY <1>1, AwaitReadinessKeeps, PassWaitKeeps, GiveUpKeeps, ReserveKeeps, RefuseKeeps,
       PersistReservationKeeps, PrepareKeeps, AbandonKeeps, PersistUnwindingKeeps,
       ReleaseReservationKeeps, PersistReleaseKeeps, CreateRunKeeps, CheckRunKeeps,
       ActivateKeeps, StartKeeps, GenerateKeeps, PersistReplyKeeps, CheckOwnerKeeps,
       CompleteKeeps, ReleaseKeeps, EndTurnKeeps, PersistUnownedKeeps, CompleteUnownedKeeps
       DEF TurnStep
  <1>2. CASE SweepStep
    BY <1>2, OpenKeeps, AbortRecoveryKeeps, PersistPlanKeeps, SettleKeeps,
       PersistSettledKeeps, CleanKeeps, PersistMarkKeeps, ReleaseMarkedKeeps,
       PersistCleanedKeeps, ResolveKeeps, EndSweepKeeps, RecoverOwnedKeeps,
       RecoverUnownedKeeps DEF SweepStep
  <1>3. CASE Foreground \/ Stop \/ ClearHistory \/ Checkpoint \/ Crash
    BY <1>3, ForegroundKeeps, StopKeeps, ClearHistoryKeeps, CheckpointKeeps, CrashKeeps
  <1>4. CASE UNCHANGED vars
    BY <1>4, StutterKeeps
  <1> QED BY <1>1, <1>2, <1>3, <1>4, SendKeeps DEF Next

\* The invariant that keeps the chat store and the journal in step holds for any
\* number of turns, failures and deaths.
THEOREM ForegroundInvariance == Spec => []ForegroundInv
  <1>1. Init => ForegroundInv
    BY InitInv
  <1>2. ForegroundInv /\ [Next]_vars => ForegroundInv'
    BY NextKeeps
  <1> QED BY <1>1, <1>2, PTL DEF Spec

\* The run of a request that is open owns the conversation, in memory and on disk,
\* so no two open runs share one (claimModelProjection, createForegroundModelExecution).
THEOREM PendingRunIsOwnedAlways == Spec => []PendingRunIsOwned
  <1>1. ForegroundInv => PendingRunIsOwned
    BY DEF ForegroundInv
  <1> QED BY <1>1, ForegroundInvariance, PTL

\* A run the journal holds as succeeded has its answer on disk
\* (persistTerminalProjection before completeForegroundModelExecution).
THEOREM SucceededIsDurableAlways == Spec => []SucceededIsDurable
  <1>1. ForegroundInv => SucceededIsDurable
    BY DEF ForegroundInv
  <1> QED BY <1>1, ForegroundInvariance, PTL

\* After the initial sweep nothing of a dead process holds the conversation, unless an
\* operation of this process failed (recoverForegroundJournalState).
THEOREM RestartReclaimsAlways == Spec => []RestartReclaims
  <1>1. ForegroundInv => RestartReclaims
    BY DEF ForegroundInv
  <1> QED BY <1>1, ForegroundInvariance, PTL

(***************************************************************************)
(* What no step does.                                                      *)
(***************************************************************************)
LEMMA StepMoves ==
  ASSUME TypeOK, NEW t \in Turns, TurnStep(t)
  PROVE  pc[t] \notin Ended /\ pc'[t] # pc[t]
    BY DEF TypeOK, TurnStep, AwaitReadiness, Goto, PassWait, GiveUp, Finish, Reserve,
       Refuse, PersistReservation, Unwind, Prepare, Abandon, Throw, PersistUnwinding,
       ReleaseReservation, PersistRelease, CreateRun, CheckRun, CloseUnowned, Close,
       Activate, Start, Generate, PersistReply, FailClose, CheckOwner, Complete, Release,
       EndTurn, PersistUnowned, CompleteUnowned

\* A step of a turn leaves the runs of the others alone, and a conversation that
\* another turn owns.
LEMMA OthersKept ==
  ASSUME TypeOK, NEW t \in Turns, NEW u \in Turns, t # u, TurnStep(u)
  PROVE  /\ journal'[t] = journal[t]
         /\ chat.owner = t => UNCHANGED chat
  <1> USE DEF TypeOK, Conversations
  <1>1. CASE AwaitReadiness(u)
    BY <1>1 DEF AwaitReadiness
  <1>2. CASE PassWait(u)
    BY <1>2 DEF PassWait
  <1>3. CASE GiveUp(u)
    BY <1>3 DEF GiveUp
  <1>4. CASE Reserve(u)
    BY <1>4 DEF Reserve
  <1>5. CASE Refuse(u)
    BY <1>5 DEF Refuse
  <1>6. CASE PersistReservation(u)
    BY <1>6 DEF PersistReservation, Unwind, Owns
  <1>7. CASE Prepare(u)
    BY <1>7 DEF Prepare
  <1>8. CASE Abandon(u)
    BY <1>8 DEF Abandon, Unwind, Owns
  <1>9. CASE PersistUnwinding(u)
    BY <1>9 DEF PersistUnwinding
  <1>10. CASE ReleaseReservation(u)
    BY <1>10 DEF ReleaseReservation, Owns
  <1>11. CASE PersistRelease(u)
    BY <1>11 DEF PersistRelease
  <1>12. CASE CreateRun(u)
    BY <1>12 DEF CreateRun, Unwind, Owns
  <1>13. CASE CheckRun(u)
    BY <1>13 DEF CheckRun, Owns
  <1>14. CASE Activate(u)
    BY <1>14 DEF Activate, Owns
  <1>15. CASE Start(u)
    BY <1>15 DEF Start
  <1>16. CASE Generate(u)
    BY <1>16 DEF Generate, Project, Owns
  <1>17. CASE PersistReply(u)
    BY <1>17 DEF PersistReply, Owns
  <1>18. CASE CheckOwner(u)
    BY <1>18 DEF CheckOwner, Owns
  <1>19. CASE Complete(u)
    BY <1>19 DEF Complete
  <1>20. CASE Release(u)
    BY <1>20 DEF Release, Owns
  <1>21. CASE EndTurn(u)
    BY <1>21 DEF EndTurn
  <1>22. CASE PersistUnowned(u)
    BY <1>22 DEF PersistUnowned
  <1>23. CASE CompleteUnowned(u)
    BY <1>23 DEF CompleteUnowned
  <1> QED BY <1>1, <1>2, <1>3, <1>4, <1>5, <1>6, <1>7, <1>8, <1>9, <1>10, <1>11, <1>12,
       <1>13, <1>14, <1>15, <1>16, <1>17, <1>18, <1>19, <1>20, <1>21, <1>22, <1>23 DEF
       TurnStep

\* A run that a sweep closes in a conversation that exists has on disk a reply that
\* is complete or marked (PersistPlan before Settle), for any number of turns.
THEOREM RecoveredRepliesAreMarkedAlways == Spec => RecoveredRepliesAreMarked
  <1> DEFINE Recovered(t) ==
               /\ pc[t] \in Ended /\ journal[t] \in OpenStatuses /\ journal'[t] \in ClosedStatuses
               /\ chat.exists
               => disk.reply[t] = IF journal'[t] = "succeeded" THEN "final" ELSE "incomplete"
  <1>1. ASSUME ForegroundInv, [Next]_vars, NEW t \in Turns
        PROVE  Recovered(t)
    <2> SUFFICES ASSUME journal'[t] # journal[t], pc[t] \in Ended, journal[t] \in OpenStatuses,
                        journal'[t] \in ClosedStatuses, chat.exists
                 PROVE  disk.reply[t] = IF journal'[t] = "succeeded" THEN "final" ELSE "incomplete"
      OBVIOUS
    <2> USE <1>1 DEF ForegroundInv
    <2>1. ~\E u \in Turns : Send(u) \/ TurnStep(u)
      BY StepMoves, OthersKept DEF Send
    <2>2. ~(Foreground \/ Stop \/ ClearHistory \/ Checkpoint \/ Crash \/ UNCHANGED vars)
      BY DEF Foreground, Stop, ClearHistory, Checkpoint, Crash, vars
    <2>3. ~\E u \in Turns : RecoverOwned(u) \/ RecoverUnowned(u)
      <3>1. chat.owner = t
        BY DEF PendingRunIsOwned
      <3> QED BY <3>1 DEF TypeOK, RecoverOwned, RecoverUnowned, Owns
    <2>4. Settle
      BY <2>1, <2>2, <2>3 DEF Next, SweepStep, Open, AbortRecovery, PersistPlan,
         PersistSettled, Clean, PersistMark, ReleaseMarked, PersistCleaned, Resolve, EndSweep
    <2>5. plan = t /\ journal'[t] = verdict[t] /\ sweep = "settling"
      BY <2>4 DEF Settle, TypeOK
    <2> QED BY <2>5 DEF SweepOK, OwnersOK, PendingRunIsOwned, TypeOK, Gone
  <1>2. ForegroundInv /\ [Next]_vars
          => [\A t \in Turns : Recovered(t)]_vars
    BY <1>1
  <1> QED BY <1>2, ForegroundInvariance, PTL DEF Spec, RecoveredRepliesAreMarked

\* While a turn is under way, only its own steps change its run, take its
\* conversation or rewrite its reply, for any number of turns and failures.
THEOREM OnlyOwnStepsMoveAlways == Spec => OnlyOwnStepsMove
  <1> DEFINE Own(t) ==
               pc[t] \in Working /\ pc'[t] = pc[t] =>
                 /\ journal'[t] = journal[t]
                 /\ chat.owner = t /\ chat'.exists =>
                      chat'.owner = t /\ chat'.reply[t] = chat.reply[t]
  <1>1. ASSUME ForegroundInv, [Next]_vars, NEW t \in Turns
        PROVE  Own(t)
    <2> SUFFICES ASSUME pc[t] \in Working, pc'[t] = pc[t]
                 PROVE  /\ journal'[t] = journal[t]
                        /\ UNCHANGED chat \/ chat.owner # t \/ ~chat'.exists
      OBVIOUS
    <2> USE <1>1 DEF ForegroundInv
    <2>1. CASE \E u \in Turns : TurnStep(u)
      BY <2>1, StepMoves, OthersKept
    <2>2. CASE \E u \in Turns : Send(u)
      BY <2>2 DEF Send
    <2>3. CASE SweepStep
      <3>1. sweep \notin Initial
        BY DEF RunsOK, SweepOK, Working
      <3>2. todo = {}
        BY <3>1 DEF SweepOK
      <3> QED BY <2>3, <3>1, <3>2 DEF SweepStep, Open, Resolve, EndSweep,
                 AbortRecovery, PersistPlan, Settle, PersistSettled, Clean, PersistMark,
                 ReleaseMarked, PersistCleaned, RecoverOwned, RecoverUnowned
    <2>4. CASE Foreground \/ Stop \/ ClearHistory \/ Checkpoint \/ UNCHANGED vars
      BY <2>4 DEF Foreground, Stop, ClearHistory, Checkpoint, vars, turnVars, Gone
    <2>5. CASE Crash
      BY <2>5 DEF Crash, TypeOK, Working
    <2> QED BY <2>1, <2>2, <2>3, <2>4, <2>5 DEF Next
  <1>2. ForegroundInv /\ [Next]_vars => [\A t \in Turns : Own(t)]_vars
    BY <1>1
  <1> QED BY <1>2, ForegroundInvariance, PTL DEF Spec, OnlyOwnStepsMove
=============================================================================
