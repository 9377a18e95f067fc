SPECIFICATION FairSpec
CONSTANTS
  t1 = t1
  t2 = t2
  None = None
  Turns <- MCTurns
  MaxFaults = 1
  MaxCrashes = 1
INVARIANT ForegroundInv
INVARIANT SucceededIsDurable
INVARIANT RestartReclaims
PROPERTY RecoveredRepliesAreMarked
PROPERTY OnlyOwnStepsMove
PROPERTY TurnsEnd
PROPERTY ReservationsEnd
CHECK_DEADLOCK FALSE
