SPECIFICATION FairSpec
CONSTANTS
  d1 = d1
  d2 = d2
  Drains <- MCDrains
  MaxCalls = 3
  MaxCrashes = 1
  NoWrite = NoWrite
INVARIANT ThrottledInv
INVARIANT NoStrandedWrite
PROPERTY LaterCallsWin
PROPERTY DrainIsABarrier
PROPERTY LastWriteLands
PROPERTY DrainsEnd
CHECK_DEADLOCK FALSE
