\* Two effects and two calls of one execution run, with fairness.
SPECIFICATION FairBarrierSpec
CONSTANTS
  e1 = e1
  e2 = e2
  c1 = c1
  c2 = c2
  r1 = r1
  NoEffect = NoEffect
  NoReceipt = NoReceipt
  Effects <- MCEffects
  MobileEffects <- MCMobileEffects
  Calls <- MCCalls
  ExecutionRuns <- MCRuns
  RunOf <- MCRunOf
  MaxPrunes = 0
INVARIANT BarrierInv
INVARIANT OneUnresolvedEffectPerRun
PROPERTY RejectedNeverExecuted
PROPERTY EveryCallReturns
