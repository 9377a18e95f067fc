SPECIFICATION Spec
CONSTANTS
  e1 = e1
  c1 = c1
  c2 = c2
  c3 = c3
  NoEffect = NoEffect
  NoReceipt = NoReceipt
  Effects <- MCEffects
  MobileEffects <- MCEffects
  Calls <- MCTwoCalls
  MaxPrunes = 0
INVARIANT ReturnedNeedsNoReconciling
