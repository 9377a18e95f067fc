\* One effect, three calls, one deletion by retention.
SPECIFICATION Spec
CONSTANTS
  e1 = e1
  c1 = c1
  c2 = c2
  c3 = c3
  NoEffect = NoEffect
  NoReceipt = NoReceipt
  Effects <- MCEffects
  MobileEffects <- MCEffects
  Calls <- MCCalls
  MaxPrunes = 1
SYMMETRY Symmetry
INVARIANT ExecutedAtMostOnce
INVARIANT RunTellsEffect
INVARIANT RestartNeverForgetsAnExecution
PROPERTY SettledIsFinal
PROPERTY ImplementsContract
INVARIANT Inv
