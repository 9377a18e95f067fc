SPECIFICATION Spec
CONSTANTS
  p1 = p1
  p2 = p2
  Payloads <- MCPayloads
  Tombstone = Tombstone
  NoContent = NoContent
  Garbage = Garbage
  MaxGeneration = 4
  MaxLosses = 2
SYMMETRY Symmetry
INVARIANT ReturnedSurvives
INVARIANT GenerationsInv
PROPERTY CommitKeepsPrior
PROPERTY RemovalErases
PROPERTY ImplementsRegister
