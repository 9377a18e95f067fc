SPECIFICATION FairSpec
CONSTANTS
  MaxAttempts = 2
  MaxRetries = 1
  OneShot = FALSE
  SlashPrompt = FALSE
  MaxEvents = 2
INVARIANT AttemptsInv
PROPERTY ImplementsOccurrences
INVARIANT OneOwner
INVARIANT ProvenIsSuccess
PROPERTY NothingVanishes
PROPERTY AttemptEnds
CHECK_DEADLOCK FALSE
