SPECIFICATION Spec
CONSTANTS
  MaxAttempts = 2
  MaxRetries = 1
  OneShot = FALSE
  SlashPrompt = FALSE
  MaxEvents = 3
INVARIANT DisableKept
CHECK_DEADLOCK FALSE
