------------------------ MODULE MCScheduledAttempts ------------------------
EXTENDS ScheduledAttempts
=============================================================================
