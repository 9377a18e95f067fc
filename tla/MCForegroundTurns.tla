------------------------- MODULE MCForegroundTurns -------------------------
\* An instance of ForegroundTurns for TLC: two turns of one conversation.
EXTENDS ForegroundTurns

CONSTANTS t1, t2

MCTurns == {t1, t2}
=============================================================================
