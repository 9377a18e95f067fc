---------------------- MODULE MCExternalReconciliation ----------------------
(* Two attempts and one tool call over one operation. *)
EXTENDS ExternalReconciliation, TLC

CONSTANTS r1, r2, o1

MCRemoteStates == {"pending", "needs_action", "succeeded", "cancelled"}
MCFewRemoteStates == {"pending", "needs_action", "succeeded"}
MCReconcilers == {r1, r2}
MCOneReconciler == {r1}
MCObservers == {o1}

\* Attempts are interchangeable.
Symmetry == Permutations(MCReconcilers)

=============================================================================
