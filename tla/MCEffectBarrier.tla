--------------------------- MODULE MCEffectBarrier ---------------------------
(***************************************************************************)
(* An instance of EffectBarrier for TLC: two effects of one execution run, *)
(* the second a mobile-controller action, which can stay started without a *)
(* call, and two calls; execution runs share no state, so one is enough.   *)
(***************************************************************************)
EXTENDS EffectBarrier

CONSTANTS e1, e2, c1, c2, r1

MCRuns          == {r1}
MCEffects       == {e1, e2}
MCMobileEffects == {e2}
MCRunOf         == [e \in MCEffects |-> r1]
MCCalls         == {c1, c2}
=============================================================================
