-------------------------- MODULE MCEffectDispatch --------------------------
(***************************************************************************)
(* Instances of EffectDispatch for TLC. One effect is enough for what can  *)
(* happen to one identity: effects share no state here, only calls. Three  *)
(* calls are a claimer, a rival that read the same snapshot, and a late    *)
(* duplicate; a retention step makes the identity dispatchable again.      *)
(***************************************************************************)
EXTENDS EffectDispatch, TLC

CONSTANTS e1, c1, c2, c3

MCEffects      == {e1}
MCCalls        == {c1, c2, c3}
MCTwoCalls     == {c1, c2}

\* Calls are interchangeable: no definition names one.
Symmetry == Permutations(MCCalls)
=============================================================================
