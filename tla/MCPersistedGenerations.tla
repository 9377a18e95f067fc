----------------------- MODULE MCPersistedGenerations -----------------------
(***************************************************************************)
(* An instance of PersistedGenerations for TLC: two values, so that a      *)
(* generation number could be given to two contents; four generations, so  *)
(* that a value, its removal and two more commits can be retried; and two  *)
(* damaged files, the second before the first has been recovered from.     *)
(***************************************************************************)
EXTENDS PersistedGenerations, TLC

CONSTANTS p1, p2

MCPayloads == {p1, p2}

\* Payloads are interchangeable: no definition names one.
Symmetry == Permutations(MCPayloads)
=============================================================================
