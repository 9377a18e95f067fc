------------------------- MODULE MCThrottledStorage -------------------------
(***************************************************************************)
(* An instance of ThrottledStorage for TLC: two drains of one key (keys    *)
(* share no state), and three calls: a write, one that overtakes its       *)
(* flush, and a removal or a write after it.                               *)
(***************************************************************************)
EXTENDS ThrottledStorage

CONSTANTS d1, d2

MCDrains == {d1, d2}
=============================================================================
