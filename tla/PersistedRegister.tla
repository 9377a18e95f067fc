-------------------------- MODULE PersistedRegister --------------------------
(***************************************************************************)
(* What the file generations of one storage key promise, with nothing said *)
(* of files, moves, failures or crashes: a register whose contents are     *)
(* numbered. A replacement takes effect at once or not at all; whatever an *)
(* operation returns is the register's content at that moment.             *)
(*                                                                         *)
(* A replacement that was not acknowledged may have taken effect. Storage  *)
(* that loses a file takes the register back to an earlier generation.     *)
(***************************************************************************)
EXTENDS Naturals

CONSTANTS
  Contents,   \* what a generation may hold
  Nothing     \* the generation of a key that was never written

VARIABLES
  newest,     \* the content of the register
  returned    \* what an operation returned last

vars == <<newest, returned>>

Init == newest = Nothing /\ returned = Nothing

Replace(content) ==
  /\ newest' = [gen |-> newest.gen + 1, content |-> content]
  /\ UNCHANGED returned

Return == returned' = newest /\ UNCHANGED newest

\* The newest file is lost: what remains is all that can be promised.
Decay ==
  /\ newest'.gen < newest.gen
  /\ returned' \in {returned, newest'}
  /\ returned'.gen <= newest'.gen

Next == (\E content \in Contents : Replace(content)) \/ Return \/ Decay

Spec == Init /\ [][Next]_vars
=============================================================================
