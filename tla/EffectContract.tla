--------------------------- MODULE EffectContract ---------------------------
(***************************************************************************)
(* What the durable effect dispatch of Kavi promises for one tool effect,  *)
(* with nothing said of calls, claims, rows, receipts or crashes:          *)
(*                                                                         *)
(*   - an effect is launched once, and its executor runs at most once for  *)
(*     each launch;                                                        *)
(*   - an outcome is reported (settled, or left unresolved) only for an    *)
(*     effect whose executor did run;                                      *)
(*   - an effect that was withdrawn never ran;                             *)
(*   - only a settled or a withdrawn effect is ever forgotten, so an       *)
(*     unresolved one cannot be launched again.                            *)
(*                                                                         *)
(* EffectDispatch implements this specification (see Contract there).      *)
(***************************************************************************)
EXTENDS Naturals

CONSTANT Effects   \* identities of tool effects

VARIABLES
  phase,   \* phase[e]: how far the effect has come
  ran      \* ran[e]: executor invocations since the effect was last forgotten

vars == <<phase, ran>>

Phases == {"open", "inFlight", "withdrawn", "settled", "unresolved"}

Init ==
  /\ phase = [e \in Effects |-> "open"]
  /\ ran   = [e \in Effects |-> 0]

Move(e, from, to) ==
  /\ phase[e] \in from
  /\ phase' = [phase EXCEPT ![e] = to]

Launch(e)   == Move(e, {"open"}, "inFlight")  /\ UNCHANGED ran
Withdraw(e) == Move(e, {"open"}, "withdrawn") /\ UNCHANGED ran

Run(e) ==
  /\ phase[e] = "inFlight"
  /\ ran[e] = 0
  /\ ran' = [ran EXCEPT ![e] = 1]
  /\ UNCHANGED phase

Report(e) ==
  /\ ran[e] = 1
  /\ \E outcome \in {"settled", "unresolved"} : Move(e, {"inFlight"}, outcome)
  /\ UNCHANGED ran

Forget(e) ==
  /\ Move(e, {"settled", "withdrawn"}, "open")
  /\ ran' = [ran EXCEPT ![e] = 0]

Next ==
  \E e \in Effects : Launch(e) \/ Withdraw(e) \/ Run(e) \/ Report(e) \/ Forget(e)

Spec == Init /\ [][Next]_vars
=============================================================================
