-------------------------- MODULE ObservedOperation --------------------------
(***************************************************************************)
(* What the journal promises about one operation that runs at a remote     *)
(* provider: it keeps the last status it was told, an outcome is recorded  *)
(* only when the operation has that outcome, recording it settles the      *)
(* operation in the same step, and nothing is recorded afterwards.         *)
(***************************************************************************)

CONSTANTS
    Unresolved,   \* statuses of an operation that still runs
    Outcomes,     \* statuses of an operation that ended
    Nothing       \* the record before the first observation

VARIABLES
    operation,    \* where the operation stands at the provider
    record,       \* what the journal says of it
    settled       \* whether the journal has closed it

vars == <<operation, record, settled>>

Init ==
    /\ operation \notin Outcomes
    /\ record = Nothing
    /\ settled = FALSE

\* The provider moves the operation, which ends at most once.
Advance ==
    /\ operation \notin Outcomes
    /\ UNCHANGED <<record, settled>>

\* The journal is told of an operation that still runs.
Note ==
    /\ ~settled
    /\ record' \in Unresolved
    /\ UNCHANGED <<operation, settled>>

\* The journal is told of the outcome, and closes.
Close ==
    /\ ~settled
    /\ operation \in Outcomes
    /\ record' = operation
    /\ settled' = TRUE
    /\ UNCHANGED operation

Next == Advance \/ Note \/ Close

Spec == Init /\ [][Next]_vars

=============================================================================
