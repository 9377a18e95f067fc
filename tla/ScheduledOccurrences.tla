------------------------ MODULE ScheduledOccurrences ------------------------
(***************************************************************************)
(* What the scheduler promises of the occurrences of a job to the world    *)
(* outside the process, whatever fails or dies inside: an occurrence is    *)
(* attempted again only while no attempt at it had an effect or has its    *)
(* output on record, only the last attempt acts, and what is told of an    *)
(* attempt contradicts neither its record nor its effects.                 *)
(***************************************************************************)
EXTENDS Naturals

CONSTANT MaxAttempts

VARIABLES
    occurrence,   \* the occurrence each attempt is at, 0 before it is claimed
    acted,        \* attempts that had an effect
    recorded,     \* attempts whose output is on record
    told          \* the reports <<attempt, status>> that went out

vars == <<occurrence, acted, recorded, told>>

Attempts == 1 .. MaxAttempts
Statuses == {"success", "error", "retrying"}

Claimed(a) == occurrence[a] # 0
Untold(a) == \A status \in Statuses : <<a, status>> \notin told
Last(a) == Claimed(a) /\ \A b \in Attempts : Claimed(b) => b <= a
LastAtIt(a) == Claimed(a) /\ \A b \in Attempts : occurrence[b] = occurrence[a] => b <= a

\* An occurrence is over when an attempt at it had an effect or is on record.
Over(o) == \E a \in acted \cup recorded : occurrence[a] = o

Init ==
    /\ occurrence = [a \in Attempts |-> 0]
    /\ acted = {} /\ recorded = {} /\ told = {}

\* The next attempt is at an occurrence of its own or at an earlier one.
Claim(a, o) ==
    /\ \A b \in Attempts : Claimed(b) <=> b < a
    /\ ~Over(o)
    /\ occurrence' = [occurrence EXCEPT ![a] = o]
    /\ UNCHANGED <<acted, recorded, told>>

\* A tool has an effect.
Act(a) ==
    /\ Last(a) /\ a \notin recorded /\ Untold(a)
    /\ acted' = acted \cup {a}
    /\ UNCHANGED <<occurrence, recorded, told>>

\* The output reaches the disk.
Record(a) ==
    /\ LastAtIt(a)
    /\ \A status \in Statuses : <<a, status>> \in told => status = "success"
    /\ recorded' = recorded \cup {a}
    /\ UNCHANGED <<occurrence, acted, told>>

\* A report is traced and notified.  A success may be told before it is on record: a
\* report goes out as soon as its settlement is staged.
Report(a, status) ==
    /\ Claimed(a)
    /\ a \in recorded => status = "success"
    /\ a \in acted => status # "retrying"
    /\ told' = told \cup {<<a, status>>}
    /\ UNCHANGED <<occurrence, acted, recorded>>

Next ==
    \E a \in Attempts :
       \/ \E o \in 1 .. a : Claim(a, o)
       \/ Act(a) \/ Record(a)
       \/ \E status \in Statuses : Report(a, status)

Spec == Init /\ [][Next]_vars
=============================================================================
