-------------------------- MODULE AssignmentLedger --------------------------
(***************************************************************************)
(* What the batch machinery promises about the provider: an assignment is   *)
(* asked by at most one worker at a time, and one that has been answered    *)
(* is never asked again, whatever is retried, stopped, resumed or           *)
(* re-enqueued.                                                            *)
(***************************************************************************)
CONSTANT Assignments

VARIABLES asking,      \* assignments whose prompt is being asked
          answered     \* assignments whose answer has been collected

vars == <<asking, answered>>

Init == asking = {} /\ answered = {}

Begin(a) ==
    /\ a \notin asking \cup answered
    /\ asking' = asking \cup {a}
    /\ UNCHANGED answered

Answer(a) ==
    /\ a \in asking
    /\ asking' = asking \ {a}
    /\ answered' = answered \cup {a}

\* Failed attempts, and everything in flight when a worker dies.
GiveUp(S) ==
    /\ S \subseteq asking
    /\ asking' = asking \ S
    /\ UNCHANGED answered

Next == \/ \E a \in Assignments : Begin(a) \/ Answer(a)
        \/ \E S \in SUBSET Assignments : GiveUp(S)

Spec == Init /\ [][Next]_vars
=============================================================================
