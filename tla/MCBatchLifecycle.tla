-------------------------- MODULE MCBatchLifecycle --------------------------
(***************************************************************************)
(* Instances of BatchLifecycle for TLC: two assignments, on one account or  *)
(* on two.                                                                 *)
(***************************************************************************)
EXTENDS BatchLifecycle, TLC

CONSTANTS a1, a2, x1, x2, o1

TwoAssignments == {a1, a2}
OneAssignment  == {a1}
OneAccount     == [a \in Assignments |-> x1]
TwoAccounts    == a1 :> x1 @@ a2 :> x2

\* The assignments of one account are interchangeable.
AssignmentSymmetry == Permutations(TwoAssignments)
=============================================================================
