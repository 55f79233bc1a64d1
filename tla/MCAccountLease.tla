--------------------------- MODULE MCAccountLease ---------------------------
(***************************************************************************)
(* Instances of AccountLease for TLC: two worker processes, two accounts.   *)
(***************************************************************************)
EXTENDS AccountLease, TLC

CONSTANTS w1, w2, x1, x2, j1, j2, j3

ThreeJobs == {j1, j2, j3}
TwoOnOne  == j1 :> x1 @@ j2 :> x1 @@ j3 :> x2

WorkerSymmetry == Permutations(Workers)
=============================================================================
