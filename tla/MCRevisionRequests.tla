------------------------- MODULE MCRevisionRequests -------------------------
(***************************************************************************)
(* Instances of RevisionRequests for TLC.                                   *)
(***************************************************************************)
EXTENDS RevisionRequests, TLC

CONSTANTS r1, r2, r3, k1, k2

RequestSymmetry == Permutations({r1, r2, r3}) \cup Permutations({k1, k2})
=============================================================================
