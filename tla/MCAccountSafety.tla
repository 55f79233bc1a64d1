---------------------------- MODULE MCAccountSafety ----------------------------
(* Two or three jobs of one account; the jobs are interchangeable.             *)
EXTENDS AccountSafety, TLC
CONSTANTS j1, j2, j3

JobSymmetry == Permutations(Assignments)
================================================================================
