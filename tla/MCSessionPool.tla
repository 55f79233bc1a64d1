----------------------------- MODULE MCSessionPool -----------------------------
(* Two slots of one account and the only slot of another, or one slot each.    *)
EXTENDS SessionPool
CONSTANTS a1, a2, k1, k2, k3

MCAccountOf == [k \in Keys |-> IF k = k3 THEN a2 ELSE a1]
================================================================================
