----------------------------- MODULE MCKeyCache -----------------------------
(* Instances of KeyCache for TLC.                                          *)
EXTENDS KeyCacheProperties, TLC

CONSTANTS b1, b2, q1, q2, q3, c1, c2, k1, k2, x1, p1, a1, a2

OneProject == [k \in Keys |-> p1]

Symmetry ==
  Permutations(Brokers) \cup Permutations(Addresses)
  \cup Permutations(Requests) \cup Permutations(Calls)
=============================================================================
