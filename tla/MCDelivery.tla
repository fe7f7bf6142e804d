----------------------------- MODULE MCDelivery -----------------------------
(* Instances of Delivery for TLC.                                          *)
EXTENDS DeliveryProperties, TLC

CONSTANTS r1, r2, m1, m2, m3, p1, s1, s2, s3

(* One request of one event, and one batch of two. *)
OneEvent == [r \in {r1} |-> <<m1>>]
OneBatch == [r \in {r1} |-> <<m1, m2>>]

AllOfP1 == [m \in Messages |-> p1]

SlotSymmetry == Permutations(Slots)
=============================================================================
