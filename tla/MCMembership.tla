---------------------------- MODULE MCMembership ----------------------------
(* Instances of Membership for TLC.                                        *)
EXTENDS MembershipProperties, TLC

CONSTANTS u1, u2, u3, c1, c2, c3, c4, c5

Symmetry == Permutations(Users) \cup Permutations(Calls)
=============================================================================
