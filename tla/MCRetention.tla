---------------------------- MODULE MCRetention ----------------------------
(* Instances of Retention for TLC.                                         *)
EXTENDS RetentionProperties

CONSTANTS p1, p2

(* An event of each project. *)
OneEach == {<<p1, 1>>, <<p2, 1>>}
=============================================================================
