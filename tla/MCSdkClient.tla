---------------------------- MODULE MCSdkClient ----------------------------
(* Instances of SdkClient for TLC.                                         *)
EXTENDS SdkClientProperties

CONSTANTS c1, c2
=============================================================================
