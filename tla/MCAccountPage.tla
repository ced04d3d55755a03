--------------------------- MODULE MCAccountPage ----------------------------
(***************************************************************************)
(* Instances of AccountPage for TLC.                                       *)
(***************************************************************************)
EXTENDS AccountPage, TLC

CONSTANTS s1, s2, s3, k1, k2, k3
=============================================================================
