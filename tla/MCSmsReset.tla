----------------------------- MODULE MCSmsReset -----------------------------
(***************************************************************************)
(* Instances of SmsReset for TLC.                                          *)
(***************************************************************************)
EXTENDS SmsReset, TLC

CONSTANTS a1, a2, a3, c1, c2, u1, u2, p1

Symmetry == Permutations(Asks) \cup Permutations(Clients) \cup Permutations(Users)
=============================================================================
