--------------------------- MODULE MCAccountService ---------------------------
(***************************************************************************)
(* Instances of AccountService for TLC.                                    *)
(***************************************************************************)
EXTENDS AccountService, TLC

CONSTANTS u1, r1, r2, r3, weak, good, s1, a1

Symmetry == Permutations(Requests)

\* The users file at the start: one user without TOTP.
Alone == u1 :> [pw |-> good, totp |-> None]

\* Every request is served; nothing is assumed of tinyauth.
ServedSpec == Spec /\ RequestFairness
=============================================================================
