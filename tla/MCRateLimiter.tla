---------------------------- MODULE MCRateLimiter ----------------------------
(***************************************************************************)
(* Instances of RateLimiter for TLC.                                       *)
(***************************************************************************)
EXTENDS RateLimiter, TLC

CONSTANTS q1, q2, q3, ip1, ip2

Symmetry == Permutations(Requests) \cup Permutations(IPs)
=============================================================================
