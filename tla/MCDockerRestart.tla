--------------------------- MODULE MCDockerRestart ---------------------------
(***************************************************************************)
(* Instances of DockerRestart for TLC.                                     *)
(***************************************************************************)
EXTENDS DockerRestart, TLC

CONSTANTS r1, r2, r3

Symmetry == Permutations(Callers)
=============================================================================
