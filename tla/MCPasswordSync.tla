--------------------------- MODULE MCPasswordSync ---------------------------
(***************************************************************************)
(* Instances of PasswordSync for TLC.                                      *)
(***************************************************************************)
EXTENDS PasswordSync, TLC

CONSTANTS c1, c2, t1, t2, h1

\* A hook for users without a special role in one of two domains, with no
\* time-out of its own.
TheRoles == {"", "admin"}
TheUser == [domain |-> "home", email |-> "ann"]
TheFilters == h1 :> [domain |-> {"home", "work"}, role |-> {""}, email |-> {}]
TheTimeouts == h1 :> 0
=============================================================================
