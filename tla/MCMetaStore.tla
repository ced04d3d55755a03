---------------------------- MODULE MCMetaStore -----------------------------
(***************************************************************************)
(* Instances of MetaStore for TLC.                                         *)
(***************************************************************************)
EXTENDS MetaStore, TLC

CONSTANTS n1, n2, r1, r2, v1, v2

Admin == [phone |-> None, email |-> None, role |-> v1]
\* No file, or one in which the operator gave a user a role.
TheFiles == {None, [n \in Names |-> IF n = n1 THEN Admin ELSE None]}
TheEdits == TheFiles \cup {Bad}
=============================================================================
