------------------------- MODULE MCUserFileService -------------------------
(***************************************************************************)
(* Instances of UserFileService for TLC.                                   *)
(***************************************************************************)
EXTENDS UserFileService

CONSTANTS n1, n2, v1, v2, c1, c2

L(n, v) == [name |-> n, value |-> v]
TwoUsers == <<L(n1, v1), L(n2, v1)>>
\* Deleted, another password, a second line of a user, a line that does not parse.
HandEdits == {None, <<L(n1, v2)>>, <<L(n2, v2), L(n1, v1), L(n2, v1)>>, <<L(n1, v1), Bad>>}
=============================================================================
