---------------------------- MODULE Credentials ----------------------------
(***************************************************************************)
(* What the account operations promise about the users' credentials,       *)
(* without the users file, the restart of tinyauth or the steps of a       *)
(* handler.  An update of a user takes a copy of the record when it opens, *)
(* and commits that copy with exactly one field replaced, or is abandoned. *)
(* When nothing overlapped it, the copy still is the user's record.  When  *)
(* something did, the fields it did not mean to change go back to the copy *)
(* it took, and a user the operator deleted meanwhile is back with it;     *)
(* nothing else brings a user back, and no update removes one.             *)
(***************************************************************************)

CONSTANTS Users, Requests, Passwords, Secrets, None, InitialFile, Editable

Record == [pw : Passwords, totp : Secrets \cup {None}]

VARIABLES
  creds,   \* each user's record
  open,    \* the updates in progress, per user
  copy,    \* the record each update in progress has read
  mixed    \* users with updates in progress that overlapped

Init ==
  /\ creds = InitialFile
  /\ open = [u \in Users |-> {}]
  /\ copy = [r \in Requests |-> None]
  /\ mixed = {}

Open(r, u) ==
  /\ creds[u] # None
  /\ \A v \in Users : r \notin open[v]
  /\ open' = [open EXCEPT ![u] = @ \cup {r}]
  /\ copy' = [copy EXCEPT ![r] = creds[u]]
  /\ mixed' = IF open[u] = {} THEN mixed \ {u} ELSE mixed \cup {u}
  /\ UNCHANGED creds

OneFieldOf(rec) ==
  {[rec EXCEPT !.pw = p] : p \in Passwords} \cup {[rec EXCEPT !.totp = s] : s \in Secrets \cup {None}}

Closes(rs) ==
  /\ open' = [u \in Users |-> open[u] \ rs]
  /\ copy' = [r \in Requests |-> IF r \in rs THEN None ELSE copy[r]]
  /\ UNCHANGED mixed

Commit(r, u) ==
  /\ r \in open[u]
  /\ u \notin mixed => creds[u] = copy[r]
  /\ \E rec \in OneFieldOf(copy[r]) : creds' = [creds EXCEPT ![u] = rec]
  /\ Closes({r})

\* One update fails, or all of them are cut off.
Abandon(rs) == Closes(rs) /\ UNCHANGED creds

OperatorEdits(u) ==
  /\ u \in Editable
  /\ \E rec \in Record \cup {None} : creds' = [creds EXCEPT ![u] = rec]
  /\ mixed' = IF open[u] = {} THEN mixed ELSE mixed \cup {u}
  /\ UNCHANGED <<open, copy>>

Next ==
  \/ \E r \in Requests, u \in Users : Open(r, u) \/ Commit(r, u)
  \/ \E rs \in SUBSET Requests : Abandon(rs)
  \/ \E u \in Users : OperatorEdits(u)

Spec == Init /\ [][Next]_<<creds, open, copy, mixed>>

=============================================================================
