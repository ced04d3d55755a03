------------------------------ MODULE Metadata ------------------------------
(***************************************************************************)
(* What the metadata store promises: while it is up, a map that changes by *)
(* one field of one user at a time, and a file that nobody but the         *)
(* operator changes except to the whole map as it is; after a stop, the    *)
(* file again.                                                             *)
(***************************************************************************)
CONSTANTS
  Names,     \* user names, as they are written
  Values,    \* phone numbers, addresses, roles
  None,      \* no value, no such user
  Bad        \* a file that does not decode

Settable == {"phone", "email"}
Fields == Settable \cup {"role"}
Meta == [Fields -> Values \cup {None}]
Maps == [Names -> Meta \cup {None}]
NoUsers == [n \in Names |-> None]
Files == Maps \cup {None, Bad}

MetaOf(m, n) == IF m[n] = None THEN [f \in Fields |-> None] ELSE m[n]
\* Mutant of WithField: the record of the user is built anew.
WithField_Fresh(m, n, f, v) == [m EXCEPT ![n] = [g \in {f} |-> v]]

WithField(m, n, f, v) == [m EXCEPT ![n] = [MetaOf(m, n) EXCEPT ![f] = v]]
\* The map a file holds: a missing file has no users.
Decoded(d) == IF d = None THEN NoUsers ELSE d

-----------------------------------------------------------------------------
VARIABLES
  mem,    \* the map in memory
  disk,   \* the file
  up,     \* the store is open
  hand    \* turns over each time the operator replaces the file

Init == disk \in Files \ {Bad} /\ mem = Decoded(disk) /\ up = TRUE /\ hand = FALSE

Set ==
  /\ up /\ \E n \in Names, f \in Settable, v \in Values \cup {None} : mem' = WithField(mem, n, f, v)
  /\ UNCHANGED <<disk, up, hand>>
Save == up /\ disk' = mem /\ UNCHANGED <<mem, up, hand>>
Stop == up /\ up' = FALSE /\ mem' = NoUsers /\ UNCHANGED <<disk, hand>>
Open == ~up /\ up' = TRUE /\ disk # Bad /\ mem' = Decoded(disk) /\ UNCHANGED <<disk, hand>>
OpenBlind == ~up /\ up' = TRUE /\ mem' = NoUsers /\ UNCHANGED <<disk, hand>>
Edit == disk' \in Files /\ hand' = ~hand /\ UNCHANGED <<mem, up>>

Spec == Init /\ [][Set \/ Save \/ Stop \/ Open \/ OpenBlind \/ Edit]_<<mem, disk, up, hand>>
=============================================================================
