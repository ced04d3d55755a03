----------------------------- MODULE UsersFile -----------------------------
(***************************************************************************)
(* What the users file is for the rest of the sidecar and for tinyauth: a  *)
(* list of lines that changes as a whole.  The sidecar writes the lines it *)
(* has seen last, all of which parse, with one user's line replaced or     *)
(* appended; the operator may put any file in its place, and what the      *)
(* sidecar has not seen of that when it writes is lost.                    *)
(***************************************************************************)
EXTENDS Integers, Sequences

CONSTANTS
  Names,        \* user names, up to case
  Values,       \* what follows the name on a line: password hash and TOTP secret
  None,         \* no file, no value
  Bad,          \* a line ParseUserLine refuses
  InitialLines, \* the file when the sidecar starts
  Edits         \* the files an operator's edit leaves

Line == [name : Names, value : Values]

ASSUME LinesAssumption ==
  /\ InitialLines \in Seq(Line \cup {Bad}) \cup {None}
  /\ Edits \subseteq Seq(Line \cup {Bad}) \cup {None}
ASSUME MarksAssumption == Bad \notin Line /\ None \notin Values /\ None \notin Seq(Line \cup {Bad})

\* The lines a reader gets: a missing file has none.
Content(f) == IF f = None THEN <<>> ELSE f
Parses(f) == \A i \in DOMAIN Content(f) : Content(f)[i] # Bad

\* The first line of a user: the one Find returns and Upsert replaces.
IsFirst(ls, n, i) ==
  /\ i \in DOMAIN ls /\ ls[i].name = n
  /\ \A j \in 1 .. i - 1 : ls[j].name # n
Holds(ls, n, v) == \E i \in DOMAIN ls : IsFirst(ls, n, i) /\ ls[i].value = v

\* Mutants of Upserted: appends without looking for the user's line; writes the
\* name alone.
Upserted_Append(ls, n, v) == Append(ls, [name |-> n, value |-> v])
Upserted_NameOnly(ls, n, v) == [i \in DOMAIN ls |-> IF ls[i].name = n THEN [name |-> n, value |-> None] ELSE ls[i]]

\* The lines Upsert writes back.
Upserted(ls, n, v) ==
  IF \E i \in DOMAIN ls : ls[i].name = n
  THEN [i \in DOMAIN ls |-> IF IsFirst(ls, n, i) THEN [name |-> n, value |-> v] ELSE ls[i]]
  ELSE Append(ls, [name |-> n, value |-> v])

-----------------------------------------------------------------------------
VARIABLES
  file,  \* the lines of the users file
  seen   \* those the sidecar read or wrote last

Init == file = InitialLines /\ seen = InitialLines

Look == seen' = file /\ UNCHANGED file

Put ==
  /\ Parses(seen)
  /\ \E n \in Names, v \in Values : file' = Upserted(Content(seen), n, v)
  /\ seen' = file'

Edit == file' \in Edits /\ UNCHANGED seen

Next == Look \/ Put \/ Edit
Spec == Init /\ [][Next]_<<file, seen>>
=============================================================================
