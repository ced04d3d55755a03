----------------------------- MODULE MetaStore ------------------------------
(***************************************************************************)
(* The per-user metadata of store/toml_store.go: a map under a lock, saved *)
(* whole to users.toml through a temporary file after each change.  The    *)
(* process may stop and a file operation fail at any point; the operator   *)
(* gives roles by editing the file.                                        *)
(***************************************************************************)
CONSTANTS
  Names,        \* user names, as they are written
  Requests,     \* goroutines that set a phone number or an address
  Values,       \* phone numbers, addresses, roles
  None,         \* no value, no user, no file, nobody
  Bad,          \* a file that does not decode
  InitialFiles, \* users.toml when the sidecar starts first
  Edits         \* what the operator's edits leave there

VARIABLES
  users,   \* Store.users
  file,    \* users.toml
  tmp,     \* users.toml.tmp
  mu,      \* who holds Store.mu for writing
  up,      \* the sidecar is running
  pc,      \* where each request stands in SetPhone or SetEmail
  req,     \* the user, field and value of its request, and the encoded map
  told,    \* what the last answers say each field is; Bad when that is in doubt
  hand     \* turns over with each edit of the operator

vars == <<users, file, tmp, mu, up, pc, req, told, hand>>

M == INSTANCE Metadata WITH mem <- users, disk <- file

ASSUME MarksAssumption ==
  /\ None \notin Values /\ None \notin M!Meta
  /\ None \notin M!Maps /\ Bad \notin M!Maps /\ None # Bad
ASSUME InitialAssumption == InitialFiles \subseteq M!Files \ {Bad} /\ Edits \subseteq M!Files
ASSUME NobodyAssumption == None \notin Requests /\ Bad \notin Values

Request == [name : Names \cup {None}, field : M!Settable \cup {None},
            value : Values \cup {None}, buf : M!Maps \cup {None}]
NoRequest == [name |-> None, field |-> None, value |-> None, buf |-> None]
InDoubt == [n \in Names |-> [f \in M!Settable |-> Bad]]

\* NewStore: the file is decoded when there is one.
Init ==
  /\ file \in InitialFiles
  /\ users = M!Decoded(file)
  /\ tmp = None /\ mu = None /\ up = TRUE /\ hand = FALSE
  /\ pc = [r \in Requests |-> "idle"]
  /\ req = [r \in Requests |-> NoRequest]
  /\ told = InDoubt

-----------------------------------------------------------------------------
(* SetPhone and SetEmail *)

Begin(r) ==
  /\ up /\ pc[r] = "idle"
  /\ \E n \in Names, f \in M!Settable, v \in Values \cup {None} :
       req' = [req EXCEPT ![r] = [name |-> n, field |-> f, value |-> v, buf |-> None]]
  /\ pc' = [pc EXCEPT ![r] = "lock"]
  /\ UNCHANGED <<users, file, tmp, mu, up, told, hand>>

\* Mutant of Change: the lock is released before the map is saved.
Change_Unlocked(r) ==
  /\ pc[r] = "lock" /\ mu = None
  /\ UNCHANGED mu
  /\ users' = M!WithField(users, req[r].name, req[r].field, req[r].value)
  /\ req' = [req EXCEPT ![r].buf = users']
  /\ told' = [told EXCEPT ![req[r].name][req[r].field] = Bad]
  /\ pc' = [pc EXCEPT ![r] = "open"]
  /\ UNCHANGED <<file, tmp, up, hand>>

\* mu.Lock, the record of the user (a new one if there is none) gets the value,
\* and the whole map is encoded.
Change(r) ==
  /\ pc[r] = "lock" /\ mu = None
  /\ mu' = r
  /\ users' = M!WithField(users, req[r].name, req[r].field, req[r].value)
  /\ req' = [req EXCEPT ![r].buf = users']
  /\ told' = [told EXCEPT ![req[r].name][req[r].field] = Bad]
  /\ pc' = [pc EXCEPT ![r] = "open"]
  /\ UNCHANGED <<file, tmp, up, hand>>

\* Mutant of OpenTemp: users.toml itself is opened for writing.
OpenTemp_InPlace(r) ==
  /\ pc[r] = "open"
  /\ file' = Bad
  /\ pc' = [pc EXCEPT ![r] = "write"]
  /\ UNCHANGED <<users, tmp, mu, up, req, told, hand>>

\* os.WriteFile truncates the temporary file ...
OpenTemp(r) ==
  /\ pc[r] = "open"
  /\ tmp' = Bad
  /\ pc' = [pc EXCEPT ![r] = "write"]
  /\ UNCHANGED <<users, file, mu, up, req, told, hand>>

\* ... and fills it.
WriteTemp(r) ==
  /\ pc[r] = "write"
  /\ tmp' = req[r].buf
  /\ pc' = [pc EXCEPT ![r] = "rename"]
  /\ UNCHANGED <<users, file, mu, up, req, told, hand>>

\* The lock is released and the client answered.
Return(r) ==
  /\ mu' = None
  /\ pc' = [pc EXCEPT ![r] = "idle"]
  /\ req' = [req EXCEPT ![r] = NoRequest]

Rename(r) ==
  /\ pc[r] = "rename" /\ tmp # None
  /\ file' = tmp /\ tmp' = None
  /\ told' = [told EXCEPT ![req[r].name][req[r].field] = req[r].value]
  /\ Return(r)
  /\ UNCHANGED <<users, up, hand>>

\* Mutants of SaveFails: the error is dropped; the lock is kept.
SaveFails_Silent(r) ==
  /\ pc[r] \in {"open", "write", "rename"}
  /\ told' = [told EXCEPT ![req[r].name][req[r].field] = req[r].value]
  /\ Return(r)
  /\ UNCHANGED <<users, file, tmp, up, hand>>
SaveFails_Locked(r) ==
  /\ pc[r] \in {"open", "write", "rename"}
  /\ pc' = [pc EXCEPT ![r] = "idle"]
  /\ req' = [req EXCEPT ![r] = NoRequest]
  /\ UNCHANGED <<users, file, tmp, mu, up, told, hand>>

\* saveTOML cannot encode, write or rename; the client gets an error, and the
\* map keeps the change.
SaveFails(r) ==
  /\ pc[r] \in {"open", "write", "rename"}
  /\ Return(r)
  /\ UNCHANGED <<users, file, tmp, up, told, hand>>

-----------------------------------------------------------------------------
(* The process and the operator *)

Crash ==
  /\ up /\ up' = FALSE
  /\ users' = M!NoUsers /\ mu' = None
  /\ pc' = [r \in Requests |-> "idle"] /\ req' = [r \in Requests |-> NoRequest]
  /\ UNCHANGED <<file, tmp, told, hand>>

\* main: NewStore fails when the file does not decode, and the process ends.
Boot ==
  /\ ~up /\ up' = TRUE /\ file # Bad
  /\ users' = M!Decoded(file)
  /\ UNCHANGED <<file, tmp, mu, pc, req, told, hand>>

\* os.Stat fails for another reason than a missing file: NewStore takes that
\* for a missing file, and the next save replaces what is there.
BootBlind ==
  /\ ~up /\ up' = TRUE
  /\ users' = M!NoUsers
  /\ told' = InDoubt
  /\ UNCHANGED <<file, tmp, mu, pc, req, hand>>

\* Until the sidecar is restarted, its next save overwrites the edit.
OperatorEdits ==
  /\ file' \in Edits /\ hand' = ~hand
  /\ told' = InDoubt
  /\ UNCHANGED <<users, tmp, mu, up, pc, req>>

Serve(r) == OpenTemp(r) \/ WriteTemp(r) \/ Rename(r) \/ SaveFails(r)
Next ==
  \/ \E r \in Requests : Begin(r) \/ Change(r) \/ Serve(r)
  \/ Crash \/ Boot \/ BootBlind \/ OperatorEdits

Spec == Init /\ [][Next]_vars

\* Goroutines run on; Go's mutex does not starve one that waits.
Fairness == \A r \in Requests : WF_vars(Serve(r)) /\ SF_vars(Change(r))
FairSpec == Spec /\ Fairness

-----------------------------------------------------------------------------
(* Properties *)

\* Every variable holds a value of its type.
TypeOK ==
  /\ users \in M!Maps /\ file \in M!Files /\ tmp \in M!Files
  /\ mu \in Requests \cup {None} /\ up \in BOOLEAN /\ hand \in BOOLEAN
  /\ pc \in [Requests -> {"idle", "lock", "open", "write", "rename"}]
  /\ req \in [Requests -> Request]
  /\ told \in [Names -> [M!Settable -> Values \cup {None, Bad}]]

\* A value whose change was answered with success is what the store serves and
\* what the file has, until the next request for that field: failing saves
\* of other fields, crashes and restarts do not touch it.  (After an edit by hand,
\* or a start that could not see the file, that is known only of later answers.)
\* Code: the lock from the change to the rename, and the error of saveTOML.
ToldIsKept ==
  \A n \in Names, f \in M!Settable :
    told[n][f] # Bad =>
      /\ up => M!MetaOf(users, n)[f] = told[n][f]
      /\ file # Bad /\ M!MetaOf(M!Decoded(file), n)[f] = told[n][f]

\* The store keeps the promises of module Metadata: it changes one field of one
\* user at a time, and whatever stops or fails, nobody but the operator leaves a
\* users.toml other than the whole map.
\* Code: one lock from the change to the rename of the temporary file.
KeepsMetadata == M!Spec

\* Every request is answered, also when saves fail (or the sidecar stops).
\* Code: the deferred Unlock.
EveryRequestAnswered == \A r \in Requests : pc[r] # "idle" ~> pc[r] = "idle"
=============================================================================
