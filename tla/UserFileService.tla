--------------------------- MODULE UserFileService ---------------------------
(***************************************************************************)
(* The users file as UserFileService reads and writes it                   *)
(* (internal/service/user_file_service.go): under a mutex, through a       *)
(* temporary file and a rename, with every system call able to fail and    *)
(* the process able to stop between any two.  Other programs see the file  *)
(* at all times.                                                           *)
(*                                                                         *)
(* A reader has the file of one moment: the service never writes into a    *)
(* file that has the users file's name, only into the temporary one.       *)
(* Blank lines, which readers skip, are left out.                          *)
(***************************************************************************)
EXTENDS UsersFile

CONSTANT Callers    \* the goroutines that call the service

ASSUME CallersAssumption == None \notin Callers

VARIABLES
  tmp,   \* the lines of the temporary file
  mu,    \* the goroutine that holds the mutex
  pc,    \* where each goroutine stands
  call,  \* the user and value it upserts; for Find the value is None
  users  \* the lines it writes back

vars == <<file, seen, tmp, mu, pc, call, users>>

Call == [name : Names \cup {None}, value : Values \cup {None}]
NoCall == [name |-> None, value |-> None]
Steps == {"idle", "lock", "read", "create", "write", "rename"}

ServiceInit ==
  /\ Init
  /\ tmp = None
  /\ mu = None
  /\ pc = [c \in Callers |-> "idle"]
  /\ call = [c \in Callers |-> NoCall]
  /\ users = [c \in Callers |-> <<>>]

At(c, s) == pc[c] = s
Goto(c, s) == pc' = [pc EXCEPT ![c] = s]

\* Every return unlocks the mutex (defer), whether with a result or an error.
Return(c) ==
  /\ Goto(c, "idle")
  /\ mu' = None
  /\ call' = [call EXCEPT ![c] = NoCall]
  /\ users' = [users EXCEPT ![c] = <<>>]

-----------------------------------------------------------------------------
\* Find(username) and Upsert(user) are called.
Begin(c) ==
  /\ At(c, "idle")
  /\ \E n \in Names, v \in Values \cup {None} :
       call' = [call EXCEPT ![c] = [name |-> n, value |-> v]]
  /\ Goto(c, "lock")
  /\ UNCHANGED <<file, seen, tmp, mu, users>>

Lock(c) ==
  /\ At(c, "lock") /\ mu = None
  /\ mu' = c
  /\ Goto(c, "read")
  /\ UNCHANGED <<file, seen, tmp, call, users>>

\* readAllNoLock for Find, or with a line that does not parse, or failing.
ReadReturns(c) ==
  /\ At(c, "read")
  /\ Return(c)
  /\ seen' = file
  /\ UNCHANGED <<file, tmp>>

\* readAllNoLock for Upsert, which then replaces the user's line in memory.
Read(c) ==
  /\ At(c, "read") /\ call[c].value # None
  /\ Parses(file)
  /\ users' = [users EXCEPT ![c] = Upserted(Content(file), call[c].name, call[c].value)]
  /\ seen' = file
  /\ Goto(c, "create")
  /\ UNCHANGED <<file, tmp, mu, call>>

\* Mutant of Create: the users file itself is truncated and written.
Create_InPlace(c) ==
  /\ At(c, "create")
  /\ tmp' = <<>> /\ file' = <<>>
  /\ Goto(c, "write")
  /\ UNCHANGED <<seen, mu, call, users>>

\* os.MkdirAll and os.Create: a leftover of an earlier call is truncated.
Create(c) ==
  /\ At(c, "create")
  /\ tmp' = <<>>
  /\ Goto(c, "write")
  /\ UNCHANGED <<file, seen, mu, call, users>>

\* One WriteString.
WriteLine(c) ==
  /\ At(c, "write") /\ Len(tmp) < Len(users[c])
  /\ tmp' = Append(tmp, users[c][Len(tmp) + 1])
  /\ UNCHANGED <<file, seen, mu, pc, call, users>>

Close(c) ==
  /\ At(c, "write") /\ Len(tmp) = Len(users[c])
  /\ Goto(c, "rename")
  /\ UNCHANGED <<file, seen, tmp, mu, call, users>>

Rename(c) ==
  /\ At(c, "rename")
  /\ file' = tmp /\ tmp' = None
  /\ seen' = tmp
  /\ Return(c)

\* Mutant of Fails: the error is returned with the mutex held.
Fails_Locked(c) ==
  /\ pc[c] \in {"create", "write", "rename"}
  /\ Goto(c, "idle")
  /\ UNCHANGED <<file, seen, tmp, mu, call, users>>

\* MkdirAll, Create, WriteString, Close or Rename fails: the temporary file
\* stays as it is.
Fails(c) ==
  /\ pc[c] \in {"create", "write", "rename"}
  /\ Return(c)
  /\ UNCHANGED <<file, seen, tmp>>

\* What a goroutine that has been called does by itself.
Run(c) ==
  Lock(c) \/ ReadReturns(c) \/ Read(c) \/ Create(c) \/ WriteLine(c) \/ Close(c) \/ Rename(c) \/ Fails(c)

-----------------------------------------------------------------------------
\* The operator saves the file in an editor.
OperatorEdits == Edit /\ UNCHANGED <<tmp, mu, pc, call, users>>

\* The sidecar stops and starts.
Crash ==
  /\ mu' = None
  /\ pc' = [c \in Callers |-> "idle"]
  /\ call' = [c \in Callers |-> NoCall]
  /\ users' = [c \in Callers |-> <<>>]
  /\ UNCHANGED <<file, seen, tmp>>

ServiceNext == (\E c \in Callers : Begin(c) \/ Run(c)) \/ OperatorEdits \/ Crash

ServiceSpec == ServiceInit /\ [][ServiceNext]_vars

\* The scheduler runs goroutines, and a waiting goroutine gets Go's mutex.
Fairness == \A c \in Callers : WF_vars(Run(c)) /\ SF_vars(Lock(c))
FairSpec == ServiceSpec /\ Fairness

-----------------------------------------------------------------------------
(* Properties *)

\* Every variable holds a value of its type.
TypeOK ==
  /\ file \in Seq(Line \cup {Bad}) \cup {None}
  /\ seen \in Seq(Line \cup {Bad}) \cup {None}
  /\ tmp \in Seq(Line) \cup {None}
  /\ mu \in Callers \cup {None}
  /\ pc \in [Callers -> Steps]
  /\ call \in [Callers -> Call]
  /\ users \in [Callers -> Seq(Line)]

\* The users file changes as a whole, to the lines the service has seen last with
\* one user's line replaced, whatever fails and wherever the process stops, and
\* never when a line it has seen does not parse: the service implements UsersFile.
\* Code: mutex, temporary file and rename of Upsert.
KeepsUsersFile == Spec

\* When an Upsert takes effect, Find returns what it wrote, and for other users
\* what it returned when the Upsert read the file, also with two lines for a user.
\* Code: Find and Upsert both take the first line that matches.
WriteIsFound ==
  [][\A c \in Callers : pc[c] = "rename" /\ file' # file /\ mu' = None =>
       /\ Holds(file', call[c].name, call[c].value)
       /\ \A n \in Names \ {call[c].name}, v \in Values :
            Holds(Content(seen), n, v) <=> Holds(file', n, v)]_vars

\* Every call returns, whatever fails.  Code: defer s.mu.Unlock().
EveryCallReturns == \A c \in Callers : pc[c] # "idle" ~> pc[c] = "idle"
=============================================================================
