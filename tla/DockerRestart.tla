---------------------------- MODULE DockerRestart ----------------------------
(***************************************************************************)
(* DockerService.RestartTinyauth (internal/service/docker_service.go) as   *)
(* several requests call it at once, with the Docker daemon and the        *)
(* tinyauth process between the calls.  A request writes the users file    *)
(* first, so the file is the number of writes made so far.                 *)
(*                                                                         *)
(* The daemon stops and starts the container of a restart command in two   *)
(* steps, between which another command may start it; a start of a running *)
(* container does nothing.  StartedAt is the number of starts so far.      *)
(***************************************************************************)
EXTENDS Integers

CONSTANTS
  Callers,    \* requests that restart tinyauth
  Unknown,    \* no StartedAt
  External,   \* cfg.TinyauthExternalURL is set
  MaxWrites,  \* bound on the writes of the users file
  MaxStarts   \* bound on the starts of the container

ASSUME BoundsAssumption == MaxWrites \in Nat /\ MaxStarts \in Nat /\ External \in BOOLEAN
ASSUME UnknownAssumption == Unknown \notin Int

VARIABLES
  method,   \* cfg.RestartMethod: "restart" or "signal"
  file,     \* the users file
  process,  \* tinyauth: "down", "booting", "loading" (file read) or "up" (answers)
  loaded,   \* the users file as the process read it
  started,  \* State.StartedAt of the container
  dying,    \* the process has been sent a signal and not dealt with it
  lost,     \* a restart failed or a signal was ignored
  pc,       \* where each call of RestartTinyauth stands
  wrote,    \* the users file after the caller's write
  before,   \* startedBefore
  sawNew    \* phase 1 saw a new StartedAt

containerVars == <<process, loaded, started, dying, lost>>
callVars == <<pc, wrote, before, sawNew>>
vars == <<method, file, containerVars, callVars>>

Ended == {"idle", "ok", "error"}
Steps == Ended \cup {"inspect", "command", "start", "newStart", "healthy", "external"}
Running == process \in {"loading", "up"}

Init ==
  /\ method \in {"restart", "signal"}
  /\ file = 0 /\ loaded = 0
  /\ process = "up" /\ started = 1
  /\ dying = FALSE /\ lost = FALSE
  /\ pc = [r \in Callers |-> "idle"]
  /\ wrote = [r \in Callers |-> 0]
  /\ before = [r \in Callers |-> Unknown]
  /\ sawNew = [r \in Callers |-> FALSE]

At(r, s) == pc[r] = s
Goto(r, s) == pc' = [pc EXCEPT ![r] = s]

-----------------------------------------------------------------------------
(* RestartTinyauth *)

\* The caller has written the users file, or (the admin's restart) has not.
Call(r) ==
  /\ pc[r] \in Ended
  /\ file' \in {file, file + 1} /\ file' <= MaxWrites
  /\ wrote' = [wrote EXCEPT ![r] = file']
  /\ before' = [before EXCEPT ![r] = Unknown]
  /\ sawNew' = [sawNew EXCEPT ![r] = FALSE]
  /\ Goto(r, "inspect")
  /\ UNCHANGED <<method, containerVars>>

\* getStartedAt; its error is ignored.
Inspect(r) ==
  /\ At(r, "inspect")
  /\ \E s \in {started, Unknown} : before' = [before EXCEPT ![r] = s]
  /\ Goto(r, "command")
  /\ UNCHANGED <<method, file, containerVars, wrote, sawNew>>

\* Mutant of Stop: the container is started, not restarted.
Stop_Skipped(r) ==
  /\ At(r, "command") /\ method = "restart"
  /\ Goto(r, "start")
  /\ UNCHANGED <<method, file, containerVars, wrote, before, sawNew>>

\* cli.ContainerRestart: the daemon stops the container ...
Stop(r) ==
  /\ At(r, "command") /\ method = "restart"
  /\ process' = "down" /\ dying' = FALSE
  /\ Goto(r, "start")
  /\ UNCHANGED <<method, file, loaded, started, lost, wrote, before, sawNew>>

\* ... and starts it, unless it runs again already.
Start(r) ==
  /\ At(r, "start")
  /\ \/ process # "down" /\ UNCHANGED <<process, started>>
     \/ process = "down" /\ started < MaxStarts /\ process' = "booting" /\ started' = started + 1
  /\ Goto(r, "newStart")
  /\ UNCHANGED <<method, file, loaded, dying, lost, wrote, before, sawNew>>

\* cli.ContainerKill
Signal(r) ==
  /\ At(r, "command") /\ method = "signal" /\ process # "down"
  /\ dying' = TRUE
  /\ Goto(r, "newStart")
  /\ UNCHANGED <<method, file, process, loaded, started, lost, wrote, before, sawNew>>

\* There is no Docker client, or the command, or the second half of it, fails.
CommandFails(r) ==
  /\ pc[r] \in {"inspect", "command", "start"}
  /\ lost' = TRUE
  /\ Goto(r, "error")
  /\ UNCHANGED <<method, file, process, loaded, started, dying, wrote, before, sawNew>>

\* Mutant of SeeNewStart: any StartedAt will do.
SeeNewStart_Any(r) ==
  /\ At(r, "newStart") /\ before[r] # Unknown
  /\ sawNew' = [sawNew EXCEPT ![r] = TRUE]
  /\ Goto(r, "healthy")
  /\ UNCHANGED <<method, file, containerVars, wrote, before>>

\* Phase 1, waitForNewStart: StartedAt has changed.
SeeNewStart(r) ==
  /\ At(r, "newStart") /\ before[r] # Unknown /\ started # before[r]
  /\ sawNew' = [sawNew EXCEPT ![r] = TRUE]
  /\ Goto(r, "healthy")
  /\ UNCHANGED <<method, file, containerVars, wrote, before>>

\* Phase 1 is skipped without a startedBefore, and given up after 30 s.
NoNewStart(r) ==
  /\ At(r, "newStart")
  /\ Goto(r, "healthy")
  /\ UNCHANGED <<method, file, containerVars, wrote, before, sawNew>>

\* Phase 2, waitForHealthy: tinyauth answers, and then its external URL.
SeeHealthy(r) ==
  /\ pc[r] \in {"healthy", "external"} /\ process = "up"
  /\ Goto(r, IF pc[r] = "healthy" /\ External THEN "external" ELSE "ok")
  /\ UNCHANGED <<method, file, containerVars, wrote, before, sawNew>>

\* 120 s have passed.
NotHealthy(r) ==
  /\ pc[r] \in {"healthy", "external"}
  /\ Goto(r, "error")
  /\ UNCHANGED <<method, file, containerVars, wrote, before, sawNew>>

-----------------------------------------------------------------------------
(* The container *)

\* The restart policy, or the operator, starts a container that is down.
DaemonStarts ==
  /\ process = "down" /\ started < MaxStarts
  /\ process' = "booting" /\ started' = started + 1
  /\ UNCHANGED <<method, file, loaded, dying, lost, callVars>>

\* The process reads the users file, once ...
ReadsFile ==
  /\ process = "booting"
  /\ process' = "loading" /\ loaded' = file
  /\ UNCHANGED <<method, file, started, dying, lost, callVars>>

\* ... and then listens.
Listens ==
  /\ process = "loading"
  /\ process' = "up"
  /\ UNCHANGED <<method, file, loaded, started, dying, lost, callVars>>

\* The process ends, by a signal or by itself.
Exits ==
  /\ process # "down"
  /\ process' = "down" /\ dying' = FALSE
  /\ UNCHANGED <<method, file, loaded, started, lost, callVars>>

IgnoresSignal ==
  /\ dying
  /\ dying' = FALSE /\ lost' = TRUE
  /\ UNCHANGED <<method, file, process, loaded, started, callVars>>

Next ==
  \/ \E r \in Callers :
       \/ Call(r) \/ Inspect(r) \/ Stop(r) \/ Start(r) \/ Signal(r) \/ CommandFails(r)
       \/ SeeNewStart(r) \/ NoNewStart(r) \/ SeeHealthy(r) \/ NotHealthy(r)
  \/ DaemonStarts \/ ReadsFile \/ Listens \/ Exits \/ IgnoresSignal

Spec == Init /\ [][Next]_vars

-----------------------------------------------------------------------------
(* Properties *)

\* Every variable holds a value of its type.
TypeOK ==
  /\ method \in {"restart", "signal"}
  /\ file \in Nat /\ loaded \in Nat /\ started \in Nat
  /\ process \in {"down", "booting", "loading", "up"}
  /\ dying \in BOOLEAN /\ lost \in BOOLEAN
  /\ pc \in [Callers -> Steps]
  /\ wrote \in [Callers -> Nat]
  /\ before \in [Callers -> Nat \cup {Unknown}]
  /\ sawNew \in [Callers -> BOOLEAN]

\* A process with a users file older than the caller's write never passes for the
\* restarted one: not once phase 1 has seen a new StartedAt, and with a restart
\* command not once the command has returned, however many calls and starts cross.
\* Code: write, then getStartedAt, then the command, then waitForNewStart.
Restarted(r) ==
  \/ sawNew[r] /\ pc[r] \in {"healthy", "external", "ok"}
  \/ method = "restart" /\ pc[r] \in {"newStart", "healthy", "external", "ok"}
FreshAfterRestart == \A r \in Callers : Restarted(r) /\ Running => loaded >= wrote[r]

\* A process with an old users file has its restart or a signal still to come, or
\* one is known to be lost: what LoadedOrOwed of AccountService says, step by step
\* and for both restart methods.
StaleIsOwed ==
  Running /\ loaded < file =>
    \/ dying \/ lost
    \/ \E r \in Callers : wrote[r] > loaded /\ pc[r] \in {"inspect", "command"}
=============================================================================
