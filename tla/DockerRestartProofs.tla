------------------------- MODULE DockerRestartProofs -------------------------
(***************************************************************************)
(* Proofs about DockerRestart, for any number of callers, writes and       *)
(* starts.                                                                 *)
(***************************************************************************)
EXTENDS DockerRestart, TLAPS

\* Nobody has read or written more than the file holds, and someone wrote it.
CountInv ==
  /\ loaded <= file
  /\ \A r \in Callers : wrote[r] <= file
  /\ \A r \in Callers : pc[r] = "idle" => wrote[r] = 0
  /\ file = 0 \/ \E r \in Callers : wrote[r] = file

\* A start after the caller's getStartedAt is a start after its write.
StartInv ==
  \A r \in Callers :
    /\ before[r] # Unknown => before[r] <= started
    /\ before[r] # Unknown /\ started # before[r] /\ Running => loaded >= wrote[r]
    /\ sawNew[r] => before[r] # Unknown /\ started # before[r] /\ pc[r] # "inspect"

\* After the command: the old process is gone, or has a signal to deal with.
CommandInv ==
  \A r \in Callers :
    /\ method = "restart" /\ pc[r] \in {"start", "newStart", "healthy", "external", "ok"} /\ Running
         => loaded >= wrote[r]
    /\ Running /\ loaded < wrote[r] => dying \/ lost \/ pc[r] \in {"inspect", "command"}

Inv == TypeOK /\ CountInv /\ StartInv /\ CommandInv

LEMMA InitInv == Init => Inv
<1> SUFFICES ASSUME Init PROVE Inv
    OBVIOUS
<1>1. TypeOK
  BY DEF Init, TypeOK, Steps, Ended
<1>2. CountInv /\ StartInv /\ CommandInv
  BY UnknownAssumption DEF UnknownAssumption, Init, CountInv, StartInv, CommandInv
<1> QED BY <1>1, <1>2 DEF Inv

LEMMA TypeStep == TypeOK /\ [Next]_vars => TypeOK'
<1> SUFFICES ASSUME TypeOK, [Next]_vars PROVE TypeOK'
    OBVIOUS
<1> USE DEF TypeOK, At, Goto, Steps, Ended, containerVars, callVars
<1>1. ASSUME NEW r \in Callers, Call(r) PROVE TypeOK'
  BY <1>1 DEF Call
<1>2. ASSUME NEW r \in Callers, Inspect(r) PROVE TypeOK'
  BY <1>2 DEF Inspect
<1>3. ASSUME NEW r \in Callers, Stop(r) PROVE TypeOK'
  BY <1>3 DEF Stop
<1>4. ASSUME NEW r \in Callers, Start(r) PROVE TypeOK'
  BY <1>4 DEF Start
<1>5. ASSUME NEW r \in Callers, Signal(r) PROVE TypeOK'
  BY <1>5 DEF Signal
<1>6. ASSUME NEW r \in Callers, CommandFails(r) PROVE TypeOK'
  BY <1>6 DEF CommandFails
<1>7. ASSUME NEW r \in Callers, SeeNewStart(r) PROVE TypeOK'
  BY <1>7 DEF SeeNewStart
<1>8. ASSUME NEW r \in Callers, NoNewStart(r) PROVE TypeOK'
  BY <1>8 DEF NoNewStart
<1>9. ASSUME NEW r \in Callers, SeeHealthy(r) PROVE TypeOK'
  <2>1. \E s \in {"external", "ok"} : pc' = [pc EXCEPT ![r] = s]
    BY <1>9 DEF SeeHealthy
  <2>2. pc' \in [Callers -> Steps]
    BY <2>1
  <2> QED BY <1>9, <2>2 DEF SeeHealthy
<1>10. ASSUME NEW r \in Callers, NotHealthy(r) PROVE TypeOK'
  BY <1>10 DEF NotHealthy
<1>11. CASE DaemonStarts \/ ReadsFile \/ Listens \/ Exits \/ IgnoresSignal
  <2>1. CASE DaemonStarts
    BY <2>1 DEF DaemonStarts
  <2>2. CASE ReadsFile
    BY <2>2 DEF ReadsFile
  <2>3. CASE Listens
    BY <2>3 DEF Listens
  <2>4. CASE Exits
    BY <2>4 DEF Exits
  <2>5. CASE IgnoresSignal
    BY <2>5 DEF IgnoresSignal
  <2> QED BY <1>11, <2>1, <2>2, <2>3, <2>4, <2>5
<1>12. CASE UNCHANGED vars
  BY <1>12 DEF vars
<1> QED BY <1>1, <1>2, <1>3, <1>4, <1>5, <1>6, <1>7, <1>8, <1>9, <1>10, <1>11, <1>12 DEF Next

LEMMA InvStep == Inv /\ TypeOK' /\ [Next]_vars => Inv'
<1> SUFFICES ASSUME Inv, TypeOK', [Next]_vars PROVE Inv'
    OBVIOUS
<1> USE DEF Inv, TypeOK, At, Goto, Ended, containerVars, callVars
<1>1. ASSUME NEW r \in Callers, Call(r) PROVE Inv'
  <2>1. /\ file' \in {file, file + 1} /\ wrote'[r] = file' /\ pc'[r] = "inspect"
        /\ before'[r] = Unknown /\ sawNew'[r] = FALSE
        /\ UNCHANGED <<method, process, loaded, started, dying, lost>>
        /\ \A q \in Callers \ {r} : /\ pc'[q] = pc[q] /\ wrote'[q] = wrote[q]
                                    /\ before'[q] = before[q] /\ sawNew'[q] = sawNew[q]
    BY <1>1 DEF Call
  <2>2. CountInv'
    BY <2>1 DEF CountInv
  <2>3. StartInv'
    BY <2>1 DEF StartInv, Running
  <2>4. CommandInv'
    BY <2>1 DEF CommandInv, Running
  <2> QED BY <2>2, <2>3, <2>4
<1>2. ASSUME NEW r \in Callers, Inspect(r) PROVE Inv'
  <2>1. /\ before'[r] \in {started, Unknown} /\ pc[r] = "inspect" /\ pc'[r] = "command"
        /\ UNCHANGED <<method, file, process, loaded, started, dying, lost, wrote, sawNew>>
        /\ \A q \in Callers \ {r} : pc'[q] = pc[q] /\ before'[q] = before[q]
    BY <1>2 DEF Inspect
  <2>2. CountInv'
    BY <2>1 DEF CountInv
  <2>3. StartInv'
    BY <2>1 DEF StartInv, Running
  <2>4. CommandInv'
    BY <2>1 DEF CommandInv, Running
  <2> QED BY <2>2, <2>3, <2>4
\* The restart command: from here on the process is one that read the file later.
<1>3. ASSUME NEW r \in Callers, Stop(r) \/ Start(r) PROVE Inv'
  <2>1. /\ pc[r] \in {"command", "start"} /\ pc'[r] \in {"start", "newStart"}
        /\ pc[r] = "command" => process' = "down" /\ UNCHANGED started
        /\ pc[r] = "start" => \/ process # "down" /\ UNCHANGED <<process, started, dying>>
                              \/ process' = "booting" /\ started' = started + 1
        /\ UNCHANGED <<method, file, loaded, lost, wrote, before, sawNew>>
        /\ \A q \in Callers \ {r} : pc'[q] = pc[q]
    BY <1>3 DEF Stop, Start
  <2>2. CountInv'
    BY <2>1 DEF CountInv
  <2>3. StartInv'
    BY <2>1, UnknownAssumption DEF StartInv, Running, UnknownAssumption
  <2>4. CommandInv'
    BY <2>1 DEF CommandInv, Running
  <2> QED BY <2>2, <2>3, <2>4
<1>4. ASSUME NEW r \in Callers, Signal(r) \/ CommandFails(r) PROVE Inv'
  <2>1. /\ \/ method = "signal" /\ dying' = TRUE /\ pc'[r] = "newStart" /\ UNCHANGED lost
           \/ lost' = TRUE /\ pc'[r] = "error" /\ UNCHANGED dying
        /\ pc[r] \notin Ended
        /\ UNCHANGED <<method, file, process, loaded, started, wrote, before, sawNew>>
        /\ \A q \in Callers \ {r} : pc'[q] = pc[q]
    BY <1>4 DEF Signal, CommandFails
  <2>2. CountInv'
    BY <2>1 DEF CountInv
  <2>3. StartInv'
    BY <2>1 DEF StartInv, Running
  <2>4. CommandInv'
    BY <2>1 DEF CommandInv, Running
  <2> QED BY <2>2, <2>3, <2>4
<1>5. ASSUME NEW r \in Callers, SeeNewStart(r) \/ NoNewStart(r) PROVE Inv'
  <2>1. /\ pc[r] = "newStart" /\ pc'[r] = "healthy"
        /\ \/ before[r] # Unknown /\ started # before[r] /\ sawNew'[r] = TRUE
           \/ sawNew'[r] = sawNew[r]
        /\ UNCHANGED <<method, file, process, loaded, started, dying, lost, wrote, before>>
        /\ \A q \in Callers \ {r} : pc'[q] = pc[q] /\ sawNew'[q] = sawNew[q]
    BY <1>5 DEF SeeNewStart, NoNewStart
  <2>2. CountInv'
    BY <2>1 DEF CountInv
  <2>3. StartInv'
    BY <2>1 DEF StartInv, Running
  <2>4. CommandInv'
    BY <2>1 DEF CommandInv, Running
  <2> QED BY <2>2, <2>3, <2>4
<1>6. ASSUME NEW r \in Callers, SeeHealthy(r) \/ NotHealthy(r) PROVE Inv'
  <2>1. /\ pc[r] \in {"healthy", "external"} /\ pc'[r] \in {"external", "ok", "error"}
        /\ UNCHANGED <<method, file, process, loaded, started, dying, lost, wrote, before, sawNew>>
        /\ \A q \in Callers \ {r} : pc'[q] = pc[q]
    BY <1>6 DEF SeeHealthy, NotHealthy
  <2>2. CountInv'
    BY <2>1 DEF CountInv
  <2>3. StartInv'
    BY <2>1 DEF StartInv, Running
  <2>4. CommandInv'
    BY <2>1 DEF CommandInv, Running
  <2> QED BY <2>2, <2>3, <2>4
<1>7. CASE DaemonStarts \/ Exits
  <2>1. /\ process' \in {"down", "booting"} /\ started' \in {started, started + 1}
        /\ UNCHANGED <<method, file, loaded, lost, pc, wrote, before, sawNew>>
    BY <1>7 DEF DaemonStarts, Exits
  <2>2. CountInv'
    BY <2>1 DEF CountInv
  <2>3. StartInv'
    BY <2>1, UnknownAssumption DEF StartInv, Running, UnknownAssumption
  <2>4. CommandInv'
    BY <2>1 DEF CommandInv, Running
  <2> QED BY <2>2, <2>3, <2>4
\* What the new process has read is all there was to read.
<1>8. CASE ReadsFile
  <2>1. /\ loaded' = file
        /\ UNCHANGED <<method, file, started, dying, lost, pc, wrote, before, sawNew>>
    BY <1>8 DEF ReadsFile
  <2>2. CountInv'
    BY <2>1 DEF CountInv
  <2>3. StartInv'
    BY <2>1 DEF StartInv, CountInv
  <2>4. CommandInv'
    BY <2>1 DEF CommandInv, CountInv
  <2> QED BY <2>2, <2>3, <2>4
<1>9. CASE Listens \/ IgnoresSignal \/ UNCHANGED vars
  <2>1. /\ Running' => Running
        /\ dying' \/ lost' \/ (UNCHANGED <<dying, lost>>)
        /\ UNCHANGED <<method, file, loaded, started, pc, wrote, before, sawNew>>
    BY <1>9 DEF Listens, IgnoresSignal, vars, Running
  <2>2. CountInv'
    BY <2>1 DEF CountInv
  <2>3. StartInv'
    BY <2>1 DEF StartInv
  <2>4. CommandInv'
    BY <2>1 DEF CommandInv
  <2> QED BY <2>2, <2>3, <2>4
<1> QED BY <1>1, <1>2, <1>3, <1>4, <1>5, <1>6, <1>7, <1>8, <1>9 DEF Next

LEMMA Invariance == Spec => []Inv
<1>1. Inv /\ [Next]_vars => Inv'
  BY TypeStep, InvStep DEF Inv
<1> QED BY InitInv, <1>1, PTL DEF Spec

\* Every variable of the restart, the container and the calls keeps its type.
THEOREM RestartTypeCorrect == Spec => []TypeOK
<1>1. Inv => TypeOK
  BY DEF Inv
<1> QED BY Invariance, <1>1, PTL

\* However many calls and starts cross, a process that runs after a caller's restart
\* command has returned, or after its phase 1 has seen a new StartedAt, has read
\* the users file after that caller wrote it.
THEOREM FreshAfterRestartAlways == Spec => []FreshAfterRestart
<1>1. Inv => FreshAfterRestart
  <2> SUFFICES ASSUME Inv, NEW r \in Callers, Restarted(r), Running PROVE loaded >= wrote[r]
    BY DEF FreshAfterRestart
  <2>1. CASE sawNew[r]
    BY <2>1 DEF Inv, StartInv
  <2>2. CASE ~ sawNew[r]
    BY <2>2 DEF Inv, CommandInv, Restarted
  <2> QED BY <2>1, <2>2
<1> QED BY Invariance, <1>1, PTL

\* A running process that has not read the last write has a signal to deal with, a
\* lost restart behind it, or the writer's own command still to come.
THEOREM StaleIsOwedAlways == Spec => []StaleIsOwed
<1>1. Inv => StaleIsOwed
  <2> SUFFICES ASSUME Inv, Running, loaded < file
               PROVE  \/ dying \/ lost
                      \/ \E r \in Callers : wrote[r] > loaded /\ pc[r] \in {"inspect", "command"}
    BY DEF StaleIsOwed
  <2>1. file # 0
    BY DEF Inv, TypeOK
  <2>2. PICK r \in Callers : wrote[r] = file
    BY <2>1 DEF Inv, CountInv
  <2>3. wrote[r] > loaded
    BY <2>2 DEF Inv, TypeOK
  <2> QED BY <2>2, <2>3 DEF Inv, CommandInv
<1> QED BY Invariance, <1>1, PTL
=============================================================================
