----------------------- MODULE UserFileServiceProofs -----------------------
(***************************************************************************)
(* UserFileService implements UsersFile, and what Upsert writes Find       *)
(* returns.                                                                *)
(***************************************************************************)
EXTENDS UserFileService, TLAPS, WellFoundedInduction, SequenceTheorems

Files == Seq(Line \cup {Bad}) \cup {None}

-----------------------------------------------------------------------------
(* Lemmas about lines *)

\* A file that parses is a list of users.
LEMMA ContentType ==
  ASSUME NEW f \in Files, Parses(f)
  PROVE  Content(f) \in Seq(Line)
<1>1. Content(f) \in Seq(Line \cup {Bad})
  BY DEF Content, Files
<1>2. \A i \in 1 .. Len(Content(f)) : Content(f)[i] \in Line
  BY <1>1 DEF Parses
<1> QED BY <1>1, <1>2

\* Upsert's lines are users, as many or one more.
LEMMA UpsertedType ==
  ASSUME NEW ls \in Seq(Line), NEW n \in Names, NEW v \in Values
  PROVE  Upserted(ls, n, v) \in Seq(Line)
<1>1. [name |-> n, value |-> v] \in Line
  BY DEF Line
<1>2. CASE \E i \in DOMAIN ls : ls[i].name = n
  <2> DEFINE us == [i \in DOMAIN ls |-> IF IsFirst(ls, n, i) THEN [name |-> n, value |-> v] ELSE ls[i]]
  <2>1. us \in [1 .. Len(ls) -> Line]
    BY <1>1
  <2>2. us \in Seq(Line)
    BY <2>1
  <2> QED BY <1>2, <2>2 DEF Upserted
<1>3. CASE ~ \E i \in DOMAIN ls : ls[i].name = n
  BY <1>1, <1>3 DEF Upserted
<1> QED BY <1>2, <1>3

\* A list with a line of the user has a first one.
LessThan == {ss \in Nat \X Nat : ss[1] < ss[2]}
LEMMA FirstLine ==
  ASSUME NEW ls \in Seq(Line), NEW n, NEW k \in DOMAIN ls, ls[k].name = n
  PROVE  \E i \in DOMAIN ls : IsFirst(ls, n, i)
<1> DEFINE T == {i \in DOMAIN ls : ls[i].name = n}
<1>1. T \subseteq Nat /\ T # {} /\ DOMAIN ls = 1 .. Len(ls) /\ Len(ls) \in Nat
  OBVIOUS
<1>2. IsWellFoundedOn(LessThan, Nat)
  BY NatLessThanWellFounded DEF OpToRel, LessThan
<1>3. PICK i \in T : \A j \in T : ~ (<<j, i>> \in LessThan)
  BY <1>1, <1>2, WFMin
<1>4. ASSUME NEW j \in 1 .. i - 1 PROVE ls[j].name # n
  <2>1. i \in 1 .. Len(ls) /\ j \in 1 .. Len(ls) /\ j < i
    BY <1>1, <1>3
  <2>2. <<j, i>> \in LessThan
    BY <2>1 DEF LessThan
  <2> QED BY <1>1, <1>3, <2>1, <2>2
<1> QED BY <1>1, <1>3, <1>4 DEF IsFirst

\* After an upsert the user's first line is the one written, and the first line
\* of everyone else is the one it was.
LEMMA UpsertedFound ==
  ASSUME NEW ls \in Seq(Line), NEW n \in Names, NEW v \in Values
  PROVE  /\ Holds(Upserted(ls, n, v), n, v)
         /\ \A m \in Names \ {n}, w \in Values :
              Holds(ls, m, w) <=> Holds(Upserted(ls, n, v), m, w)
<1> DEFINE us == Upserted(ls, n, v)
<1>1. CASE \E i \in DOMAIN ls : ls[i].name = n
  <2>1. us = [i \in DOMAIN ls |-> IF IsFirst(ls, n, i) THEN [name |-> n, value |-> v] ELSE ls[i]]
    BY <1>1 DEF Upserted
  <2>2. DOMAIN us = DOMAIN ls /\ \A i \in DOMAIN ls : us[i].name = ls[i].name
    BY <2>1 DEF IsFirst
  <2>3. DOMAIN ls = 1 .. Len(ls) /\ Len(ls) \in Nat
    OBVIOUS
  <2>4. \A m, i : IsFirst(us, m, i) <=> IsFirst(ls, m, i)
    BY <2>2, <2>3 DEF IsFirst
  <2>5. PICK i \in DOMAIN ls : IsFirst(ls, n, i)
    BY <1>1, FirstLine
  <2>6. us[i].value = v
    BY <2>1, <2>5
  <2>7. Holds(us, n, v)
    BY <2>2, <2>4, <2>5, <2>6 DEF Holds
  <2>8. ASSUME NEW m \in Names \ {n}, NEW j, IsFirst(ls, m, j) PROVE us[j] = ls[j]
    BY <2>1, <2>8 DEF IsFirst
  <2>9. \A m \in Names \ {n}, w \in Values : Holds(ls, m, w) <=> Holds(us, m, w)
    BY <2>2, <2>4, <2>8 DEF Holds
  <2> QED BY <2>7, <2>9
<1>2. CASE ~ \E i \in DOMAIN ls : ls[i].name = n
  <2> DEFINE k == Len(ls) + 1
  <2>1. us = Append(ls, [name |-> n, value |-> v])
    BY <1>2 DEF Upserted
  <2>2. /\ DOMAIN ls = 1 .. Len(ls) /\ Len(ls) \in Nat
        /\ DOMAIN us = 1 .. k /\ us[k] = [name |-> n, value |-> v]
        /\ \A i \in 1 .. Len(ls) : us[i] = ls[i]
    BY <2>1
  <2>3. \A i \in 1 .. k - 1 : us[i].name # n
    BY <1>2, <2>2
  <2>4. IsFirst(us, n, k)
    BY <2>2, <2>3 DEF IsFirst
  <2>5. Holds(us, n, v)
    BY <2>2, <2>4 DEF Holds
  <2>6. ASSUME NEW m \in Names \ {n}, NEW j PROVE IsFirst(us, m, j) <=> IsFirst(ls, m, j)
    <3>1. IsFirst(us, m, j) => j \in 1 .. Len(ls)
      BY <2>2 DEF IsFirst
    <3> QED BY <3>1, <2>2 DEF IsFirst
  <2>7. \A m \in Names \ {n}, w \in Values : Holds(ls, m, w) <=> Holds(us, m, w)
    BY <2>2, <2>6 DEF Holds, IsFirst
  <2> QED BY <2>5, <2>7
<1> QED BY <1>1, <1>2

-----------------------------------------------------------------------------
(* The inductive invariant *)

\* The mutex is held exactly between Lock and the return.
LockInv == \A c \in Callers : pc[c] \notin {"idle", "lock"} <=> mu = c

\* Whoever writes has what Upsert makes of the lines it has seen; the temporary
\* file holds the lines written so far.
WriteInv ==
  \A c \in Callers :
    /\ pc[c] \in {"lock", "read", "create", "write", "rename"} => call[c].name \in Names
    /\ pc[c] \in {"create", "write", "rename"} =>
         /\ call[c].value \in Values
         /\ Parses(seen)
         /\ users[c] = Upserted(Content(seen), call[c].name, call[c].value)
    /\ pc[c] \in {"write", "rename"} =>
         /\ tmp # None /\ Len(tmp) <= Len(users[c])
         /\ \A i \in 1 .. Len(tmp) : tmp[i] = users[c][i]
    /\ pc[c] = "rename" => tmp = users[c]

Inv == TypeOK /\ LockInv /\ WriteInv

LEMMA InitInv == ServiceInit => Inv
<1> SUFFICES ASSUME ServiceInit PROVE Inv
    OBVIOUS
<1>1. TypeOK
  <2>1. NoCall \in Call /\ <<>> \in Seq(Line)
    BY DEF Call, NoCall
  <2> QED BY <2>1, LinesAssumption DEF LinesAssumption, ServiceInit, Init, TypeOK, Steps
<1>2. LockInv /\ WriteInv
  BY CallersAssumption DEF CallersAssumption, ServiceInit, LockInv, WriteInv
<1> QED BY <1>1, <1>2 DEF Inv

LEMMA TypeStep == Inv /\ [ServiceNext]_vars => TypeOK'
<1> SUFFICES ASSUME Inv, [ServiceNext]_vars PROVE TypeOK'
    OBVIOUS
<1> USE DEF TypeOK, At, Goto, Return, Steps, Inv
<1>n. NoCall \in Call /\ <<>> \in Seq(Line)
  BY DEF NoCall, Call
<1>1. ASSUME NEW c \in Callers, Begin(c) PROVE TypeOK'
  BY <1>1 DEF Begin, Call
<1>2. ASSUME NEW c \in Callers, Lock(c) PROVE TypeOK'
  BY <1>2 DEF Lock
<1>3. ASSUME NEW c \in Callers, ReadReturns(c) PROVE TypeOK'
  BY <1>3, <1>n DEF ReadReturns
<1>4. ASSUME NEW c \in Callers, Read(c) PROVE TypeOK'
  <2>1. call[c].name \in Names /\ call[c].value \in Values
    BY <1>4 DEF Read, WriteInv, Call
  <2>2. Content(file) \in Seq(Line)
    BY <1>4, ContentType DEF Read, Files
  <2>3. Upserted(Content(file), call[c].name, call[c].value) \in Seq(Line)
    BY <2>1, <2>2, UpsertedType
  <2> QED BY <1>4, <2>3 DEF Read
<1>5. ASSUME NEW c \in Callers, Create(c) PROVE TypeOK'
  BY <1>5, <1>n DEF Create
<1>6. ASSUME NEW c \in Callers, WriteLine(c) PROVE TypeOK'
  <2>1. tmp \in Seq(Line) /\ users[c] \in Seq(Line) /\ Len(tmp) + 1 \in 1 .. Len(users[c])
    BY <1>6 DEF WriteLine, WriteInv
  <2>2. Append(tmp, users[c][Len(tmp) + 1]) \in Seq(Line)
    BY <2>1
  <2> QED BY <1>6, <2>2 DEF WriteLine
<1>7. ASSUME NEW c \in Callers, Close(c) PROVE TypeOK'
  BY <1>7 DEF Close
<1>8. ASSUME NEW c \in Callers, Rename(c) PROVE TypeOK'
  <2>1. tmp \in Seq(Line \cup {Bad})
    BY <1>8 DEF Rename, WriteInv
  <2> QED BY <1>8, <2>1, <1>n DEF Rename
<1>9. ASSUME NEW c \in Callers, Fails(c) PROVE TypeOK'
  BY <1>9, <1>n DEF Fails
<1>10. CASE OperatorEdits
  BY <1>10, LinesAssumption DEF LinesAssumption, OperatorEdits, Edit
<1>11. CASE Crash
  BY <1>11, <1>n DEF Crash
<1>12. CASE UNCHANGED vars
  BY <1>12 DEF vars
<1> QED BY <1>1, <1>2, <1>3, <1>4, <1>5, <1>6, <1>7, <1>8, <1>9, <1>10, <1>11, <1>12 DEF ServiceNext, Run

LEMMA LockStep == Inv /\ [ServiceNext]_vars => LockInv'
<1> SUFFICES ASSUME Inv, [ServiceNext]_vars PROVE LockInv'
    OBVIOUS
<1> USE CallersAssumption DEF CallersAssumption, TypeOK, At, Goto, Return, Steps, Inv, LockInv
<1>1. ASSUME NEW c \in Callers, Begin(c) \/ Lock(c) \/ Close(c) PROVE LockInv'
  BY <1>1 DEF Begin, Lock, Close
<1>2. ASSUME NEW c \in Callers, ReadReturns(c) \/ Rename(c) \/ Fails(c) PROVE LockInv'
  BY <1>2 DEF ReadReturns, Rename, Fails
<1>3. ASSUME NEW c \in Callers, Read(c) \/ Create(c) \/ WriteLine(c) PROVE LockInv'
  BY <1>3 DEF Read, Create, WriteLine
<1>4. CASE OperatorEdits \/ Crash \/ UNCHANGED vars
  BY <1>4 DEF OperatorEdits, Crash, vars
<1> QED BY <1>1, <1>2, <1>3, <1>4 DEF ServiceNext, Run

LEMMA WriteStep == Inv /\ TypeOK' /\ [ServiceNext]_vars => WriteInv'
<1> SUFFICES ASSUME Inv, TypeOK', [ServiceNext]_vars PROVE WriteInv'
    OBVIOUS
<1> USE DEF TypeOK, At, Goto, Inv
\* While one goroutine holds the mutex no other one writes.
<1>a. ASSUME NEW c \in Callers, pc[c] \in {"read", "create", "write", "rename"}, NEW d \in Callers \ {c}
      PROVE  pc[d] \in {"idle", "lock"}
  BY <1>a DEF LockInv, Steps
<1>1. ASSUME NEW c \in Callers, Begin(c) PROVE WriteInv'
  <2>1. /\ pc'[c] = "lock" /\ call'[c].name \in Names /\ UNCHANGED <<file, seen, tmp, users>>
        /\ \A d \in Callers \ {c} : pc'[d] = pc[d] /\ call'[d] = call[d]
    BY <1>1 DEF Begin
  <2> QED BY <2>1 DEF WriteInv
<1>2. ASSUME NEW c \in Callers, Lock(c) PROVE WriteInv'
  <2>1. /\ pc[c] = "lock" /\ pc'[c] = "read" /\ UNCHANGED <<file, seen, tmp, call, users>>
        /\ \A d \in Callers \ {c} : pc'[d] = pc[d]
    BY <1>2 DEF Lock
  <2> QED BY <2>1 DEF WriteInv
<1>3. ASSUME NEW c \in Callers, ReadReturns(c) \/ Rename(c) \/ Fails(c) PROVE WriteInv'
  <2>1. \A d \in Callers : pc'[d] \in {"idle", "lock"}
    BY <1>3, <1>a DEF ReadReturns, Rename, Fails, Return
  <2>2. \A d \in Callers : pc'[d] = "lock" => pc[d] = "lock" /\ call'[d] = call[d]
    BY <1>3 DEF ReadReturns, Rename, Fails, Return
  <2> QED BY <2>1, <2>2 DEF WriteInv
<1>4. ASSUME NEW c \in Callers, Read(c) PROVE WriteInv'
  <2>1. /\ pc[c] = "read" /\ pc'[c] = "create" /\ Parses(file) /\ seen' = file /\ call' = call
        /\ call[c].value # None
        /\ users'[c] = Upserted(Content(file), call[c].name, call[c].value)
        /\ \A d \in Callers \ {c} : pc'[d] = pc[d]
    BY <1>4 DEF Read
  <2>2. \A d \in Callers \ {c} : pc'[d] \in {"idle", "lock"}
    BY <2>1, <1>a
  <2>3. call[c].name \in Names /\ call[c].value \in Values
    BY <2>1 DEF WriteInv, Call
  <2> QED BY <2>1, <2>2, <2>3 DEF WriteInv
<1>5. ASSUME NEW c \in Callers, Create(c) PROVE WriteInv'
  <2>1. /\ pc[c] = "create" /\ pc'[c] = "write" /\ tmp' = <<>>
        /\ UNCHANGED <<file, seen, call, users>>
        /\ \A d \in Callers \ {c} : pc'[d] = pc[d]
    BY <1>5 DEF Create
  <2>2. \A d \in Callers \ {c} : pc'[d] \in {"idle", "lock"}
    BY <2>1, <1>a
  <2>3. <<>> # None /\ Len(<<>>) = 0 /\ 0 <= Len(users[c])
    <3>1. <<>> \in Seq(Line \cup {Bad}) /\ Len(<<>>) = 0
      OBVIOUS
    <3>2. <<>> # None
      BY <3>1, MarksAssumption DEF MarksAssumption
    <3>3. Len(users[c]) \in Nat
      BY LenProperties
    <3> QED BY <3>1, <3>2, <3>3
  <2> QED BY <2>1, <2>2, <2>3 DEF WriteInv
<1>6. ASSUME NEW c \in Callers, WriteLine(c) PROVE WriteInv'
  <2>1. /\ pc[c] = "write" /\ UNCHANGED <<file, seen, pc, call, users>>
        /\ Len(tmp) < Len(users[c]) /\ tmp' = Append(tmp, users[c][Len(tmp) + 1])
    BY <1>6 DEF WriteLine
  <2>2. \A d \in Callers \ {c} : pc'[d] \in {"idle", "lock"}
    BY <2>1, <1>a
  <2>3. tmp \in Seq(Line) /\ users[c] \in Seq(Line)
    BY <2>1 DEF WriteInv
  <2>4. /\ tmp' \in Seq(Line) \cup {None} /\ Len(tmp') = Len(tmp) + 1 /\ Len(tmp') <= Len(users[c])
        /\ \A i \in 1 .. Len(tmp') : tmp'[i] = users[c][i]
    <3>1. \A i \in 1 .. Len(tmp) : tmp[i] = users[c][i]
      BY <2>1 DEF WriteInv
    <3> QED BY <2>1, <2>3, <3>1
  <2>5. tmp' # None
    <3>1. tmp' \in Seq(Line \cup {Bad})
      <4>1. users[c][Len(tmp) + 1] \in Line
        BY <2>1, <2>3
      <4>2. Append(tmp, users[c][Len(tmp) + 1]) \in Seq(Line)
        BY <2>3, <4>1
      <4> QED BY <2>1, <4>2
    <3> QED BY <3>1, MarksAssumption DEF MarksAssumption
  <2> QED BY <2>1, <2>2, <2>4, <2>5 DEF WriteInv
<1>7. ASSUME NEW c \in Callers, Close(c) PROVE WriteInv'
  <2>1. /\ pc[c] = "write" /\ pc'[c] = "rename" /\ UNCHANGED <<file, seen, tmp, call, users>>
        /\ Len(tmp) = Len(users[c])
        /\ \A d \in Callers \ {c} : pc'[d] = pc[d]
    BY <1>7 DEF Close
  <2>2. \A d \in Callers \ {c} : pc'[d] \in {"idle", "lock"}
    BY <2>1, <1>a
  <2>3. tmp \in Seq(Line) /\ users[c] \in Seq(Line) /\ \A i \in 1 .. Len(tmp) : tmp[i] = users[c][i]
    BY <2>1 DEF WriteInv
  <2>4. tmp = users[c]
    BY <2>1, <2>3, SeqEqual
  <2> QED BY <2>1, <2>2, <2>4 DEF WriteInv
<1>8. CASE OperatorEdits
  BY <1>8 DEF OperatorEdits, Edit, WriteInv
<1>9. CASE Crash
  BY <1>9 DEF Crash, WriteInv
<1>10. CASE UNCHANGED vars
  BY <1>10 DEF vars, WriteInv
<1> QED BY <1>1, <1>2, <1>3, <1>4, <1>5, <1>6, <1>7, <1>8, <1>9, <1>10 DEF ServiceNext, Run

-----------------------------------------------------------------------------
(* The theorems *)

LEMMA Invariance == ServiceSpec => []Inv
<1>1. Inv /\ [ServiceNext]_vars => Inv'
  BY TypeStep, LockStep, WriteStep DEF Inv
<1> QED BY <1>1, InitInv, PTL DEF ServiceSpec

\* Every variable of the service keeps its type.
THEOREM ServiceTypeCorrect == ServiceSpec => []TypeOK
<1>1. Inv => TypeOK
  BY DEF Inv
<1> QED BY <1>1, Invariance, PTL

\* The service's mutex is held by a call exactly from Lock to its return: no
\* error return of Upsert or ReadAll keeps it, and after a crash nobody has it.
THEOREM FileLockIsReleased == ServiceSpec => []LockInv
<1>1. Inv => LockInv
  BY DEF Inv
<1> QED BY <1>1, Invariance, PTL

\* Only Rename and the operator change the users file.
LEMMA WhoWrites ==
  ASSUME Inv, [ServiceNext]_vars
  PROVE  \/ \E c \in Callers : Rename(c)
         \/ OperatorEdits
         \/ file' = file /\ seen' \in {seen, file}
<1>1. ASSUME NEW c \in Callers, Begin(c) \/ Run(c), ~Rename(c)
      PROVE  file' = file /\ seen' \in {seen, file}
  BY <1>1 DEF Begin, Run, Lock, ReadReturns, Read, Create, WriteLine, Close, Fails
<1>2. CASE Crash \/ UNCHANGED vars
  BY <1>2 DEF Crash, vars
<1> QED BY <1>1, <1>2 DEF ServiceNext, Run

\* A rename puts the user's line into the lines that were seen.
LEMMA RenamePuts ==
  ASSUME Inv, NEW c \in Callers, Rename(c)
  PROVE  /\ call[c].name \in Names /\ call[c].value \in Values
         /\ Parses(seen) /\ Content(seen) \in Seq(Line) /\ seen' = file'
         /\ file' = Upserted(Content(seen), call[c].name, call[c].value)
<1>1. /\ pc[c] = "rename" /\ file' = tmp /\ tmp = users[c] /\ seen' = tmp
      /\ call[c].name \in Names /\ call[c].value \in Values
  BY DEF Rename, At, Inv, WriteInv
<1>2. Parses(seen) /\ users[c] = Upserted(Content(seen), call[c].name, call[c].value)
  BY <1>1 DEF Inv, WriteInv
<1>3. Content(seen) \in Seq(Line)
  BY <1>2, ContentType DEF Inv, TypeOK, Files
<1> QED BY <1>1, <1>2, <1>3

\* Whatever fails and wherever the process stops, the service implements a users
\* file that changes as a whole.
THEOREM ServiceKeepsUsersFile == ServiceSpec => KeepsUsersFile
<1>1. ServiceInit => Init
  BY DEF ServiceInit
<1>2. Inv /\ [ServiceNext]_vars => [Next]_<<file, seen>>
  <2> SUFFICES ASSUME Inv, [ServiceNext]_vars PROVE [Next]_<<file, seen>>
      OBVIOUS
  <2>1. ASSUME NEW c \in Callers, Rename(c) PROVE Next
    BY <2>1, RenamePuts DEF Next, Put
  <2>2. CASE OperatorEdits
    BY <2>2 DEF OperatorEdits, Next
  <2>3. CASE file' = file /\ seen' \in {seen, file}
    BY <2>3 DEF Next, Look
  <2> QED BY <2>1, <2>2, <2>3, WhoWrites
<1> QED BY <1>1, <1>2, Invariance, PTL DEF ServiceSpec, KeepsUsersFile, Spec

\* What Upsert wrote is what Find returns, and nobody else's record changes.
THEOREM WrittenRecordIsFound == ServiceSpec => WriteIsFound
<1> DEFINE A == \A c \in Callers : pc[c] = "rename" /\ file' # file /\ mu' = None =>
       /\ Holds(file', call[c].name, call[c].value)
       /\ \A n \in Names \ {call[c].name}, v \in Values :
            Holds(Content(seen), n, v) <=> Holds(file', n, v)
<1>1. Inv /\ [ServiceNext]_vars => [A]_vars
  <2> SUFFICES ASSUME Inv, ServiceNext,
                      NEW c \in Callers, pc[c] = "rename", file' # file, mu' = None
               PROVE  /\ Holds(file', call[c].name, call[c].value)
                      /\ \A n \in Names \ {call[c].name}, v \in Values :
                           Holds(Content(seen), n, v) <=> Holds(file', n, v)
      BY DEF vars
  <2>1. Rename(c)
    <3>1. mu = c
      BY DEF Inv, LockInv, TypeOK, Steps
    <3>2. ~OperatorEdits
      BY <3>1, CallersAssumption DEF OperatorEdits, CallersAssumption
    <3>3. PICK d \in Callers : Rename(d)
      BY <3>2, WhoWrites
    <3>4. mu = d
      BY <3>3 DEF Rename, At, Inv, LockInv
    <3> QED BY <3>1, <3>3, <3>4
  <2> QED BY <2>1, RenamePuts, UpsertedFound
<1> QED BY <1>1, Invariance, PTL DEF ServiceSpec, WriteIsFound
=============================================================================
