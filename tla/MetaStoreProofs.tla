-------------------------- MODULE MetaStoreProofs ---------------------------
(***************************************************************************)
(* Theorems of MetaStore: types, the lock, what a client was told is kept, *)
(* and the refinement of Metadata.                                         *)
(***************************************************************************)
EXTENDS MetaStore, TLAPS

\* A request under way knows what to change.
ReqInv ==
  \A r \in Requests : pc[r] # "idle" =>
    up /\ req[r].name \in Names /\ req[r].field \in M!Settable

\* A request that saves has the lock, the map it encoded is the one in memory,
\* its own value is in it, and a filled temporary file holds it.
LockInv ==
  \A r \in Requests : pc[r] \in {"open", "write", "rename"} =>
    /\ mu = r /\ req[r].buf = users
    /\ M!MetaOf(users, req[r].name)[req[r].field] = req[r].value
    /\ pc[r] = "rename" => tmp = users

\* The lock is not held by a request that has returned or not yet begun to save.
HolderInv == \A r \in Requests : mu = r => pc[r] \in {"open", "write", "rename"}

MetaInv == TypeOK /\ ReqInv /\ LockInv /\ HolderInv

-----------------------------------------------------------------------------
(* The operators on maps *)

\* Every user has fields, the user without a record empty ones.
LEMMA MetaOfType ==
  ASSUME NEW m \in M!Maps, NEW n \in Names PROVE M!MetaOf(m, n) \in M!Meta
<1>1. m[n] \in M!Meta \cup {None}
  BY DEF M!Maps
<1> QED BY <1>1 DEF M!MetaOf, M!Meta

\* A changed map is a map; the field has the value; every other field is as before.
LEMMA WithFieldChanges ==
  ASSUME NEW m \in M!Maps, NEW n \in Names, NEW f \in M!Settable, NEW v \in Values \cup {None}
  PROVE  /\ M!WithField(m, n, f, v) \in M!Maps
         /\ M!MetaOf(M!WithField(m, n, f, v), n)[f] = v
         /\ \A n2 \in Names, f2 \in M!Settable : <<n2, f2>> # <<n, f>> =>
              M!MetaOf(M!WithField(m, n, f, v), n2)[f2] = M!MetaOf(m, n2)[f2]
<1> DEFINE rec == [M!MetaOf(m, n) EXCEPT ![f] = v]
           w == M!WithField(m, n, f, v)
<1>1. M!Settable \subseteq M!Fields
  BY DEF M!Fields
<1>2. rec \in M!Meta /\ rec[f] = v /\ \A g \in M!Fields : g # f => rec[g] = M!MetaOf(m, n)[g]
  BY <1>1, MetaOfType DEF M!Meta
<1>3. m \in [Names -> M!Meta \cup {None}]
  BY DEF M!Maps
<1>4. w \in M!Maps /\ w[n] = rec /\ \A k \in Names : k # n => w[k] = m[k]
  BY <1>2, <1>3 DEF M!WithField, M!Maps
<1>5. M!MetaOf(w, n) = rec
  BY <1>2, <1>4, MarksAssumption DEF M!MetaOf
<1>6. ASSUME NEW n2 \in Names, NEW f2 \in M!Settable, <<n2, f2>> # <<n, f>>
      PROVE  M!MetaOf(w, n2)[f2] = M!MetaOf(m, n2)[f2]
  <2>1. CASE n2 = n
    BY <2>1, <1>1, <1>2, <1>5, <1>6
  <2>2. CASE n2 # n
    BY <2>2, <1>4 DEF M!MetaOf
  <2> QED BY <2>1, <2>2
<1> QED BY <1>2, <1>4, <1>5, <1>6

\* What a file decodes to is a map, and a map decodes to itself.
LEMMA DecodedMaps ==
  /\ M!NoUsers \in M!Maps
  /\ \A d \in M!Files \ {Bad} : M!Decoded(d) \in M!Maps
  /\ \A m \in M!Maps : M!Decoded(m) = m /\ m # Bad
<1>1. M!NoUsers \in M!Maps
  BY DEF M!NoUsers, M!Maps
<1> QED BY <1>1, MarksAssumption DEF M!Files, M!Decoded

-----------------------------------------------------------------------------
\* The first state has types, and no request is under way.
LEMMA MetaInit == Init => MetaInv
<1> SUFFICES ASSUME Init PROVE MetaInv
  OBVIOUS
<1>1. file \in M!Files \ {Bad}
  BY InitialAssumption DEF Init
<1>2. users \in M!Maps
  BY <1>1, DecodedMaps DEF Init
<1>3. TypeOK
  BY <1>1, <1>2 DEF Init, TypeOK, NoRequest, Request, InDoubt, M!Files
<1> QED BY <1>3, NobodyAssumption DEF Init, MetaInv, ReqInv, LockInv, HolderInv

\* A request begins and does not touch what the store has.
LEMMA BeginStep == ASSUME MetaInv, NEW r \in Requests, Begin(r) PROVE MetaInv'
<1> USE DEF MetaInv
<1>1. PICK n \in Names, f \in M!Settable, v \in Values \cup {None} :
        req' = [req EXCEPT ![r] = [name |-> n, field |-> f, value |-> v, buf |-> None]]
  BY DEF Begin
<1>2. req' \in [Requests -> Request]
  BY <1>1 DEF TypeOK, Request
<1>3. TypeOK'
  BY <1>2 DEF Begin, TypeOK
<1>4. ReqInv'
  BY <1>1 DEF Begin, TypeOK, ReqInv
<1>5. LockInv'
  BY <1>1 DEF Begin, TypeOK, LockInv
<1>6. HolderInv'
  BY DEF Begin, TypeOK, HolderInv
<1> QED BY <1>3, <1>4, <1>5, <1>6

\* The lock is taken and the map is changed: nobody else is saving.
LEMMA ChangeStep == ASSUME MetaInv, NEW r \in Requests, Change(r) PROVE MetaInv'
<1> USE DEF MetaInv
<1> DEFINE q == req[r]
<1>1. q \in Request /\ q.name \in Names /\ q.field \in M!Settable /\ q.value \in Values \cup {None}
  BY DEF Change, TypeOK, ReqInv, Request
<1>2. /\ users' = M!WithField(users, q.name, q.field, q.value)
      /\ mu = None /\ mu' = r
      /\ req' = [req EXCEPT ![r].buf = users']
      /\ told' = [told EXCEPT ![q.name][q.field] = Bad]
      /\ pc' = [pc EXCEPT ![r] = "open"] /\ pc[r] = "lock"
      /\ UNCHANGED <<file, tmp, up, hand>>
  BY DEF Change
<1>3. users' \in M!Maps /\ M!MetaOf(users', q.name)[q.field] = q.value
  BY <1>1, <1>2, WithFieldChanges DEF TypeOK
<1>4. req' \in [Requests -> Request]
  BY <1>1, <1>2, <1>3 DEF TypeOK, Request
<1>5. told' \in [Names -> [M!Settable -> Values \cup {None, Bad}]]
  BY <1>1, <1>2 DEF TypeOK
<1>6. TypeOK'
  BY <1>2, <1>3, <1>4, <1>5 DEF TypeOK
<1>7. \A s \in Requests :
        /\ s # r => req'[s] = req[s] /\ pc'[s] = pc[s]
        /\ s = r => pc'[s] = "open" /\ req'[s].buf = users' /\ req'[s].name = q.name
                    /\ req'[s].field = q.field /\ req'[s].value = q.value
  BY <1>1, <1>2 DEF TypeOK, Request
<1>8. ReqInv'
  BY <1>1, <1>2, <1>7 DEF ReqInv
<1>9. \A s \in Requests : s # r => pc[s] \notin {"open", "write", "rename"}
  BY <1>2, NobodyAssumption DEF LockInv
<1>10. LockInv'
  BY <1>2, <1>3, <1>7, <1>9 DEF LockInv
<1>11. HolderInv'
  BY <1>2, <1>7 DEF HolderInv
<1> QED BY <1>6, <1>8, <1>10, <1>11

\* The saving steps are made by who has the lock.
LEMMA SaveStep ==
  ASSUME MetaInv, NEW r \in Requests, OpenTemp(r) \/ WriteTemp(r) PROVE MetaInv'
<1> USE DEF MetaInv
<1>1. \A s \in Requests : s # r => pc[s] \notin {"open", "write", "rename"} /\ pc'[s] = pc[s]
  BY DEF LockInv, OpenTemp, WriteTemp, TypeOK
<1>2. tmp' \in M!Files /\ (pc'[r] = "rename" => tmp' = users)
  BY DEF OpenTemp, WriteTemp, LockInv, TypeOK, Request, M!Files
<1>3. TypeOK'
  BY <1>2 DEF OpenTemp, WriteTemp, TypeOK
<1>4. ReqInv'
  BY <1>1 DEF OpenTemp, WriteTemp, ReqInv, TypeOK
<1>5. LockInv'
  BY <1>1, <1>2 DEF OpenTemp, WriteTemp, LockInv, TypeOK
<1>6. HolderInv'
  BY <1>1 DEF OpenTemp, WriteTemp, HolderInv, TypeOK
<1> QED BY <1>3, <1>4, <1>5, <1>6

\* The saving ends, well or badly, and the lock is released.
LEMMA ReturnStep ==
  ASSUME MetaInv, NEW r \in Requests, Rename(r) \/ SaveFails(r) PROVE MetaInv'
<1> USE DEF MetaInv
<1>1. /\ pc[r] \in {"open", "write", "rename"} /\ pc' = [pc EXCEPT ![r] = "idle"]
      /\ req' = [req EXCEPT ![r] = NoRequest] /\ mu' = None
      /\ UNCHANGED <<users, up, hand>>
  BY DEF Rename, SaveFails, Return
<1>2. \A s \in Requests : s # r => pc[s] \notin {"open", "write", "rename"}
  BY <1>1 DEF LockInv
<1>3. \A s \in Requests : (s # r => pc'[s] = pc[s] /\ req'[s] = req[s]) /\ pc'[r] = "idle"
  BY <1>1 DEF TypeOK
<1>4. req' \in [Requests -> Request]
  BY <1>1 DEF TypeOK, Request, NoRequest
<1>5. told' \in [Names -> [M!Settable -> Values \cup {None, Bad}]]
  <2>1. req[r].name \in Names /\ req[r].field \in M!Settable /\ req[r].value \in Values \cup {None}
    BY <1>1 DEF ReqInv, TypeOK, Request
  <2> QED BY <2>1 DEF Rename, SaveFails, TypeOK
<1>6. file' \in M!Files /\ tmp' \in M!Files
  BY DEF Rename, SaveFails, TypeOK, M!Files
<1>7. TypeOK'
  BY <1>1, <1>4, <1>5, <1>6 DEF TypeOK
<1>8. ReqInv'
  BY <1>1, <1>3 DEF ReqInv
<1>9. LockInv'
  BY <1>2, <1>3 DEF LockInv
<1>10. HolderInv'
  BY <1>1, NobodyAssumption DEF HolderInv
<1> QED BY <1>7, <1>8, <1>9, <1>10

\* The steps of the process and the operator.
LEMMA WorldStep ==
  ASSUME MetaInv, Crash \/ Boot \/ BootBlind \/ OperatorEdits PROVE MetaInv'
<1> USE DEF MetaInv
<1>1. CASE Crash
  <2>1. \A r \in Requests : pc'[r] = "idle"
    BY <1>1 DEF Crash
  <2>2. TypeOK'
    BY <1>1, DecodedMaps DEF Crash, TypeOK, Request, NoRequest
  <2>3. HolderInv'
    BY <1>1, NobodyAssumption DEF Crash, HolderInv
  <2> QED BY <2>1, <2>2, <2>3 DEF ReqInv, LockInv
<1>2. CASE Boot \/ BootBlind
  <2>1. \A r \in Requests : pc'[r] = "idle"
    BY <1>2 DEF Boot, BootBlind, ReqInv
  <2>2. TypeOK'
    BY <1>2, DecodedMaps DEF Boot, BootBlind, TypeOK, InDoubt
  <2>3. HolderInv'
    BY <1>2 DEF Boot, BootBlind, HolderInv
  <2> QED BY <2>1, <2>2, <2>3 DEF ReqInv, LockInv
<1>3. CASE OperatorEdits
  <2>1. TypeOK'
    BY <1>3, InitialAssumption DEF OperatorEdits, TypeOK, InDoubt
  <2>2. ReqInv' /\ LockInv' /\ HolderInv'
    BY <1>3 DEF OperatorEdits, ReqInv, LockInv, HolderInv
  <2> QED BY <2>1, <2>2
<1> QED BY <1>1, <1>2, <1>3

\* Every step keeps the invariant.
LEMMA MetaStep == MetaInv /\ [Next]_vars => MetaInv'
<1> SUFFICES ASSUME MetaInv, [Next]_vars PROVE MetaInv'
  OBVIOUS
<1>1. CASE UNCHANGED vars
  BY <1>1 DEF vars, MetaInv, TypeOK, ReqInv, LockInv, HolderInv
<1> QED
  BY <1>1, BeginStep, ChangeStep, SaveStep, ReturnStep, WorldStep DEF Next, Serve

\* Types and lock hold in every state.
LEMMA MetaInvAlways == Spec => []MetaInv
  BY MetaInit, MetaStep, PTL DEF Spec

\* Every variable keeps its type.
THEOREM MetaTypeCorrect == Spec => []TypeOK
<1>1. MetaInv => TypeOK
  BY DEF MetaInv
<1> QED BY <1>1, MetaInvAlways, PTL

\* Store.mu is held by a request exactly while it saves: no error return of
\* saveTOML keeps it, and after a crash nobody has it.
LockedWhileSaving == \A r \in Requests : pc[r] \in {"open", "write", "rename"} <=> mu = r

THEOREM StoreLockIsReleased == Spec => []LockedWhileSaving
<1>1. MetaInv => LockedWhileSaving
  BY DEF MetaInv, LockInv, HolderInv, LockedWhileSaving
<1> QED BY <1>1, MetaInvAlways, PTL

-----------------------------------------------------------------------------
(* ToldIsKept *)

\* The map is changed in one field, which is in doubt until the answer.
LEMMA ToldChange == ASSUME MetaInv, ToldIsKept, NEW r \in Requests, Change(r) PROVE ToldIsKept'
<1> DEFINE q == req[r]
<1>1. q.name \in Names /\ q.field \in M!Settable /\ q.value \in Values \cup {None}
  BY DEF Change, MetaInv, TypeOK, ReqInv, Request
<1>2. /\ users' = M!WithField(users, q.name, q.field, q.value)
      /\ told' = [told EXCEPT ![q.name][q.field] = Bad]
      /\ file' = file /\ up' = up
  BY DEF Change
<1>3. SUFFICES ASSUME NEW n \in Names, NEW f \in M!Settable, told'[n][f] # Bad
      PROVE  /\ up => M!MetaOf(users', n)[f] = told'[n][f]
             /\ file # Bad /\ M!MetaOf(M!Decoded(file), n)[f] = told'[n][f]
  BY <1>2 DEF ToldIsKept
<1>4. <<n, f>> # <<q.name, q.field>> /\ told'[n][f] = told[n][f]
  BY <1>1, <1>2, <1>3 DEF MetaInv, TypeOK
<1>5. M!MetaOf(users', n)[f] = M!MetaOf(users, n)[f]
  BY <1>1, <1>2, <1>4, WithFieldChanges DEF MetaInv, TypeOK
<1> QED BY <1>3, <1>4, <1>5 DEF ToldIsKept

\* The file gets the map in memory, with the value that is answered.
LEMMA ToldRename == ASSUME MetaInv, ToldIsKept, NEW r \in Requests, Rename(r) PROVE ToldIsKept'
<1> DEFINE q == req[r]
<1>1. /\ up /\ q.name \in Names /\ q.field \in M!Settable
      /\ tmp = users /\ M!MetaOf(users, q.name)[q.field] = q.value
  BY DEF Rename, MetaInv, ReqInv, LockInv
<1>2. users \in M!Maps
  BY DEF MetaInv, TypeOK
<1>3. file' = users /\ users' = users /\ up' = up /\ told' = [told EXCEPT ![q.name][q.field] = q.value]
  BY <1>1 DEF Rename
<1>4. M!Decoded(users) = users /\ users # Bad
  BY <1>2, DecodedMaps
<1>5. ASSUME NEW n \in Names, NEW f \in M!Settable, told'[n][f] # Bad
      PROVE  M!MetaOf(users, n)[f] = told'[n][f]
  <2>1. CASE n = q.name /\ f = q.field
    BY <2>1, <1>1, <1>3 DEF MetaInv, TypeOK
  <2>2. CASE ~(n = q.name /\ f = q.field)
    <3>1. told'[n][f] = told[n][f]
      BY <2>2, <1>1, <1>3 DEF MetaInv, TypeOK
    <3> QED BY <3>1, <1>1, <1>5 DEF ToldIsKept
  <2> QED BY <2>1, <2>2
<1> QED BY <1>3, <1>4, <1>5 DEF ToldIsKept

\* Every step keeps what was told.
LEMMA ToldStep == MetaInv /\ ToldIsKept /\ [Next]_vars => ToldIsKept'
<1> SUFFICES ASSUME MetaInv, ToldIsKept, [Next]_vars PROVE ToldIsKept'
  OBVIOUS
<1>1. ASSUME NEW r \in Requests, Begin(r) \/ OpenTemp(r) \/ WriteTemp(r) \/ SaveFails(r) PROVE ToldIsKept'
  BY <1>1 DEF Begin, OpenTemp, WriteTemp, SaveFails, ToldIsKept
<1>2. CASE Crash
  BY <1>2 DEF Crash, ToldIsKept
<1>3. CASE Boot
  BY <1>3 DEF Boot, ToldIsKept
<1>4. CASE BootBlind \/ OperatorEdits
  <2>1. told' = InDoubt
    BY <1>4 DEF BootBlind, OperatorEdits
  <2> QED BY <2>1 DEF ToldIsKept, InDoubt
<1>5. CASE UNCHANGED vars
  BY <1>5 DEF vars, ToldIsKept
<1> QED BY <1>1, <1>2, <1>3, <1>4, <1>5, ToldChange, ToldRename DEF Next, Serve

\* What the last answer said of a field is what the store serves and what the file has.
THEOREM ToldIsAlwaysKept == Spec => []ToldIsKept
<1>1. Init => ToldIsKept
  BY DEF Init, ToldIsKept, InDoubt
<1> QED BY <1>1, ToldStep, MetaInvAlways, PTL DEF Spec

-----------------------------------------------------------------------------
(* The refinement *)

\* Every step of the store is a step of Metadata, or leaves its variables alone.
LEMMA MetadataStep ==
  MetaInv /\ [Next]_vars =>
    [M!Set \/ M!Save \/ M!Stop \/ M!Open \/ M!OpenBlind \/ M!Edit]_<<users, file, up, hand>>
<1> SUFFICES ASSUME MetaInv, [Next]_vars
             PROVE  \/ M!Set \/ M!Save \/ M!Stop \/ M!Open \/ M!OpenBlind \/ M!Edit
                    \/ UNCHANGED <<users, file, up, hand>>
  OBVIOUS
<1>1. ASSUME NEW r \in Requests, Begin(r) \/ OpenTemp(r) \/ WriteTemp(r) \/ SaveFails(r)
      PROVE  UNCHANGED <<users, file, up, hand>>
  BY <1>1 DEF Begin, OpenTemp, WriteTemp, SaveFails
<1>2. ASSUME NEW r \in Requests, Change(r) PROVE M!Set
  <2>1. up /\ req[r].name \in Names /\ req[r].field \in M!Settable /\ req[r].value \in Values \cup {None}
    BY <1>2 DEF Change, MetaInv, TypeOK, ReqInv, Request
  <2> QED BY <1>2, <2>1 DEF Change, M!Set
<1>3. ASSUME NEW r \in Requests, Rename(r) PROVE M!Save
  BY <1>3 DEF Rename, MetaInv, ReqInv, LockInv, M!Save
<1>4. CASE Crash
  BY <1>4 DEF Crash, M!Stop
<1>5. CASE Boot
  BY <1>5 DEF Boot, M!Open
<1>6. CASE BootBlind
  BY <1>6 DEF BootBlind, M!OpenBlind
<1>7. CASE OperatorEdits
  BY <1>7, InitialAssumption DEF OperatorEdits, M!Edit
<1>8. CASE UNCHANGED vars
  BY <1>8 DEF vars
<1> QED BY <1>1, <1>2, <1>3, <1>4, <1>5, <1>6, <1>7, <1>8 DEF Next, Serve

\* The store, with its lock, its temporary file and all it survives, implements Metadata.
THEOREM StoreKeepsMetadata == Spec => KeepsMetadata
<1>1. Init => M!Init
  BY InitialAssumption DEF Init, M!Init
<1> QED BY <1>1, MetadataStep, MetaInvAlways, PTL DEF Spec, KeepsMetadata, M!Spec
=============================================================================
