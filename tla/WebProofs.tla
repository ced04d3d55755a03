----------------------------- MODULE WebProofs ------------------------------
(***************************************************************************)
(* Theorems about what the web pages reach outside AccountService.         *)
(* ConfigReload: types, a finished reload leaves what a restart would      *)
(* give, and no mail goes to an empty host.  AccountPage: types, and a     *)
(* form is refused only for a cookie that changed.                         *)
(***************************************************************************)
EXTENDS ConfigReload, AccountPage, TLAPS

\* What config.toml and the environment say.
InFile == LoadFileConfig(file)
Base == Load(env)

\* Reload r has still to store word w of setting s.
Pending(r, s, w) ==
  \E i \in 1 .. Len(Order) :
    Order[i] = s /\ Applying(r) /\ (at[r] < i \/ (at[r] = i /\ w \in left[r]))

\* A reload stores only settings that a config.toml has given, and all others
\* are those of the environment.
GivenInv ==
  /\ \A r \in Reloads, s \in Settings : Applying(r) /\ Overrides(fc[r], s) => s \in given
  /\ \A s \in Settings \ given, w \in Words : cfg[s][w] = Base[s]

\* Unless stale, every reload under way applies the present file, and each word
\* the file gives is stored or about to be.
FreshInv ==
  ~stale =>
    /\ \A r \in Reloads : Applying(r) => fc[r] = InFile
    /\ \A s \in Settings, w \in Words :
         Overrides(InFile, s) =>
           cfg[s][w] = InFile[s] \/ \E r \in Reloads : Pending(r, s, w)

\* A mail request that found a host goes on to find one, and never loads an empty one.
HostInv ==
  \A m \in Mails :
    /\ pc[m] \in {"compose", "dial"} => cfg["SMTPHost"]["len"] # None
    /\ smtp[m]["len"] # None

ReloadInv == TypeOK /\ GivenInv /\ FreshInv /\ HostInv

-----------------------------------------------------------------------------
(* Settings and sources *)

\* Each place in the order is a setting, and there is one.
LEMMA OrderType ==
  /\ Len(Order) \in Nat \ {0} /\ "SMTPHost" \in Settings
  /\ \A i \in 1 .. Len(Order) : Order[i] \in Settings
<1>1. Len(Order) \in Nat /\ "SMTPHost" \in Settings
  BY OrderAssumption DEF OrderAssumption
<1> QED BY <1>1 DEF Settings

LEMMA FileType == ASSUME NEW f \in FileConfigs PROVE LoadFileConfig(f) \in [Settings -> Value]
  BY SourcesAssumption, ValuesAssumption DEF SourcesAssumption, LoadFileConfig, Value

LEMMA LoadType == ASSUME NEW e \in Envs PROVE Load(e) \in [Settings -> Value]
<1>1. e \in [Settings -> Value \cup {Bad}] /\ Default \in [Settings -> Value]
  BY SourcesAssumption DEF SourcesAssumption
<1> QED BY <1>1 DEF Load

\* What the sidecar starts with: the file's settings, and the environment's.
LEMMA StartedType ==
  ASSUME NEW e \in Envs, NEW f \in FileConfigs
  PROVE  /\ Started(e, f) \in [Settings -> String]
         /\ \A s \in Settings, w \in Words :
              Started(e, f)[s][w] =
                IF Overrides(LoadFileConfig(f), s) THEN LoadFileConfig(f)[s] ELSE Load(e)[s]
         /\ GivenBy(f) = {s \in Settings : Overrides(LoadFileConfig(f), s)}
  BY FileType, LoadType DEF Started, GivenBy, Overrides, String

-----------------------------------------------------------------------------
(* Initial states *)

LEMMA StartInv ==
  ASSUME env \in Envs, file \in FileConfigs, cfg = Started(env, file),
         given = GivenBy(file), stale = FALSE,
         pc = [m \in Mails |-> "idle"], at = [r \in Reloads |-> 0],
         smtp = [m \in Mails |-> Unread]
  PROVE  GivenInv /\ FreshInv /\ HostInv
<1>1. GivenInv
  BY StartedType DEF GivenInv, Applying, Base
<1>2. FreshInv
  BY StartedType DEF FreshInv, Applying, InFile
<1>3. HostInv
  BY ValuesAssumption DEF HostInv, Unread, Words, ValuesAssumption
<1> QED BY <1>1, <1>2, <1>3

LEMMA ReloadInit == Init => ReloadInv
<1> SUFFICES ASSUME Init PROVE ReloadInv
  OBVIOUS
<1>1. TypeOK
  <2>1. LoadFileConfig(None) \in [Settings -> Value]
    BY SourcesAssumption DEF SourcesAssumption, LoadFileConfig, Value
  <2>2. cfg \in [Settings -> String] /\ given \subseteq Settings
    BY StartedType DEF Init
  <2>3. 0 \in 0 .. Len(Order)
    BY OrderType
  <2> QED BY <2>1, <2>2, <2>3 DEF Init, TypeOK, Unread
<1> QED BY <1>1, StartInv DEF Init, ReloadInv

-----------------------------------------------------------------------------
(* Types *)

LEMMA ApplyType == ASSUME TypeOK, NEW r \in Reloads, ApplyFileConfig(r) PROVE TypeOK'
<1> DEFINE s == Order[at[r]]
<1>1. at[r] \in 1 .. Len(Order) /\ s \in Settings
  BY OrderType DEF TypeOK, ApplyFileConfig, Applying
<1>2. fc[r][s] \in Value /\ cfg \in [Settings -> [Words -> Value]] /\ left \in [Reloads -> SUBSET Words]
  BY <1>1 DEF TypeOK, String
<1>3. [w \in Words |-> fc[r][s]] \in [Words -> Value]
  BY <1>2
<1>4. ASSUME Advance(r) PROVE left' \in [Reloads -> SUBSET Words] /\ at' \in [Reloads -> 0 .. Len(Order)]
  <2>1. (IF at[r] = Len(Order) THEN 0 ELSE at[r] + 1) \in 0 .. Len(Order)
    BY <1>1, OrderType
  <2>2. at' \in [Reloads -> 0 .. Len(Order)]
    BY <1>4, <2>1 DEF Advance, TypeOK
  <2>3. Words \in SUBSET Words
    OBVIOUS
  <2>4. left' \in [Reloads -> SUBSET Words]
    BY <1>2, <1>4, <2>3 DEF Advance
  <2> QED BY <2>2, <2>4
<1>6. ASSUME cfg' = [cfg EXCEPT ![s] = [w \in Words |-> fc[r][s]]]
      PROVE  cfg' \in [Settings -> [Words -> Value]]
  BY <1>2, <1>3, <1>6
<1>7. ASSUME NEW w \in left[r], cfg' = [cfg EXCEPT ![s][w] = fc[r][s]] PROVE cfg' \in [Settings -> [Words -> Value]]
  <2>1. w \in Words
    BY <1>2
  <2> QED BY <1>1, <1>2, <1>7, <2>1
<1>8. ASSUME NEW w \in left[r], left' = [left EXCEPT ![r] = @ \ {w}], UNCHANGED at
      PROVE  left' \in [Reloads -> SUBSET Words] /\ at' \in [Reloads -> 0 .. Len(Order)]
  <2>1. left[r] \ {w} \in SUBSET Words
    BY <1>2
  <2> QED BY <1>2, <1>8, <2>1 DEF TypeOK
<1>9. /\ cfg' \in [Settings -> [Words -> Value]]
      /\ left' \in [Reloads -> SUBSET Words] /\ at' \in [Reloads -> 0 .. Len(Order)]
  BY <1>2, <1>4, <1>6, <1>7, <1>8 DEF ApplyFileConfig
<1> QED BY <1>9 DEF TypeOK, ApplyFileConfig, String

LEMMA TypeStep == TypeOK /\ [Next]_vars => TypeOK'
<1> SUFFICES ASSUME TypeOK, [Next]_vars PROVE TypeOK'
  OBVIOUS
<1>1. ASSUME NEW r \in Reloads, ReloadConfig(r) PROVE TypeOK'
  <2>1. LoadFileConfig(file) \in [Settings -> Value] /\ GivenBy(file) \subseteq Settings
    BY FileType, StartedType DEF TypeOK
  <2>2. 1 \in 0 .. Len(Order) /\ Words \in SUBSET Words
    BY OrderType
  <2> QED BY <1>1, <2>1, <2>2 DEF TypeOK, ReloadConfig
<1>2. ASSUME NEW m \in Mails, SendEmail(m) \/ Done(m) PROVE TypeOK'
  <2>1. Unread \in [Words -> Value \cup {Bad}]
    BY DEF Unread
  <2>2. smtp' \in [Mails -> [Words -> Value \cup {Bad}]]
    BY <1>2, <2>1 DEF TypeOK, SendEmail, Done
  <2>3. pc' \in [Mails -> {"idle", "disabled", "compose", "dial"}]
    BY <1>2 DEF TypeOK, SendEmail, Done, Goto
  <2> QED BY <1>2, <2>2, <2>3 DEF TypeOK, SendEmail, Done
<1>3. ASSUME NEW m \in Mails, sendEmail(m) PROVE TypeOK'
  <2>1. \A w \in Words : cfg["SMTPHost"][w] \in Value
    BY OrderType DEF TypeOK, String
  <2>2. PICK w \in Words : smtp' = [smtp EXCEPT ![m][w] = cfg["SMTPHost"][w]]
    BY <1>3 DEF sendEmail
  <2>3. smtp' \in [Mails -> [Words -> Value \cup {Bad}]]
    BY <2>1, <2>2 DEF TypeOK
  <2> QED BY <1>3, <2>3 DEF TypeOK, sendEmail, Goto
<1>4. CASE OperatorEdits
  BY <1>4 DEF TypeOK, OperatorEdits, locals
<1>5. CASE Restart
  <2>1. Started(env, file) \in [Settings -> String] /\ GivenBy(file) \subseteq Settings
    BY StartedType DEF TypeOK
  <2>2. 0 \in 0 .. Len(Order)
    BY OrderType
  <2> QED BY <1>5, <2>1, <2>2 DEF TypeOK, Restart, Boot, Unread
<1>6. CASE UNCHANGED vars
  BY <1>6 DEF TypeOK, vars, locals
<1> QED BY <1>1, <1>2, <1>3, <1>4, <1>5, <1>6, ApplyType DEF Next

-----------------------------------------------------------------------------
(* A reload starts *)

LEMMA ReloadStep ==
  ASSUME ReloadInv, NEW r \in Reloads, ReloadConfig(r)
  PROVE  GivenInv' /\ FreshInv' /\ HostInv'
<1>1. /\ fc' = [fc EXCEPT ![r] = InFile] /\ left' = [left EXCEPT ![r] = Words]
      /\ at' = [at EXCEPT ![r] = 1] /\ given' = given \cup GivenBy(file)
      /\ stale' = (\E q \in Reloads \ {r} : Applying(q) /\ fc[q] # InFile)
      /\ UNCHANGED <<env, file, cfg, pc, smtp>>
  BY DEF ReloadConfig, InFile
<1>2. InFile' = InFile /\ Base' = Base
  BY <1>1 DEF InFile, Base
<1>3. GivenBy(file) = {s \in Settings : Overrides(InFile, s)}
  BY StartedType DEF InFile, ReloadInv, TypeOK
<1>4. \A q \in Reloads \ {r} : at'[q] = at[q] /\ fc'[q] = fc[q] /\ left'[q] = left[q]
  BY <1>1 DEF ReloadInv, TypeOK
<1>5. at'[r] = 1 /\ fc'[r] = InFile /\ left'[r] = Words
  BY <1>1 DEF ReloadInv, TypeOK
<1>6. GivenInv'
  <2>1. ASSUME NEW q \in Reloads, NEW s \in Settings, at'[q] # 0, Overrides(fc'[q], s)
        PROVE  s \in given'
    BY <2>1, <1>1, <1>3, <1>4, <1>5 DEF ReloadInv, GivenInv, Applying
  <2> QED BY <2>1, <1>1, <1>2 DEF ReloadInv, GivenInv, Applying
<1>7. FreshInv'
  <2>1. \A s \in Settings, w \in Words : Pending(r, s, w)'
    <3> SUFFICES ASSUME NEW s \in Settings, NEW w \in Words PROVE Pending(r, s, w)'
      OBVIOUS
    <3>1. PICK i \in 1 .. Len(Order) : Order[i] = s
      BY DEF Settings
    <3>2. 1 < i \/ 1 = i
      BY OrderType
    <3> QED BY <1>5, <3>1, <3>2 DEF Pending, Applying
  <2>2. ASSUME ~stale', NEW q \in Reloads, at'[q] # 0 PROVE fc'[q] = InFile
    BY <2>2, <1>1, <1>4, <1>5 DEF Applying
  <2> QED BY <2>1, <2>2, <1>2 DEF FreshInv, Applying
<1>8. HostInv'
  BY <1>1 DEF ReloadInv, HostInv
<1> QED BY <1>6, <1>7, <1>8

-----------------------------------------------------------------------------
(* A reload stores *)

\* A store touches one setting, with what the reload has for it, and the words
\* the reload owed before it still owes or has stored.
LEMMA ApplyEffect ==
  ASSUME TypeOK, NEW r \in Reloads, ApplyFileConfig(r)
  PROVE  /\ Order[at[r]] \in Settings
         /\ \A s \in Settings, w \in Words :
              \/ cfg'[s][w] = cfg[s][w]
              \/ s = Order[at[r]] /\ Overrides(fc[r], s) /\ cfg'[s][w] = fc[r][s]
         /\ \A s \in Settings, w \in Words :
              Pending(r, s, w) /\ Overrides(fc[r], s) =>
                Pending(r, s, w)' \/ cfg'[s][w] = fc[r][s]
         /\ \A q \in Reloads \ {r} : at'[q] = at[q] /\ left'[q] = left[q]
         /\ UNCHANGED <<env, file, pc, fc, smtp, stale, given>>
<1> DEFINE n == at[r]
           o == Order[n]
<1>1. n \in 1 .. Len(Order) /\ o \in Settings /\ Len(Order) \in Nat
  BY OrderType DEF TypeOK, ApplyFileConfig, Applying
<1>2. UNCHANGED <<env, file, pc, fc, smtp, stale, given>>
  BY DEF ApplyFileConfig
<1>3. \A q \in Reloads \ {r} : at'[q] = at[q] /\ left'[q] = left[q]
  BY DEF ApplyFileConfig, Advance, TypeOK
<1>4. \A s \in Settings : cfg[s] \in [Words -> Value]
  BY DEF TypeOK, String
<1>a. Advance(r) => /\ left'[r] = Words
                    /\ at'[r] = IF n = Len(Order) THEN 0 ELSE n + 1
  BY DEF Advance, TypeOK
<1>b. ASSUME Advance(r), NEW s \in Settings \ {o}, NEW w \in Words, Pending(r, s, w)
      PROVE  Pending(r, s, w)'
  <2>1. PICK i \in 1 .. Len(Order) : Order[i] = s /\ (n < i \/ n = i)
    BY <1>b DEF Pending
  <2>2. n < i
    BY <2>1
  <2>3. at'[r] = n + 1
    BY <1>1, <1>a, <1>b, <2>2
  <2>4. n + 1 < i \/ n + 1 = i
    BY <1>1, <2>1, <2>2
  <2>5. n + 1 # 0
    BY <1>1
  <2> QED BY <1>a, <1>b, <2>1, <2>3, <2>4, <2>5 DEF Pending, Applying
<1>5. CASE ~Overrides(fc[r], o) /\ Advance(r) /\ UNCHANGED cfg
  BY <1>1, <1>2, <1>3, <1>5, <1>b
<1>6. CASE /\ Overrides(fc[r], o) /\ Advance(r)
           /\ cfg' = [cfg EXCEPT ![o] = [w \in Words |-> fc[r][o]]]
  <2>1. \A w \in Words : cfg'[o][w] = fc[r][o]
    BY <1>1, <1>6 DEF TypeOK
  <2>2. \A s \in Settings \ {o} : cfg'[s] = cfg[s]
    BY <1>6 DEF TypeOK
  <2> QED BY <1>1, <1>2, <1>3, <1>6, <1>b, <2>1, <2>2
<1>7. ASSUME NEW w \in left[r], Overrides(fc[r], o),
             cfg' = [cfg EXCEPT ![o][w] = fc[r][o]],
             IF left[r] = {w} THEN Advance(r)
             ELSE left' = [left EXCEPT ![r] = @ \ {w}] /\ UNCHANGED at
      PROVE  /\ \A s \in Settings, x \in Words :
                  \/ cfg'[s][x] = cfg[s][x]
                  \/ s = o /\ Overrides(fc[r], s) /\ cfg'[s][x] = fc[r][s]
             /\ \A s \in Settings, x \in Words :
                  Pending(r, s, x) => Pending(r, s, x)' \/ cfg'[s][x] = fc[r][s]
  <2>1. w \in Words /\ cfg'[o][w] = fc[r][o]
    BY <1>1, <1>4, <1>7 DEF TypeOK
  <2>2. \A s \in Settings, x \in Words : s # o \/ x # w => cfg'[s][x] = cfg[s][x]
    BY <1>1, <1>4, <1>7 DEF TypeOK
  <2>3. ASSUME NEW s \in Settings, NEW x \in Words, Pending(r, s, x), s # o \/ x # w
        PROVE  Pending(r, s, x)'
    <3>1. PICK i \in 1 .. Len(Order) : Order[i] = s /\ (n < i \/ (n = i /\ x \in left[r]))
      BY <2>3 DEF Pending
    <3>2. CASE n < i
      <4>1. s # o
        BY <1>1, <3>1, <3>2, OrderAssumption DEF OrderAssumption
      <4>2. CASE Advance(r)
        BY <4>1, <4>2, <1>b, <2>3
      <4>3. CASE ~Advance(r)
        BY <1>7, <1>1, <3>1, <3>2, <4>3 DEF Pending, Applying
      <4> QED BY <4>2, <4>3
    <3>3. CASE n = i /\ x \in left[r]
      <4>1. x \in left[r] \ {w} /\ left[r] # {w}
        BY <2>3, <3>1, <3>3
      <4>2. at'[r] = n /\ x \in left'[r]
        BY <1>7, <4>1 DEF TypeOK
      <4> QED BY <1>1, <3>1, <3>3, <4>2 DEF Pending, Applying
    <3> QED BY <3>1, <3>2, <3>3
  <2> QED BY <2>1, <2>2, <2>3, <1>7
<1> QED BY <1>1, <1>2, <1>3, <1>5, <1>6, <1>7 DEF ApplyFileConfig

LEMMA ApplyStep ==
  ASSUME ReloadInv, NEW r \in Reloads, ApplyFileConfig(r)
  PROVE  GivenInv' /\ FreshInv' /\ HostInv'
<1> DEFINE o == Order[at[r]]
<1>0. TypeOK /\ Applying(r)
  BY DEF ReloadInv, ApplyFileConfig
<1>1. UNCHANGED <<env, file, pc, fc, smtp, stale, given>> /\ o \in Settings
  BY <1>0, ApplyEffect
<1>2. InFile' = InFile /\ Base' = Base
  BY <1>1 DEF InFile, Base
<1>3. \A s \in Settings, w \in Words :
        \/ cfg'[s][w] = cfg[s][w]
        \/ s = o /\ Overrides(fc[r], s) /\ cfg'[s][w] = fc[r][s]
  BY <1>0, ApplyEffect
<1>4. \A q \in Reloads \ {r} : at'[q] = at[q] /\ left'[q] = left[q]
  BY <1>0, ApplyEffect
<1>5. \A q \in Reloads : Applying(q)' => Applying(q)
  BY <1>0, <1>4 DEF Applying
<1>6. GivenInv'
  <2>1. \A s \in Settings : Overrides(fc[r], s) => s \in given
    BY <1>0 DEF ReloadInv, GivenInv
  <2>2. \A s \in Settings \ given, w \in Words : cfg'[s][w] = Base[s]
    BY <1>3, <2>1 DEF ReloadInv, GivenInv
  <2> QED BY <1>1, <1>2, <1>5, <2>2 DEF ReloadInv, GivenInv
<1>7. FreshInv'
  <2> SUFFICES ASSUME ~stale
               PROVE  /\ \A q \in Reloads : Applying(q)' => fc[q] = InFile
                      /\ \A s \in Settings, w \in Words :
                           Overrides(InFile, s) =>
                             cfg'[s][w] = InFile[s] \/ \E q \in Reloads : Pending(q, s, w)'
    BY <1>1, <1>2 DEF FreshInv
  <2>1. \A q \in Reloads : Applying(q) => fc[q] = InFile
    BY DEF ReloadInv, FreshInv
  <2>2. ASSUME NEW s \in Settings, NEW w \in Words, Overrides(InFile, s)
        PROVE  cfg'[s][w] = InFile[s] \/ \E q \in Reloads : Pending(q, s, w)'
    <3>1. CASE cfg[s][w] = InFile[s]
      BY <1>0, <1>3, <2>1, <3>1
    <3>2. ASSUME NEW q \in Reloads, Pending(q, s, w), q # r PROVE Pending(q, s, w)'
      BY <3>2, <1>4 DEF Pending, Applying
    <3>3. Pending(r, s, w) => Pending(r, s, w)' \/ cfg'[s][w] = InFile[s]
      BY <1>0, <2>1, <2>2, ApplyEffect
    <3> QED BY <3>1, <3>2, <3>3, <2>2 DEF ReloadInv, FreshInv
  <2> QED BY <1>5, <2>1, <2>2
<1>8. HostInv'
  <2>1. "SMTPHost" \in Settings /\ "len" \in Words
    BY OrderType DEF Words
  <2> QED BY <1>1, <1>3, <2>1 DEF ReloadInv, HostInv, Overrides
<1> QED BY <1>6, <1>7, <1>8

-----------------------------------------------------------------------------
(* Mails, the operator, restarts *)

\* A step that leaves the configuration, its sources and the reloads alone.
LEMMA Untouched ==
  ASSUME GivenInv, FreshInv, UNCHANGED <<env, file, cfg, at, fc, left, stale, given>>
  PROVE  GivenInv' /\ FreshInv'
  BY DEF GivenInv, FreshInv, Pending, Applying, InFile, Base

LEMMA MailStep ==
  ASSUME ReloadInv, NEW m \in Mails, SendEmail(m) \/ sendEmail(m) \/ Done(m)
  PROVE  GivenInv' /\ FreshInv' /\ HostInv'
<1>1. UNCHANGED <<env, file, cfg, at, fc, left, stale, given>>
  BY DEF SendEmail, sendEmail, Done
<1>2. \A n \in Mails \ {m} : pc'[n] = pc[n] /\ smtp'[n] = smtp[n]
  BY DEF SendEmail, sendEmail, Done, Goto, ReloadInv, TypeOK
<1>3. /\ pc'[m] \in {"compose", "dial"} => cfg["SMTPHost"]["len"] # None
      /\ smtp'[m]["len"] # None
  <2>1. CASE SendEmail(m)
    BY <2>1 DEF SendEmail, Goto, ReloadInv, TypeOK, HostInv
  <2>2. CASE sendEmail(m)
    BY <2>2 DEF sendEmail, Goto, ReloadInv, TypeOK, HostInv, Words
  <2>3. CASE Done(m)
    BY <2>3, ValuesAssumption DEF Done, Goto, ReloadInv, TypeOK, Unread, Words, ValuesAssumption
  <2> QED BY <2>1, <2>2, <2>3
<1>4. HostInv'
  BY <1>1, <1>2, <1>3 DEF ReloadInv, HostInv
<1> QED BY <1>1, <1>4, Untouched DEF ReloadInv

LEMMA ReloadInvStep == ReloadInv /\ [Next]_vars => ReloadInv'
<1> SUFFICES ASSUME ReloadInv, [Next]_vars PROVE ReloadInv'
  OBVIOUS
<1>0. TypeOK'
  BY TypeStep DEF ReloadInv
<1>1. CASE OperatorEdits
  BY <1>0, <1>1 DEF ReloadInv, OperatorEdits, GivenInv, FreshInv, HostInv, locals, Applying, Base
<1>2. CASE Restart
  <2>1. /\ env \in Envs /\ file \in FileConfigs /\ UNCHANGED <<env, file>>
        /\ cfg' = Started(env, file) /\ given' = GivenBy(file) /\ stale' = FALSE
        /\ pc' = [m \in Mails |-> "idle"] /\ at' = [r \in Reloads |-> 0]
        /\ smtp' = [m \in Mails |-> Unread]
    BY <1>2 DEF Restart, Boot, ReloadInv, TypeOK
  <2>2. InFile' = InFile /\ Base' = Base
    BY <2>1 DEF InFile, Base
  <2>3. GivenInv'
    BY <2>1, <2>2, StartedType DEF GivenInv, Applying, Base
  <2>4. FreshInv'
    BY <2>1, <2>2, StartedType DEF FreshInv, Applying, InFile
  <2>5. HostInv'
    BY <2>1, ValuesAssumption DEF HostInv, Unread, Words, ValuesAssumption
  <2> QED BY <1>0, <2>3, <2>4, <2>5 DEF ReloadInv
<1>3. CASE UNCHANGED vars
  BY <1>0, <1>3, Untouched DEF vars, locals, ReloadInv, HostInv
<1> QED BY <1>0, <1>1, <1>2, <1>3, ReloadStep, ApplyStep, MailStep DEF Next, ReloadInv

-----------------------------------------------------------------------------
(* The theorems *)

LEMMA ReloadInvAlways == Spec => []ReloadInv
  BY ReloadInit, ReloadInvStep, PTL DEF Spec

\* Every variable keeps its type.
THEOREM ReloadTypeCorrect == Spec => []TypeOK
<1>1. ReloadInv => TypeOK
  BY DEF ReloadInv
<1> QED BY <1>1, ReloadInvAlways, PTL

\* However many reloads run side by side over however many settings, the last
\* config.toml that was reloaded is what the sidecar runs with.
THEOREM RunningIsAlwaysRestarted == Spec => []RunningIsRestarted
<1>1. ReloadInv => RunningIsRestarted
  <2> SUFFICES ASSUME ReloadInv, \A r \in Reloads : ~Applying(r), ~stale,
                      NEW s \in GivenBy(file) \cup (Settings \ given)
               PROVE  cfg[s] = Started(env, file)[s]
    BY DEF RunningIsRestarted
  <2>1. env \in Envs /\ file \in FileConfigs
    BY DEF ReloadInv, TypeOK
  <2>2. s \in Settings
    BY <2>1, StartedType
  <2>3. cfg[s] \in [Words -> Value] /\ Started(env, file)[s] \in [Words -> Value]
    BY <2>1, <2>2, StartedType DEF ReloadInv, TypeOK, String
  <2>4. ASSUME NEW w \in Words, Overrides(InFile, s) PROVE cfg[s][w] = InFile[s]
    BY <2>2, <2>4 DEF ReloadInv, FreshInv, Pending
  <2>5. ASSUME NEW w \in Words, ~Overrides(InFile, s) PROVE cfg[s][w] = Base[s]
    BY <2>1, <2>2, <2>5, StartedType DEF ReloadInv, GivenInv, InFile
  <2>6. \A w \in Words : cfg[s][w] = Started(env, file)[s][w]
    BY <2>1, <2>2, <2>4, <2>5, StartedType DEF InFile, Base
  <2> QED BY <2>3, <2>6
<1> QED BY <1>1, ReloadInvAlways, PTL

\* A mail always has a host, although reloads store while it is composed.
THEOREM MailAlwaysHasAServer == Spec => []MailHasAServer
<1>1. ReloadInv => MailHasAServer
  BY DEF ReloadInv, HostInv, MailHasAServer
<1> QED BY <1>1, ReloadInvAlways, PTL

-----------------------------------------------------------------------------
(* The account page *)

\* A header is a copy of the cookie, and so is what is sent, unless the cookie changed.
CopyInv ==
  \A s \in Slots :
    /\ slot[s].stage = "intercepted" => slot[s].header = jar \/ s \in moved
    /\ slot[s].stage = "sent" =>
         slot[s].cookie = slot[s].header \/ slot[s].cookie = Nil \/ s \in moved

PageInv == PageTypeOK /\ CopyInv /\ FormRefusedForCause

\* A request, which has an answer when it has been dealt with.
SlotType ==
  [kind : Kinds \cup {Nil}, header : Tokens \cup {Nil}, cookie : Tokens \cup {Nil},
   stage : {"free", "intercepted", "sent", "session", "handler", "waiting", "served"},
   set : Tokens \cup {Nil}, answer : Answers \cup {Nil}]
Answered == {q \in SlotType : q.answer # Nil <=> q.stage = "served"}

LEMMA PageTypes ==
  PageTypeOK <=>
    /\ slot \in [Slots -> Answered]
    /\ admin \in BOOLEAN /\ jar \in Tokens \cup {Nil}
    /\ tinyauth \in {"up", "starting", "stopped"} /\ session \in BOOLEAN
    /\ restarting \in BOOLEAN /\ changing \in BOOLEAN
    /\ moved \subseteq Slots /\ faults \in 0 .. MaxFaults
<1>1. slot \in [Slots -> Answered] <=>
        /\ slot \in [Slots -> SlotType]
        /\ \A s \in Slots : slot[s].answer # Nil <=> slot[s].stage = "served"
  <2> HIDE DEF SlotType
  <2> QED BY DEF Answered
<1> QED BY <1>1 DEF PageTypeOK, SlotType

LEMMA FreeType == Free \in Answered
  BY PageAssumption DEF Answered, SlotType, Free, Answers

LEMMA PageStarts == PageInit => PageInv
<1> SUFFICES ASSUME PageInit PROVE PageInv
  OBVIOUS
<1>1. (CHOOSE k \in Tokens : TRUE) \in Tokens
  BY PageAssumption
<1>2. slot \in [Slots -> Answered]
  BY FreeType DEF PageInit
<1>3. jar \in Tokens \cup {Nil}
  BY <1>1 DEF PageInit
<1>4. 0 \in 0 .. MaxFaults
  BY PageAssumption
<1>5. PageTypeOK
  BY <1>2, <1>3, <1>4, PageTypes DEF PageInit
<1>6. CopyInv /\ FormRefusedForCause
  BY PageAssumption DEF CopyInv, PageInit, Free, FormRefusedForCause, Answers
<1> QED BY <1>5, <1>6 DEF PageInv

\* What a request becomes in each step, typed, with what the invariant needs of it.
SlotOK(s, q) ==
  /\ q \in Answered
  /\ q.stage = "intercepted" => q.header = jar
  /\ q.stage = "sent" => q.cookie = q.header \/ q.cookie = Nil \/ s \in moved
  /\ q.answer = "refused" => q.cookie = Nil \/ s \in moved
Moves(s) == \E q : SlotOK(s, q) /\ slot' = [slot EXCEPT ![s] = q]

LEMMA CallMoves ==
  ASSUME PageInv, NEW s \in Slots, NEW kind \in Kinds, Call(s, kind)
  PROVE  Moves(s)
<1> DEFINE q == [Free EXCEPT !.kind = kind, !.stage = "intercepted", !.header = jar]
<1>1. jar \in Tokens \cup {Nil}
  BY DEF PageInv, PageTypeOK
<1>2. SlotOK(s, q)
  BY <1>1, PageAssumption DEF SlotOK, Answered, SlotType, Free, Answers
<1> QED BY <1>2 DEF Moves, Call, Becomes

LEMMA SendMoves ==
  ASSUME PageInv, NEW s \in Slots, Send(s)
  PROVE  Moves(s)
<1> DEFINE q == [slot[s] EXCEPT !.stage = "sent", !.cookie = jar]
<1>1. slot[s] \in Answered /\ slot[s].stage = "intercepted" /\ jar \in Tokens \cup {Nil}
  BY PageTypes DEF PageInv, Send, At
<1>2. slot[s].header = jar \/ s \in moved
  BY <1>1 DEF PageInv, CopyInv
<1>3. SlotOK(s, q)
  BY <1>1, <1>2, PageAssumption DEF SlotOK, Answered, SlotType, Answers
<1> QED BY <1>3 DEF Moves, Send, Becomes

\* Only a form with a cookie other than its header is refused, or one without a cookie.
LEMMA MiddlewareMoves ==
  ASSUME PageInv, NEW s \in Slots, CSRFMiddleware(s)
  PROVE  Moves(s)
<1> DEFINE p == slot[s]
           Passed(k) == [Free EXCEPT !.kind = p.kind, !.stage = "session", !.set = k]
<1>1. p \in Answered /\ p.stage = "sent"
  BY PageTypes DEF PageInv, CSRFMiddleware, At
<1>2. p.cookie = p.header \/ p.cookie = Nil \/ s \in moved
  BY <1>1 DEF PageInv, CopyInv
<1>3. ASSUME NEW k \in Tokens \cup {Nil} PROVE SlotOK(s, Passed(k))
  BY <1>1, PageAssumption DEF SlotOK, Answered, SlotType, Free, Answers
<1>4. ASSUME p.header # p.cookie PROVE SlotOK(s, [p EXCEPT !.stage = "served", !.answer = "refused"])
  BY <1>1, <1>2, <1>4, PageAssumption DEF SlotOK, Answered, SlotType, Answers
<1>5. ASSUME p.cookie = Nil, NEW k \in Tokens
      PROVE  SlotOK(s, [p EXCEPT !.stage = "served", !.answer = "refused", !.set = k])
  BY <1>1, <1>5, PageAssumption DEF SlotOK, Answered, SlotType, Answers
<1>6. \/ \E k \in Tokens \cup {Nil} : slot' = [slot EXCEPT ![s] = Passed(k)]
      \/ /\ p.header # p.cookie
         /\ slot' = [slot EXCEPT ![s] = [p EXCEPT !.stage = "served", !.answer = "refused"]]
      \/ /\ p.cookie = Nil
         /\ \E k \in Tokens :
              slot' = [slot EXCEPT ![s] = [p EXCEPT !.stage = "served", !.answer = "refused", !.set = k]]
  BY DEF CSRFMiddleware, Answer, Becomes, Kept
<1> QED BY <1>3, <1>4, <1>5, <1>6 DEF Moves

\* The steps behind the middleware answer something else than a refusal, or go on.
LEMMA ServedMoves ==
  ASSUME PageInv, NEW s \in Slots,
         \/ SessionMiddleware(s) \/ TinyauthHealth(s) \/ Handle(s)
         \/ Restarted(s) \/ Lose(s)
  PROVE  Moves(s)
<1> DEFINE p == slot[s]
<1>1. p \in Answered /\ p.stage # "served"
  BY PageTypes DEF PageInv, SessionMiddleware, TinyauthHealth, Handle,
     Restarted, Lose, At
<1>2. ASSUME NEW a \in {"ok", "running", "error"}
      PROVE  SlotOK(s, [p EXCEPT !.stage = "served", !.answer = a])
  BY <1>1, PageAssumption DEF SlotOK, Answered, SlotType, Answers
<1>3. SlotOK(s, [p EXCEPT !.stage = "served", !.answer = "error", !.set = Nil])
  BY <1>1, PageAssumption DEF SlotOK, Answered, SlotType, Answers
<1>4. ASSUME NEW g \in {"handler", "waiting"} PROVE SlotOK(s, [p EXCEPT !.stage = g])
  BY <1>1, PageAssumption DEF SlotOK, Answered, SlotType, Answers
<1>5. \/ \E a \in {"ok", "running", "error"} :
           slot' = [slot EXCEPT ![s] = [p EXCEPT !.stage = "served", !.answer = a]]
      \/ slot' = [slot EXCEPT ![s] = [p EXCEPT !.stage = "served", !.answer = "error", !.set = Nil]]
      \/ \E g \in {"handler", "waiting"} : slot' = [slot EXCEPT ![s] = [p EXCEPT !.stage = g]]
  BY DEF SessionMiddleware, TinyauthHealth, Handle, Restarted, Lose,
     Answer, ToStage, Becomes
<1> QED BY <1>2, <1>3, <1>4, <1>5 DEF Moves

\* A request that moves while the cookie stays keeps the invariant.
LEMMA MoveStep ==
  ASSUME PageInv, NEW s \in Slots, Moves(s), UNCHANGED <<jar, moved>>
  PROVE  slot' \in [Slots -> Answered] /\ CopyInv' /\ FormRefusedForCause'
<1>1. PICK q : SlotOK(s, q) /\ slot' = [slot EXCEPT ![s] = q]
  BY DEF Moves
<1>2. slot \in [Slots -> Answered]
  BY PageTypes DEF PageInv
<1>3. slot' \in [Slots -> Answered]
  BY <1>1, <1>2 DEF SlotOK
<1>4. slot'[s] = q /\ \A t \in Slots \ {s} : slot'[t] = slot[t]
  BY <1>1, <1>2
<1>5. CopyInv'
  BY <1>1, <1>4 DEF PageInv, CopyInv, SlotOK
<1>6. FormRefusedForCause'
  BY <1>1, <1>4 DEF PageInv, FormRefusedForCause, SlotOK
<1> QED BY <1>3, <1>5, <1>6

\* An answer frees its slot and may change the cookie, which moves those that
\* have copied it already.
LEMMA ReceivedStep ==
  ASSUME PageInv, NEW s \in Slots, Received(s)
  PROVE  /\ slot' \in [Slots -> Answered] /\ CopyInv' /\ FormRefusedForCause'
         /\ jar' \in Tokens \cup {Nil} /\ moved' \subseteq Slots
<1>1. slot \in [Slots -> Answered] /\ jar \in Tokens \cup {Nil} /\ moved \subseteq Slots
  BY PageTypes DEF PageInv
<1>2. slot' = [slot EXCEPT ![s] = Free]
  BY DEF Received, Becomes
<1>3. slot' \in [Slots -> Answered]
  BY <1>1, <1>2, FreeType
<1>4. slot'[s] = Free /\ \A t \in Slots \ {s} : slot'[t] = slot[t]
  BY <1>1, <1>2
<1>5. slot[s].set \in Tokens \cup {Nil}
  BY <1>1 DEF Answered, SlotType
<1>6. jar' \in Tokens \cup {Nil} /\ moved' \subseteq Slots
  BY <1>1, <1>5 DEF Received
<1>7. \A t \in Slots \ {s} :
        /\ t \in moved => t \in moved'
        /\ slot[t].stage = "intercepted" => jar' = jar \/ t \in moved'
  BY DEF Received, At
<1>8. Free.stage = "free" /\ Free.answer # "refused"
  BY PageAssumption DEF Free, Answers
<1>9. CopyInv'
  BY <1>4, <1>7, <1>8 DEF PageInv, CopyInv
<1>10. FormRefusedForCause'
  BY <1>4, <1>7, <1>8 DEF PageInv, FormRefusedForCause
<1> QED BY <1>3, <1>6, <1>9, <1>10

LEMMA PageStep == PageInv /\ [PageNext]_pageVars => PageInv'
<1> SUFFICES ASSUME PageInv, [PageNext]_pageVars PROVE PageInv'
  OBVIOUS
<1>0. /\ slot \in [Slots -> Answered]
      /\ admin \in BOOLEAN /\ jar \in Tokens \cup {Nil}
      /\ tinyauth \in {"up", "starting", "stopped"} /\ session \in BOOLEAN
      /\ restarting \in BOOLEAN /\ changing \in BOOLEAN
      /\ moved \subseteq Slots /\ faults \in 0 .. MaxFaults /\ MaxFaults \in Nat
  BY PageTypes, PageAssumption DEF PageInv
<1>1. ASSUME slot' \in [Slots -> Answered], CopyInv', FormRefusedForCause',
             jar' \in Tokens \cup {Nil}, moved' \subseteq Slots,
             admin' \in BOOLEAN, tinyauth' \in {"up", "starting", "stopped"}, session' \in BOOLEAN,
             restarting' \in BOOLEAN, changing' \in BOOLEAN, faults' \in 0 .. MaxFaults
      PROVE  PageInv'
  <2>1. /\ slot' \in [Slots -> SlotType]
        /\ \A s \in Slots : slot'[s].answer # Nil <=> slot'[s].stage = "served"
    BY <1>1 DEF Answered
  <2>2. PageTypeOK'
    BY <1>1, <2>1 DEF PageTypeOK, SlotType
  <2> QED BY <1>1, <2>2 DEF PageInv
<1>2. ASSUME NEW s \in Slots,
             ClickChange(s) \/ ClickRestarting(s) \/ Poll(s)
      PROVE  PageInv'
  <2>1. PICK kind \in Kinds : Call(s, kind)
    BY <1>2 DEF ClickChange, ClickRestarting, Poll, Kinds, Posts
  <2>2. Moves(s) /\ UNCHANGED <<admin, jar, tinyauth, session, moved, faults>>
    BY <2>1, CallMoves DEF Call
  <2>3. restarting' \in BOOLEAN /\ changing' \in BOOLEAN
    BY <1>0, <1>2 DEF ClickChange, ClickRestarting, Poll, page
  <2> QED BY <1>0, <1>1, <2>2, <2>3, MoveStep
<1>3. ASSUME NEW s \in Slots, Send(s) \/ Serve(s) \/ Lose(s) PROVE PageInv'
  <2>1. Moves(s)
    BY <1>3, SendMoves, MiddlewareMoves, ServedMoves DEF Serve
  <2>2. UNCHANGED <<admin, jar, session, moved, restarting, changing>>
    BY <1>3 DEF Send, Serve, Lose, CSRFMiddleware, SessionMiddleware,
       TinyauthHealth, Handle, Restarted, page
  <2>3. tinyauth' \in {"up", "starting", "stopped"}
    BY <1>0, <1>3 DEF Send, Serve, Lose, CSRFMiddleware, SessionMiddleware,
       TinyauthHealth, Handle, Restarted
  <2>4. faults' = faults \/ (faults < MaxFaults /\ faults' = faults + 1)
    BY <1>3 DEF Send, Serve, Lose, CSRFMiddleware, SessionMiddleware,
       TinyauthHealth, Handle, Restarted, Fault
  <2> QED BY <1>0, <1>1, <2>1, <2>2, <2>3, <2>4, MoveStep
<1>4. ASSUME NEW s \in Slots, DoneChange(s) \/ DoneRestart(s) \/ DonePoll(s)
      PROVE  PageInv'
  <2>1. Received(s)
    BY <1>4 DEF DoneChange, DoneRestart, DonePoll
  <2>2. restarting' \in BOOLEAN /\ changing' \in BOOLEAN
    BY <1>0, <1>4 DEF DoneChange, DoneRestart, DonePoll
  <2>3. UNCHANGED <<admin, tinyauth, session, faults>>
    BY <2>1 DEF Received
  <2> QED BY <1>0, <1>1, <2>1, <2>2, <2>3, ReceivedStep
<1>5. CASE JarChanges
  <2>1. /\ UNCHANGED <<admin, slot, tinyauth, session, restarting, changing>>
        /\ jar' \in Tokens \cup {Nil}
        /\ moved' = moved \cup {s \in Slots : slot[s].stage = "intercepted"}
        /\ faults < MaxFaults /\ faults' = faults + 1
    BY <1>5 DEF JarChanges, Fault, page, At
  <2>2. CopyInv' /\ FormRefusedForCause'
    BY <2>1 DEF PageInv, CopyInv, FormRefusedForCause
  <2> QED BY <1>0, <1>1, <2>1, <2>2
<1>6. CASE SessionEnds \/ SessionReturns \/ TinyauthStops \/ TinyauthStarts
  <2>1. UNCHANGED <<admin, jar, slot, restarting, changing, moved>>
    BY <1>6 DEF SessionEnds, SessionReturns, TinyauthStops, TinyauthStarts, page
  <2>2. tinyauth' \in {"up", "starting", "stopped"} /\ faults' \in 0 .. MaxFaults
    BY <1>0, <1>6 DEF SessionEnds, SessionReturns, TinyauthStops, TinyauthStarts, Fault
  <2>3. session' \in BOOLEAN
    BY <1>0, <1>6, Zenon DEF SessionEnds, SessionReturns, TinyauthStops, TinyauthStarts
  <2>4. CopyInv' /\ FormRefusedForCause'
    BY <2>1 DEF PageInv, CopyInv, FormRefusedForCause
  <2> QED BY <1>0, <1>1, <2>1, <2>2, <2>3, <2>4
<1>7. CASE UNCHANGED pageVars
  <2>1. UNCHANGED <<admin, jar, slot, tinyauth, session, restarting, changing, moved, faults>>
    BY <1>7 DEF pageVars, page
  <2>2. CopyInv' /\ FormRefusedForCause'
    BY <2>1 DEF PageInv, CopyInv, FormRefusedForCause
  <2> QED BY <1>0, <1>1, <2>1, <2>2
<1> QED BY <1>2, <1>3, <1>4, <1>5, <1>6, <1>7 DEF PageNext

LEMMA PageInvAlways == PageSpec => []PageInv
<1>1. PageInit => PageInv
  BY PageStarts
<1>2. PageInv /\ [PageNext]_pageVars => PageInv'
  BY PageStep
<1> QED BY <1>1, <1>2, PTL DEF PageSpec

\* Every variable of the page keeps its type, and only requests that have been
\* dealt with have answers.
THEOREM PageTypeCorrect == PageSpec => []PageTypeOK
<1>1. PageInv => PageTypeOK
  BY DEF PageInv
<1> QED BY <1>1, PageInvAlways, PTL

\* With any number of requests and answers under way, a form is refused only for
\* a missing cookie or one that changed under it.
THEOREM RefusalsAlwaysHaveACause == PageSpec => []FormRefusedForCause
<1>1. PageInv => FormRefusedForCause
  BY DEF PageInv
<1> QED BY <1>1, PageInvAlways, PTL
=============================================================================
