---------------------------- MODULE ConfigReload ----------------------------
(***************************************************************************)
(* The configuration (config/config.go): environment and config.toml make  *)
(* one Config at the start; administrators apply an edited file to the     *)
(* same Config while requests read it, without a lock.                     *)
(*                                                                         *)
(* A string is two words, its pointer and its length, stored and loaded    *)
(* one after the other.  A word is named by the value it belongs to, None  *)
(* is the empty string or zero.                                            *)
(***************************************************************************)
EXTENDS Integers, Sequences

CONSTANTS
  Order,       \* settings in the order ApplyFileConfig has them
  Strings,     \* those that are strings; "SMTPHost" is one
  Values,      \* what a setting may be
  None,        \* not set
  Bad,         \* no number in the environment, no TOML in the file; not read yet
  Default,     \* the fallbacks of getEnv, getEnvInt
  Envs,        \* environments
  FileConfigs, \* what config.toml may say, None when there is no file
  Reloads,     \* reload requests of administrators
  Mails        \* requests that send a mail

Settings == {Order[i] : i \in 1 .. Len(Order)}
Value == Values \cup {None}
Words == {"ptr", "len"}
String == [Words -> Value]

ASSUME OrderAssumption ==
  /\ Order \in Seq(Settings) /\ Strings \subseteq Settings /\ "SMTPHost" \in Strings
  /\ \A i, j \in 1 .. Len(Order) : Order[i] = Order[j] => i = j
ASSUME ValuesAssumption == Values \cap {None, Bad} = {} /\ None # Bad
ASSUME SourcesAssumption ==
  /\ Default \in [Settings -> Value]
  /\ Envs \subseteq [Settings -> Value \cup {Bad}]
  /\ FileConfigs \subseteq [Settings -> Value] \cup {None, Bad}
  /\ None \notin [Settings -> Value] /\ Bad \notin [Settings -> Value]

VARIABLES
  env,     \* the environment of the process
  file,    \* config.toml
  cfg,     \* the Config all services share
  pc,      \* where each mail request stands
  at,      \* the setting each reload applies next, 0 when there is none
  fc,      \* the FileConfig of a reload
  left,    \* the words of its present setting it has not stored
  smtp,    \* the words of SMTPHost a mail request has loaded
  stale,   \* a reload under way, or the Config, has an older config.toml
  given    \* the settings a config.toml has given since the start

locals == <<pc, at, fc, left, smtp>>
vars == <<env, file, cfg, locals, stale, given>>

\* Mutant of Load: no fallback for what is no number.
Load_NoFallback(e) == [s \in Settings |-> IF e[s] = None THEN Default[s] ELSE e[s]]

\* getEnv, getEnvInt, getEnvInt64: the default for what is missing or no number.
Load(e) == [s \in Settings |-> IF e[s] \in {None, Bad} THEN Default[s] ELSE e[s]]

\* No file, or one that does not parse, is an empty FileConfig.
LoadFileConfig(f) == IF f \in {None, Bad} THEN [s \in Settings |-> None] ELSE f

\* Mutant of Overrides: an empty value overrides too.
Overrides_Always(f, s) == TRUE

\* Only non-zero values override.
Overrides(f, s) == f[s] # None

\* What main starts with.
Started(e, f) ==
  [s \in Settings |-> [w \in Words |->
     IF Overrides(LoadFileConfig(f), s) THEN LoadFileConfig(f)[s] ELSE Load(e)[s]]]
GivenBy(f) == {s \in Settings : LoadFileConfig(f)[s] # None}

Unread == [w \in Words |-> Bad]
Applying(r) == at[r] # 0

Boot(f) ==
  /\ cfg' = Started(env, f)
  /\ given' = GivenBy(f) /\ stale' = FALSE

Init ==
  /\ env \in Envs /\ file \in FileConfigs
  /\ cfg = Started(env, file) /\ given = GivenBy(file) /\ stale = FALSE
  /\ pc = [m \in Mails |-> "idle"]
  /\ at = [r \in Reloads |-> 0]
  /\ fc = [r \in Reloads |-> LoadFileConfig(None)]
  /\ left = [r \in Reloads |-> {}]
  /\ smtp = [m \in Mails |-> Unread]

-----------------------------------------------------------------------------
(* ReloadConfig *)

\* LoadFileConfig.  A broken file is logged, and the answer is ok all the same.
ReloadConfig(r) ==
  /\ at[r] = 0
  /\ fc' = [fc EXCEPT ![r] = LoadFileConfig(file)]
  /\ left' = [left EXCEPT ![r] = Words]
  /\ at' = [at EXCEPT ![r] = 1]
  /\ given' = given \cup GivenBy(file)
  /\ stale' = (\E q \in Reloads \ {r} : Applying(q) /\ fc[q] # LoadFileConfig(file))
  /\ UNCHANGED <<env, file, cfg, pc, smtp>>

Advance(r) ==
  /\ left' = [left EXCEPT ![r] = Words]
  /\ at' = [at EXCEPT ![r] = IF @ = Len(Order) THEN 0 ELSE @ + 1]

\* Mutant of ApplyFileConfig: a setting that has a value keeps it.
ApplyFileConfig_KeepsSet(r) ==
  /\ Applying(r)
  /\ LET s == Order[at[r]]
     IN cfg' = IF cfg[s].len = None THEN [cfg EXCEPT ![s] = [w \in Words |-> fc[r][s]]] ELSE cfg
  /\ Advance(r)
  /\ UNCHANGED <<env, file, pc, fc, smtp, stale, given>>

\* One setting, a string word by word; after the last the client is answered.
ApplyFileConfig(r) ==
  /\ Applying(r)
  /\ LET s == Order[at[r]]
     IN \/ ~Overrides(fc[r], s) /\ Advance(r) /\ UNCHANGED cfg
        \/ /\ Overrides(fc[r], s) /\ s \notin Strings
           /\ cfg' = [cfg EXCEPT ![s] = [w \in Words |-> fc[r][s]]]
           /\ Advance(r)
        \/ /\ Overrides(fc[r], s) /\ s \in Strings
           /\ \E w \in left[r] :
                /\ cfg' = [cfg EXCEPT ![s][w] = fc[r][s]]
                /\ IF left[r] = {w} THEN Advance(r)
                   ELSE left' = [left EXCEPT ![r] = @ \ {w}] /\ UNCHANGED at
  /\ UNCHANGED <<env, file, pc, fc, smtp, stale, given>>

-----------------------------------------------------------------------------
(* MailService *)

Goto(m, s) == pc' = [pc EXCEPT ![m] = s]

\* SendResetEmail, SendTestEmail, SendPasswordChangedEmail: s.cfg.SMTPHost == ""
\* looks at the length.
SendEmail(m) ==
  /\ pc[m] = "idle"
  /\ Goto(m, IF cfg["SMTPHost"].len = None THEN "disabled" ELSE "compose")
  /\ UNCHANGED <<env, file, cfg, at, fc, left, smtp, stale, given>>

\* sendEmail, after the templates are rendered, loads the host again.  Its three
\* loads of the host, and those of the port, are one here.
sendEmail(m) ==
  /\ pc[m] = "compose"
  /\ \E w \in Words :
       /\ smtp[m][w] = Bad
       /\ smtp' = [smtp EXCEPT ![m][w] = cfg["SMTPHost"][w]]
       /\ Goto(m, IF \A x \in Words : smtp'[m][x] # Bad THEN "dial" ELSE "compose")
  /\ UNCHANGED <<env, file, cfg, at, fc, left, stale, given>>

\* The mail is sent or refused, or a string made of two panics.
Done(m) ==
  /\ pc[m] \in {"dial", "disabled"}
  /\ Goto(m, "idle")
  /\ smtp' = [smtp EXCEPT ![m] = Unread]
  /\ UNCHANGED <<env, file, cfg, at, fc, left, stale, given>>

-----------------------------------------------------------------------------
OperatorEdits ==
  /\ file' \in FileConfigs \ {file}
  /\ stale' = TRUE
  /\ UNCHANGED <<env, cfg, locals, given>>

\* The sidecar is stopped and started again.
Restart ==
  /\ Boot(file)
  /\ pc' = [m \in Mails |-> "idle"]
  /\ at' = [r \in Reloads |-> 0]
  /\ smtp' = [m \in Mails |-> Unread]
  /\ UNCHANGED <<env, file, fc, left>>

Next ==
  \/ \E r \in Reloads : ReloadConfig(r) \/ ApplyFileConfig(r)
  \/ \E m \in Mails : SendEmail(m) \/ sendEmail(m) \/ Done(m)
  \/ OperatorEdits \/ Restart

Spec == Init /\ [][Next]_vars

-----------------------------------------------------------------------------
(* Properties *)

\* Every variable holds a value of its type.
TypeOK ==
  /\ env \in Envs /\ file \in FileConfigs
  /\ cfg \in [Settings -> String]
  /\ pc \in [Mails -> {"idle", "disabled", "compose", "dial"}]
  /\ at \in [Reloads -> 0 .. Len(Order)]
  /\ fc \in [Reloads -> [Settings -> Value]]
  /\ left \in [Reloads -> SUBSET Words]
  /\ smtp \in [Mails -> [Words -> Value \cup {Bad}]]
  /\ stale \in BOOLEAN /\ given \subseteq Settings

\* When reloads are over and the last config.toml was reloaded after any reload of
\* an older one, the sidecar runs with what a restart would give it: no setting is
\* torn or mixed from reloads that ran side by side.  The exception is a setting
\* that an earlier config.toml gave and the present one does not: it stays until
\* a restart.
\* Code: Load and ApplyFileConfig in main, ApplyFileConfig alone in ReloadConfig.
RunningIsRestarted ==
  (\A r \in Reloads : ~Applying(r)) /\ ~stale =>
    \A s \in GivenBy(file) \cup (Settings \ given) : cfg[s] = Started(env, file)[s]

\* A mail is never sent to an empty host, although the host is loaded again after
\* it was found to be set and a reload may have stored in between.
\* Code: ApplyFileConfig never empties a setting.
MailHasAServer == \A m \in Mails : pc[m] = "dial" => smtp[m]["len"] # None
=============================================================================
