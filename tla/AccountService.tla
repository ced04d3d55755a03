--------------------------- MODULE AccountService ---------------------------
(***************************************************************************)
(* The account operations of the sidecar (internal/service/                *)
(* account_service.go) as the HTTP server runs them: every request is a    *)
(* goroutine of its own, and between two calls on the shared state (the    *)
(* users file, the token store, the metadata store, the Docker daemon) any *)
(* other request, the operator, tinyauth or a crash may take a step.       *)
(*                                                                         *)
(* A user name stands for its case-folded class, since UserFileService     *)
(* compares names with EqualFold; the store, whose maps are keyed by the   *)
(* name as spelled, is taken to meet one spelling of each.  A password     *)
(* stands for itself and for its bcrypt hash, so comparing a hash is       *)
(* comparing passwords.                                                    *)
(***************************************************************************)
EXTENDS Integers

CONSTANTS
  Users,            \* user names, up to case
  Requests,         \* the HTTP requests of a behaviour; each is served once
  Passwords,        \* passwords clients type
  Strong,           \* those validatePassword accepts
  Hashable,         \* those bcrypt accepts (at most 72 bytes)
  Secrets,          \* TOTP secrets
  Addresses,        \* e-mail addresses
  None,             \* no record, no secret, no address, no token
  InitialFile,      \* the users file when the sidecar starts
  Editable,         \* users whose line the operator edits by hand
  Ops,              \* the operations clients call
  UsernameIsEmail,  \* cfg.UsernameIsEmail
  ResetTTL,         \* cfg.ResetTokenTTLSeconds, in ticks
  MaxTime           \* bound on the clock

Record == [pw : Passwords, totp : Secrets \cup {None}]
AllOps == {"forgot", "reset", "sms", "change", "enable", "recover", "disable", "email"}

ASSUME OpsAssumption == Ops \subseteq AllOps
ASSUME PolicyAssumption == Strong \subseteq Passwords /\ Hashable \subseteq Passwords
ASSUME EditableAssumption == Editable \subseteq Users
ASSUME FileAssumption == InitialFile \in [Users -> Record \cup {None}]
ASSUME FlagAssumption == UsernameIsEmail \in BOOLEAN
ASSUME TimeAssumption == ResetTTL \in Nat /\ MaxTime \in Nat
ASSUME NoneAssumption ==
  /\ None \notin Users \cup Requests \cup Passwords \cup Secrets \cup Addresses
  /\ None \notin Record
  /\ None \notin [user : Users, exp : Nat, used : BOOLEAN]

VARIABLES
  now,          \* Unix time
  usersFile,    \* what the users file says of each user
  resetTokens,  \* Store.resetTokens; a token is named by the request that minted it
  email,        \* Store.users[u].Email, in memory
  emailSaved,   \* the same in users.toml
  mailed,       \* the tokens whose reset mail was sent
  launched,     \* the requests that started the password-change goroutines
  tinyauth,     \* the tinyauth container: "up" or "starting"
  loaded,       \* the users file as the running tinyauth read it
  restartLost,  \* a change of the users file that no restart will follow
  mixed,        \* users with updates that overlapped (see Overlap)
  pc,           \* where each request stands in its handler
  req           \* the arguments and local variables of each request

storeVars == <<resetTokens, email, emailSaved, mailed>>
fileVars == <<usersFile, mixed>>
tinyauthVars == <<tinyauth, loaded, restartLost>>
vars == <<now, storeVars, fileVars, tinyauthVars, launched, pc, req>>

Token == [user : Users, exp : Nat, used : BOOLEAN]
Request ==
  [op : AllOps \cup {None}, user : Users \cup {None}, address : Addresses \cup {None},
   token : Requests \cup {None}, old : Passwords \cup {None}, new : Passwords \cup {None},
   secret : Secrets \cup {None}, rec : Record \cup {None}]
NoRequest == [op |-> None, user |-> None, address |-> None, token |-> None,
              old |-> None, new |-> None, secret |-> None, rec |-> None]

Done == {"ok", "error", "lost"}
\* Written to the users file, tinyauth not yet told.
Owing == {"mark", "restart"}
PasswordOps == {"reset", "sms", "change"}
TotpOps == {"enable", "recover", "disable"}
Steps == {"idle", "find", "lookup", "refind", "mint", "mail", "token", "verify", "validate",
          "load", "save", "upsert", "await", "notify"} \cup Owing \cup Done

Init ==
  /\ now = 0
  /\ usersFile = InitialFile
  /\ resetTokens = [r \in Requests |-> None]
  /\ email \in [Users -> Addresses \cup {None}]
  /\ emailSaved = email
  /\ mailed = {} /\ launched = {}
  /\ tinyauth = "up" /\ loaded = InitialFile
  /\ restartLost = FALSE
  /\ mixed = {}
  /\ pc = [r \in Requests |-> "idle"]
  /\ req = [r \in Requests |-> NoRequest]

-----------------------------------------------------------------------------
(* Helpers *)

At(r, s) == pc[r] = s
Goto(r, s) == pc' = [pc EXCEPT ![r] = s]

\* The local variables go with the goroutine; what the client asked for is
\* kept, for the properties.
Ended(q) == [NoRequest EXCEPT !.op = q.op, !.token = q.token]
Answer(r, s) == Goto(r, s) /\ req' = [req EXCEPT ![r] = Ended(req[r])]
Exists(u) == usersFile[u] # None

\* The requests that hold a copy of u's record and have not written it back.
Holding(u) == {r \in Requests : pc[r] = "upsert" /\ req[r].user = u}

\* Request r has just read u's record: with another copy of it about, the two
\* updates overlap; alone, it starts from a clean record.
Overlap(u) == mixed' = IF Holding(u) = {} THEN mixed \ {u} ELSE mixed \cup {u}

\* Mutants of Updated: the record built anew, without its TOTP secret; the old
\* password written for the new one.
Updated_Fresh(q) ==
  CASE q.op \in PasswordOps -> [pw |-> q.new, totp |-> None]
    [] q.op = "disable"     -> [q.rec EXCEPT !.totp = None]
    [] OTHER                -> [q.rec EXCEPT !.totp = q.secret]
Updated_OldForNew(q) ==
  CASE q.op \in PasswordOps -> [q.rec EXCEPT !.pw = q.old]
    [] q.op = "disable"     -> [q.rec EXCEPT !.totp = None]
    [] OTHER                -> [q.rec EXCEPT !.totp = q.secret]

\* The record Upsert writes: the copy Find returned with one field replaced.
Updated(q) ==
  CASE q.op \in PasswordOps -> [q.rec EXCEPT !.pw = q.new]
    [] q.op = "disable"     -> [q.rec EXCEPT !.totp = None]
    [] OTHER                -> [q.rec EXCEPT !.totp = q.secret]

\* SessionMiddleware forwards the cookie to tinyauth, which answers for the
\* users it has loaded, and not while it restarts.
Session(u) == tinyauth = "up" /\ loaded[u] # None

-----------------------------------------------------------------------------
(* Arrivals: the routes of the handlers, with the arguments they bind. *)

Begin(r, q, first) ==
  /\ At(r, "idle") /\ q.op \in Ops
  /\ Goto(r, first)
  /\ req' = [req EXCEPT ![r] = q]
  /\ UNCHANGED <<now, storeVars, fileVars, tinyauthVars, launched>>

\* POST /password-reset/request: the client types a user name, or an address
\* (in the user name field) when the two differ, or nothing.
ArriveForgot(r) ==
  \/ \E u \in Users : Begin(r, [NoRequest EXCEPT !.op = "forgot", !.user = u], "find")
  \/ \E a \in Addresses \cup {None} :
       Begin(r, [NoRequest EXCEPT !.op = "forgot", !.address = a], "find")

\* POST /password-reset/confirm: a token out of a mail, or a made-up one.
ArriveReset(r) ==
  \E t \in mailed \cup {None}, p \in Passwords :
    Begin(r, [NoRequest EXCEPT !.op = "reset", !.token = t, !.new = p], "token")

\* POST /auth/reset-password-sms
ArriveSms(r) ==
  \E p \in Passwords : Begin(r, [NoRequest EXCEPT !.op = "sms", !.new = p], "verify")

\* POST /account/change-password
ArriveChange(r) ==
  \E u \in Users, o, p \in Passwords :
    /\ Session(u)
    /\ Begin(r, [NoRequest EXCEPT !.op = "change", !.user = u, !.old = o, !.new = p], "load")

\* POST /account/totp/enable and /account/totp/recover
ArriveEnable(r) ==
  \E u \in Users, s \in Secrets, op \in {"enable", "recover"} :
    /\ Session(u)
    /\ Begin(r, [NoRequest EXCEPT !.op = op, !.user = u, !.secret = s], "validate")

\* POST /account/totp/disable
ArriveDisable(r) ==
  \E u \in Users, o \in Passwords :
    /\ Session(u)
    /\ Begin(r, [NoRequest EXCEPT !.op = "disable", !.user = u, !.old = o], "load")

\* POST /account/email; the empty address is allowed.
ArriveEmail(r) ==
  \E u \in Users, a \in Addresses \cup {None} :
    /\ Session(u)
    /\ Begin(r, [NoRequest EXCEPT !.op = "email", !.user = u, !.address = a], "save")

Arrive(r) ==
  \/ ArriveForgot(r) \/ ArriveReset(r) \/ ArriveSms(r) \/ ArriveChange(r)
  \/ ArriveEnable(r) \/ ArriveDisable(r) \/ ArriveEmail(r)

-----------------------------------------------------------------------------
(* Steps that touch no shared state but the request's own. *)

Step(r, s, q) ==
  /\ Goto(r, s)
  /\ req' = [req EXCEPT ![r] = q]
  /\ UNCHANGED <<now, storeVars, fileVars, tinyauthVars, launched>>

Proceed(r, s) == Step(r, s, req[r])

Reply(r, s) ==
  /\ Answer(r, s)
  /\ UNCHANGED <<now, storeVars, fileVars, tinyauthVars, launched>>

-----------------------------------------------------------------------------
(* RequestPasswordReset.  The handler drops its error: the client is always *)
(* answered "ok", and the request of every early return ends at "ok".       *)

\* users.Find(username)
ForgotFind(r) ==
  /\ At(r, "find")
  /\ \/ req[r].user # None /\ Exists(req[r].user) /\ Proceed(r, "mint")
     \/ ~(req[r].user # None /\ Exists(req[r].user))
        /\ IF UsernameIsEmail THEN Reply(r, "ok") ELSE Proceed(r, "lookup")
     \/ Reply(r, "ok")   \* the file cannot be read or parsed

\* store.FindUserByEmail(username): map order picks among equal addresses.
\* No one registered a user name as an address; the empty address is that of
\* every user with metadata but without an address.
ForgotLookup(r) ==
  /\ At(r, "lookup")
  /\ LET hits == {u \in Users : req[r].user = None /\ email[u] = req[r].address}
     IN \/ \E u \in hits : Step(r, "refind", [req[r] EXCEPT !.user = u])
        \/ (hits = {} \/ req[r].address = None) /\ Reply(r, "ok")

\* users.Find(foundUser)
ForgotRefind(r) ==
  /\ At(r, "refind")
  /\ \/ Exists(req[r].user) /\ Proceed(r, "mint")
     \/ Reply(r, "ok")   \* metadata of a user the file does not have, or a read error

\* uuid.NewString and store.CreateResetToken
ForgotMint(r) ==
  /\ At(r, "mint")
  /\ resetTokens' = [resetTokens EXCEPT
       ![r] = [user |-> req[r].user, exp |-> now + ResetTTL, used |-> FALSE]]
  /\ Goto(r, "mail")
  /\ UNCHANGED <<now, email, emailSaved, mailed, fileVars, tinyauthVars, launched, req>>

\* store.GetEmail and mail.SendResetEmail: no address, or the mail server
\* refuses, and the token stays behind unsent.
ForgotMail(r) ==
  /\ At(r, "mail")
  /\ \/ /\ UsernameIsEmail \/ email[req[r].user] # None
        /\ mailed' = mailed \cup {r}
     \/ UNCHANGED mailed
  /\ Answer(r, "ok")
  /\ UNCHANGED <<now, resetTokens, email, emailSaved, fileVars, tinyauthVars, launched>>

-----------------------------------------------------------------------------
(* What comes before the record is read. *)

\* ResetPassword: GetResetToken, the expiry test and HashPassword.
ResetCheckToken(r) ==
  /\ At(r, "token")
  /\ LET t == req[r].token
         live == t # None /\ resetTokens[t] # None
                 /\ ~resetTokens[t].used /\ now <= resetTokens[t].exp
     IN IF live /\ req[r].new \in Hashable
        THEN Step(r, "load", [req[r] EXCEPT !.user = resetTokens[t].user])
        ELSE Reply(r, "error")

\* ResetPasswordSMS: VerifySMSResetCode names a user or fails (module SmsReset
\* has its steps), then HashPassword.
SmsVerify(r) ==
  /\ At(r, "verify")
  /\ \/ /\ req[r].new \in Hashable
        /\ \E u \in Users : Step(r, "load", [req[r] EXCEPT !.user = u])
     \/ Reply(r, "error")

\* TotpEnable: totp.Validate, and before it the recovery key of TotpRecover.
TotpValidate(r) ==
  /\ At(r, "validate")
  /\ \/ Proceed(r, "load")
     \/ Reply(r, "error")

\* Mutant of Accepted: the old password is not compared.
Accepted_AnyPassword(q, rec) == q.op = "change" => q.new \in Strong \cap Hashable

\* users.Find(username) and the checks made on the copy it returns.
Accepted(q, rec) ==
  /\ q.op \in {"change", "disable"} => rec.pw = q.old
  /\ q.op = "change" => q.new \in Strong \cap Hashable

Load(r) ==
  /\ At(r, "load")
  /\ LET u == req[r].user
     IN \/ /\ Exists(u) /\ Accepted(req[r], usersFile[u])
           /\ Overlap(u)
           /\ Goto(r, "upsert")
           /\ req' = [req EXCEPT ![r].rec = usersFile[u]]
           /\ UNCHANGED <<now, storeVars, usersFile, tinyauthVars, launched>>
        \/ Exists(u) /\ ~Accepted(req[r], usersFile[u]) /\ Reply(r, "error")
        \/ Reply(r, "error")   \* no such user, or the file cannot be read or parsed

-----------------------------------------------------------------------------
(* From the write to the answer. *)

\* Mutant of Upsert: the answer without the restart.
Upsert_NoRestart(r) ==
  /\ At(r, "upsert")
  /\ usersFile' = [usersFile EXCEPT ![req[r].user] = Updated(req[r])]
  /\ Goto(r, "notify")
  /\ UNCHANGED <<now, storeVars, mixed, tinyauthVars, launched, req>>

\* users.Upsert(u): the line is replaced, or appended when it is gone.
Upsert(r) ==
  /\ At(r, "upsert")
  /\ usersFile' = [usersFile EXCEPT ![req[r].user] = Updated(req[r])]
  /\ Goto(r, IF req[r].op = "reset" THEN "mark" ELSE "restart")
  /\ UNCHANGED <<now, storeVars, mixed, tinyauthVars, launched, req>>

\* Upsert cannot read, write or rename.
UpsertFails(r) == At(r, "upsert") /\ Reply(r, "error")

\* Mutant of ResetMarkUsed: the token is left as it is.
ResetMarkUsed_Skipped(r) == At(r, "mark") /\ Proceed(r, "restart")

\* store.MarkResetTokenUsed
ResetMarkUsed(r) ==
  /\ At(r, "mark")
  /\ resetTokens' = IF resetTokens[req[r].token] = None THEN resetTokens
                    ELSE [resetTokens EXCEPT ![req[r].token].used = TRUE]
  /\ Goto(r, "restart")
  /\ UNCHANGED <<now, email, emailSaved, mailed, fileVars, tinyauthVars, launched, req>>

\* docker.RestartTinyauth up to the restart command (cfg.RestartMethod "restart",
\* the default), after which the old process is gone.
RestartCommand(r) ==
  /\ At(r, "restart")
  /\ tinyauth' = "starting"
  /\ Goto(r, "await")
  /\ UNCHANGED <<now, storeVars, fileVars, loaded, restartLost, launched, req>>

\* The command fails; the caller logs the error and goes on.
RestartFails(r) ==
  /\ At(r, "restart")
  /\ restartLost' = TRUE
  /\ Goto(r, "notify")
  /\ UNCHANGED <<now, storeVars, fileVars, tinyauth, loaded, launched, req>>

\* Mutant of RestartAwait: waiting without a time-out.
RestartAwait_Forever(r) == At(r, "await") /\ tinyauth = "up" /\ Proceed(r, "notify")

\* The two waiting phases: tinyauth answers, or their time is up.  The caller
\* treats both alike.
RestartAwait(r) == At(r, "await") /\ Proceed(r, "notify")

\* syncPasswordTargets and notifyPasswordChanged start their goroutines, and
\* the client is answered.
Notify(r) ==
  /\ At(r, "notify")
  /\ launched' = IF req[r].op \in PasswordOps THEN launched \cup {r} ELSE launched
  /\ Answer(r, "ok")
  /\ UNCHANGED <<now, storeVars, fileVars, tinyauthVars>>

\* store.SetEmail: the map is changed first, and stays changed when the save
\* of users.toml fails.
SetEmail(r) ==
  /\ At(r, "save")
  /\ email' = [email EXCEPT ![req[r].user] = req[r].address]
  /\ \/ emailSaved' = email' /\ Answer(r, "ok")
     \/ UNCHANGED emailSaved /\ Answer(r, "error")
  /\ UNCHANGED <<now, resetTokens, mailed, fileVars, tinyauthVars, launched>>

Serve(r) ==
  \/ ForgotFind(r) \/ ForgotLookup(r) \/ ForgotRefind(r) \/ ForgotMint(r) \/ ForgotMail(r)
  \/ ResetCheckToken(r) \/ SmsVerify(r) \/ TotpValidate(r) \/ Load(r)
  \/ Upsert(r) \/ UpsertFails(r) \/ ResetMarkUsed(r)
  \/ RestartCommand(r) \/ RestartFails(r) \/ RestartAwait(r) \/ Notify(r) \/ SetEmail(r)

-----------------------------------------------------------------------------
(* The rest of the world. *)

\* tinyauth reads the users file while it starts.
TinyauthBoot ==
  /\ tinyauth = "starting"
  /\ tinyauth' = "up" /\ loaded' = usersFile /\ restartLost' = FALSE
  /\ UNCHANGED <<now, storeVars, fileVars, launched, pc, req>>

\* tinyauth stops by itself; its restart policy starts it again.
TinyauthDies ==
  /\ tinyauth = "up"
  /\ tinyauth' = "starting"
  /\ UNCHANGED <<now, storeVars, fileVars, loaded, restartLost, launched, pc, req>>

\* The operator edits, adds or deletes a line of the users file by hand.
OperatorEdits(u) ==
  /\ u \in Editable
  /\ \E rec \in Record \cup {None} : usersFile' = [usersFile EXCEPT ![u] = rec]
  /\ mixed' = IF Holding(u) = {} THEN mixed ELSE mixed \cup {u}
  /\ restartLost' = TRUE
  /\ UNCHANGED <<now, storeVars, tinyauth, loaded, launched, pc, req>>

\* The sidecar stops and starts: requests are cut off, tokens and unsaved
\* metadata are gone, and a restart that was still owed is never made.
InFlight(r) == pc[r] \notin Done \cup {"idle"}
Crash ==
  /\ pc' = [r \in Requests |-> IF InFlight(r) THEN "lost" ELSE pc[r]]
  /\ req' = [r \in Requests |-> IF InFlight(r) THEN Ended(req[r]) ELSE req[r]]
  /\ resetTokens' = [r \in Requests |-> None]
  /\ email' = emailSaved
  /\ restartLost' = (restartLost \/ \E r \in Requests : pc[r] \in Owing)
  /\ UNCHANGED <<now, emailSaved, mailed, fileVars, tinyauth, loaded, launched>>

Tick ==
  /\ now < MaxTime
  /\ now' = now + 1
  /\ UNCHANGED <<storeVars, fileVars, tinyauthVars, launched, pc, req>>

Next ==
  \/ \E r \in Requests : Arrive(r) \/ Serve(r)
  \/ TinyauthBoot \/ TinyauthDies
  \/ \E u \in Users : OperatorEdits(u)
  \/ Crash \/ Tick

Spec == Init /\ [][Next]_vars

\* A request the server has started is scheduled until it is answered.  Every wait
\* in it has a time-out but one: smtp.SendMail waits for the mail server.
RequestFairness == \A r \in Requests : WF_vars(Serve(r) /\ ~At(r, "mail"))
\* Docker starts the container it was told to (re)start.
BootFairness == WF_vars(TinyauthBoot)

-----------------------------------------------------------------------------
(* Properties *)

\* Every variable holds a value of its type.
TypeOK ==
  /\ now \in Nat
  /\ usersFile \in [Users -> Record \cup {None}]
  /\ resetTokens \in [Requests -> Token \cup {None}]
  /\ email \in [Users -> Addresses \cup {None}]
  /\ emailSaved \in [Users -> Addresses \cup {None}]
  /\ mailed \subseteq Requests /\ launched \subseteq Requests
  /\ tinyauth \in {"up", "starting"}
  /\ loaded \in [Users -> Record \cup {None}]
  /\ restartLost \in BOOLEAN
  /\ mixed \subseteq Users
  /\ pc \in [Requests -> Steps]
  /\ req \in [Requests -> Request]

\* tinyauth never goes on running with an out-of-date users file unnoticed:
\* while it is up with an older file, the request that wrote the newer one has
\* its restart still to come, or a restart is known to be lost (the command
\* failed, the sidecar stopped in between, the operator edited by hand).
\* Code: Upsert is followed by RestartTinyauth on every path.
LoadedOrOwed ==
  tinyauth = "up" /\ loaded # usersFile =>
    restartLost \/ \E r \in Requests : pc[r] \in Owing

\* A reset token is dead once a confirmation with it is past MarkResetTokenUsed
\* (so also once the client of that confirmation has its answer): no request
\* passes the token check with it, not after a crash either.  Confirmations
\* running at the same time may both pass.
\* Code: GetResetToken ... Upsert ... MarkResetTokenUsed in ResetPassword.
Spent(t) ==
  \E s \in Requests : req[s].op = "reset" /\ req[s].token = t
                      /\ pc[s] \in {"restart", "await", "notify", "ok"}
PassesTokenCheck(r) == pc[r] = "token" /\ pc'[r] = "load"
SpentTokenIsDead ==
  [][\A r \in Requests : PassesTokenCheck(r) => ~Spent(req[r].token)]_vars

\* The operations keep the promises of module Credentials: an update writes the
\* record it read with one field replaced, and unless something overlapped it
\* that is the record the user still has.  So the other
\* field goes back only by an overlap, and a user who is gone comes back only
\* when the operator deleted the line while an update held a copy of it.
\* Code: the copy that Find returns is written back whole by Upsert, which
\* appends the line when it is gone.
Copies == [r \in Requests |-> IF pc[r] = "upsert" THEN req[r].rec ELSE None]
C == INSTANCE Credentials WITH
       creds <- usersFile, open <- [u \in Users |-> Holding(u)], copy <- Copies
KeepsCredentials == C!Spec

\* ChangePassword and TotpDisable take effect only against the password the
\* user has when the record is written, not one that was replaced meanwhile,
\* unless updates of the user overlapped.
\* Code: the old password is compared with the copy, long before Upsert.
OldPasswordIsCurrent ==
  [][\A r \in Requests :
       /\ pc[r] = "upsert" /\ pc'[r] = "restart"
       /\ req[r].op \in {"change", "disable"}
       /\ req[r].user \notin mixed
       => Exists(req[r].user) /\ usersFile[req[r].user].pw = req[r].old]_vars

\* Every request is answered (or cut off by a crash), even when tinyauth never
\* comes back, unless it waits for the mail server.
\* Code: the waits of RestartTinyauth have time-outs.
EveryRequestAnswered == \A r \in Requests : pc[r] # "idle" ~> pc[r] \in Done \cup {"mail"}

\* When Docker does start tinyauth each time it is told to, tinyauth has again and
\* again the users file as it is, unless a restart is known to be lost.
\* Code: RestartTinyauth after every Upsert.
EventuallyLoaded == BootFairness => []<>(loaded = usersFile \/ restartLost)

\* The TOTP secret of a user changes by a TOTP request only, so "Two-factor
\* authentication disabled" (or enabled) stays true until the next one.
TotpChangesByTotpRequests ==
  [][\A u \in Users :
       Exists(u) /\ usersFile'[u] # None /\ usersFile'[u].totp # usersFile[u].totp =>
         \E r \in Holding(u) : pc'[r] # pc[r] /\ req[r].op \in TotpOps]_vars
=============================================================================
