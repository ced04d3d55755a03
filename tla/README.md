# Verification of tinyauth-sidecar

TLA+ modules, TLC configurations and TLAPS proofs about tinyauth-sidecar, the Go
service that gives users of tinyauth self-service: password reset by mail and SMS,
password change, TOTP, e-mail address and phone number. `PROJECT.json` lists the
components, the runs, the mutants that show each property can fail, the source lines
behind each definition, the hazards and the theorems. Paths below are relative to the
repository (`internal/...`, `frontend/...`).

To check one run: `tlc -config <run>.cfg <MC module>.tla`. To check one module's
proofs: `tlapm <module>.tla`.

## 1. Inventory

### Parts, state and operations

| Part (source) | State it keeps | Operations | What makes it correct |
|---|---|---|---|
| Account operations (`service/account_service.go`, `handler/account_handler.go`, `handler/public_handler.go`) | none of its own; each request is a goroutine with a copy of a user record | reset by mail, reset by SMS, password change, TOTP enable / recover / disable, e-mail and phone | an update changes one field of the record the user has; the old password is the current one; a reset token works once; tinyauth learns of every change; every request is answered |
| Users file (`service/user_file_service.go`) | the file, a temporary file, a mutex | `Find`, `Upsert` (`Delete` is never called) | the file changes as a whole; what is written is what is found; the mutex is always released |
| Metadata store (`store/toml_store.go`) | e-mail, phone and role by user with a copy in `users.toml`; reset tokens and SMS codes in memory only | `SetEmail`, `SetPhone`, `SetUserMeta` (never called), look-ups, `CreateResetToken`, `GetResetToken`, `MarkResetTokenUsed`, `StoreSMSResetCode`, `HasRecentSMSCode`, `VerifySMSResetCode` | codes are a cooldown apart, take a bounded number of guesses and work once; what a client was told is kept; the file is a whole map |
| Docker restart (`service/docker_service.go`) | none; the container's state is Docker's | `RestartTinyauth`: inspect, restart or signal, wait for a new `StartedAt`, wait for health | who is told "restarted" has a process that read the new file; a stale process always has a restart to come |
| tinyauth (external) | the users file as it was when it started | answers session checks, restarts | - |
| Rate limiter (`middleware/ratelimit.go`) | a token bucket per address, with a sweep of old ones | `Middleware`, `cleanup` | no more than a burst and the inflow over any time; nobody is refused without that cause |
| Session check (`middleware/session.go`) | none | forwards the cookie to tinyauth | lets in users that tinyauth has loaded |
| Password hooks and targets, SMS (`provider/*.go`) | none; goroutines after the answer | `SyncPassword`, `OnPasswordChanged`, `SendSMS` | a receiver that acknowledged the last password keeps it; no failed target goes unreported; every call ends |
| Configuration (`config/config.go`, `handler/admin_handler.go`) | the shared `Config` | load, reload by an admin | the running configuration is the one a restart would give; mail goes to a host |
| CSRF cookie (`middleware/csrf.go`) | a cookie at the client | set, compare | a form is refused for a cause that passes |
| Web pages (`frontend/src`) | page state, polling | account page, reset page | the page does not show a restart for ever |
| Mail, audit log, security headers, static files | none that is read back | output | - |

### Interactions

A handler calls `AccountService`, which calls the store and the users file, each call a
locked section of its own; nothing holds a lock across two of them. After `Upsert` the
same goroutine calls `RestartTinyauth` and waits there, up to the time-outs. tinyauth reads the
users file once, when it starts. Password hooks and targets run in goroutines that
outlive the request. The operator edits the users file by hand. A restart of the
sidecar loses tokens, codes and whatever the running requests still had to do.

### What is hard

- Read, check and write of a user record are separate locked sections (`account_service.go:174`, `:193`).
- The write and the restart it needs are separate, and the error of the restart is only logged (`:197`).
- Restarts of several requests cross; the old process answers health checks until it ends.
- The cooldown and the storing of an SMS code are separate (`:250`, `:261`), and times are compared at boundaries.
- A writer of the users file may stop or fail at any system call; an operator may edit meanwhile.
- A request draws from a bucket that the sweep may have dropped.
- Hook and target goroutines of two changes run in any order, and a call that timed out may still arrive.
- The metadata map changes before its save, which may fail; a later save of another field writes both.
- Reloads store into the `Config` that requests read, without a lock, and strings are two words.
- Parallel answers set different CSRF cookies; polls, answers and a restarting tinyauth overtake each other; the session may end meanwhile.

The list with lines and the properties that cover each is `hazards` in `PROJECT.json`.

## 2. Modules

| Module | Models | Refines |
|---|---|---|
| `AccountService` | all operations that change a record, a token or an address, interleaved at every call on shared state | `Credentials` |
| `Credentials` | the promise: an update opens with a copy of one record and commits it with one field replaced | |
| `SmsReset` | codes: request, cooldown, store, send, confirm, verify | |
| `UserFileService` | `Find` and `Upsert` by system call, with mutex, failures, crashes | `UsersFile` |
| `UsersFile` | the promise: the file becomes the lines seen last with one user's line replaced; also the operators on lines | |
| `DockerRestart` | `RestartTinyauth` with the daemon and the process | |
| `RateLimiter` | `getLimiter`, `Allow`, `cleanup`, `PerMinute` | |
| `PasswordSync` | goroutines of `SyncPassword` and of the hooks, each call from `Send` to its error or answer, receivers that act late or never, crashes | |
| `MetaStore` | `SetPhone` and `SetEmail` with `saveTOML` by file operation, failing saves, stops, starts that cannot see the file, edits by hand | `Metadata` |
| `Metadata` | the promise: the map changes by one field of one user, the file only to the whole map | |
| `ConfigReload` | environment and `config.toml` at the start, `ReloadConfig` setting by setting and word by word, mail requests that test and load `SMTPHost` | |
| `AccountPage` | the page's buttons and poll, the CSRF interceptor and middleware, the session check, the restart handlers, tinyauth stopping and starting, a session that ends and comes back | |

`MC...` modules give instances for TLC (`MCSmsShapes` three in one run); `...Proofs` hold the theorems, `WebProofs` those of
`ConfigReload` and `AccountPage`. `Credentials` and `UsersFile` are reached from the detailed modules, by
`INSTANCE` and `EXTENDS`, as the properties `KeepsCredentials` and `KeepsUsersFile`; `Metadata` likewise, as `KeepsMetadata`.

How they fit together: `AccountService` takes `Find` and `Upsert` as single steps, which
`UserFileService` justifies (they take effect at the read and at the rename).
It takes `RestartTinyauth` as "command, wait" and tinyauth's boot as one step;
`DockerRestart` has the steps below that and both restart methods.
It takes an accepted SMS code as given (`SmsVerify`); `SmsReset` has what
comes before. It changes the e-mail address in one step; `MetaStore` has the steps of the save and what the file
keeps. `Notify` starts the goroutines that `PasswordSync` follows. A restart in `AccountPage` is a container that
stops, starts and is up; `DockerRestart` has who waits for what. `LoadedOrOwed` and `StaleIsOwed` say the same thing at the two levels.

### State and code

- `pc[r]`, `req[r]`: where the goroutine of request `r` stands and its local variables. A step
  of `AccountService` is the code from one call on shared state to the next.
- `usersFile`, `loaded`: the users file and the copy tinyauth has. `resetTokens`, `email`/`emailSaved`, `codes`,
  `phone`/`saved`: the maps of the store, with the saved copy where one exists (`saveTOML` may fail after the map changed).
- `file`, `tmp`, `mu`: the users file, its `.tmp` and the mutex. `visitors`, `credit`, `last`: the limiter's map and buckets.
- Ghosts, which no guard reads: `mixed` (updates of a user overlapped), `restartLost` and `lost` (a restart is known not
  to come: command failed, crash before it, hand edit), `raced` (two requests passed the SMS
  cooldown together), `seen` (the lines the sidecar read or wrote last), `slow`
  (a request took long between fetching a bucket and drawing), `crossed` (an older change had not settled with the receiver
  when the users file was written), `told` (what the last answer said of a field), `hand` (turns over with an edit), `stale` and `given`
  (a reload of an older `config.toml`, settings it gave once), `moved` (requests overtaken by a change of the cookie),
  `passed`, `redeemed`, `wrote`, `applied`.

A ghost that excepts cases from a property marks what the code does not promise there, so such a property does not catch the
hazard it excepts: a restart that is lost (`restartLost`, `lost`), a field put back or a user brought back by an overlap (`mixed`),
codes of requests that raced (`raced`), a bucket fetched long before it is drawn from (`slow`), receivers at which changes crossed (`crossed`),
reloads of different files side by side (`stale`), a cookie replaced under a form (`moved`), a value whose save failed (in doubt in `told`).
What is shown is that nothing else has that effect; the notes of the hazards say so at each line.

### Abstractions

- A user name stands for its case-folded class (`EqualFold`); the maps of the store are keyed by the name as spelled, and are
  taken to meet one spelling of each name. A password stands for itself and its
  bcrypt hash; `Strong` and `Hashable` are what `validatePassword` and bcrypt (72 bytes) accept.
- A token or a code is named by the request that made it: a guess is right or wrong. Two equal random codes are left out.
- Lines of the users file are parsed records or `Bad`, one that `ParseUserLine` refuses; blank lines are skipped by readers and left out.
- TOTP validation, the recovery key, the outcome of SMTP, SMS, Docker and file calls: either outcome, at any time.
- Clocks are integers. `SmsReset` keeps the code's own comparisons (`>`, and `createdAt` computed back from the expiry);
  `RateLimiter` counts credit in ticks, so that a token is `Interval` of it. The library's
  float arithmetic and a clock read just before its lock are left out.
- In `PasswordSync` a change stands for its password, and all are of one user; templates render or fail; a receiver
  applies a request and answers below 400, or refuses it and answers 400 or more. The code counts any status below 400 as success: of a
  receiver that redirects, or answers 200 with an error in the body, `AcknowledgedIsLast` and `UnreportedIsApplied` say nothing. The role, read after the restart, is any that `users.toml` may give.
- In `MetaStore` a start clears the map; os.WriteFile is a truncation and a write; `Name` is never set and left out.
- In `ConfigReload` a string is a pointer and a length, each of which names the value it belongs to; two settings, a number
  and a string, stand for all of them, since each is applied in the same way and on its own. `getEnvBool`, for which anything unknown is false,
  differs from the other readers and is left out. The loads of `SMTPHost` and `SMTPPort` in `sendEmail` (`mail_service.go:95-99`) are one load.
- In `AccountPage` tokens are names; a new token is none that the request carries. The status text, messages and the
  forms are left out; the poll is a request at any time while a restart is shown. Whether tinyauth knows the session and its user
  is one flag, `session`; whether the user is an admin does not change.
- `DockerRestart` counts writes and starts; the daemon's restart is a stop and a start
  that other commands may come between.

## 3. Runs

| Run | Instance | Shows |
|---|---|---|
| `account_update` | 1 user, 2 requests, 2 passwords, change / SMS reset / enable / disable, the operator editing, deleting and re-adding the line, failures, crashes | types, `LoadedOrOwed`, `OldPasswordIsCurrent`, refinement of `Credentials` (`KeepsCredentials`) |
| `account_reset` | 1 user, 3 requests, names that are not addresses, the address changing, expiry, tinyauth possibly never starting | `LoadedOrOwed` on the path with a token to mark; `SpentTokenIsDead` across concurrent confirmations and crashes; every request is answered; tinyauth catches up when Docker starts it |
| `sms_codes` | three shapes (`MCSmsShapes`): 3 requests for codes and a guessing client; 2 requests and 2 clients confirming at once; the same with 2 users between whom the number moves. Expiry of 2 and cooldown of 1 tick, 2 guesses | `CodesApart`, `GuessBudget` (a third live code, two clients at one counter, a move between look-up and check), `RedeemedOnce` |
| `user_file` | 2 goroutines, 2 users, files with doubled and malformed lines, no file | refinement of `UsersFile` (`KeepsUsersFile`), `WriteIsFound`, and `EveryCallReturns` |
| `docker_restart` | 2 callers, both methods, 3 writes, 4 starts | `FreshAfterRestart`, `StaleIsOwed` |
| `rate_limiter` | 1 address of 2 tokens, 2 requests, 3 generations of its bucket | `RateBound`, `RefusedForCause` |
| `password_sync` | 2 changes, a target, a hook with filters and no time-out of its own, 2 roles | `AcknowledgedIsLast`, `UnreportedIsApplied`, `EveryCallEnds` |
| `meta_store` | 1 user, 2 requests, 2 fields, a role given by hand, a broken file | refinement of `Metadata` (`KeepsMetadata`), `ToldIsKept`, `EveryRequestAnswered` |
| `config_reload` | 2 reloads, 1 mail request, a number and a string, 2 environments, files with none, one or both settings, broken or missing | `RunningIsRestarted`, `MailHasAServer` |
| `account_page` | 2 requests under way, 3 tokens, 1 fault (lost request, lost or changed cookie, session ending, Docker error, tinyauth stopping) | `FormRefusedForCause`, `RefusalsEnd`, `RestartingEnds` |
| `account_totp_lost` | violation | see findings |
| `sms_per_phone` | violation | see findings |

Why the bounds are enough: the interesting cases need two requests on one user and a third one
that comes after or in between; records have two fields and requests touch one of
them; two tokens make a bucket that is partly full; four ticks of eight let a bucket be
forgotten and made again while the passes before are still inside a window; three writes and four
starts let two restarts cross with a start that is nobody's. Users, addresses of clients and phones do
not share state among each other except through maps, so one of each shows the
races, except where a number moves between users (the third shape of `sms_codes`, whose clock ends before codes expire:
the three shapes in one, for the whole time, are more than TLC gets through); the theorems cover any number. In `account_reset` liveness is checked of the reset path: the steps from
`Load` to the answer are the same for all operations, and the steps before it do not wait. A target
and a hook differ in time-out, filter and reporting, and receivers share nothing: one of each is enough. Two reloads of two settings have every order of two
writers, with a third party reading. Two slots make a POST and a poll, or two POSTs, overtake each other; requests that
end make room for more. Requests that have ended may stop the instances
(`rate_limiter` stops at its clock bound and `password_sync` when all calls are over, so deadlock is not checked there).

### Fairness

- `RequestFairness` (weak, per request): a goroutine of the HTTP server is scheduled until it returns;
  each wait in it has a time-out (120 s and 30 s in `RestartTinyauth`), so it is always able to go on - but for the mail server,
  for which `smtp` sets no deadline: that step has no fairness, and `EveryRequestAnswered` excepts it.
- `PasswordSync`: weak fairness of the goroutines. Nothing is assumed of receivers or the network; `Timeout` is the clock of `http.Client`,
  and is enabled only when the client has a positive time-out.
- `MetaStore`: weak fairness of a goroutine that holds the lock, strong of taking it (as below).
- `AccountPage`: the browser sends and receives, the server goes on, the interval fires, Docker starts tinyauth; clicks and faults
  are free, faults bounded by `MaxFaults` (with faults for ever a poll may always be lost). That a session comes back
  is the user's doing and has no fairness: `RestartingEnds` has it as a premise, for admins.
- `BootFairness` is an assumption of `EventuallyLoaded` only: Docker starts the container it was told to start.
- In `UserFileService`, weak fairness of a goroutine's own steps and strong fairness of `Lock`: Go's mutex hands itself to
  a goroutine that has waited for a millisecond, so none starves.
- Nothing is assumed of clients, the operator, crashes or the clock.

## 4. Theorems

All hold for every value of the constants that satisfies the named `ASSUME`s. `WebProofs` extends two
modules that share no name, and each of its theorems is about one of them.

| Theorem | Property | Invariant behind it |
|---|---|---|
| `TypeCorrect` | `AccountService!TypeOK` | `TypeInv`: at each step a request has the arguments that step reads |
| `LoadedOrOwedAlways` | `LoadedOrOwed` | inductive with the types: each step between `Upsert` and the command stays owing |
| `SpentTokenStaysDead` | `SpentTokenIsDead` | `TokenInv`: a token past `MarkResetTokenUsed` is gone or used, and a mailed token's request never mints again - without that a crash would revive it |
| `OldPasswordStaysCurrent`, `FieldsStayApart`, `AccountServiceKeepsCredentials` | `OldPasswordIsCurrent`, `FieldsChangeOnRequest` (checked by proof only), `KeepsCredentials` | `CopyInv`: outside `mixed` there is one copy of a record and it equals the record; what `Upsert` writes is the copy with one field replaced (`UpdatedOneField`), and every step is a step of `Credentials` or a stutter |
| `SmsTypeCorrect`, `CodesStayApart`, `CodeRedeemedOnce`, `GuessesAreBounded` | `SmsReset` | `SpacingInv` (a request past the cooldown check is alone and later than every stored code by the cooldown) and `CodeInv` (redeemed means used, attempts bounded, used at the limit). The third unexpired code is excluded by `CodeTTL <= 2 * Cooldown`, `TimesAssumption` |
| `ServiceTypeCorrect`, `ServiceKeepsUsersFile`, `WrittenRecordIsFound`, `FileLockIsReleased` | `UserFileService` | `LockInv` (the mutex is held exactly from `Lock` to the return) and `WriteInv` (the temporary file is a prefix of what its writer has to write, computed from the lines `seen`) |
| `RestartTypeCorrect`, `FreshAfterRestartAlways`, `StaleIsOwedAlways` | `DockerRestart` | `StartInv` (a start after a caller's inspect is after its write, so a process of a later start has read it) and `CommandInv` (after a restart command the running process is such a one, after a signal the old one still has it to deal with) |
| `LimiterTypeCorrect`, `RateIsBounded`, `RefusalsHaveACause` | `RateLimiter` | `SpentInv` (what was let through since any pass, and what can be drawn now, make no more than a burst and the inflow), `HeldInv` (who is not slow holds the bucket in the map) and `LackInv` (a bucket lacks no more than what was let through). `StaleAssumption`: a bucket is full again before it can be forgotten |
| `SyncTypeCorrect`, `UnreportedIsAppliedAlways`, `AcknowledgedStaysLast` | `PasswordSync` | `SyncInv`: `QuietInv` (a call that has not been made has no request under way), `OutcomeInv` (a call that ended well has a receiver that carried it out, one in the report has ended) and `CrossInv` (at a receiver outside `crossed` no other change can arrive any more, so one that accepted the last password holds it) |
| `MetaTypeCorrect`, `ToldIsAlwaysKept`, `StoreKeepsMetadata`, `StoreLockIsReleased` | `MetaStore` | `MetaInv`: `ReqInv` (a request under way knows its user and field) and `LockInv` (who saves has the lock, its buffer is the map in memory with its value in it, and a filled temporary file holds that map) and `HolderInv` (nobody else has the lock). `ToldIsKept` is inductive with it; a step of the store is a step of `Metadata` or a stutter |
| `ReloadTypeCorrect`, `RunningIsAlwaysRestarted`, `MailAlwaysHasAServer` | `ConfigReload` | `ReloadInv`: `GivenInv` (a setting that no file has given is as the environment has it), `FreshInv` (outside `stale` each reload carries the file as it is, and each word of a setting it gives is the file's or has still to be stored by such a reload) and `HostInv` (a host once set is never empty again, so the second load finds one) |
| `PageTypeCorrect`, `RefusalsAlwaysHaveACause` | `AccountPage` | `PageInv`: `CopyInv` (a request not in `moved` carries the cookie's copy from the interceptor on, and is sent with that cookie or none) |

Every invariant and action property of the passing runs, and each refinement, is the statement of a theorem. Only
model-checked: liveness (`EveryRequestAnswered`, `EventuallyLoaded`, `EveryCallReturns`, `EveryCallEnds`, `RefusalsEnd`,
`RestartingEnds`), which is out of the prover's reach, and the two violations of section 5. Of `EveryCallReturns` and of
`MetaStore`'s `EveryRequestAnswered` the part that is about states is proved: no path keeps a lock (`FileLockIsReleased`, `StoreLockIsReleased`).

## 5. Findings

- `account_totp_lost`: a password change that read the record before a TOTP change and writes it after puts the old
  secret back, although the user was told that TOTP was enabled or disabled. `FieldsStayApart` proves that only such an overlap, or
  the operator's editor, does this.
- `sms_per_phone`: two requests at once both pass "max 1 SMS per phone per 5 minutes".

Seen while reading or modelling, with no run about it:

- After an admin's restart only a poll answered "running" ends "TinyAuth restarting…". When the session has ended, a tinyauth that is
  up makes every poll a 401 (`session.go:61-69`), the catch of the poll (`AccountPage.tsx:109-111`) sets the status only, and the message and the
  disabled buttons stay until the page is loaded anew. `RestartingEnds` without its premise fails in TLC with this trace.
- `Upsert` appends a user whose line is gone (`user_file_service.go:108`): an update that read the record before the operator deleted
  the line brings the user back, with the password or TOTP secret it was to set. `Credentials` allows this, and only with the record that was read.
- The comment at `csrf.go:18` says "On every response, it sets a non-HttpOnly CSRF cookie"; the code sets one only when the request has
  none, or one that is too short.
- The two reset paths write passwords that the configured policy refuses; only `ChangePassword` validates (`account_service.go:185`), while
  `config.go:127` speaks of "password strength requirements" in general.
- The project's README says the password reset endpoints are rate-limited, and `/password-reset/confirm` has no limiter
  (`handler/public_handler.go:24`); it documents sign-up, for which there is no code.
- `config.go:208` says "env vars remain as fallback": a setting removed from `config.toml` keeps its last value after a reload, until a
  restart. A reload of a broken file changes nothing and answers "Configuration reloaded". Hooks and the SMS provider are built
  at the start only, so a reload does not reach them.
- Two reloads of different files side by side store into the same fields without a lock: a string may keep the pointer of one and the
  length of the other. `RunningIsRestarted` excepts this (`stale`); the next reload of a file that gives the setting, or a restart, mends it.
- The comment at `password_target.go:158` announces the resolution of `$` references, which the line after it does not do. The `timeout` of `[sms]` is
  read and not used (`sms.go:158` is 15 seconds).
- A poll that the old tinyauth process answers ends the page's restart display early; the `finally` blocks show tinyauth as running
  also after a failed request; a failed `load()` makes the page vanish, and two `load()` calls may answer out of order.

## 6. Plan

Modelled in this order: account operations, SMS codes, users file, Docker restart, rate limiter (each with its theorems), then
password hooks and targets, the metadata store, the configuration and the account page, with their theorems. What is left:

- `PasswordSync` composed with `AccountService`, so that the order of the goroutines follows from the order of the requests;
- the other pages, if they get state of their own; `Delete` and `SetUserMeta`, if code starts to call them.

## 7. Not modelled

`UserFileService.Delete` and `SetUserMeta` (never called), `TotpSetup`, `Profile`, `Status` and the look-ups (they only read), mail, SMS and
webhook templates, the constructors of the SMS provider, `parseCSV`, the audit log (nobody reads it), security headers,
static files, the reset page and the contexts (each makes one request and shows its answer), layout, theme
and translations, the wiring in `main.go` apart from its order and routes. A power failure of the machine (no file is synced) and
two sidecars on one volume are outside all models.
