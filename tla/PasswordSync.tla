---------------------------- MODULE PasswordSync ----------------------------
(***************************************************************************)
(* What leaves the sidecar when a user's password changes: after the users *)
(* file is written and tinyauth restarted, goroutines nobody waits for     *)
(* call the password targets (in parallel, their errors collected) and the *)
(* password hooks.  A call may be refused, get lost or time out, and a     *)
(* request that timed out may still arrive.                                *)
(*                                                                         *)
(* All changes are of one user; a change stands for the password it sets.  *)
(***************************************************************************)
EXTENDS Integers

CONSTANTS
  Changes,   \* the password changes and resets of the user
  Targets,   \* PASSWORD_TARGETS
  Hooks,     \* [[password_hooks]] of config.toml
  Roles,     \* the roles users.toml may give the user
  User,      \* what else filters look at: the user's domain and address
  Filters,   \* filter_domains, filter_roles and filter_users of each hook
  Timeouts,  \* the timeout each hook has in config.toml, 0 when it has none
  None       \* no password yet

Receivers == Targets \cup Hooks

ASSUME ReceiversAssumption == Targets \cap Hooks = {} /\ None \notin Changes
ASSUME FilterAssumption ==
  /\ DOMAIN User = {"domain", "email"}
  /\ \A h \in Hooks : DOMAIN Filters[h] = {"domain", "email", "role"}
ASSUME TimeoutAssumption == \A h \in Hooks : Timeouts[h] \in Int

VARIABLES
  last,      \* the change whose password the users file has
  pc,        \* where the request of each change stands
  call,      \* the goroutine of each change for each receiver
  sync,      \* the goroutine that waits for all targets
  errs,      \* the errors it collects: the targets they are of
  net,       \* the HTTP requests on their way
  held,      \* the password each receiver has
  applied,   \* the requests that a receiver has carried out
  crossed    \* receivers that an older change had not settled with at the last write

calls == <<call, sync, errs>>
outside == <<net, held, applied>>
vars == <<last, pc, calls, outside, crossed>>

Live == {"ready", "waiting", "accepted", "refused"}
CallStates == Live \cup {"none", "skipped", "ok", "failed", "killed"}

Init ==
  /\ last = None /\ crossed = {}
  /\ pc = [c \in Changes |-> "idle"]
  /\ call = [c \in Changes |-> [x \in Receivers |-> "none"]]
  /\ sync = [c \in Changes |-> "none"]
  /\ errs = [c \in Changes |-> {}]
  /\ net = {} /\ applied = {}
  /\ held = [x \in Receivers |-> None]

-----------------------------------------------------------------------------
(* The request: Upsert, RestartTinyauth, the goroutines, the answer. *)

\* Change c may still put its password into receiver x.
Unsettled(c, x) == pc[c] = "restart" \/ call[c][x] = "ready" \/ <<c, x>> \in net

Write(c) ==
  /\ pc[c] = "idle"
  /\ pc' = [pc EXCEPT ![c] = "restart"]
  /\ last' = c
  /\ crossed' = {x \in Receivers : \E d \in Changes \ {c} : Unsettled(d, x)}
  /\ UNCHANGED <<calls, outside>>

\* Mutant of WriteFails: the error of Upsert is not returned.
WriteFails_GoesOn(c) ==
  /\ pc[c] = "idle"
  /\ pc' = [pc EXCEPT ![c] = "restart"]
  /\ UNCHANGED <<last, calls, outside, crossed>>

\* Upsert returns an error, and so does the request.
WriteFails(c) ==
  /\ pc[c] = "idle"
  /\ pc' = [pc EXCEPT ![c] = "failed"]
  /\ UNCHANGED <<last, calls, outside, crossed>>

\* An empty filter matches everything.
matchesFilter(value, filter) == filter = {} \/ value \in filter
Matches(h, role) ==
  /\ matchesFilter(role, Filters[h].role)
  /\ \A a \in {"domain", "email"} : matchesFilter(User[a], Filters[h][a])

\* The restart is over, well or badly: one goroutine for SyncPassword, which
\* starts one for each target, and one for each hook, which ends when a filter
\* of the hook does not match.  The client is answered.
Launch(c) ==
  /\ pc[c] = "restart"
  /\ pc' = [pc EXCEPT ![c] = "answered"]
  /\ \E role \in Roles :
       call' = [call EXCEPT ![c] = [x \in Receivers |->
                  IF x \in Targets \/ Matches(x, role) THEN "ready" ELSE "skipped"]]
  /\ sync' = [sync EXCEPT ![c] = "running"]
  /\ UNCHANGED <<last, errs, outside, crossed>>

-----------------------------------------------------------------------------
(* One call: callPasswordTarget, or OnPasswordChanged of a hook. *)

\* Mutant of HookTimeout: applyWebhookDefaults leaves the time-out alone.
HookTimeout_NoDefault(h) == Timeouts[h]

HookTimeout(h) == IF Timeouts[h] <= 0 THEN 10 ELSE Timeouts[h]

\* An http.Client whose Timeout is not positive waits for ever.
TimesOut(x) == IF x \in Targets THEN TRUE ELSE HookTimeout(x) > 0

Becomes(c, x, s) == call' = [call EXCEPT ![c][x] = s]

\* Mutant of Fail: the errors of hooks are collected as well.
Fail_AllErrors(c, x) ==
  /\ Becomes(c, x, "failed")
  /\ errs' = [errs EXCEPT ![c] = @ \cup {x}]

\* The call ends with an error, which SyncPassword collects under its mutex
\* and which is only logged for a hook.
Fail(c, x) ==
  /\ Becomes(c, x, "failed")
  /\ errs' = IF x \in Targets THEN [errs EXCEPT ![c] = @ \cup {x}] ELSE errs

\* The templates are rendered and the request is sent.
Send(c, x) ==
  /\ call[c][x] = "ready"
  /\ Becomes(c, x, "waiting")
  /\ net' = net \cup {<<c, x>>}
  /\ UNCHANGED <<last, pc, sync, errs, held, applied, crossed>>

\* A template of the URL, the body or a header fails, or they make no request.
CannotSend(c, x) ==
  /\ call[c][x] = "ready"
  /\ Fail(c, x)
  /\ UNCHANGED <<last, pc, sync, outside, crossed>>

\* The receiver carries the request out or refuses it, and answers if its
\* client still listens.
Deliver(c, x) ==
  /\ <<c, x>> \in net
  /\ net' = net \ {<<c, x>>}
  /\ \/ /\ held' = [held EXCEPT ![x] = c]
        /\ applied' = applied \cup {<<c, x>>}
        /\ IF call[c][x] = "waiting" THEN Becomes(c, x, "accepted") ELSE UNCHANGED call
     \/ /\ IF call[c][x] = "waiting" THEN Becomes(c, x, "refused") ELSE UNCHANGED call
        /\ UNCHANGED <<held, applied>>
  /\ UNCHANGED <<last, pc, sync, errs, crossed>>

\* The request never reaches the receiver.
Lose(c, x) ==
  /\ net' = net \ {<<c, x>>} /\ net' # net
  /\ UNCHANGED <<last, pc, calls, held, applied, crossed>>

\* Mutant of Answered: the status code is not looked at.
Answered_AnyStatus(c, x) ==
  /\ call[c][x] \in {"accepted", "refused"}
  /\ Becomes(c, x, "ok")
  /\ UNCHANGED <<last, pc, sync, errs, outside, crossed>>

\* client.Do returns a response; a status of 400 or more is an error.  Receivers
\* are assumed to answer that, and nothing else, when they do not apply a change.
Answered(c, x) ==
  /\ \/ call[c][x] = "accepted" /\ Becomes(c, x, "ok") /\ UNCHANGED errs
     \/ call[c][x] = "refused" /\ Fail(c, x)
  /\ UNCHANGED <<last, pc, sync, outside, crossed>>

\* client.Do returns an error: no connection, or the time is up.  The request
\* or its answer may be anywhere.
Timeout(c, x) ==
  /\ call[c][x] \in {"waiting", "accepted", "refused"} /\ TimesOut(x)
  /\ Fail(c, x)
  /\ UNCHANGED <<last, pc, sync, outside, crossed>>

\* Mutant of Return: no wg.Wait.
Return_AtOnce(c) ==
  /\ sync[c] = "running"
  /\ sync' = [sync EXCEPT ![c] = "returned"]
  /\ UNCHANGED <<last, pc, call, errs, outside, crossed>>

\* wg.Wait, and SyncPassword returns the errors.
Return(c) ==
  /\ sync[c] = "running" /\ \A t \in Targets : call[c][t] \notin Live
  /\ sync' = [sync EXCEPT ![c] = "returned"]
  /\ UNCHANGED <<last, pc, call, errs, outside, crossed>>

\* The sidecar stops: its goroutines are gone, what was sent is not.
Crash ==
  /\ pc' = [c \in Changes |-> IF pc[c] = "restart" THEN "lost" ELSE pc[c]]
  /\ call' = [c \in Changes |-> [x \in Receivers |->
                IF call[c][x] \in Live THEN "killed" ELSE call[c][x]]]
  /\ sync' = [c \in Changes |-> IF sync[c] = "running" THEN "killed" ELSE sync[c]]
  /\ UNCHANGED <<last, errs, outside, crossed>>

Goroutine(c, x) == Send(c, x) \/ CannotSend(c, x) \/ Answered(c, x) \/ Timeout(c, x)
Next ==
  \/ \E c \in Changes : Write(c) \/ WriteFails(c) \/ Launch(c) \/ Return(c)
  \/ \E c \in Changes, x \in Receivers : Goroutine(c, x) \/ Deliver(c, x) \/ Lose(c, x)
  \/ Crash

\* Goroutines are scheduled and time passes; nothing is assumed of receivers.
Fairness ==
  /\ \A c \in Changes : WF_vars(Return(c)) /\ WF_vars(Launch(c))
  /\ \A c \in Changes, x \in Receivers : WF_vars(Goroutine(c, x))

Spec == Init /\ [][Next]_vars
FairSpec == Spec /\ Fairness

-----------------------------------------------------------------------------
(* Properties *)

\* Every variable holds a value of its type; only targets are reported.
TypeOK ==
  /\ last \in Changes \cup {None} /\ crossed \subseteq Receivers
  /\ pc \in [Changes -> {"idle", "failed", "restart", "answered", "lost"}]
  /\ call \in [Changes -> [Receivers -> CallStates]]
  /\ sync \in [Changes -> {"none", "running", "returned", "killed"}]
  /\ errs \in [Changes -> SUBSET Targets]
  /\ net \subseteq Changes \X Receivers /\ applied \subseteq Changes \X Receivers
  /\ held \in [Receivers -> Changes \cup {None}]

\* A receiver that acknowledged the password the users file has keeps that
\* password, whatever else fails, times out, arrives late or crashes, unless an
\* older change was still under way to it when the users file was written.
\* Code: only a change whose Upsert succeeded calls out, each receiver once,
\* and a status of 400 or more is no acknowledgement.
AcknowledgedIsLast ==
  last # None =>
    \A x \in Receivers \ crossed : call[last][x] = "ok" => held[x] = last

\* When SyncPassword has returned, a target it does not report has carried the
\* change out (a target that refuses says so by its status, see Answered).
\* Code: wg.Wait before the errors are returned.
UnreportedIsApplied ==
  \A c \in Changes, t \in Targets :
    sync[c] = "returned" /\ t \notin errs[c] => <<c, t>> \in applied

\* The goroutines of a change come to an end, whatever the receivers do, so they
\* do not pile up.  Code: the Timeout of each http.Client, a default one included.
EveryCallEnds ==
  \A c \in Changes :
    pc[c] = "answered" ~> /\ sync[c] \in {"returned", "killed"}
                          /\ \A x \in Receivers : call[c][x] \notin Live
=============================================================================
