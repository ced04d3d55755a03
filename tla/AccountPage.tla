---------------------------- MODULE AccountPage -----------------------------
(***************************************************************************)
(* The account page in the browser and what its requests go through: the   *)
(* CSRF cookie (middleware/csrf.go), the session check, the handlers that  *)
(* restart tinyauth, and the page's polling of tinyauth's health while it  *)
(* shows a restart.  Requests and answers overtake each other, cookies     *)
(* change under the page, and requests get lost.                           *)
(***************************************************************************)
EXTENDS Integers

CONSTANTS
  Slots,     \* the requests the page has under way at once
  Tokens,    \* CSRF tokens
  Nil,      \* no cookie, no header, no answer, a free slot
  MaxFaults  \* bound on lost cookies, sessions and requests, and on Docker errors

Posts == {"change", "totp", "restart"}
Kinds == Posts \cup {"poll"}
Answers == {"ok", "running", "error", "refused"}

ASSUME PageAssumption == Nil \notin Tokens \cup Answers /\ Tokens # {} /\ MaxFaults \in Nat

VARIABLES
  admin,       \* is the user an admin?
  jar,         \* the csrf_token cookie in the browser
  slot,        \* each request: what it is, where it is, what it carries
  tinyauth,    \* "up", "starting" (no answers yet) or "stopped"
  session,     \* does tinyauth know the browser's session, and its user?
  restarting,  \* state of the page; the status text it shows is left out
  changing,    \* changingPassword
  moved,       \* requests whose cookie changed since they read it
  faults

page == <<restarting, changing>>
pageVars == <<admin, jar, slot, tinyauth, session, page, moved, faults>>

Free == [kind |-> Nil, stage |-> "free", header |-> Nil, cookie |-> Nil,
         set |-> Nil, answer |-> Nil]

\* Tokens are alike: a cookie that is there may be any of them.
PageInit ==
  /\ admin \in BOOLEAN
  /\ jar \in {Nil, CHOOSE k \in Tokens : TRUE}
  /\ slot = [s \in Slots |-> Free]
  /\ tinyauth = "up" /\ session = TRUE
  /\ restarting = FALSE /\ changing = FALSE
  /\ moved = {} /\ faults = 0

At(s, stage) == slot[s].stage = stage
Becomes(s, q) == slot' = [slot EXCEPT ![s] = q]

-----------------------------------------------------------------------------
(* AccountPage.tsx: clicks, and the interval that polls *)

\* api.post, api.get: the interceptor copies the cookie into the header.
Call(s, kind) ==
  /\ At(s, "free")
  /\ Becomes(s, [Free EXCEPT !.kind = kind, !.stage = "intercepted", !.header = jar])
  /\ UNCHANGED <<admin, jar, tinyauth, session, moved, faults>>

ClickChange(s) ==
  /\ ~changing
  /\ changing' = TRUE /\ restarting' = TRUE
  /\ Call(s, "change")

\* The buttons that enable or disable TOTP, and the admin's that restarts tinyauth.
ClickRestarting(s) ==
  /\ ~restarting
  /\ restarting' = TRUE /\ UNCHANGED changing
  /\ Call(s, "totp") \/ (admin /\ Call(s, "restart"))

\* The interval of the effect on restarting.
Poll(s) == restarting /\ Call(s, "poll") /\ UNCHANGED page

\* The browser sends the request, with the cookie the jar has now.
Send(s) ==
  /\ At(s, "intercepted")
  /\ Becomes(s, [slot[s] EXCEPT !.stage = "sent", !.cookie = jar])
  /\ UNCHANGED <<admin, jar, tinyauth, session, page, moved, faults>>

-----------------------------------------------------------------------------
(* The sidecar *)

\* Mutant of Answer: no c.Abort() or return after it.
Answer_GoesOn(s, a) == Becomes(s, [slot[s] EXCEPT !.answer = a])

Answer(s, a) == Becomes(s, [slot[s] EXCEPT !.stage = "served", !.answer = a])
ToStage(s, stage) == Becomes(s, [slot[s] EXCEPT !.stage = stage])

\* Mutant of Kept: a cookie must be longer than the tokens are.
Kept_TooLong(cookie) == FALSE

\* A cookie of the right length is kept, otherwise there is a new token.
Kept(cookie) == cookie # Nil

\* A new token is none that anybody has a copy of.  Who is let through needs
\* header and cookie no more.
CSRFMiddleware(s) ==
  /\ At(s, "sent")
  /\ LET q == slot[s]
         post == q.kind \in Posts
         Passes(set) == Becomes(s, [Free EXCEPT !.kind = q.kind, !.stage = "session", !.set = set])
     IN \/ /\ Kept(q.cookie)
           /\ IF post /\ q.header # q.cookie THEN Answer(s, "refused") ELSE Passes(Nil)
        \/ /\ ~Kept(q.cookie)
           /\ \E k \in Tokens \ {q.header, q.cookie} :
                IF post
                THEN Becomes(s, [q EXCEPT !.stage = "served", !.answer = "refused", !.set = k])
                ELSE Passes(k)
  /\ UNCHANGED <<admin, jar, tinyauth, session, page, moved, faults>>

\* The user is "unauthorized" when tinyauth does not answer, and when it answers
\* without a user: the session has expired or the user is gone.
SessionMiddleware(s) ==
  /\ At(s, "session")
  /\ IF tinyauth = "up" /\ session THEN ToStage(s, "handler") ELSE Answer(s, "error")
  /\ UNCHANGED <<admin, jar, tinyauth, session, page, moved, faults>>

\* TinyauthHealth looks whether the container runs, not whether it answers, and
\* only for an admin.
TinyauthHealth(s) ==
  /\ At(s, "handler") /\ slot[s].kind = "poll"
  /\ \/ ~admin /\ Answer(s, "error") /\ UNCHANGED faults
     \/ admin /\ Answer(s, IF tinyauth = "stopped" THEN "ok" ELSE "running") /\ UNCHANGED faults
     \/ admin /\ Answer(s, "ok") /\ faults < MaxFaults /\ faults' = faults + 1
  /\ UNCHANGED <<admin, jar, tinyauth, session, page, moved>>

\* The handlers that restart tinyauth: they refuse, their restart command fails
\* (which only RestartTinyauth reports), or it stops tinyauth.
Handle(s) ==
  /\ At(s, "handler") /\ slot[s].kind \in Posts
  /\ \/ Answer(s, "error") /\ UNCHANGED tinyauth
     \/ slot[s].kind # "restart" /\ Answer(s, "ok") /\ UNCHANGED tinyauth
     \/ ToStage(s, "waiting") /\ tinyauth' = "stopped"
  /\ UNCHANGED <<admin, jar, session, page, moved, faults>>

\* tinyauth is healthy, or the time is up.
Restarted(s) ==
  /\ At(s, "waiting")
  /\ \/ Answer(s, "ok")
     \/ slot[s].kind = "restart" /\ Answer(s, "error")
  /\ UNCHANGED <<admin, jar, tinyauth, session, page, moved, faults>>

Serve(s) == CSRFMiddleware(s) \/ SessionMiddleware(s) \/ TinyauthHealth(s) \/ Handle(s) \/ Restarted(s)

-----------------------------------------------------------------------------
(* Answers, and what else happens *)

Received(s) ==
  /\ At(s, "served")
  /\ Becomes(s, Free)
  /\ jar' = IF slot[s].set = Nil THEN jar ELSE slot[s].set
  /\ moved' = (IF jar' = jar THEN moved ELSE moved \cup {q \in Slots : At(q, "intercepted")}) \ {s}
  /\ UNCHANGED <<admin, tinyauth, session, faults>>

\* The finally blocks of the buttons for passwords and TOTP.
DoneChange(s) ==
  /\ slot[s].kind \in {"change", "totp"} /\ Received(s)
  /\ restarting' = FALSE
  /\ changing' = (changing /\ slot[s].kind # "change")

\* The restart button is given up on an error; otherwise the poll ends it.
DoneRestart(s) ==
  /\ slot[s].kind = "restart" /\ Received(s)
  /\ restarting' = (restarting /\ slot[s].answer = "ok")
  /\ UNCHANGED changing

\* Mutant of DonePoll: only the status is shown.
DonePoll_StatusOnly(s) ==
  /\ slot[s].kind = "poll" /\ Received(s)
  /\ UNCHANGED page

\* A poll: running ends the restart; an error only changes the status shown.
DonePoll(s) ==
  /\ slot[s].kind = "poll" /\ Received(s)
  /\ restarting' = (restarting /\ slot[s].answer # "running")
  /\ UNCHANGED changing

Fault == faults < MaxFaults /\ faults' = faults + 1

\* The request or its answer is lost; axios reports a network error.
Lose(s) ==
  /\ Fault
  /\ slot[s].stage \notin {"free", "served"}
  /\ Becomes(s, [slot[s] EXCEPT !.stage = "served", !.answer = "error", !.set = Nil])
  /\ UNCHANGED <<admin, jar, tinyauth, session, page, moved>>

\* The cookie expires, is cleared, or another tab gets a new one.
JarChanges ==
  /\ Fault
  /\ jar' \in (Tokens \cup {Nil}) \ {jar}
  /\ moved' = moved \cup {s \in Slots : At(s, "intercepted")}
  /\ UNCHANGED <<admin, slot, tinyauth, session, page>>

\* The session expires, the user logs out elsewhere, or tinyauth has lost either.
SessionEnds ==
  /\ Fault
  /\ session /\ session' = FALSE
  /\ UNCHANGED <<admin, jar, slot, tinyauth, page, moved>>

\* The user logs in again, in another tab: this page offers no way to.
SessionReturns ==
  /\ ~session /\ session' = TRUE
  /\ UNCHANGED <<admin, jar, slot, tinyauth, page, moved, faults>>

TinyauthStops ==
  /\ Fault
  /\ tinyauth' = "stopped"
  /\ UNCHANGED <<admin, jar, slot, session, page, moved>>

TinyauthStarts ==
  /\ \/ tinyauth = "stopped" /\ tinyauth' = "starting"
     \/ tinyauth = "starting" /\ tinyauth' = "up"
  /\ UNCHANGED <<admin, jar, slot, session, page, moved, faults>>

PageNext ==
  \/ \E s \in Slots :
       \/ ClickChange(s) \/ ClickRestarting(s) \/ Poll(s) \/ Send(s) \/ Serve(s)
       \/ DoneChange(s) \/ DoneRestart(s) \/ DonePoll(s) \/ Lose(s)
  \/ JarChanges \/ SessionEnds \/ SessionReturns \/ TinyauthStops \/ TinyauthStarts

\* The browser and the server go on, and Docker starts tinyauth; nothing is assumed of the user.
Fairness ==
  /\ WF_pageVars(TinyauthStarts) /\ WF_pageVars(\E s \in Slots : Poll(s))
  /\ \A s \in Slots :
       WF_pageVars(Send(s) \/ Serve(s) \/ DoneChange(s) \/ DoneRestart(s) \/ DonePoll(s))

PageSpec == PageInit /\ [][PageNext]_pageVars /\ Fairness

-----------------------------------------------------------------------------
(* Properties *)

\* Every variable holds a value of its type, and only a request that has been
\* dealt with has an answer.
PageTypeOK ==
  /\ admin \in BOOLEAN /\ jar \in Tokens \cup {Nil}
  /\ slot \in [Slots ->
       [kind : Kinds \cup {Nil}, header : Tokens \cup {Nil}, cookie : Tokens \cup {Nil},
        stage : {"free", "intercepted", "sent", "session", "handler", "waiting", "served"},
        set : Tokens \cup {Nil}, answer : Answers \cup {Nil}]]
  /\ \A s \in Slots : slot[s].answer # Nil <=> slot[s].stage = "served"
  /\ tinyauth \in {"up", "starting", "stopped"} /\ session \in BOOLEAN
  /\ restarting \in BOOLEAN /\ changing \in BOOLEAN
  /\ moved \subseteq Slots /\ faults \in 0 .. MaxFaults

\* A form is refused for its CSRF token only when the browser had no cookie to
\* send, or the cookie changed between the interceptor and the sending.
\* Code: one token for cookie and header, kept while the cookie is there.
FormRefusedForCause ==
  \A s \in Slots :
    slot[s].answer = "refused" => slot[s].cookie = Nil \/ s \in moved

\* Such refusals come to an end: parallel answers that set new cookies settle on
\* one, and a user who tries again gets through.
RefusalsEnd == <>[](\A s \in Slots : slot[s].answer # "refused")

\* The page does not show a restart for ever: once faults are over and tinyauth
\* starts when told to, the buttons are usable again, provided that the user of an
\* admin's page has a session in the end.
\* Code: finally for passwords and TOTP, the poll and the catch for the restart.
\* Without a session a tinyauth that is up refuses each poll, and the catch sets
\* the status only: the page of an admin then shows the restart for ever.
RestartingEnds == <>[](session \/ ~admin) => (restarting ~> ~restarting)
=============================================================================
