------------------------------ MODULE SmsReset ------------------------------
(***************************************************************************)
(* Password reset by SMS: the codes that RequestSMSReset stores and sends  *)
(* and VerifySMSResetCode takes back (internal/service/account_service.go, *)
(* internal/store/toml_store.go).  Module AccountService continues where a *)
(* code is accepted; here a confirmation ends at that point.               *)
(*                                                                         *)
(* A request for a code is served once, and the code it makes carries its  *)
(* name.  Clients confirm as often as they like.  A guess is the code of   *)
(* some request, so that comparing digits is comparing names; the one case *)
(* in a million of two equal codes is left out.                            *)
(***************************************************************************)
EXTENDS Integers

CONSTANTS
  Users,       \* user names
  Phones,      \* phone numbers
  Asks,        \* requests for a code
  Clients,     \* goroutines that serve confirmations, one after the other
  None,        \* no phone, no user, no code, a wrong guess
  CodeTTL,     \* life of a code: 10 minutes
  Cooldown,    \* time between two codes: 5 minutes
  MaxAttempts, \* wrong guesses a code survives, plus one: 3
  Movable,     \* users who change their phone number
  MaxTime      \* bound on the clock

ASSUME TimesAssumption ==
  /\ CodeTTL \in Nat /\ Cooldown \in Nat /\ MaxTime \in Nat /\ MaxAttempts \in Nat \ {0}
  /\ Cooldown > 0 /\ CodeTTL <= 2 * Cooldown
ASSUME NamesAssumption ==
  /\ Movable \subseteq Users
  /\ None \notin Users \cup Phones \cup Asks
  /\ None \notin [user : Users, exp : Int, used : BOOLEAN, attempts : Nat]
  /\ Asks \cap Clients = {}

VARIABLES
  now,      \* Unix time
  phone,    \* Store.users[u].Phone, in memory
  saved,    \* the same in users.toml
  codes,    \* Store.smsCodes, by the request that made the code
  sent,     \* the codes the SMS provider accepted
  redeemed, \* how often each code was accepted
  pc,       \* where each request stands
  req,      \* its arguments and local variables
  raced     \* users two of whose requests passed the cooldown check before either stored a code

userVars == <<phone, saved>>
codeVars == <<codes, sent, redeemed>>
vars == <<now, userVars, codeVars, pc, req, raced>>

Code == [user : Users, exp : Int, used : BOOLEAN, attempts : Nat]
Local == [phone : Phones \cup {None}, user : Users \cup {None}, exp : Int, guess : Asks \cup {None}]
NoLocal == [phone |-> None, user |-> None, exp |-> 0, guess |-> None]
AskSteps == {"idle", "lookup", "cooldown", "generate", "store", "send", "ok", "lost"}
ClientSteps == {"idle", "lookup", "verify"}

Init ==
  /\ now = CodeTTL
  /\ phone \in [Users -> Phones \cup {None}] /\ saved = phone
  /\ codes = [a \in Asks |-> None]
  /\ sent = {} /\ redeemed = [a \in Asks |-> 0]
  /\ pc = [r \in Asks \cup Clients |-> "idle"]
  /\ req = [r \in Asks \cup Clients |-> NoLocal]
  /\ raced = {}

-----------------------------------------------------------------------------
(* Helpers *)

At(r, s) == pc[r] = s
Goto(r, s) == pc' = [pc EXCEPT ![r] = s]
Move(r, s, l) == Goto(r, s) /\ req' = [req EXCEPT ![r] = l]

\* FindUserByPhone ranges over a map: any user with that phone.
OwnersOf(p) == {u \in Users : phone[u] = p}

Stored(u) == {a \in Asks : codes[a] # None /\ codes[a].user = u}
CreatedAt(c) == c.exp - CodeTTL

\* Mutant of HasRecent: codes already used do not count.
HasRecent_Unused(u) ==
  \E a \in Stored(u) : ~codes[a].used /\ CreatedAt(codes[a]) > now - Cooldown

\* HasRecentSMSCode: the creation time is computed back from the expiry.
HasRecent(u) == \E a \in Stored(u) : CreatedAt(codes[a]) > now - Cooldown

\* The codes VerifySMSResetCode chooses from, and its choice: the newest, any
\* of them among equals.
Live(u) == {a \in Stored(u) : ~codes[a].used /\ codes[a].exp > now}
Newest(u) == {a \in Live(u) : codes[a].exp > 0 /\ \A b \in Live(u) : codes[b].exp <= codes[a].exp}

\* Requests past the cooldown check with their code not stored yet.
Passed(u) == {a \in Asks : pc[a] \in {"generate", "store"} /\ req[a].user = u}

-----------------------------------------------------------------------------
(* POST /auth/forgot-password-sms: the answer is "ok" whatever happens. *)

Ask(a) ==
  /\ At(a, "idle")
  /\ \E p \in Phones : Move(a, "lookup", [NoLocal EXCEPT !.phone = p])
  /\ UNCHANGED <<now, userVars, codeVars, raced>>

\* store.FindUserByPhone
AskLookup(a) ==
  /\ At(a, "lookup")
  /\ LET owners == OwnersOf(req[a].phone)
     IN \/ \E u \in owners : Move(a, "cooldown", [req[a] EXCEPT !.user = u])
        \/ owners = {} /\ Move(a, "ok", NoLocal)
  /\ UNCHANGED <<now, userVars, codeVars, raced>>

\* store.HasRecentSMSCode(username, 5*time.Minute)
AskCooldown(a) ==
  /\ At(a, "cooldown")
  /\ LET u == req[a].user
     IN \/ HasRecent(u) /\ Move(a, "ok", NoLocal) /\ UNCHANGED raced
        \/ /\ ~HasRecent(u)
           /\ Goto(a, "generate") /\ UNCHANGED req
           /\ raced' = IF Passed(u) = {} THEN raced ELSE raced \cup {u}
  /\ UNCHANGED <<now, userVars, codeVars>>

\* generateNumericCode and the expiry time
AskGenerate(a) ==
  /\ At(a, "generate")
  /\ Move(a, "store", [req[a] EXCEPT !.exp = now + CodeTTL])
  /\ UNCHANGED <<now, userVars, codeVars, raced>>

\* Mutant of AskStore: the code of a request for an unknown phone.
AskStore_NoUser(a) ==
  /\ At(a, "store")
  /\ codes' = [codes EXCEPT ![a] =
       [user |-> None, exp |-> req[a].exp, used |-> FALSE, attempts |-> 0]]
  /\ Goto(a, "send")
  /\ UNCHANGED <<now, userVars, sent, redeemed, req, raced>>

\* store.StoreSMSResetCode
AskStore(a) ==
  /\ At(a, "store")
  /\ codes' = [codes EXCEPT ![a] =
       [user |-> req[a].user, exp |-> req[a].exp, used |-> FALSE, attempts |-> 0]]
  /\ Goto(a, "send")
  /\ UNCHANGED <<now, userVars, sent, redeemed, req, raced>>

\* The webhook of the SMS provider: nothing leaves when a template fails; otherwise
\* the provider takes the message or not, which an error (a status of 400 or more,
\* no answer in 15 seconds) does not tell.
SendSMS(a) == sent' \in {sent, sent \cup {a}}

\* sms.SendSMS; the code stays stored when it fails.
AskSend(a) ==
  /\ At(a, "send")
  /\ SendSMS(a)
  /\ Move(a, "ok", [NoLocal EXCEPT !.phone = req[a].phone])
  /\ UNCHANGED <<now, userVars, codes, redeemed, raced>>

-----------------------------------------------------------------------------
(* POST /auth/reset-password-sms, as far as VerifySMSResetCode. *)

Confirm(c) ==
  /\ At(c, "idle")
  /\ \E p \in Phones, g \in sent \cup {None} :
       Move(c, "lookup", [NoLocal EXCEPT !.phone = p, !.guess = g])
  /\ UNCHANGED <<now, userVars, codeVars, raced>>

\* FindUserByPhone, outside the lock of the codes
ConfirmLookup(c) ==
  /\ At(c, "lookup")
  /\ LET owners == OwnersOf(req[c].phone)
     IN \/ \E u \in owners : Move(c, "verify", [req[c] EXCEPT !.user = u])
        \/ owners = {} /\ Move(c, "idle", NoLocal)
  /\ UNCHANGED <<now, userVars, codeVars, raced>>

\* Mutants of Accept and Refuse: the code is not marked; one guess too many.
Accept_Unmarked(a) == UNCHANGED codes /\ redeemed' = [redeemed EXCEPT ![a] = @ + 1]
Refuse_OneMore(a) ==
  /\ codes' = [codes EXCEPT ![a].attempts = @ + 1,
                            ![a].used = codes[a].attempts + 1 > MaxAttempts]
  /\ UNCHANGED redeemed

\* What VerifySMSResetCode does to the code it picked.
Accept(a) ==
  /\ codes' = [codes EXCEPT ![a].used = TRUE]
  /\ redeemed' = [redeemed EXCEPT ![a] = @ + 1]
Refuse(a) ==
  /\ codes' = [codes EXCEPT ![a].attempts = @ + 1,
                            ![a].used = codes[a].attempts + 1 >= MaxAttempts]
  /\ UNCHANGED redeemed

\* The locked part of VerifySMSResetCode.
ConfirmVerify(c) ==
  /\ At(c, "verify")
  /\ LET newest == Newest(req[c].user)
     IN \/ newest = {} /\ UNCHANGED <<codes, redeemed>>
        \/ \E a \in newest : IF req[c].guess = a THEN Accept(a) ELSE Refuse(a)
  /\ Move(c, "idle", NoLocal)
  /\ UNCHANGED <<now, userVars, sent, raced>>

-----------------------------------------------------------------------------
(* The rest of the world. *)

\* POST /account/phone: the map changes even when users.toml cannot be saved.
SetPhone(u) ==
  /\ u \in Movable
  /\ \E p \in Phones \cup {None} : phone' = [phone EXCEPT ![u] = p]
  /\ saved' \in {saved, phone'}
  /\ UNCHANGED <<now, codeVars, pc, req, raced>>

\* The sidecar stops and starts: the codes are gone, requests are cut off.
Crash ==
  /\ codes' = [a \in Asks |-> None]
  /\ phone' = saved
  /\ pc' = [r \in Asks \cup Clients |->
              IF r \in Clients THEN "idle"
              ELSE IF pc[r] \in {"idle", "ok"} THEN pc[r] ELSE "lost"]
  /\ req' = [r \in Asks \cup Clients |-> IF r \in Asks /\ pc[r] = "ok" THEN req[r] ELSE NoLocal]
  /\ UNCHANGED <<now, saved, sent, redeemed, raced>>

Tick ==
  /\ now < MaxTime
  /\ now' = now + 1
  /\ UNCHANGED <<userVars, codeVars, pc, req, raced>>

Next ==
  \/ \E a \in Asks : Ask(a) \/ AskLookup(a) \/ AskCooldown(a) \/ AskGenerate(a)
                     \/ AskStore(a) \/ AskSend(a)
  \/ \E c \in Clients : Confirm(c) \/ ConfirmLookup(c) \/ ConfirmVerify(c)
  \/ \E u \in Users : SetPhone(u)
  \/ Crash \/ Tick

Spec == Init /\ [][Next]_vars

-----------------------------------------------------------------------------
(* Properties *)

\* Every variable holds a value of its type.
TypeOK ==
  /\ now \in Nat
  /\ phone \in [Users -> Phones \cup {None}] /\ saved \in [Users -> Phones \cup {None}]
  /\ codes \in [Asks -> Code \cup {None}]
  /\ sent \subseteq Asks /\ redeemed \in [Asks -> Nat]
  /\ pc \in [Asks \cup Clients -> AskSteps \cup ClientSteps]
  /\ req \in [Asks \cup Clients -> Local]
  /\ raced \subseteq Users

\* Two codes of a user are made at least the cooldown apart, unless their
\* requests passed the cooldown check side by side.
\* Code: HasRecentSMSCode ... StoreSMSResetCode, two locked sections.
CodesApart ==
  \A u \in Users \ raced : \A a, b \in Stored(u) :
    a # b => \/ CreatedAt(codes[a]) >= CreatedAt(codes[b]) + Cooldown
             \/ CreatedAt(codes[b]) >= CreatedAt(codes[a]) + Cooldown

\* Within the life of a code, no user has more than two codes to guess at and no
\* code takes more than MaxAttempts guesses, whatever the order of requests,
\* guesses, clock and changes of number, unless requests raced past the cooldown.
\* Code: the attempts counter of VerifySMSResetCode, and the two durations.
Unexpired(u) == {a \in Stored(u) : codes[a].exp > now}
GuessBudget ==
  \A u \in Users \ raced :
    /\ \A a, b, c \in Unexpired(u) : a = b \/ b = c \/ a = c
    /\ \A a \in Stored(u) : codes[a].attempts <= MaxAttempts

\* No code is accepted twice, by whichever clients at once, also when its phone
\* number moves between users and back while they confirm.
\* Code: VerifySMSResetCode tests and sets Used under one lock.
RedeemedOnce == \A a \in Asks : redeemed[a] <= 1

\* "Cooldown: max 1 SMS per phone per 5 minutes" (account_service.go), in terms of
\* the times the codes in those SMS were made.
OneSmsPerPhone ==
  \A a, b \in sent : a # b /\ codes[a] # None /\ codes[b] # None
                     /\ req[a].phone = req[b].phone =>
    \/ CreatedAt(codes[a]) >= CreatedAt(codes[b]) + Cooldown
    \/ CreatedAt(codes[b]) >= CreatedAt(codes[a]) + Cooldown
=============================================================================
