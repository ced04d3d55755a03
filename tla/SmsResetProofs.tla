--------------------------- MODULE SmsResetProofs ---------------------------
(***************************************************************************)
(* Proofs about SmsReset: the spacing of codes, the guess budget and the   *)
(* single use of a code.  Inv is the inductive invariant; each action has  *)
(* a step in TypeStep, LocalsStep, SpacingStep and CodeStep.               *)
(***************************************************************************)
EXTENDS SmsReset, TLAPS

Threads == Asks \cup Clients

\* At each step the local variables it uses are there.
Locals ==
  /\ \A a \in Asks : pc[a] \in AskSteps
  /\ \A c \in Clients : pc[c] \in ClientSteps
  /\ \A r \in Threads : pc[r] \in {"cooldown", "generate", "store", "verify"} => req[r].user \in Users

\* A request past the cooldown check is alone there, and the codes of its user
\* are a cooldown old, unless requests of that user raced.
SpacingInv ==
  \A u \in Users :
    /\ \A a \in Stored(u) : CreatedAt(codes[a]) <= now
    /\ \A a \in Passed(u) : pc[a] = "store" => req[a].exp <= now + CodeTTL
    /\ u \notin raced => \A a \in Passed(u) :
         /\ \A b \in Passed(u) : b = a
         /\ \A b \in Stored(u) : CreatedAt(codes[b]) + Cooldown <= now
         /\ pc[a] = "store" => \A b \in Stored(u) : codes[b].exp + Cooldown <= req[a].exp

\* A code is stored by its request alone, once; a used or lost one stays so.
CodeInv ==
  \A a \in Asks :
    /\ codes[a] # None \/ redeemed[a] > 0 => pc[a] \in {"send", "ok", "lost"}
    /\ redeemed[a] <= 1
    /\ codes[a] # None =>
         /\ redeemed[a] = 1 => codes[a].used
         /\ codes[a].attempts <= MaxAttempts
         /\ ~codes[a].used => codes[a].attempts < MaxAttempts

Inv == TypeOK /\ Locals /\ CodesApart /\ SpacingInv /\ CodeInv

-----------------------------------------------------------------------------
(* Types *)

\* The code VerifySMSResetCode picks is a stored, unused code of the user.
LEMMA NewestIsLive ==
  ASSUME NEW u \in Users, NEW a \in Newest(u)
  PROVE  a \in Asks /\ codes[a] # None /\ codes[a].user = u /\ ~codes[a].used /\ codes[a].exp > now
  BY DEF Newest, Live, Stored

LEMMA InitInv == Init => Inv
<1> SUFFICES ASSUME Init PROVE Inv
    OBVIOUS
<1>1. TypeOK
  BY TimesAssumption DEF Init, TypeOK, TimesAssumption, Local, NoLocal, AskSteps, ClientSteps
<1>2. Locals
  BY DEF Init, Locals, Threads, AskSteps, ClientSteps
<1>3. \A u : Stored(u) = {} /\ Passed(u) = {}
  BY DEF Init, Stored, Passed
<1>4. CodesApart /\ SpacingInv
  BY <1>3 DEF CodesApart, SpacingInv
<1>5. CodeInv
  BY DEF Init, CodeInv
<1> QED BY <1>1, <1>2, <1>4, <1>5 DEF Inv

\* Writing a field of a request's local variables, or of a code, keeps the types.
LEMMA LocalType ==
  /\ NoLocal \in Local
  /\ \A l \in Local :
       /\ \A p \in Phones \cup {None} : [l EXCEPT !.phone = p] \in Local
       /\ \A u \in Users \cup {None} : [l EXCEPT !.user = u] \in Local
       /\ \A e \in Int : [l EXCEPT !.exp = e] \in Local
       /\ \A p \in Phones \cup {None}, g \in Asks \cup {None} :
            [l EXCEPT !.phone = p, !.guess = g] \in Local
<1>1. NoLocal \in Local
  BY DEF Local, NoLocal
<1>2. ASSUME NEW l \in Local
      PROVE  /\ \A p \in Phones \cup {None} : [l EXCEPT !.phone = p] \in Local
             /\ \A u \in Users \cup {None} : [l EXCEPT !.user = u] \in Local
             /\ \A e \in Int : [l EXCEPT !.exp = e] \in Local
             /\ \A p \in Phones \cup {None}, g \in Asks \cup {None} :
                  [l EXCEPT !.phone = p, !.guess = g] \in Local
  BY DEF Local
<1> QED BY <1>1, <1>2

LEMMA CodesType ==
  ASSUME codes \in [Asks -> Code \cup {None}], NEW a \in Asks, codes[a] # None,
         NEW n \in Nat, NEW b \in BOOLEAN
  PROVE  /\ [codes EXCEPT ![a].used = b] \in [Asks -> Code \cup {None}]
         /\ [codes EXCEPT ![a].attempts = n, ![a].used = b] \in [Asks -> Code \cup {None}]
         /\ [codes EXCEPT ![a].used = b][a] \in Code
         /\ [codes EXCEPT ![a].attempts = n, ![a].used = b][a] \in Code
  BY DEF Code

LEMMA TypeStep == TypeOK /\ Locals /\ [Next]_vars => TypeOK'
<1> SUFFICES ASSUME TypeOK, Locals, [Next]_vars PROVE TypeOK'
    OBVIOUS
<1> USE DEF TypeOK, At, Goto, Move, AskSteps, ClientSteps, userVars, codeVars
<1>1. ASSUME NEW a \in Asks, Ask(a) PROVE TypeOK'
  <2>1. PICK p \in Phones : Move(a, "lookup", [NoLocal EXCEPT !.phone = p])
    BY <1>1 DEF Ask
  <2>2. [NoLocal EXCEPT !.phone = p] \in Local
    BY LocalType
  <2> QED BY <1>1, <2>1, <2>2 DEF Ask
<1>2. ASSUME NEW a \in Asks, AskLookup(a) PROVE TypeOK'
  <2>1. OwnersOf(req[a].phone) \subseteq Users
    BY DEF OwnersOf
  <2>2. \A u \in OwnersOf(req[a].phone) : [req[a] EXCEPT !.user = u] \in Local
    BY <2>1, LocalType
  <2> QED BY <1>2, <2>2, LocalType DEF AskLookup
<1>3. ASSUME NEW a \in Asks, AskCooldown(a) PROVE TypeOK'
  <2>1. req[a].user \in Users
    BY <1>3 DEF AskCooldown, Locals, Threads
  <2> QED BY <1>3, <2>1, LocalType DEF AskCooldown
<1>4. ASSUME NEW a \in Asks, AskGenerate(a) PROVE TypeOK'
  <2>1. now + CodeTTL \in Int /\ req[a] \in Local
    BY TimesAssumption DEF TimesAssumption
  <2> QED BY <1>4, <2>1, LocalType DEF AskGenerate
<1>5. ASSUME NEW a \in Asks, AskStore(a) PROVE TypeOK'
  <2>1. req[a].user \in Users /\ req[a].exp \in Int
    BY <1>5 DEF AskStore, Locals, Threads, Local
  <2>2. [user |-> req[a].user, exp |-> req[a].exp, used |-> FALSE, attempts |-> 0] \in Code
    BY <2>1 DEF Code
  <2> QED BY <1>5, <2>2 DEF AskStore
<1>6. ASSUME NEW a \in Asks, AskSend(a) PROVE TypeOK'
  <2>1. req[a].phone \in Phones \cup {None}
    BY DEF Local
  <2>2. [NoLocal EXCEPT !.phone = req[a].phone] \in Local
    BY <2>1, LocalType
  <2> QED BY <1>6, <2>2 DEF AskSend, SendSMS
<1>7. ASSUME NEW c \in Clients, Confirm(c) PROVE TypeOK'
  <2>1. PICK p \in Phones, g \in sent \cup {None} :
          Move(c, "lookup", [NoLocal EXCEPT !.phone = p, !.guess = g])
    BY <1>7 DEF Confirm
  <2>2. [NoLocal EXCEPT !.phone = p, !.guess = g] \in Local
    BY LocalType
  <2> QED BY <1>7, <2>1, <2>2 DEF Confirm
<1>8. ASSUME NEW c \in Clients, ConfirmLookup(c) PROVE TypeOK'
  <2>1. OwnersOf(req[c].phone) \subseteq Users
    BY DEF OwnersOf
  <2>2. \A u \in OwnersOf(req[c].phone) : [req[c] EXCEPT !.user = u] \in Local
    BY <2>1, LocalType
  <2> QED BY <1>8, <2>2, LocalType DEF ConfirmLookup
<1>9. ASSUME NEW c \in Clients, ConfirmVerify(c) PROVE TypeOK'
  <2>1. req[c].user \in Users
    BY <1>9 DEF ConfirmVerify, Locals, Threads
  <2>2. ASSUME NEW a \in Newest(req[c].user)
        PROVE  a \in Asks /\ codes[a] # None /\ codes[a].attempts + 1 \in Nat /\ redeemed[a] + 1 \in Nat
    <3>1. a \in Asks /\ codes[a] # None
      BY <2>1, NewestIsLive
    <3> QED BY <3>1 DEF Code
  <2>3. ASSUME NEW a \in Newest(req[c].user), Accept(a)
        PROVE  codes' \in [Asks -> Code \cup {None}] /\ redeemed' \in [Asks -> Nat]
    BY <2>2, <2>3, CodesType DEF Accept
  <2>4. ASSUME NEW a \in Newest(req[c].user), Refuse(a)
        PROVE  codes' \in [Asks -> Code \cup {None}] /\ redeemed' \in [Asks -> Nat]
    <3>1. (codes[a].attempts + 1 >= MaxAttempts) \in BOOLEAN
      OBVIOUS
    <3>2. [codes EXCEPT ![a].attempts = @ + 1, ![a].used = codes[a].attempts + 1 >= MaxAttempts]
             \in [Asks -> Code \cup {None}]
      BY <3>1, <2>2, CodesType
    <3> QED BY <2>2, <2>4, <3>2 DEF Refuse
  <2> QED BY <1>9, <2>3, <2>4, LocalType DEF ConfirmVerify
<1>10. ASSUME NEW u \in Users, SetPhone(u) PROVE TypeOK'
  BY <1>10 DEF SetPhone
<1>11. CASE Crash
  BY <1>11, LocalType DEF Crash
<1>12. CASE Tick
  BY <1>12 DEF Tick
<1>13. CASE UNCHANGED vars
  BY <1>13 DEF vars
<1> QED BY <1>1, <1>2, <1>3, <1>4, <1>5, <1>6, <1>7, <1>8, <1>9, <1>10, <1>11, <1>12, <1>13 DEF Next

LEMMA MoveKeepsLocals ==
  ASSUME TypeOK, Locals, NEW r \in Threads, NEW s, NEW l, Move(r, s, l),
         r \in Asks => s \in AskSteps, r \in Clients => s \in ClientSteps,
         s \in {"cooldown", "generate", "store", "verify"} => l.user \in Users
  PROVE  Locals'
<1>1. pc'[r] = s /\ req'[r] = l
  BY DEF TypeOK, Threads, Move, Goto
<1>2. \A t \in Threads \ {r} : pc'[t] = pc[t] /\ req'[t] = req[t]
  BY DEF TypeOK, Threads, Move, Goto
<1>3. \A a \in Asks : pc'[a] \in AskSteps
  BY <1>1, <1>2 DEF Locals, Threads
<1>4. \A c \in Clients : pc'[c] \in ClientSteps
  BY <1>1, <1>2 DEF Locals, Threads
<1>5. \A t \in Threads : pc'[t] \in {"cooldown", "generate", "store", "verify"} => req'[t].user \in Users
  BY <1>1, <1>2 DEF Locals
<1> QED BY <1>3, <1>4, <1>5 DEF Locals

LEMMA LocalsStep == TypeOK /\ Locals /\ [Next]_vars => Locals'
<1> SUFFICES ASSUME TypeOK, Locals, [Next]_vars PROVE Locals'
    OBVIOUS
<1> USE NamesAssumption DEF NamesAssumption, TypeOK, Locals, Threads, At, Goto, Move, AskSteps, ClientSteps
<1>1. ASSUME NEW a \in Asks, Ask(a) \/ AskGenerate(a) \/ AskStore(a) \/ AskSend(a) \/ AskCooldown(a)
      PROVE  Locals'
  <2>1. PICK s \in AskSteps : Goto(a, s)
    BY <1>1 DEF Ask, AskGenerate, AskStore, AskSend, SendSMS, AskCooldown
  <2>2. \A r \in Threads \ {a} : pc'[r] = pc[r] /\ req'[r] = req[r]
    BY <1>1 DEF Ask, AskGenerate, AskStore, AskSend, SendSMS, AskCooldown
  <2>3. pc'[a] \in {"cooldown", "generate", "store", "verify"} => req'[a].user \in Users
    BY <1>1 DEF Ask, AskGenerate, AskStore, AskSend, SendSMS, AskCooldown, Local
  <2> QED BY <2>1, <2>2, <2>3
<1>2. ASSUME NEW a \in Asks, AskLookup(a) PROVE Locals'
  <2>1. CASE \E u \in OwnersOf(req[a].phone) : Move(a, "cooldown", [req[a] EXCEPT !.user = u])
    <3>1. PICK u \in Users : Move(a, "cooldown", [req[a] EXCEPT !.user = u])
      BY <2>1 DEF OwnersOf
    <3>2. [req[a] EXCEPT !.user = u].user \in Users
      BY DEF Local
    <3>3. a \in Threads /\ a \notin Clients /\ "cooldown" \in AskSteps
      OBVIOUS
    <3> HIDE DEF TypeOK, Locals, Threads, Move, Goto, AskSteps, ClientSteps
    <3> QED BY <3>1, <3>2, <3>3, MoveKeepsLocals
  <2>2. CASE Move(a, "ok", NoLocal)
    <3>1. a \in Threads /\ a \notin Clients /\ "ok" \in AskSteps
      OBVIOUS
    <3> HIDE DEF TypeOK, Locals, Threads, Move, Goto, AskSteps, ClientSteps
    <3> QED BY <2>2, <3>1, MoveKeepsLocals
  <2> HIDE DEF Move
  <2> QED BY <1>2, <2>1, <2>2 DEF AskLookup
<1>3. ASSUME NEW c \in Clients, Confirm(c) PROVE Locals'
  BY <1>3 DEF Confirm
<1>4. ASSUME NEW c \in Clients, ConfirmLookup(c) PROVE Locals'
  <2>1. CASE \E u \in OwnersOf(req[c].phone) : Move(c, "verify", [req[c] EXCEPT !.user = u])
    <3>1. PICK u \in Users : Move(c, "verify", [req[c] EXCEPT !.user = u])
      BY <2>1 DEF OwnersOf
    <3>2. [req[c] EXCEPT !.user = u].user \in Users
      BY DEF Local
    <3>3. c \in Threads /\ c \notin Asks /\ "verify" \in ClientSteps
      OBVIOUS
    <3> HIDE DEF TypeOK, Locals, Threads, Move, Goto, AskSteps, ClientSteps
    <3> QED BY <3>1, <3>2, <3>3, MoveKeepsLocals
  <2>2. CASE Move(c, "idle", NoLocal)
    <3>1. c \in Threads /\ c \notin Asks /\ "idle" \in ClientSteps
      OBVIOUS
    <3> HIDE DEF TypeOK, Locals, Threads, Move, Goto, AskSteps, ClientSteps
    <3> QED BY <2>2, <3>1, MoveKeepsLocals
  <2> HIDE DEF Move
  <2> QED BY <1>4, <2>1, <2>2 DEF ConfirmLookup
<1>5. ASSUME NEW c \in Clients, ConfirmVerify(c) PROVE Locals'
  BY <1>5 DEF ConfirmVerify
<1>6. ASSUME NEW u \in Users, SetPhone(u) PROVE Locals'
  BY <1>6 DEF SetPhone
<1>7. CASE Crash
  BY <1>7 DEF Crash
<1>8. CASE Tick \/ UNCHANGED vars
  BY <1>8 DEF Tick, vars
<1> QED BY <1>1, <1>2, <1>3, <1>4, <1>5, <1>6, <1>7, <1>8 DEF Next

-----------------------------------------------------------------------------
(* The spacing of codes.  A step either leaves the times of the codes and   *)
(* the requests past the cooldown check alone, or is one of four actions.   *)

\* The codes a step leaves in place keep their user and times.
SameTimes ==
  \A a \in Asks : /\ codes'[a] # None <=> codes[a] # None
                  /\ codes[a] # None => codes'[a].user = codes[a].user /\ codes'[a].exp = codes[a].exp

\* No request enters or leaves the stretch from the cooldown check to the store.
SamePassed ==
  \A a \in Asks : \/ pc'[a] = pc[a] /\ req'[a] = req[a]
                  \/ pc[a] \notin {"generate", "store"} /\ pc'[a] \notin {"generate", "store"}

Spacing == CodesApart /\ SpacingInv

LEMMA SpacingFrame ==
  ASSUME TypeOK, TypeOK', SameTimes, SamePassed, raced \subseteq raced', now <= now', Spacing
  PROVE  Spacing'
<1>1. \A u \in Users : Stored(u)' = Stored(u)
  BY DEF SameTimes, Stored
<1>2. \A u \in Users : Passed(u)' = Passed(u)
  BY DEF SamePassed, Passed
<1>3. \A u \in Users : \A a \in Stored(u) : a \in Asks /\ codes'[a].exp = codes[a].exp
  BY DEF SameTimes, Stored
<1>4. \A u \in Users : \A a \in Passed(u) : a \in Asks /\ pc'[a] = pc[a] /\ req'[a] = req[a]
  BY DEF SamePassed, Passed
<1>5. CodesApart'
  BY <1>1, <1>3 DEF CodesApart, CreatedAt, Spacing
<1>6. \A u \in Users : \A a \in Stored(u) : codes[a].exp \in Int
  BY DEF Stored, TypeOK, Code
<1>7. \A u \in Users : \A a \in Passed(u) : req[a].exp \in Int
  BY DEF Passed, TypeOK, Local
<1>8. now \in Int /\ now' \in Int /\ CodeTTL \in Int /\ Cooldown \in Int
  BY TimesAssumption DEF TypeOK, TimesAssumption
<1>9. ASSUME NEW u \in Users PROVE \A a \in Stored(u)' : CreatedAt(codes[a])' <= now'
  BY <1>1, <1>3, <1>6, <1>8 DEF SpacingInv, Spacing, CreatedAt
<1>10. ASSUME NEW u \in Users PROVE \A a \in Passed(u)' : pc'[a] = "store" => req'[a].exp <= now' + CodeTTL
  BY <1>2, <1>4, <1>7, <1>8 DEF SpacingInv, Spacing
<1>11. ASSUME NEW u \in Users, u \notin raced', NEW a \in Passed(u)'
       PROVE  /\ \A b \in Passed(u)' : b = a
              /\ \A b \in Stored(u)' : CreatedAt(codes[b])' + Cooldown <= now'
              /\ pc'[a] = "store" => \A b \in Stored(u)' : codes'[b].exp + Cooldown <= req'[a].exp
  <2>1. u \notin raced /\ a \in Passed(u)
    BY <1>2, <1>11
  <2>2. \A b \in Passed(u)' : b = a
    BY <2>1, <1>2 DEF SpacingInv, Spacing
  <2>3. \A b \in Stored(u)' : CreatedAt(codes[b])' + Cooldown <= now'
    <3> SUFFICES ASSUME NEW b \in Stored(u)' PROVE CreatedAt(codes[b])' + Cooldown <= now'
        OBVIOUS
    <3>1. CreatedAt(codes[b]) + Cooldown <= now
      BY <2>1, <1>1 DEF SpacingInv, Spacing
    <3> QED BY <3>1, <1>1, <1>3, <1>6, <1>8 DEF CreatedAt
  <2>4. pc'[a] = "store" => \A b \in Stored(u)' : codes'[b].exp + Cooldown <= req'[a].exp
    BY <2>1, <1>1, <1>3, <1>4 DEF SpacingInv, Spacing
  <2> QED BY <2>2, <2>3, <2>4
<1> QED BY <1>5, <1>9, <1>10, <1>11 DEF SpacingInv, Spacing

\* A request that passes the cooldown check.
LEMMA CooldownSpacing ==
  ASSUME TypeOK, TypeOK', Locals, Spacing, NEW a \in Asks, AskCooldown(a), ~HasRecent(req[a].user)
  PROVE  Spacing'
<1> DEFINE w == req[a].user
<1>1. /\ w \in Users /\ pc[a] = "cooldown" /\ pc' = [pc EXCEPT ![a] = "generate"]
      /\ req' = req /\ codes' = codes /\ now' = now
      /\ raced' = IF Passed(w) = {} THEN raced ELSE raced \cup {w}
  <2>1. w \in Users
    BY DEF AskCooldown, At, Locals, Threads
  <2> QED BY <2>1 DEF AskCooldown, At, Goto, Move, userVars, codeVars
<1>2. \A u \in Users : Stored(u)' = Stored(u)
  BY <1>1 DEF Stored
<1>3. Passed(w)' = Passed(w) \cup {a} /\ \A u \in Users \ {w} : Passed(u)' = Passed(u)
  BY <1>1 DEF Passed, TypeOK
<1>4. CodesApart'
  BY <1>1, <1>2 DEF CodesApart, CreatedAt, Spacing
<1>5. ASSUME NEW u \in Users
      PROVE  /\ \A b \in Stored(u)' : CreatedAt(codes[b])' <= now'
             /\ \A b \in Passed(u)' : pc'[b] = "store" => req'[b].exp <= now' + CodeTTL
  <2>1. \A b \in Stored(u)' : CreatedAt(codes[b])' <= now'
    BY <1>1, <1>2 DEF CreatedAt, Spacing, SpacingInv
  <2>2. \A b \in Passed(u)' : b \in Asks /\ (b \in Passed(u) \/ b = a)
    BY <1>1, <1>3 DEF Passed
  <2>3. \A b \in Asks : pc'[b] = "store" => b # a /\ pc[b] = "store"
    BY <1>1 DEF TypeOK
  <2> QED BY <1>1, <2>1, <2>2, <2>3 DEF Spacing, SpacingInv
<1>6. ASSUME NEW u \in Users, u \notin raced', NEW b \in Passed(u)'
      PROVE  /\ \A c \in Passed(u)' : c = b
             /\ \A c \in Stored(u)' : CreatedAt(codes[c])' + Cooldown <= now'
             /\ pc'[b] = "store" => \A c \in Stored(u)' : codes'[c].exp + Cooldown <= req'[b].exp
  <2>1. CASE u = w
    <3>1. b = a /\ Passed(u)' = {a}
      BY <2>1, <1>1, <1>3, <1>6
    <3>2. \A c \in Stored(u) : CreatedAt(codes[c]) \in Int /\ ~(CreatedAt(codes[c]) > now - Cooldown)
      BY <2>1, TimesAssumption DEF HasRecent, Stored, CreatedAt, TypeOK, Code, TimesAssumption
    <3>3. \A c \in Stored(u)' : CreatedAt(codes[c])' + Cooldown <= now'
      BY <3>2, <1>1, <1>2, TimesAssumption DEF CreatedAt, TypeOK, TimesAssumption
    <3>4. pc'[b] # "store"
      BY <3>1, <1>1 DEF TypeOK
    <3> QED BY <3>1, <3>3, <3>4
  <2>2. CASE u # w
    <3>1. u \notin raced /\ b \in Passed(u) /\ Passed(u)' = Passed(u)
      BY <2>2, <1>1, <1>3, <1>6
    <3>2. b # a /\ b \in Asks
      BY <3>1, <1>1 DEF Passed
    <3>3. pc'[b] = pc[b]
      BY <3>2, <1>1 DEF TypeOK
    <3> QED BY <3>1, <3>3, <1>1, <1>2 DEF Spacing, SpacingInv, CreatedAt
  <2> QED BY <2>1, <2>2
<1> QED BY <1>4, <1>5, <1>6 DEF Spacing, SpacingInv

\* A request that makes its code: it expires a cooldown after every stored one.
LEMMA GenerateSpacing ==
  ASSUME TypeOK, TypeOK', Locals, Spacing, NEW a \in Asks, AskGenerate(a)
  PROVE  Spacing'
<1>1. /\ pc[a] = "generate" /\ pc' = [pc EXCEPT ![a] = "store"]
      /\ req' = [req EXCEPT ![a] = [req[a] EXCEPT !.exp = now + CodeTTL]]
      /\ codes' = codes /\ now' = now /\ raced' = raced
  BY DEF AskGenerate, At, Goto, Move, userVars, codeVars
<1>2. /\ \A b \in Asks : req'[b].user = req[b].user
      /\ \A b \in Asks \ {a} : pc'[b] = pc[b] /\ req'[b] = req[b]
      /\ pc'[a] = "store" /\ req'[a].exp = now + CodeTTL
  BY <1>1 DEF TypeOK, Local
<1>3. \A u \in Users : Stored(u)' = Stored(u) /\ Passed(u)' = Passed(u)
  BY <1>1, <1>2 DEF Stored, Passed
<1>4. CodesApart'
  BY <1>1, <1>3 DEF CodesApart, CreatedAt, Spacing
<1>5. now \in Int /\ CodeTTL \in Int /\ Cooldown \in Int
  BY TimesAssumption DEF TypeOK, TimesAssumption
<1>6. ASSUME NEW u \in Users
      PROVE  /\ \A b \in Stored(u)' : CreatedAt(codes[b])' <= now'
             /\ \A b \in Passed(u)' : pc'[b] = "store" => req'[b].exp <= now' + CodeTTL
  <2>1. \A b \in Stored(u)' : CreatedAt(codes[b])' <= now'
    BY <1>1, <1>3 DEF CreatedAt, Spacing, SpacingInv
  <2>2. \A b \in Passed(u) : b \in Asks
    BY DEF Passed
  <2> QED BY <1>1, <1>2, <1>3, <1>5, <2>1, <2>2 DEF Spacing, SpacingInv
<1>7. ASSUME NEW u \in Users, u \notin raced', NEW b \in Passed(u)'
      PROVE  /\ \A c \in Passed(u)' : c = b
             /\ \A c \in Stored(u)' : CreatedAt(codes[c])' + Cooldown <= now'
             /\ pc'[b] = "store" => \A c \in Stored(u)' : codes'[c].exp + Cooldown <= req'[b].exp
  <2>1. /\ b \in Asks /\ u \notin raced /\ \A c \in Passed(u) : c = b
        /\ \A c \in Stored(u) : CreatedAt(codes[c]) + Cooldown <= now
        /\ pc[b] = "store" => \A c \in Stored(u) : codes[c].exp + Cooldown <= req[b].exp
    BY <1>1, <1>3, <1>7 DEF Spacing, SpacingInv, Passed
  <2>2. \A c \in Stored(u) : codes[c].exp \in Int
    BY DEF Stored, TypeOK, Code
  <2>3. pc'[b] = "store" => \A c \in Stored(u)' : codes'[c].exp + Cooldown <= req'[b].exp
    BY <2>1, <2>2, <1>1, <1>2, <1>3, <1>5 DEF CreatedAt
  <2> QED BY <2>1, <2>3, <1>1, <1>3 DEF CreatedAt
<1> QED BY <1>4, <1>6, <1>7 DEF Spacing, SpacingInv

\* A request that stores its code.
LEMMA StoreSpacing ==
  ASSUME TypeOK, TypeOK', Locals, Spacing, NEW a \in Asks, AskStore(a)
  PROVE  Spacing'
<1> DEFINE w == req[a].user
<1>1. /\ w \in Users /\ pc[a] = "store" /\ pc' = [pc EXCEPT ![a] = "send"]
      /\ req' = req /\ now' = now /\ raced' = raced
      /\ codes' = [codes EXCEPT ![a] = [user |-> w, exp |-> req[a].exp, used |-> FALSE, attempts |-> 0]]
  <2>1. w \in Users
    BY DEF AskStore, At, Locals, Threads
  <2> QED BY <2>1 DEF AskStore, At, Goto, Move
<1>2. /\ codes'[a].user = w /\ codes'[a].exp = req[a].exp
      /\ \A b \in Asks \ {a} : codes'[b] = codes[b] /\ pc'[b] = pc[b]
      /\ pc'[a] = "send"
  BY <1>1 DEF TypeOK
<1>3. \A u \in Users : /\ \A b \in Stored(u)' : b \in Asks /\ (b \in Stored(u) \/ (b = a /\ u = w))
                       /\ \A b \in Stored(u) : b \in Asks
  <2> SUFFICES ASSUME NEW u \in Users, NEW b \in Stored(u)'
               PROVE  b \in Asks /\ (b \in Stored(u) \/ (b = a /\ u = w))
      BY DEF Stored
  <2>1. b \in Asks /\ codes'[b] # None /\ codes'[b].user = u
    BY DEF Stored
  <2> QED BY <2>1, <1>2 DEF Stored
<1>4. \A u \in Users : \A b \in Passed(u)' : b \in Passed(u) /\ b # a
  BY <1>1, <1>2 DEF Passed
<1>5. a \in Passed(w)
  BY <1>1 DEF Passed
<1>6. now \in Int /\ CodeTTL \in Int /\ Cooldown \in Int /\ req[a].exp \in Int
  BY TimesAssumption DEF TypeOK, TimesAssumption, Local
<1>7. \A u \in Users : \A b \in Stored(u) : codes[b].exp \in Int
  BY DEF Stored, TypeOK, Code
<1>8. w \notin raced => \A b \in Stored(w) : codes[b].exp + Cooldown <= req[a].exp
  BY <1>1, <1>5 DEF Spacing, SpacingInv
<1>9. CodesApart'
  <2> SUFFICES ASSUME NEW u \in Users \ raced, NEW b \in Stored(u)', NEW c \in Stored(u)', b # c
               PROVE  \/ CreatedAt(codes[b])' >= CreatedAt(codes[c])' + Cooldown
                      \/ CreatedAt(codes[c])' >= CreatedAt(codes[b])' + Cooldown
      BY <1>1 DEF CodesApart
  <2>1. CASE b # a /\ c # a
    <3>1. b \in Stored(u) /\ c \in Stored(u) /\ codes'[b] = codes[b] /\ codes'[c] = codes[c]
      BY <2>1, <1>2, <1>3
    <3> QED BY <3>1 DEF Spacing, CodesApart, CreatedAt
  <2>2. CASE b = a
    <3>1. u = w /\ c \in Stored(u) /\ codes'[c] = codes[c]
      <4>1. codes'[b] # None /\ codes'[b].user = u
        BY DEF Stored
      <4> QED BY <4>1, <2>2, <1>2, <1>3
    <3> QED BY <3>1, <2>2, <1>2, <1>6, <1>7, <1>8 DEF CreatedAt
  <2>3. CASE c = a
    <3>1. u = w /\ b \in Stored(u) /\ codes'[b] = codes[b]
      <4>1. codes'[c] # None /\ codes'[c].user = u
        BY DEF Stored
      <4> QED BY <4>1, <2>3, <1>2, <1>3
    <3> QED BY <3>1, <2>3, <1>2, <1>6, <1>7, <1>8 DEF CreatedAt
  <2> QED BY <2>1, <2>2, <2>3
<1>10. ASSUME NEW u \in Users
       PROVE  /\ \A b \in Stored(u)' : CreatedAt(codes[b])' <= now'
              /\ \A b \in Passed(u)' : pc'[b] = "store" => req'[b].exp <= now' + CodeTTL
  <2>1. req[a].exp <= now + CodeTTL
    BY <1>1, <1>5 DEF Spacing, SpacingInv
  <2>2. ASSUME NEW b \in Stored(u)' PROVE CreatedAt(codes[b])' <= now'
    <3>1. CASE b = a
      BY <3>1, <2>1, <1>1, <1>2, <1>6 DEF CreatedAt
    <3>2. CASE b # a
      BY <3>2, <1>1, <1>2, <1>3 DEF CreatedAt, Spacing, SpacingInv
    <3> QED BY <3>1, <3>2
  <2>3. \A b \in Passed(u)' : b \in Asks
    BY DEF Passed
  <2> QED BY <2>2, <2>3, <1>1, <1>2, <1>4 DEF Spacing, SpacingInv
<1>11. ASSUME NEW u \in Users, u \notin raced', NEW b \in Passed(u)'
       PROVE  /\ \A c \in Passed(u)' : c = b
              /\ \A c \in Stored(u)' : CreatedAt(codes[c])' + Cooldown <= now'
              /\ pc'[b] = "store" => \A c \in Stored(u)' : codes'[c].exp + Cooldown <= req'[b].exp
  <2>1. u \notin raced /\ b \in Passed(u) /\ b # a /\ b \in Asks
    BY <1>1, <1>4, <1>11 DEF Passed
  <2>2. u # w
    BY <2>1, <1>5 DEF Spacing, SpacingInv
  <2>3. \A c \in Stored(u)' : c \in Stored(u) /\ c # a
    <3> SUFFICES ASSUME NEW c \in Stored(u)' PROVE c \in Stored(u) /\ c # a
        OBVIOUS
    <3>1. c \in Asks /\ codes'[c].user = u
      BY DEF Stored
    <3> QED BY <3>1, <2>2, <1>2, <1>3
  <2>4. \A c \in Stored(u)' : codes'[c] = codes[c]
    BY <2>3, <1>2, <1>3
  <2> QED BY <2>1, <2>3, <2>4, <1>1, <1>2, <1>4 DEF Spacing, SpacingInv, CreatedAt
<1> QED BY <1>9, <1>10, <1>11 DEF Spacing, SpacingInv

LEMMA SpacingStep == TypeOK /\ TypeOK' /\ Locals /\ Spacing /\ [Next]_vars => Spacing'
<1> SUFFICES ASSUME TypeOK, TypeOK', Locals, Spacing, [Next]_vars PROVE Spacing'
    OBVIOUS
<1> USE DEF At, Goto, Move, userVars, codeVars
<1>1. ASSUME codes' = codes, SamePassed, raced' = raced, now' = now \/ now' = now + 1
      PROVE  Spacing'
  <2>1. SameTimes /\ raced \subseteq raced' /\ now <= now'
    BY <1>1 DEF SameTimes, TypeOK
  <2> QED BY <2>1, <1>1, SpacingFrame
<1>2. ASSUME NEW a \in Asks, Ask(a) \/ AskLookup(a) \/ AskSend(a) PROVE Spacing'
  <2>1. SamePassed
    BY <1>2 DEF Ask, AskLookup, AskSend, SendSMS, SamePassed, TypeOK
  <2> QED BY <1>2, <1>1, <2>1 DEF Ask, AskLookup, AskSend, SendSMS
<1>3. ASSUME NEW a \in Asks, AskCooldown(a) PROVE Spacing'
  <2>1. CASE ~HasRecent(req[a].user)
    BY <1>3, <2>1, CooldownSpacing
  <2>2. CASE HasRecent(req[a].user)
    <3>1. pc[a] = "cooldown" /\ pc' = [pc EXCEPT ![a] = "ok"] /\ req' = [req EXCEPT ![a] = NoLocal]
          /\ codes' = codes /\ raced' = raced /\ now' = now
      BY <1>3, <2>2 DEF AskCooldown
    <3>2. SamePassed
      BY <3>1 DEF SamePassed, TypeOK
    <3> QED BY <3>1, <3>2, <1>1
  <2> QED BY <2>1, <2>2
<1>4. ASSUME NEW a \in Asks, AskGenerate(a) PROVE Spacing'
  BY <1>4, GenerateSpacing
<1>5. ASSUME NEW a \in Asks, AskStore(a) PROVE Spacing'
  BY <1>5, StoreSpacing
<1>6. ASSUME NEW c \in Clients, Confirm(c) \/ ConfirmLookup(c) \/ ConfirmVerify(c)
      PROVE  SamePassed
  <2>1. c \notin Asks
    BY NamesAssumption DEF NamesAssumption
  <2> QED BY <1>6, <2>1 DEF Confirm, ConfirmLookup, ConfirmVerify, SamePassed, TypeOK
<1>7. ASSUME NEW c \in Clients, Confirm(c) \/ ConfirmLookup(c) PROVE Spacing'
  BY <1>7, <1>6, <1>1 DEF Confirm, ConfirmLookup
<1>8. ASSUME NEW c \in Clients, ConfirmVerify(c) PROVE Spacing'
  <2>1. req[c].user \in Users
    BY <1>8 DEF ConfirmVerify, Locals, Threads
  <2>2. ASSUME NEW a \in Newest(req[c].user), Accept(a) \/ Refuse(a) PROVE SameTimes
    <3>1. a \in Asks /\ codes[a] # None /\ codes[a] \in Code
      BY <2>1, NewestIsLive DEF TypeOK
    <3>2. codes'[a].user = codes[a].user /\ codes'[a].exp = codes[a].exp
      <4>1. CASE Accept(a)
        BY <3>1, <4>1 DEF Accept, TypeOK, Code
      <4>2. CASE Refuse(a)
        BY <3>1, <4>2 DEF Refuse, TypeOK, Code
      <4> QED BY <2>2, <4>1, <4>2
    <3>3. codes'[a] # None
      <4>1. codes[a].attempts + 1 \in Nat /\ (codes[a].attempts + 1 >= MaxAttempts) \in BOOLEAN
        BY <3>1 DEF Code
      <4>2. [codes EXCEPT ![a].used = TRUE][a] \in Code
        BY <3>1, CodesType DEF TypeOK
      <4>3. [codes EXCEPT ![a].attempts = @ + 1, ![a].used = codes[a].attempts + 1 >= MaxAttempts][a] \in Code
        BY <3>1, <4>1, CodesType DEF TypeOK
      <4>4. codes'[a] \in Code
        BY <2>2, <4>2, <4>3 DEF Accept, Refuse
      <4> QED BY <4>4, NamesAssumption DEF NamesAssumption, Code
    <3>4. \A b \in Asks \ {a} : codes'[b] = codes[b]
      BY <2>2 DEF Accept, Refuse, TypeOK
    <3> QED BY <3>1, <3>2, <3>3, <3>4 DEF SameTimes
  <2>3. SameTimes /\ raced' = raced /\ now' = now
    BY <1>8, <2>2 DEF ConfirmVerify, SameTimes
  <2> QED BY <2>3, <1>6, <1>8, SpacingFrame DEF TypeOK
<1>9. ASSUME NEW u \in Users, SetPhone(u) PROVE Spacing'
  BY <1>9, <1>1 DEF SetPhone, SamePassed
<1>10. CASE Crash
  <2>1. \A u \in Users : Stored(u)' = {}
    BY <1>10 DEF Crash, Stored
  <2>2. \A u \in Users : Passed(u)' = {}
    <3>1. \A a \in Asks : pc'[a] \notin {"generate", "store"}
      <4>1. \A a \in Asks : a \notin Clients
        BY NamesAssumption DEF NamesAssumption
      <4> QED BY <1>10, <4>1 DEF Crash
    <3> QED BY <3>1 DEF Passed
  <2> QED BY <2>1, <2>2, <1>10 DEF Crash, Spacing, CodesApart, SpacingInv
<1>11. CASE Tick
  BY <1>11, <1>1 DEF Tick, SamePassed
<1>12. CASE UNCHANGED vars
  BY <1>12, <1>1 DEF vars, SamePassed
<1> QED BY <1>2, <1>3, <1>4, <1>5, <1>7, <1>8, <1>9, <1>10, <1>11, <1>12 DEF Next

-----------------------------------------------------------------------------
(* The guesses a code takes and its single use *)

LEMMA CodeStep == TypeOK /\ Locals /\ CodeInv /\ [Next]_vars => CodeInv'
<1> SUFFICES ASSUME TypeOK, Locals, CodeInv, [Next]_vars PROVE CodeInv'
    OBVIOUS
<1> USE DEF At, Goto, Move, userVars, codeVars
<1>1. ASSUME UNCHANGED <<codes, redeemed>>,
             \A a \in Asks : pc[a] \in {"send", "ok", "lost"} => pc'[a] \in {"send", "ok", "lost"}
      PROVE  CodeInv'
  BY <1>1 DEF CodeInv
<1>2. ASSUME NEW a \in Asks, Ask(a) \/ AskLookup(a) \/ AskCooldown(a) \/ AskGenerate(a) \/ AskSend(a)
      PROVE  CodeInv'
  <2>1. \A b \in Asks : pc[b] \in {"send", "ok", "lost"} => pc'[b] \in {"send", "ok", "lost"}
    BY <1>2 DEF Ask, AskLookup, AskCooldown, AskGenerate, AskSend, SendSMS, TypeOK
  <2> QED BY <1>2, <2>1, <1>1 DEF Ask, AskLookup, AskCooldown, AskGenerate, AskSend, SendSMS
<1>3. ASSUME NEW a \in Asks, AskStore(a) PROVE CodeInv'
  <2>1. pc[a] = "store" /\ redeemed' = redeemed /\ pc'[a] = "send"
    BY <1>3 DEF AskStore, TypeOK
  <2>2. \A b \in Asks \ {a} : codes'[b] = codes[b] /\ pc'[b] = pc[b]
    BY <1>3 DEF AskStore, TypeOK
  <2>3. codes'[a].used = FALSE /\ codes'[a].attempts = 0
    BY <1>3 DEF AskStore, TypeOK
  <2>4. redeemed[a] = 0
    BY <2>1 DEF CodeInv, TypeOK
  <2>5. MaxAttempts \in Nat /\ 0 < MaxAttempts /\ 0 <= MaxAttempts
    BY TimesAssumption DEF TimesAssumption
  <2> QED BY <2>1, <2>2, <2>3, <2>4, <2>5 DEF CodeInv
<1>4. ASSUME NEW c \in Clients, Confirm(c) \/ ConfirmLookup(c) \/ ConfirmVerify(c)
      PROVE  \A a \in Asks : pc'[a] = pc[a]
  <2>1. c \notin Asks
    BY NamesAssumption DEF NamesAssumption
  <2> QED BY <1>4, <2>1 DEF Confirm, ConfirmLookup, ConfirmVerify, TypeOK
<1>5. ASSUME NEW c \in Clients, Confirm(c) \/ ConfirmLookup(c) PROVE CodeInv'
  BY <1>5, <1>4, <1>1 DEF Confirm, ConfirmLookup
<1>6. ASSUME NEW c \in Clients, ConfirmVerify(c) PROVE CodeInv'
  <2>1. req[c].user \in Users
    BY <1>6 DEF ConfirmVerify, Locals, Threads
  <2>2. ASSUME NEW a \in Newest(req[c].user), Accept(a) \/ Refuse(a) PROVE CodeInv'
    <3>1. a \in Asks /\ codes[a] # None /\ codes[a] \in Code /\ ~codes[a].used
      BY <2>1, NewestIsLive DEF TypeOK
    <3>2. redeemed[a] = 0 /\ codes[a].attempts < MaxAttempts /\ codes[a].attempts \in Nat
          /\ pc[a] \in {"send", "ok", "lost"}
      BY <3>1 DEF CodeInv, TypeOK, Code
    <3>3. \A b \in Asks \ {a} : codes'[b] = codes[b] /\ redeemed'[b] = redeemed[b]
      BY <2>2 DEF Accept, Refuse, TypeOK
    <3>4. CASE Accept(a)
      <4>1. redeemed'[a] = 1 /\ codes'[a].used /\ codes'[a].attempts = codes[a].attempts
        BY <3>1, <3>2, <3>4 DEF Accept, TypeOK, Code
      <4> QED BY <4>1, <3>1, <3>2, <3>3, <1>4, <1>6, TimesAssumption DEF CodeInv, TimesAssumption
    <3>5. CASE Refuse(a)
      <4>1. /\ redeemed'[a] = 0 /\ codes'[a].attempts = codes[a].attempts + 1
            /\ codes'[a].used <=> codes[a].attempts + 1 >= MaxAttempts
        BY <3>1, <3>2, <3>5 DEF Refuse, TypeOK, Code
      <4>2. codes'[a].attempts <= MaxAttempts
        BY <4>1, <3>2, TimesAssumption DEF TimesAssumption
      <4>3. ~codes'[a].used => codes'[a].attempts < MaxAttempts
        BY <4>1, <3>2, TimesAssumption DEF TimesAssumption
      <4> QED BY <4>1, <4>2, <4>3, <3>2, <3>3, <1>4, <1>6 DEF CodeInv
    <3> QED BY <2>2, <3>4, <3>5
  <2> QED BY <1>6, <2>2, <1>4, <1>1 DEF ConfirmVerify
<1>7. ASSUME NEW u \in Users, SetPhone(u) PROVE CodeInv'
  BY <1>7, <1>1 DEF SetPhone
<1>8. CASE Crash
  <2>1. \A a \in Asks : a \notin Clients
    BY NamesAssumption DEF NamesAssumption
  <2>2. \A a \in Asks : pc[a] \in {"send", "ok", "lost"} => pc'[a] \in {"send", "ok", "lost"}
    BY <1>8, <2>1 DEF Crash
  <2>3. redeemed' = redeemed /\ \A a \in Asks : codes'[a] = None
    BY <1>8 DEF Crash
  <2> QED BY <2>2, <2>3 DEF CodeInv
<1>9. CASE Tick \/ UNCHANGED vars
  BY <1>9, <1>1 DEF Tick, vars
<1> QED BY <1>2, <1>3, <1>5, <1>6, <1>7, <1>8, <1>9 DEF Next

-----------------------------------------------------------------------------
(* The theorems *)

LEMMA Invariance == Spec => []Inv
<1>1. Inv /\ [Next]_vars => Inv'
  BY TypeStep, LocalsStep, SpacingStep, CodeStep DEF Inv, Spacing
<1> QED BY <1>1, InitInv, PTL DEF Spec

\* Every variable of the SMS reset keeps its type.
THEOREM SmsTypeCorrect == Spec => []TypeOK
<1>1. Inv => TypeOK
  BY DEF Inv
<1> QED BY <1>1, Invariance, PTL

\* Codes of a user whose requests did not race past the cooldown check are made
\* a cooldown apart.
THEOREM CodesStayApart == Spec => []CodesApart
<1>1. Inv => CodesApart
  BY DEF Inv
<1> QED BY <1>1, Invariance, PTL

\* VerifySMSResetCode accepts a code once, whatever runs beside it.
THEOREM CodeRedeemedOnce == Spec => []RedeemedOnce
<1>1. Inv => RedeemedOnce
  BY DEF Inv, CodeInv, RedeemedOnce
<1> QED BY <1>1, Invariance, PTL

\* Of three codes of a user a cooldown apart, the first is a code's life older
\* than the last, so it has expired.
LEMMA BudgetFromSpacing == Inv => GuessBudget
<1> SUFFICES ASSUME Inv, NEW u \in Users \ raced
             PROVE  /\ \A a, b, c \in Unexpired(u) : a = b \/ b = c \/ a = c
                    /\ \A a \in Stored(u) : codes[a].attempts <= MaxAttempts
    BY DEF GuessBudget
<1>1. \A a \in Stored(u) : codes[a].attempts <= MaxAttempts
  BY DEF Inv, CodeInv, Stored
<1>2. ASSUME NEW a \in Unexpired(u), NEW b \in Unexpired(u), NEW c \in Unexpired(u)
      PROVE  a = b \/ b = c \/ a = c
  <2>1. a \in Stored(u) /\ b \in Stored(u) /\ c \in Stored(u)
    BY DEF Unexpired
  <2>2. /\ codes[a].exp \in Int /\ codes[b].exp \in Int /\ codes[c].exp \in Int
        /\ now \in Int /\ CodeTTL \in Int /\ Cooldown \in Int /\ CodeTTL <= 2 * Cooldown
    BY <2>1, TimesAssumption DEF Stored, Inv, TypeOK, Code, TimesAssumption
  <2>3. /\ codes[a].exp > now /\ codes[b].exp > now /\ codes[c].exp > now
        /\ codes[a].exp - CodeTTL <= now /\ codes[b].exp - CodeTTL <= now /\ codes[c].exp - CodeTTL <= now
    BY <2>1 DEF Inv, SpacingInv, CreatedAt, Unexpired
  <2>4. /\ a # b => \/ codes[a].exp - CodeTTL >= codes[b].exp - CodeTTL + Cooldown
                    \/ codes[b].exp - CodeTTL >= codes[a].exp - CodeTTL + Cooldown
        /\ b # c => \/ codes[b].exp - CodeTTL >= codes[c].exp - CodeTTL + Cooldown
                    \/ codes[c].exp - CodeTTL >= codes[b].exp - CodeTTL + Cooldown
        /\ a # c => \/ codes[a].exp - CodeTTL >= codes[c].exp - CodeTTL + Cooldown
                    \/ codes[c].exp - CodeTTL >= codes[a].exp - CodeTTL + Cooldown
    BY <2>1 DEF Inv, CodesApart, CreatedAt
  <2> QED BY <2>2, <2>3, <2>4
<1> QED BY <1>1, <1>2

\* No user is open to more than two codes and their guesses within a code's life.
THEOREM GuessesAreBounded == Spec => []GuessBudget
BY BudgetFromSpacing, Invariance, PTL
=============================================================================
