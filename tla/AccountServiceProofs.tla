------------------------ MODULE AccountServiceProofs ------------------------
(***************************************************************************)
(* Proofs about AccountService: type correctness, the invariants and       *)
(* action properties of the account operations, and that it implements     *)
(* Credentials.                                                            *)
(***************************************************************************)
EXTENDS AccountService, TLAPS

\* What is left of a finished request is a request.
LEMMA EndedType == ASSUME NEW q \in Request PROVE Ended(q) \in Request
  BY DEF Ended, NoRequest, Request

\* The record written has the type of a record, once the copy has been read
\* and the arguments are there.
Loaded(q) ==
  /\ q.rec \in Record
  /\ q.op \in PasswordOps => q.new \in Passwords
  /\ q.op \in TotpOps \ {"disable"} => q.secret \in Secrets

LEMMA UpdatedType == ASSUME NEW q \in Request, Loaded(q) PROVE Updated(q) \in Record
  BY DEF Loaded, Updated, Record, PasswordOps, TotpOps, Request

-----------------------------------------------------------------------------
(* Type correctness.  TypeOK alone is not inductive: Upsert and the mails   *)
(* use arguments that are None for other operations.                        *)

Mailing == {"mint", "mail", "refind"}
Updating == {"load", "upsert", "restart", "await", "notify", "mark"}

\* At each step the arguments it uses are there.
Arguments(r) ==
  /\ pc[r] \in {"find", "lookup"} \cup Mailing => req[r].op = "forgot"
  /\ pc[r] \in Mailing => req[r].user \in Users
  /\ pc[r] \in {"validate", "save"} \cup Updating => req[r].user \in Users
  /\ pc[r] = "token" => req[r].op = "reset" /\ req[r].new \in Passwords
  /\ pc[r] = "verify" => req[r].op = "sms" /\ req[r].new \in Passwords
  /\ pc[r] = "validate" => req[r].op \in {"enable", "recover"} /\ req[r].secret \in Secrets
  /\ pc[r] = "save" => req[r].op = "email"
  /\ pc[r] \in Updating =>
       /\ req[r].op \in PasswordOps \cup TotpOps
       /\ req[r].op \in PasswordOps => req[r].new \in Passwords
       /\ req[r].op \in TotpOps \ {"disable"} => req[r].secret \in Secrets
  /\ pc[r] \in Updating \ {"load"} => req[r].rec \in Record
  /\ pc[r] = "mark" => req[r].op = "reset"
  /\ pc[r] \in Updating /\ req[r].op = "reset" => req[r].token \in Requests

TypeInv == TypeOK /\ \A r \in Requests : Arguments(r)

LEMMA InitType == Init => TypeInv
  <1> SUFFICES ASSUME Init PROVE TypeInv
    OBVIOUS
  <1>1. NoRequest \in Request
    BY DEF NoRequest, Request
  <1>2. TypeOK
    BY <1>1, FileAssumption
    DEF Init, TypeOK, Steps, FileAssumption
  <1>3. ASSUME NEW r \in Requests PROVE Arguments(r)
    BY DEF Init, Arguments, Mailing, Updating
  <1> QED BY <1>2, <1>3 DEF TypeInv

LEMMA TypeStep == TypeInv /\ [Next]_vars => TypeInv'
  <1> SUFFICES ASSUME TypeInv, [Next]_vars PROVE TypeInv'
    OBVIOUS
  <1> USE DEF TypeInv, storeVars, fileVars, tinyauthVars
  <1>1. ASSUME NEW r \in Requests, Arrive(r) PROVE TypeInv'
    <2>1. ASSUME NEW q \in Request, NEW s \in Steps, Begin(r, q, s),
                 \/ s = "find" /\ q.op = "forgot"
                 \/ s = "token" /\ q.op = "reset" /\ q.new \in Passwords
                 \/ s = "verify" /\ q.op = "sms" /\ q.new \in Passwords
                 \/ s = "load" /\ q.op = "change" /\ q.new \in Passwords /\ q.user \in Users
                 \/ s = "load" /\ q.op = "disable" /\ q.user \in Users
                 \/ s = "validate" /\ q.op \in {"enable", "recover"}
                    /\ q.secret \in Secrets /\ q.user \in Users
                 \/ s = "save" /\ q.op = "email" /\ q.user \in Users
          PROVE TypeInv'
      BY <2>1 DEF Begin, At, Goto, TypeOK, Arguments, Mailing, Updating, PasswordOps, TotpOps
    <2>2. CASE ArriveForgot(r)
      BY <2>1, <2>2 DEF ArriveForgot, NoRequest, Request, AllOps, Steps
    <2>3. CASE ArriveReset(r)
      BY <2>1, <2>3 DEF ArriveReset, NoRequest, Request, AllOps, Steps, TypeOK
    <2>4. CASE ArriveSms(r)
      BY <2>1, <2>4 DEF ArriveSms, NoRequest, Request, AllOps, Steps
    <2>5. CASE ArriveChange(r)
      BY <2>1, <2>5 DEF ArriveChange, NoRequest, Request, AllOps, Steps
    <2>6. CASE ArriveEnable(r)
      BY <2>1, <2>6 DEF ArriveEnable, NoRequest, Request, AllOps, Steps
    <2>7. CASE ArriveDisable(r)
      BY <2>1, <2>7 DEF ArriveDisable, NoRequest, Request, AllOps, Steps
    <2>8. CASE ArriveEmail(r)
      BY <2>1, <2>8 DEF ArriveEmail, NoRequest, Request, AllOps, Steps
    <2> QED BY <1>1, <2>2, <2>3, <2>4, <2>5, <2>6, <2>7, <2>8 DEF Arrive
  <1>2. ASSUME NEW r \in Requests, NEW s \in Steps, NEW q \in Request, Step(r, s, q),
               s \notin Done => Arguments(r)'
        PROVE TypeInv'
    BY <1>2, EndedType DEF Step, Goto, TypeOK, Arguments, Mailing, Updating, Done
  <1>3. ASSUME NEW r \in Requests, Reply(r, "ok") \/ Reply(r, "error") PROVE TypeInv'
    BY <1>3, EndedType
    DEF Reply, Answer, Goto, TypeOK, Arguments, Mailing, Updating, Steps, Done
  <1>4. ASSUME NEW r \in Requests, Serve(r) PROVE TypeInv'
    <2> USE DEF At, Proceed
    <2>1. CASE ForgotFind(r)
      BY <1>2, <1>3, <2>1
      DEF ForgotFind, Arguments, Mailing, Updating, TypeOK, Request, Steps, Step, Goto, Done
    <2>2. CASE ForgotLookup(r)
      <3>1. ASSUME NEW u \in Users, Step(r, "refind", [req[r] EXCEPT !.user = u]) PROVE TypeInv'
        <4>1. [req[r] EXCEPT !.user = u] \in Request /\ "refind" \in Steps
          BY DEF TypeOK, Request, Steps
        <4>2. Arguments(r)'
          BY <2>2, <3>1, <4>1
          DEF ForgotLookup, Step, Goto, TypeOK, Arguments, Mailing, Updating, Request
        <4> QED BY <1>2, <3>1, <4>1, <4>2
      <3> QED BY <1>3, <2>2, <3>1 DEF ForgotLookup
    <2>3. CASE ForgotRefind(r)
      BY <1>2, <1>3, <2>3
      DEF ForgotRefind, Arguments, Mailing, Updating, TypeOK, Request, Steps, Step, Goto, Done
    <2>4. CASE ForgotMint(r)
      <3>1. now + ResetTTL \in Nat /\ req[r].user \in Users
        BY <2>4, TimeAssumption DEF TimeAssumption, ForgotMint, TypeOK, Arguments, Mailing
      <3>2. resetTokens' \in [Requests -> Token \cup {None}]
        BY <2>4, <3>1 DEF ForgotMint, TypeOK, Token
      <3>3. TypeOK'
        BY <2>4, <3>2 DEF ForgotMint, Goto, TypeOK, Steps
      <3>4. ASSUME NEW x \in Requests PROVE Arguments(x)'
        BY <2>4, <3>4 DEF ForgotMint, Goto, TypeOK, Arguments, Mailing, Updating
      <3> QED BY <3>3, <3>4
    <2>5. CASE ForgotMail(r)
      BY <2>5, EndedType
      DEF ForgotMail, Answer, Goto, TypeOK, Arguments, Mailing, Updating, Steps, Done
    <2>6. CASE ResetCheckToken(r)
      <3> DEFINE t == req[r].token
                 q == [req[r] EXCEPT !.user = resetTokens[t].user]
      <3>1. CASE t # None /\ resetTokens[t] # None /\ Step(r, "load", q)
        <4>1. t \in Requests /\ resetTokens[t] \in Token
          BY <3>1 DEF TypeOK, Request
        <4>2. q \in Request /\ "load" \in Steps /\ q.user \in Users
          BY <4>1 DEF TypeOK, Request, Token, Steps
        <4>3. Arguments(r)'
          BY <2>6, <3>1, <4>1, <4>2
          DEF ResetCheckToken, Step, Goto, TypeOK, Arguments, Mailing, Updating, Request,
              PasswordOps, TotpOps
        <4> QED BY <1>2, <3>1, <4>2, <4>3
      <3> QED BY <1>3, <2>6, <3>1 DEF ResetCheckToken
    <2>7. CASE SmsVerify(r)
      <3>1. ASSUME NEW u \in Users, Step(r, "load", [req[r] EXCEPT !.user = u]) PROVE TypeInv'
        <4>1. [req[r] EXCEPT !.user = u] \in Request /\ "load" \in Steps
          BY DEF TypeOK, Request, Steps
        <4>2. Arguments(r)'
          BY <2>7, <3>1, <4>1
          DEF SmsVerify, Step, Goto, TypeOK, Arguments, Mailing, Updating, Request, PasswordOps,
              TotpOps
        <4> QED BY <1>2, <3>1, <4>1, <4>2
      <3> QED BY <1>3, <2>7, <3>1 DEF SmsVerify
    <2>8. CASE TotpValidate(r)
      BY <1>2, <1>3, <2>8
      DEF TotpValidate, Arguments, Mailing, Updating, TypeOK, Request, Steps, Step, Goto, Done,
          PasswordOps, TotpOps
    <2>9. CASE Load(r)
      <3>1. CASE Reply(r, "error")
        BY <1>3, <3>1
      <3>2. CASE /\ pc[r] = "load" /\ Exists(req[r].user)
                 /\ Overlap(req[r].user)
                 /\ Goto(r, "upsert")
                 /\ req' = [req EXCEPT ![r].rec = usersFile[req[r].user]]
                 /\ UNCHANGED <<now, storeVars, usersFile, tinyauthVars, launched>>
        <4>1. usersFile[req[r].user] \in Record
          BY <3>2 DEF Exists, TypeOK, Arguments, Updating
        <4>2. req' \in [Requests -> Request]
          BY <3>2, <4>1 DEF TypeOK, Request
        <4>3. mixed' \subseteq Users
          BY <3>2 DEF Overlap, TypeOK, Arguments, Updating
        <4>4. TypeOK'
          BY <3>2, <4>2, <4>3 DEF TypeOK, Goto, Steps
        <4>5. ASSUME NEW x \in Requests PROVE Arguments(x)'
          BY <3>2, <4>1, <4>5
          DEF TypeOK, Goto, Arguments, Mailing, Updating, Request
        <4> QED BY <4>4, <4>5
      <3> QED BY <2>9, <3>1, <3>2 DEF Load
    <2>10. CASE Upsert(r)
      <3>1. Updated(req[r]) \in Record
        BY <2>10, UpdatedType DEF Upsert, Arguments, Updating, Loaded, TypeOK
      <3> QED BY <2>10, <3>1 DEF Upsert, Goto, TypeOK, Arguments, Mailing, Updating, Steps, Owing
    <2>11. CASE UpsertFails(r)
      BY <1>3, <2>11 DEF UpsertFails
    <2>12. CASE ResetMarkUsed(r)
      <3>1. resetTokens' \in [Requests -> Token \cup {None}]
        BY <2>12 DEF ResetMarkUsed, TypeOK, Token
      <3>2. TypeOK'
        BY <2>12, <3>1 DEF ResetMarkUsed, Goto, TypeOK, Steps, Owing
      <3>3. ASSUME NEW x \in Requests PROVE Arguments(x)'
        BY <2>12, <3>3 DEF ResetMarkUsed, Goto, TypeOK, Arguments, Mailing, Updating
      <3> QED BY <3>2, <3>3
    <2>13. CASE RestartCommand(r)
      BY <2>13 DEF RestartCommand, Goto, TypeOK, Arguments, Mailing, Updating, Steps
    <2>14. CASE RestartFails(r)
      BY <2>14 DEF RestartFails, Goto, TypeOK, Arguments, Mailing, Updating, Steps
    <2>15. CASE RestartAwait(r)
      BY <1>2, <2>15
      DEF RestartAwait, Arguments, Mailing, Updating, TypeOK, Steps, Step, Goto, Done
    <2>16. CASE Notify(r)
      BY <2>16, EndedType
      DEF Notify, Answer, Goto, TypeOK, Arguments, Mailing, Updating, Steps, Done
    <2>17. CASE SetEmail(r)
      BY <2>17, EndedType
      DEF SetEmail, Answer, Goto, TypeOK, Arguments, Mailing, Updating, Steps, Done, Request
    <2> QED
      BY <1>4, <2>1, <2>2, <2>3, <2>4, <2>5, <2>6, <2>7, <2>8, <2>9, <2>10, <2>11, <2>12,
         <2>13, <2>14, <2>15, <2>16, <2>17 DEF Serve
  <1>5. CASE TinyauthBoot
    BY <1>5 DEF TinyauthBoot, TypeOK, Arguments
  <1>6. CASE TinyauthDies
    BY <1>6 DEF TinyauthDies, TypeOK, Arguments
  <1>7. ASSUME NEW u \in Users, OperatorEdits(u) PROVE TypeInv'
    BY <1>7 DEF OperatorEdits, TypeOK, Arguments
  <1>8. CASE Crash
    BY <1>8, EndedType
    DEF Crash, InFlight, TypeOK, Arguments, Mailing, Updating, Steps, Done
  <1>9. CASE Tick
    BY <1>9 DEF Tick, TypeOK, Arguments
  <1>10. CASE UNCHANGED vars
    BY <1>10 DEF vars, TypeOK, Arguments
  <1> QED BY <1>1, <1>4, <1>5, <1>6, <1>7, <1>8, <1>9, <1>10 DEF Next

LEMMA TypeInvariant == Spec => []TypeInv
  BY InitType, TypeStep, PTL DEF Spec

\* Every variable holds a value of its type, in every behaviour.
THEOREM TypeCorrect == Spec => []TypeOK
  BY TypeInvariant, PTL DEF TypeInv

-----------------------------------------------------------------------------
(* tinyauth's copy of the users file *)

\* Steps that leave the file and tinyauth alone, and no request that owes a
\* restart forgets it.
LEMMA StillOwed ==
  ASSUME LoadedOrOwed,
         UNCHANGED <<usersFile, tinyauth, loaded>>, restartLost => restartLost',
         \A r \in Requests : pc[r] \in Owing => pc'[r] \in Owing
  PROVE LoadedOrOwed'
  BY DEF LoadedOrOwed

LEMMA LoadedStep == TypeInv /\ LoadedOrOwed /\ [Next]_vars => LoadedOrOwed'
  <1> SUFFICES ASSUME TypeOK, LoadedOrOwed, [Next]_vars PROVE LoadedOrOwed'
    BY DEF TypeInv
  <1> USE DEF storeVars, fileVars, tinyauthVars
  <1>1. ASSUME NEW r \in Requests, Arrive(r) PROVE LoadedOrOwed'
    BY <1>1, StillOwed
    DEF Arrive, ArriveForgot, ArriveReset, ArriveSms, ArriveChange, ArriveEnable, ArriveDisable,
        ArriveEmail, Begin, At, Goto, Owing, TypeOK
  <1>2. ASSUME NEW r \in Requests, Serve(r) PROVE LoadedOrOwed'
    <2>1. CASE Upsert(r)
      BY <2>1 DEF Upsert, Goto, LoadedOrOwed, Owing, TypeOK
    <2>2. CASE ResetMarkUsed(r)
      BY <2>2, StillOwed DEF ResetMarkUsed, At, Goto, Owing, TypeOK
    <2>3. CASE RestartCommand(r)
      BY <2>3 DEF RestartCommand, LoadedOrOwed
    <2>4. CASE RestartFails(r)
      BY <2>4 DEF RestartFails, LoadedOrOwed
    <2>5. CASE ForgotFind(r) \/ ForgotLookup(r) \/ ForgotRefind(r) \/ ForgotMint(r) \/ ForgotMail(r)
      BY <2>5, StillOwed
      DEF ForgotFind, ForgotLookup, ForgotRefind, ForgotMint, ForgotMail, Proceed, Step, Reply,
          Answer, At, Goto, Owing, TypeOK
    <2>6. CASE ResetCheckToken(r) \/ SmsVerify(r) \/ TotpValidate(r) \/ Load(r) \/ SetEmail(r)
      BY <2>6, StillOwed
      DEF ResetCheckToken, SmsVerify, TotpValidate, Load, SetEmail, Proceed, Step, Reply, Answer,
          At, Goto, Owing, TypeOK
    <2>7. CASE UpsertFails(r) \/ RestartAwait(r) \/ Notify(r)
      BY <2>7, StillOwed
      DEF UpsertFails, RestartAwait, Notify, Proceed, Step, Reply, Answer, At, Goto, Owing, TypeOK
    <2> QED BY <1>2, <2>1, <2>2, <2>3, <2>4, <2>5, <2>6, <2>7 DEF Serve
  <1>3. CASE TinyauthBoot
    BY <1>3 DEF TinyauthBoot, LoadedOrOwed
  <1>4. CASE TinyauthDies
    BY <1>4 DEF TinyauthDies, LoadedOrOwed
  <1>5. ASSUME NEW u \in Users, OperatorEdits(u) PROVE LoadedOrOwed'
    BY <1>5 DEF OperatorEdits, LoadedOrOwed
  <1>6. CASE Crash
    BY <1>6 DEF Crash, LoadedOrOwed
  <1>7. CASE Tick
    BY <1>7, StillOwed DEF Tick
  <1>8. CASE UNCHANGED vars
    BY <1>8, StillOwed DEF vars
  <1> QED BY <1>1, <1>2, <1>3, <1>4, <1>5, <1>6, <1>7, <1>8 DEF Next

\* Whatever the requests, crashes and edits by hand: tinyauth is up with an old
\* users file only while a restart is still to come or is known to be lost.
THEOREM LoadedOrOwedAlways == Spec => []LoadedOrOwed
  <1>1. Init => LoadedOrOwed
    BY DEF Init, LoadedOrOwed
  <1> QED BY <1>1, LoadedStep, TypeInvariant, PTL DEF Spec

-----------------------------------------------------------------------------
(* Reset tokens *)

\* Requests that have not minted a token.
Unminted == {"idle", "find", "lookup", "refind", "mint"}
\* Where a confirmation is once its token is marked.
Marked == {"restart", "await", "notify", "ok"}

\* Only minted tokens are mailed and brought back, and a spent token is marked
\* or, after a crash, gone: its request never mints again.
TokenInv ==
  /\ \A t \in mailed : pc[t] \notin Unminted
  /\ \A r \in Requests :
       /\ pc[r] = "idle" => req[r].op = None
       /\ req[r].op = "reset" => req[r].token \in mailed \cup {None}
       /\ req[r].op = "reset" /\ pc[r] \in Marked =>
            /\ req[r].token # None
            /\ resetTokens[req[r].token] = None \/ resetTokens[req[r].token].used

\* One request moves on and the store's tokens stay as they are.
LEMMA TokenFrame ==
  ASSUME TypeInv, TokenInv, UNCHANGED <<resetTokens, mailed>>,
         NEW r \in Requests, NEW s, NEW q,
         pc' = [pc EXCEPT ![r] = s], req' = [req EXCEPT ![r] = q],
         s # "idle", s \in Unminted => pc[r] \in Unminted,
         q.op = "reset" => q.token \in mailed \cup {None},
         q.op = "reset" /\ s \in Marked =>
           /\ q.token # None
           /\ resetTokens[q.token] = None \/ resetTokens[q.token].used
  PROVE TokenInv'
  BY DEF TypeInv, TypeOK, TokenInv

\* The request goes on with the same operation and token, or is answered.
LEMMA TokenGoesOn ==
  ASSUME TypeInv, TokenInv, UNCHANGED <<resetTokens, mailed>>,
         NEW r \in Requests, NEW s,
         \/ \E q \in Request : /\ q.op = req[r].op /\ q.token = req[r].token
                              /\ pc' = [pc EXCEPT ![r] = s] /\ req' = [req EXCEPT ![r] = q]
         \/ Answer(r, s),
         s # "idle", s \in Unminted => pc[r] \in Unminted,
         s \in Marked /\ req[r].op = "reset" => pc[r] \in Marked
  PROVE TokenInv'
  <1>1. PICK q : /\ q.op = req[r].op /\ q.token = req[r].token
                 /\ pc' = [pc EXCEPT ![r] = s] /\ req' = [req EXCEPT ![r] = q]
    BY DEF Answer, Goto, Ended, NoRequest
  <1> QED BY <1>1, TokenFrame DEF TokenInv

LEMMA TokenStep == TypeInv /\ TokenInv /\ [Next]_vars => TokenInv'
  <1> SUFFICES ASSUME TypeInv, TokenInv, [Next]_vars PROVE TokenInv'
    OBVIOUS
  <1> USE DEF storeVars, fileVars, tinyauthVars
  <1>1. ASSUME NEW r \in Requests, Arrive(r) PROVE TokenInv'
    <2>1. ASSUME NEW q, NEW s, Begin(r, q, s), s \in {"find", "token", "verify", "validate", "load", "save"},
                 q.op = "reset" => q.token \in mailed \cup {None}
          PROVE TokenInv'
      BY <2>1, TokenFrame DEF Begin, At, Goto, Unminted, Marked
    <2> QED
      BY <1>1, <2>1
      DEF Arrive, ArriveForgot, ArriveReset, ArriveSms, ArriveChange, ArriveEnable, ArriveDisable,
          ArriveEmail, NoRequest
  <1>2. ASSUME NEW r \in Requests, Serve(r) PROVE TokenInv'
    <2> USE DEF At, TypeInv, Arguments, Mailing, Updating
    <2>1. ASSUME NEW s, \/ Proceed(r, s)
                        \/ \E u \in Users : Step(r, s, [req[r] EXCEPT !.user = u]),
                 \/ pc[r] \in Unminted /\ s \in {"lookup", "refind", "mint"}
                 \/ s \in {"load", "upsert"}
                 \/ pc[r] = "await" /\ s = "notify"
          PROVE TokenInv'
      <3>1. PICK q \in Request :
              /\ q.op = req[r].op /\ q.token = req[r].token
              /\ pc' = [pc EXCEPT ![r] = s] /\ req' = [req EXCEPT ![r] = q]
              /\ UNCHANGED <<resetTokens, mailed>>
        BY <2>1 DEF Proceed, Step, Goto, TypeOK, Request
      <3> QED BY <2>1, <3>1, TokenGoesOn DEF Unminted, Marked
    <2>2. ASSUME Reply(r, "ok") \/ Reply(r, "error"), Reply(r, "ok") => req[r].op = "forgot"
          PROVE TokenInv'
      BY <2>2, TokenGoesOn DEF Reply, Unminted, Marked
    <2>3. CASE ForgotFind(r) \/ ForgotRefind(r)
      BY <2>1, <2>2, <2>3 DEF ForgotFind, ForgotRefind, Unminted
    <2>4. CASE ForgotLookup(r)
      BY <2>1, <2>2, <2>4 DEF ForgotLookup, Unminted
    <2>5. CASE ForgotMint(r)
      <3>1. r \notin mailed
        BY <2>5 DEF ForgotMint, TokenInv, Unminted
      <3> QED BY <2>5, <3>1 DEF ForgotMint, Goto, TokenInv, TypeOK, Unminted, Marked
    <2>6. CASE ForgotMail(r)
      BY <2>6 DEF ForgotMail, Answer, Ended, NoRequest, Goto, TokenInv, TypeOK, Unminted, Marked
    <2>7. CASE ResetCheckToken(r)
      <3>1. CASE Reply(r, "error")
        BY <2>2, <3>1 DEF Reply, Answer, Goto, TypeOK
      <3>2. CASE /\ req[r].token # None /\ resetTokens[req[r].token] # None
                 /\ Step(r, "load", [req[r] EXCEPT !.user = resetTokens[req[r].token].user])
        <4>1. resetTokens[req[r].token].user \in Users
          BY <3>2 DEF TypeOK, Request, Token
        <4> QED BY <2>1, <3>2, <4>1
      <3> QED BY <2>7, <3>1, <3>2 DEF ResetCheckToken
    <2>8. CASE SmsVerify(r) \/ TotpValidate(r)
      BY <2>1, <2>2, <2>8 DEF SmsVerify, TotpValidate, Reply, Answer, Goto, TypeOK
    <2>9. CASE Load(r)
      <3>1. CASE Reply(r, "error")
        BY <2>2, <3>1 DEF Reply, Answer, Goto, TypeOK
      <3>2. CASE Goto(r, "upsert") /\ req' = [req EXCEPT ![r].rec = usersFile[req[r].user]]
                 /\ UNCHANGED storeVars
        <4>1. req' = [req EXCEPT ![r] = [req[r] EXCEPT !.rec = usersFile[req[r].user]]]
          BY <3>2
        <4> QED BY <3>2, <4>1, TokenFrame DEF Goto, TokenInv, TypeOK, Request, Unminted, Marked
      <3> QED BY <2>9, <3>1, <3>2 DEF Load
    <2>10. CASE Upsert(r)
      BY <2>10 DEF Upsert, Goto, TokenInv, TypeOK, Unminted, Marked
    <2>11. CASE UpsertFails(r)
      BY <2>2, <2>11 DEF UpsertFails, Reply, Answer, Goto, TypeOK
    <2>12. CASE ResetMarkUsed(r)
      <3>1. ASSUME NEW t \in Requests
            PROVE  /\ t = req[r].token => resetTokens'[t] = None \/ resetTokens'[t].used
                   /\ t # req[r].token => resetTokens'[t] = resetTokens[t]
        BY <2>12 DEF ResetMarkUsed, TypeOK, Token
      <3>2. req[r].op = "reset" /\ req[r].token \in Requests
        BY <2>12 DEF ResetMarkUsed
      <3>3. \A x \in Requests : req[x].op = "reset" => req[x].token \in Requests \cup {None}
        BY DEF TypeOK, Request
      <3>4. req[r].token # None
        BY <3>2, NoneAssumption DEF NoneAssumption
      <3> QED
        BY <2>12, <3>1, <3>2, <3>3, <3>4
        DEF ResetMarkUsed, Goto, TokenInv, TypeOK, Unminted, Marked
    <2>13. CASE RestartCommand(r) \/ RestartFails(r)
      BY <2>13 DEF RestartCommand, RestartFails, Goto, TokenInv, TypeOK, Unminted, Marked
    <2>14. CASE RestartAwait(r)
      BY <2>1, <2>14 DEF RestartAwait
    <2>15. CASE Notify(r)
      BY <2>15, TokenGoesOn DEF Notify, Unminted, Marked
    <2>16. CASE SetEmail(r)
      BY <2>16, TokenGoesOn DEF SetEmail, Unminted, Marked
    <2> QED
      BY <1>2, <2>3, <2>4, <2>5, <2>6, <2>7, <2>8, <2>9, <2>10, <2>11, <2>12, <2>13, <2>14,
         <2>15, <2>16 DEF Serve
  <1>3. CASE TinyauthBoot
    BY <1>3 DEF TinyauthBoot, TokenInv
  <1>4. CASE TinyauthDies
    BY <1>4 DEF TinyauthDies, TokenInv
  <1>5. ASSUME NEW u \in Users, OperatorEdits(u) PROVE TokenInv'
    BY <1>5 DEF OperatorEdits, TokenInv
  <1>6. CASE Crash
    BY <1>6
    DEF Crash, InFlight, Ended, NoRequest, TokenInv, TypeInv, TypeOK, Unminted, Marked, Done
  <1>7. CASE Tick
    BY <1>7 DEF Tick, TokenInv
  <1>8. CASE UNCHANGED vars
    BY <1>8 DEF vars, TokenInv
  <1> QED BY <1>1, <1>2, <1>3, <1>4, <1>5, <1>6, <1>7, <1>8 DEF Next

LEMMA TokenInvariant == Spec => []TokenInv
  <1>1. Init => TokenInv
    BY DEF Init, TokenInv, NoRequest, Marked
  <1> QED BY <1>1, TokenStep, TypeInvariant, PTL DEF Spec

\* The step from the token check to the record is ResetCheckToken's alone.
LEMMA TokenCheckIsPassed ==
  ASSUME TypeInv, Next, NEW r \in Requests, PassesTokenCheck(r) PROVE ResetCheckToken(r)
  <1> USE DEF PassesTokenCheck, TypeInv, TypeOK
  <1>1. ASSUME NEW x \in Requests, Arrive(x) PROVE FALSE
    BY <1>1
    DEF Arrive, ArriveForgot, ArriveReset, ArriveSms, ArriveChange, ArriveEnable, ArriveDisable,
        ArriveEmail, Begin, At, Goto
  <1>2. ASSUME NEW x \in Requests, Serve(x) PROVE ResetCheckToken(r)
    <2> USE DEF At, Proceed, Step, Reply, Answer, Goto
    <2>1. CASE ForgotFind(x) \/ ForgotLookup(x) \/ ForgotRefind(x) \/ ForgotMint(x) \/ ForgotMail(x)
      BY <2>1 DEF ForgotFind, ForgotLookup, ForgotRefind, ForgotMint, ForgotMail
    <2>2. CASE ResetCheckToken(x)
      BY <2>2 DEF ResetCheckToken
    <2>3. CASE SmsVerify(x) \/ TotpValidate(x) \/ Load(x) \/ Upsert(x) \/ UpsertFails(x)
      BY <2>3 DEF SmsVerify, TotpValidate, Load, Upsert, UpsertFails
    <2>4. CASE \/ ResetMarkUsed(x) \/ RestartCommand(x) \/ RestartFails(x) \/ RestartAwait(x)
               \/ Notify(x) \/ SetEmail(x)
      BY <2>4 DEF ResetMarkUsed, RestartCommand, RestartFails, RestartAwait, Notify, SetEmail
    <2> QED BY <1>2, <2>1, <2>2, <2>3, <2>4 DEF Serve
  <1>3. ASSUME TinyauthBoot \/ TinyauthDies \/ Tick \/ \E u \in Users : OperatorEdits(u) PROVE FALSE
    BY <1>3 DEF TinyauthBoot, TinyauthDies, Tick, OperatorEdits
  <1>4. CASE Crash
    BY <1>4 DEF Crash
  <1> QED BY <1>1, <1>2, <1>3, <1>4 DEF Next

\* However confirmations, requests and crashes interleave, a token that bought a
\* confirmation its answer lets no later request past the token check.
THEOREM SpentTokenStaysDead == Spec => SpentTokenIsDead
  <1>1. ASSUME TypeInv, TokenInv, [Next]_vars
        PROVE [\A r \in Requests : PassesTokenCheck(r) => ~Spent(req[r].token)]_vars
    <2>1. ASSUME Next, NEW r \in Requests, PassesTokenCheck(r), Spent(req[r].token) PROVE FALSE
      <3>1. ResetCheckToken(r)
        BY <1>1, <2>1, TokenCheckIsPassed
      <3> QED
        BY <1>1, <2>1, <3>1
        DEF ResetCheckToken, PassesTokenCheck, Spent, TokenInv, Marked, Reply, Answer, Goto,
            TypeInv, TypeOK
    <2> QED BY <1>1, <2>1
  <1> QED BY <1>1, TypeInvariant, TokenInvariant, PTL DEF Spec, SpentTokenIsDead

-----------------------------------------------------------------------------
(* AccountService implements Credentials: the invariant on the copies of    *)
(* records, and the refinement.                                            *)

\* A copy of a record that is not written back yet is the record itself, and
\* the only copy, unless the updates of its user overlapped.
CopyInv ==
  \A r \in Requests : pc[r] = "upsert" =>
    /\ req[r].op \in {"change", "disable"} => req[r].rec.pw = req[r].old
    /\ req[r].user \notin mixed =>
         /\ usersFile[req[r].user] = req[r].rec
         /\ \A s \in Requests : pc[s] = "upsert" /\ req[s].user = req[r].user => s = r

\* One request moves, neither to nor from holding a copy.
Elsewhere(r) ==
  \E s, q :
    /\ pc[r] # "upsert" /\ s # "upsert"
    /\ pc' = [pc EXCEPT ![r] = s] /\ req' = [req EXCEPT ![r] = q]
    /\ UNCHANGED fileVars

\* Every step of a request is one of four.
LEMMA RequestStep ==
  ASSUME TypeInv, NEW r \in Requests, Arrive(r) \/ Serve(r)
  PROVE  \/ Elsewhere(r)
         \/ /\ Load(r) /\ pc' = [pc EXCEPT ![r] = "upsert"]
         \/ Upsert(r)
         \/ UpsertFails(r)
  <1> USE DEF TypeInv, TypeOK, At, Goto, Proceed, Step, Reply, Answer, storeVars, tinyauthVars
  <1>0. req = [req EXCEPT ![r] = req[r]]
    OBVIOUS
  <1>1. CASE Arrive(r)
    BY <1>1
    DEF Arrive, ArriveForgot, ArriveReset, ArriveSms, ArriveChange, ArriveEnable, ArriveDisable,
        ArriveEmail, Begin, Elsewhere
  <1>2. CASE ForgotFind(r) \/ ForgotLookup(r) \/ ForgotRefind(r)
    BY <1>2 DEF ForgotFind, ForgotLookup, ForgotRefind, Elsewhere
  <1>3. CASE ForgotMint(r) \/ ForgotMail(r)
    BY <1>0, <1>3 DEF ForgotMint, ForgotMail, Elsewhere
  <1>4. CASE ResetCheckToken(r) \/ SmsVerify(r) \/ TotpValidate(r)
    BY <1>4 DEF ResetCheckToken, SmsVerify, TotpValidate, Elsewhere
  <1>5. CASE Load(r)
    BY <1>5 DEF Load, Elsewhere
  <1>6. CASE ResetMarkUsed(r) \/ RestartCommand(r) \/ RestartFails(r)
    BY <1>0, <1>6 DEF ResetMarkUsed, RestartCommand, RestartFails, Elsewhere
  <1>7. CASE RestartAwait(r) \/ Notify(r) \/ SetEmail(r)
    BY <1>7 DEF RestartAwait, Notify, SetEmail, Elsewhere
  <1> QED BY <1>1, <1>2, <1>3, <1>4, <1>5, <1>6, <1>7 DEF Serve

LEMMA CopyStep == TypeInv /\ CopyInv /\ [Next]_vars => CopyInv'
  <1> SUFFICES ASSUME TypeInv, CopyInv, [Next]_vars PROVE CopyInv'
    OBVIOUS
  <1> USE DEF fileVars
  <1>1. ASSUME NEW r \in Requests, Arrive(r) \/ Serve(r) PROVE CopyInv'
    <2>1. CASE Elsewhere(r)
      BY <2>1 DEF Elsewhere, CopyInv, TypeInv, TypeOK
    <2>2. CASE Load(r) /\ pc' = [pc EXCEPT ![r] = "upsert"]
      <3> DEFINE u == req[r].user
      <3>1. /\ Accepted(req[r], usersFile[u]) /\ Overlap(u)
            /\ req' = [req EXCEPT ![r].rec = usersFile[u]]
            /\ UNCHANGED usersFile
        BY <2>2 DEF Load, Reply, Answer, Goto, At, TypeInv, TypeOK
      <3>2. /\ req'[r].rec = usersFile[u] /\ req'[r].user = u
            /\ req'[r].op = req[r].op /\ req'[r].old = req[r].old
            /\ \A s \in Requests \ {r} : req'[s] = req[s] /\ pc'[s] = pc[s]
        BY <2>2, <3>1 DEF TypeInv, TypeOK, Request
      <3>3. CASE Holding(u) = {}
        BY <2>2, <3>1, <3>2, <3>3 DEF CopyInv, Overlap, Holding, Accepted
      <3>4. CASE Holding(u) # {}
        BY <2>2, <3>1, <3>2, <3>4 DEF CopyInv, Overlap, Holding, Accepted
      <3> QED BY <3>3, <3>4
    <2>3. CASE Upsert(r)
      BY <2>3 DEF Upsert, At, Goto, CopyInv, TypeInv, TypeOK, Arguments, Updating
    <2>4. CASE UpsertFails(r)
      BY <2>4 DEF UpsertFails, Reply, Answer, At, Goto, CopyInv, TypeInv, TypeOK
    <2> QED BY <1>1, <2>1, <2>2, <2>3, <2>4, RequestStep
  <1>2. ASSUME NEW u \in Users, OperatorEdits(u) PROVE CopyInv'
    BY <1>2 DEF OperatorEdits, Holding, CopyInv, TypeInv, TypeOK, Arguments, Updating
  <1>3. CASE TinyauthBoot \/ TinyauthDies \/ Tick
    BY <1>3 DEF TinyauthBoot, TinyauthDies, Tick, CopyInv
  <1>4. CASE Crash
    BY <1>4 DEF Crash, InFlight, Done, CopyInv
  <1>5. CASE UNCHANGED vars
    BY <1>5 DEF vars, CopyInv
  <1> QED BY <1>1, <1>2, <1>3, <1>4, <1>5 DEF Next

LEMMA CopyInvariant == Spec => []CopyInv
  <1>1. Init => CopyInv
    BY DEF Init, CopyInv
  <1> QED BY <1>1, CopyStep, TypeInvariant, PTL DEF Spec

\* ChangePassword and TotpDisable check the password their user still has when
\* they write, unless the updates of that user overlapped.
THEOREM OldPasswordStaysCurrent == Spec => OldPasswordIsCurrent
  <1>1. ASSUME TypeInv, CopyInv, NEW r \in Requests,
               pc[r] = "upsert", req[r].op \in {"change", "disable"}, req[r].user \notin mixed
        PROVE  Exists(req[r].user) /\ usersFile[req[r].user].pw = req[r].old
    <2>1. usersFile[req[r].user] = req[r].rec /\ req[r].rec \in Record
      BY <1>1 DEF CopyInv, TypeInv, Arguments, Updating
    <2> QED BY <1>1, <2>1, NoneAssumption DEF NoneAssumption, CopyInv, Exists
  <1>2. TypeInv /\ CopyInv =>
          \A r \in Requests :
            /\ pc[r] = "upsert" /\ pc'[r] = "restart"
            /\ req[r].op \in {"change", "disable"}
            /\ req[r].user \notin mixed
            => Exists(req[r].user) /\ usersFile[req[r].user].pw = req[r].old
    BY <1>1
  <1> QED BY <1>2, TypeInvariant, CopyInvariant, PTL DEF OldPasswordIsCurrent

-----------------------------------------------------------------------------
(* What TotpChangesByTotpRequests has left: overlaps alone undo an operation. *)

\* Request r changes u's record in the field of its operation.
ChangedBy(r, u) ==
  /\ pc'[r] # pc[r] /\ usersFile'[u] \in Record
  /\ usersFile'[u].pw # usersFile[u].pw =>
       req[r].op \in PasswordOps /\ usersFile'[u].pw = req[r].new
  /\ usersFile'[u].totp # usersFile[u].totp =>
       req[r].op \in TotpOps /\ usersFile'[u].totp \in {req[r].secret, None}

\* A user whose updates do not overlap and whom the operator leaves alone has each
\* field of the record changed by a request for that field, to what it asked for.
ChangedOnRequest ==
  \A u \in Users \ (Editable \cup mixed) :
    Exists(u) /\ usersFile'[u] # usersFile[u] => \E r \in Holding(u) : ChangedBy(r, u)
FieldsChangeOnRequest == [][ChangedOnRequest]_vars

\* The record that is written differs from its copy in the field of the operation.
LEMMA UpdatedField ==
  ASSUME NEW q \in Request, Loaded(q), q.op \in PasswordOps \cup TotpOps
  PROVE  /\ Updated(q).pw # q.rec.pw => q.op \in PasswordOps /\ Updated(q).pw = q.new
         /\ Updated(q).totp # q.rec.totp => q.op \in TotpOps /\ Updated(q).totp \in {q.secret, None}
  BY DEF Loaded, Updated, Record, PasswordOps, TotpOps

\* A password change keeps the TOTP secret and a TOTP operation the password, for
\* any number of requests: only updates that overlap mix the two.
THEOREM FieldsStayApart == Spec => FieldsChangeOnRequest
  <1>1. ASSUME TypeInv, CopyInv, [Next]_vars,
               NEW u \in Users \ (Editable \cup mixed), Exists(u), usersFile'[u] # usersFile[u]
        PROVE  \E r \in Holding(u) : ChangedBy(r, u)
    <2>1. \E r \in Requests : Upsert(r)
      <3>1. ASSUME NEW r \in Requests, Arrive(r) \/ Serve(r), ~Upsert(r) PROVE UNCHANGED usersFile
        BY <1>1, <3>1, RequestStep DEF Elsewhere, Load, UpsertFails, Reply, Answer, At, Goto, fileVars
      <3>2. CASE TinyauthBoot \/ TinyauthDies \/ Tick \/ Crash \/ UNCHANGED vars
        BY <1>1, <3>2 DEF TinyauthBoot, TinyauthDies, Tick, Crash, vars, fileVars
      <3>3. ASSUME NEW v \in Users, OperatorEdits(v) PROVE FALSE
        BY <1>1, <3>3 DEF OperatorEdits, TypeInv, TypeOK
      <3> QED BY <1>1, <3>1, <3>2, <3>3 DEF Next
    <2>2. PICK r \in Requests : Upsert(r)
      BY <2>1
    <2>3. /\ pc[r] = "upsert" /\ pc'[r] # pc[r] /\ req[r] \in Request
          /\ Loaded(req[r]) /\ req[r].op \in PasswordOps \cup TotpOps
          /\ usersFile' = [usersFile EXCEPT ![req[r].user] = Updated(req[r])]
      BY <1>1, <2>2 DEF Upsert, At, Goto, TypeInv, TypeOK, Arguments, Updating, Loaded
    <2>4. req[r].user = u
      BY <1>1, <2>3 DEF TypeInv, TypeOK
    <2>5. usersFile'[u] = Updated(req[r])
      BY <1>1, <2>3, <2>4 DEF TypeInv, TypeOK
    <2>6. usersFile[u] = req[r].rec /\ r \in Holding(u)
      BY <1>1, <2>3, <2>4 DEF CopyInv, Holding
    <2>7. Updated(req[r]) \in Record
      BY <2>3, UpdatedType
    <2>8. /\ usersFile'[u].pw # usersFile[u].pw =>
               req[r].op \in PasswordOps /\ usersFile'[u].pw = req[r].new
          /\ usersFile'[u].totp # usersFile[u].totp =>
               req[r].op \in TotpOps /\ usersFile'[u].totp \in {req[r].secret, None}
      <3>1. /\ Updated(req[r]).pw # req[r].rec.pw =>
                 req[r].op \in PasswordOps /\ Updated(req[r]).pw = req[r].new
            /\ Updated(req[r]).totp # req[r].rec.totp =>
                 req[r].op \in TotpOps /\ Updated(req[r]).totp \in {req[r].secret, None}
        BY <2>3, UpdatedField
      <3> QED BY <3>1, <2>5, <2>6
    <2> QED BY <2>3, <2>5, <2>6, <2>7, <2>8 DEF ChangedBy
  <1>2. TypeInv /\ CopyInv /\ [Next]_vars => [ChangedOnRequest]_vars
    BY <1>1 DEF ChangedOnRequest
  <1> QED BY <1>2, TypeInvariant, CopyInvariant, PTL DEF Spec, FieldsChangeOnRequest

-----------------------------------------------------------------------------
(* The refinement: creds <- the users file, open and copy <- the copies held. *)

\* What Upsert writes is the copy with one field replaced.
LEMMA UpdatedOneField ==
  ASSUME TypeInv, NEW r \in Requests, pc[r] = "upsert"
  PROVE  Updated(req[r]) \in C!OneFieldOf(req[r].rec)
  <1> DEFINE q == req[r]
  <1>1. q.rec \in Record /\ q.op \in PasswordOps \cup TotpOps
    BY DEF TypeInv, Arguments, Updating
  <1>2. CASE q.op \in PasswordOps
    BY <1>2 DEF Updated, PasswordOps, C!OneFieldOf, TypeInv, Arguments, Updating
  <1>3. CASE q.op = "disable"
    BY <1>3 DEF Updated, PasswordOps, C!OneFieldOf
  <1>4. CASE q.op \in TotpOps \ {"disable"}
    BY <1>4 DEF Updated, PasswordOps, TotpOps, C!OneFieldOf, TypeInv, Arguments, Updating
  <1> QED BY <1>1, <1>2, <1>3, <1>4

\* Copies are handed out and back in the steps to and from "upsert" alone.
LEMMA SameCopies ==
  ASSUME UNCHANGED <<usersFile, mixed>>,
         \A r \in Requests :
           /\ pc'[r] = "upsert" <=> pc[r] = "upsert"
           /\ pc[r] = "upsert" => req'[r].user = req[r].user /\ req'[r].rec = req[r].rec
  PROVE  UNCHANGED <<usersFile, [u \in Users |-> Holding(u)], Copies, mixed>>
  <1>1. ASSUME NEW u \in Users PROVE Holding(u)' = Holding(u)
    BY DEF Holding
  <1>2. Copies' = Copies
    BY DEF Copies
  <1> QED BY <1>1, <1>2

\* Requests that leave "upsert" give their copies back.
LEMMA CopiesBack ==
  ASSUME NEW rs \in SUBSET Requests, UNCHANGED mixed,
         \A r \in Requests :
           /\ pc'[r] = "upsert" <=> pc[r] = "upsert" /\ r \notin rs
           /\ pc'[r] = "upsert" => req'[r] = req[r]
  PROVE  C!Closes(rs)
  <1>1. ASSUME NEW u \in Users PROVE Holding(u)' = Holding(u) \ rs
    BY DEF Holding
  <1>2. Copies' = [r \in Requests |-> IF r \in rs THEN None ELSE Copies[r]]
    BY DEF Copies
  <1> QED BY <1>1, <1>2 DEF C!Closes

LEMMA AbstractStep ==
  TypeInv /\ CopyInv /\ [Next]_vars =>
    [C!Next]_<<usersFile, [u \in Users |-> Holding(u)], Copies, mixed>>
  <1> DEFINE held == [u \in Users |-> Holding(u)]
  <1> SUFFICES ASSUME TypeInv, CopyInv, [Next]_vars
               PROVE C!Next \/ UNCHANGED <<usersFile, held, Copies, mixed>>
    OBVIOUS
  <1> USE DEF fileVars
  <1>1. ASSUME NEW r \in Requests, Arrive(r) \/ Serve(r)
        PROVE C!Next \/ UNCHANGED <<usersFile, held, Copies, mixed>>
    <2> DEFINE u == req[r].user
    <2>1. CASE Elsewhere(r)
      BY <2>1, SameCopies DEF Elsewhere, TypeInv, TypeOK
    <2>2. CASE Load(r) /\ pc' = [pc EXCEPT ![r] = "upsert"]
      <3>1. /\ Exists(u) /\ Overlap(u) /\ UNCHANGED usersFile /\ u \in Users
            /\ req' = [req EXCEPT ![r].rec = usersFile[u]]
        BY <2>2 DEF Load, Reply, Answer, Goto, At, TypeInv, TypeOK, Arguments, Updating
      <3>2. \A s \in Requests :
              /\ req'[s].user = req[s].user
              /\ req'[s].rec = IF s = r THEN usersFile[u] ELSE req[s].rec
        BY <3>1 DEF TypeInv, TypeOK, Request
      <3>3. pc[r] = "load"
        BY <2>2 DEF Load, At
      <3>4. held' = [held EXCEPT ![u] = @ \cup {r}]
        <4>1. ASSUME NEW v \in Users
              PROVE Holding(v)' = IF v = u THEN Holding(v) \cup {r} ELSE Holding(v)
          BY <2>2, <3>2 DEF Holding, TypeInv, TypeOK
        <4> QED BY <3>1, <4>1
      <3>5. Copies' = [Copies EXCEPT ![r] = usersFile[u]]
        BY <2>2, <3>2 DEF Copies, TypeInv, TypeOK
      <3>6. C!Open(r, u)
        BY <3>1, <3>3, <3>4, <3>5 DEF C!Open, Overlap, Exists, Holding
      <3> QED BY <3>1, <3>6 DEF C!Next
    <2>3. CASE Upsert(r)
      <3>1. /\ pc[r] = "upsert" /\ u \in Users /\ UNCHANGED <<req, mixed>>
            /\ usersFile' = [usersFile EXCEPT ![u] = Updated(req[r])]
            /\ \E s : s # "upsert" /\ pc' = [pc EXCEPT ![r] = s]
        BY <2>3 DEF Upsert, At, Goto, TypeInv, Arguments, Updating
      <3>2. r \in held[u] /\ Copies[r] = req[r].rec
        BY <3>1 DEF Holding, Copies
      <3>3. C!Closes({r})
        BY <3>1, CopiesBack DEF TypeInv, TypeOK
      <3>4. u \notin mixed => usersFile[u] = Copies[r]
        BY <3>1, <3>2 DEF CopyInv
      <3>5. Updated(req[r]) \in C!OneFieldOf(Copies[r])
        BY <3>1, <3>2, UpdatedOneField
      <3>6. C!Commit(r, u)
        BY <3>1, <3>2, <3>3, <3>4, <3>5 DEF C!Commit
      <3> QED BY <3>1, <3>6 DEF C!Next
    <2>4. CASE UpsertFails(r)
      <3>1. /\ pc[r] = "upsert" /\ pc' = [pc EXCEPT ![r] = "error"] /\ UNCHANGED <<usersFile, mixed>>
            /\ \A s \in Requests \ {r} : req'[s] = req[s]
        BY <2>4 DEF UpsertFails, Reply, Answer, At, Goto, TypeInv, TypeOK
      <3>2. C!Abandon({r})
        BY <3>1, CopiesBack DEF C!Abandon, TypeInv, TypeOK
      <3> QED BY <3>2 DEF C!Next
    <2> QED BY <1>1, <2>1, <2>2, <2>3, <2>4, RequestStep
  <1>2. ASSUME NEW u \in Users, OperatorEdits(u) PROVE C!Next
    <2>1. UNCHANGED <<held, Copies>>
      BY <1>2 DEF OperatorEdits, Holding, Copies
    <2>2. C!OperatorEdits(u)
      BY <1>2, <2>1 DEF OperatorEdits, C!OperatorEdits, C!Record, Record
    <2> QED BY <2>2 DEF C!Next
  <1>3. CASE TinyauthBoot \/ TinyauthDies \/ Tick
    BY <1>3, SameCopies DEF TinyauthBoot, TinyauthDies, Tick
  <1>4. CASE Crash
    <2>1. UNCHANGED <<usersFile, mixed>> /\ \A r \in Requests : pc'[r] # "upsert"
      BY <1>4 DEF Crash, InFlight, Done
    <2>2. C!Abandon(Requests)
      BY <2>1, CopiesBack DEF C!Abandon
    <2> QED BY <2>2 DEF C!Next
  <1>5. CASE UNCHANGED vars
    BY <1>5, SameCopies DEF vars
  <1> QED BY <1>1, <1>2, <1>3, <1>4, <1>5 DEF Next

\* The account operations keep the promises of module Credentials, whatever the
\* number of requests and users: an update writes the record it read with one field
\* replaced, which outside an overlap is the record the user has at that moment.
THEOREM AccountServiceKeepsCredentials == Spec => KeepsCredentials
  <1>1. Init => C!Init
    BY DEF Init, C!Init, Holding, Copies
  <1> QED
    BY <1>1, AbstractStep, TypeInvariant, CopyInvariant, PTL DEF Spec, KeepsCredentials, C!Spec
=============================================================================
