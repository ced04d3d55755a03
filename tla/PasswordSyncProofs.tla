------------------------- MODULE PasswordSyncProofs -------------------------
(***************************************************************************)
(* Theorems of PasswordSync: types, what SyncPassword leaves unreported,   *)
(* and what a receiver holds that acknowledged the last password.          *)
(***************************************************************************)
EXTENDS PasswordSync, TLAPS

\* Nothing of a change leaves before its request has launched the goroutines.
QuietInv ==
  \A c \in Changes : pc[c] \in {"idle", "failed", "restart"} =>
    \A x \in Receivers : call[c][x] = "none" /\ <<c, x>> \notin net

\* What the state of a call tells: an accepted one was applied, a failed target
\* is reported, and a SyncPassword that has returned has no call under way.
OutcomeInv ==
  /\ \A c \in Changes, x \in Receivers :
       call[c][x] \in {"accepted", "ok"} => <<c, x>> \in applied
  /\ \A c \in Changes, t \in Targets :
       /\ call[c][t] = "failed" => t \in errs[c]
       /\ sync[c] = "running" => call[c][t] \in Live \cup {"ok", "failed"}
       /\ sync[c] = "returned" => call[c][t] \in {"ok", "failed"}

\* Outside crossed nothing of another change can reach a receiver any more, so
\* one that has accepted the last change holds it.
CrossInv ==
  last # None => \A x \in Receivers \ crossed :
    /\ \A d \in Changes \ {last} : ~Unsettled(d, x)
    /\ call[last][x] \in {"accepted", "ok"} => held[x] = last

SyncInv == QuietInv /\ OutcomeInv /\ CrossInv

-----------------------------------------------------------------------------
\* The type invariant is inductive.
LEMMA TypeStep == TypeOK /\ [Next]_vars => TypeOK'
<1> SUFFICES ASSUME TypeOK, [Next]_vars PROVE TypeOK'
  OBVIOUS
<1> USE DEF TypeOK, CallStates, Live, Receivers
<1>1. ASSUME NEW c \in Changes, Write(c) \/ WriteFails(c) PROVE TypeOK'
  BY <1>1 DEF Write, WriteFails, calls, outside
<1>2. ASSUME NEW c \in Changes, Launch(c) PROVE TypeOK'
  <2>1. PICK role \in Roles :
          call' = [call EXCEPT ![c] = [x \in Receivers |->
                     IF x \in Targets \/ Matches(x, role) THEN "ready" ELSE "skipped"]]
    BY <1>2 DEF Launch
  <2>2. call' \in [Changes -> [Receivers -> CallStates]]
    BY <2>1
  <2> QED BY <1>2, <2>2 DEF Launch, outside
<1>3. ASSUME NEW c \in Changes, Return(c) PROVE TypeOK'
  BY <1>3 DEF Return, outside
<1>4. ASSUME NEW c \in Changes, NEW x \in Receivers, Send(c, x) PROVE TypeOK'
  BY <1>4 DEF Send, Becomes
<1>5. ASSUME NEW c \in Changes, NEW x \in Receivers, Fail(c, x) \/ (Becomes(c, x, "ok") /\ UNCHANGED errs)
      PROVE  call' \in [Changes -> [Receivers -> CallStates]] /\ errs' \in [Changes -> SUBSET Targets]
  <2>1. call' \in [Changes -> [Receivers -> CallStates]]
    BY <1>5 DEF Fail, Becomes
  <2>2. errs' \in [Changes -> SUBSET Targets]
    BY <1>5 DEF Fail
  <2> QED BY <2>1, <2>2
<1>6. ASSUME NEW c \in Changes, NEW x \in Receivers, CannotSend(c, x) \/ Answered(c, x) \/ Timeout(c, x)
      PROVE  TypeOK'
  BY <1>5, <1>6 DEF CannotSend, Answered, Timeout, outside
<1>7. ASSUME NEW c \in Changes, NEW x \in Receivers, Deliver(c, x) PROVE TypeOK'
  <2>1. call' = call \/ \E s \in CallStates : call' = [call EXCEPT ![c][x] = s]
    BY <1>7 DEF Deliver, Becomes
  <2>2. held' \in [Receivers -> Changes \cup {None}] /\ applied' \subseteq Changes \X Receivers
    BY <1>7 DEF Deliver
  <2>3. call' \in [Changes -> [Receivers -> CallStates]]
    BY <2>1
  <2> QED BY <1>7, <2>2, <2>3 DEF Deliver
<1>8. ASSUME NEW c \in Changes, NEW x \in Receivers, Lose(c, x) PROVE TypeOK'
  BY <1>8 DEF Lose, calls
<1>9. ASSUME Crash PROVE TypeOK'
  BY <1>9 DEF Crash, outside
<1>10. ASSUME UNCHANGED vars PROVE TypeOK'
  BY <1>10 DEF vars, calls, outside
<1> QED BY <1>1, <1>2, <1>3, <1>4, <1>5, <1>6, <1>7, <1>8, <1>9, <1>10 DEF Next, Goroutine

\* Every variable keeps its type.
THEOREM SyncTypeCorrect == Spec => []TypeOK
<1>1. Init => TypeOK
  BY DEF Init, TypeOK, CallStates, Receivers
<1> QED BY <1>1, TypeStep, PTL DEF Spec

-----------------------------------------------------------------------------
\* The requests start without goroutines and without a last change.
LEMMA SyncInit == Init => SyncInv
  BY DEF Init, SyncInv, QuietInv, OutcomeInv, CrossInv, Receivers

\* The steps of a request: the write is where receivers are crossed or settled.
LEMMA WriteStep ==
  ASSUME TypeOK, SyncInv, NEW c \in Changes, Write(c) PROVE SyncInv'
<1>1. /\ call' = call /\ sync' = sync /\ errs' = errs /\ net' = net
      /\ held' = held /\ applied' = applied /\ last' = c
      /\ pc[c] = "idle" /\ pc' = [pc EXCEPT ![c] = "restart"]
  BY DEF Write, calls, outside
<1>2. QuietInv'
  BY <1>1 DEF QuietInv, SyncInv, TypeOK
<1>3. OutcomeInv'
  BY <1>1 DEF OutcomeInv, SyncInv
<1>4. ASSUME NEW x \in Receivers \ crossed', NEW d \in Changes \ {c} PROVE ~Unsettled(d, x)'
  <2>1. ~Unsettled(d, x)
    BY <1>4 DEF Write
  <2> QED BY <2>1, <1>1 DEF Unsettled, TypeOK
<1>5. \A x \in Receivers : call[c][x] = "none"
  BY <1>1 DEF SyncInv, QuietInv
<1>6. CrossInv'
  BY <1>1, <1>4, <1>5 DEF CrossInv
<1> QED BY <1>2, <1>3, <1>6 DEF SyncInv

\* Launch starts the goroutines of a change; nothing of it was under way before.
LEMMA LaunchStep ==
  ASSUME TypeOK, SyncInv, NEW c \in Changes, Launch(c) PROVE SyncInv'
<1>1. PICK role \in Roles :
        call' = [call EXCEPT ![c] = [x \in Receivers |->
                   IF x \in Targets \/ Matches(x, role) THEN "ready" ELSE "skipped"]]
  BY DEF Launch
<1>2. /\ last' = last /\ errs' = errs /\ net' = net /\ held' = held
      /\ applied' = applied /\ crossed' = crossed
      /\ pc[c] = "restart" /\ pc' = [pc EXCEPT ![c] = "answered"]
      /\ sync' = [sync EXCEPT ![c] = "running"]
  BY DEF Launch, outside
<1>3. \A x \in Receivers : call'[c][x] \in {"ready", "skipped"} /\ (x \in Targets => call'[c][x] = "ready")
  BY <1>1 DEF TypeOK
<1>4. \A d \in Changes \ {c} : call'[d] = call[d] /\ pc'[d] = pc[d] /\ sync'[d] = sync[d]
  BY <1>1, <1>2 DEF TypeOK
<1>5. pc'[c] = "answered" /\ sync'[c] = "running"
  BY <1>2 DEF TypeOK
<1>6. QuietInv'
  BY <1>2, <1>4, <1>5 DEF QuietInv, SyncInv
<1>7. OutcomeInv'
  <2>1. \A d \in Changes, x \in Receivers :
          call'[d][x] \in {"accepted", "ok"} => <<d, x>> \in applied'
    BY <1>2, <1>3, <1>4 DEF OutcomeInv, SyncInv
  <2>2. \A d \in Changes, t \in Targets :
          /\ call'[d][t] = "failed" => t \in errs'[d]
          /\ sync'[d] = "running" => call'[d][t] \in Live \cup {"ok", "failed"}
          /\ sync'[d] = "returned" => call'[d][t] \in {"ok", "failed"}
    BY <1>2, <1>3, <1>4, <1>5 DEF OutcomeInv, SyncInv, Live, Receivers
  <2> QED BY <2>1, <2>2 DEF OutcomeInv
<1>8. CrossInv'
  <2> SUFFICES ASSUME last # None, NEW x \in Receivers \ crossed
               PROVE /\ \A d \in Changes \ {last} : ~Unsettled(d, x)'
                     /\ call'[last][x] \in {"accepted", "ok"} => held[x] = last
    BY <1>2 DEF CrossInv
  <2>1. \A d \in Changes \ {last} : ~Unsettled(d, x)
    BY DEF CrossInv, SyncInv
  <2>2. c = last
    BY <2>1, <1>2 DEF Unsettled
  <2> QED BY <2>1, <2>2, <1>2, <1>3, <1>4 DEF Unsettled
<1> QED BY <1>6, <1>7, <1>8 DEF SyncInv

\* A step of one call brings it to s: it changes what is reported of the call, and
\* puts it on its way when it was ready.
CallMoves(c, x, s) ==
  /\ call' = [call EXCEPT ![c][x] = s]
  /\ call[c][x] \in Live /\ s \in (Live \ {"ready"}) \cup {"ok", "failed"}
  /\ UNCHANGED <<last, pc, sync, applied, held, crossed>>
  /\ s \in {"accepted", "ok"} => call[c][x] = "accepted"
  /\ s = "failed" /\ x \in Targets => x \in errs'[c]
  /\ \A d \in Changes : errs[d] \subseteq errs'[d]
  /\ net' \subseteq net \cup (IF call[c][x] = "ready" THEN {<<c, x>>} ELSE {})

LEMMA CallStep ==
  ASSUME TypeOK, SyncInv, NEW c \in Changes, NEW x \in Receivers, NEW s \in CallStates,
         CallMoves(c, x, s)
  PROVE  SyncInv'
<1> USE DEF TypeOK, CallMoves
<1>1. call'[c][x] = s /\ \A d \in Changes, y \in Receivers : <<d, y>> # <<c, x>> => call'[d][y] = call[d][y]
  OBVIOUS
<1>2. pc[c] \notin {"idle", "failed", "restart"}
  BY DEF SyncInv, QuietInv, Live
<1>3. QuietInv'
  BY <1>1, <1>2 DEF SyncInv, QuietInv
<1>4. OutcomeInv'
  <2>1. \A d \in Changes, y \in Receivers :
          call'[d][y] \in {"accepted", "ok"} => <<d, y>> \in applied'
    BY <1>1 DEF OutcomeInv, SyncInv
  <2>2. ASSUME NEW d \in Changes, NEW t \in Targets
        PROVE  /\ call'[d][t] = "failed" => t \in errs'[d]
               /\ sync'[d] = "running" => call'[d][t] \in Live \cup {"ok", "failed"}
               /\ sync'[d] = "returned" => call'[d][t] \in {"ok", "failed"}
    <3>1. t \in Receivers
      BY DEF Receivers
    <3>2. CASE <<d, t>> = <<c, x>>
      BY <3>1, <3>2, <1>1 DEF OutcomeInv, SyncInv, Live
    <3>3. CASE <<d, t>> # <<c, x>>
      BY <3>1, <3>3, <1>1 DEF OutcomeInv, SyncInv
    <3> QED BY <3>2, <3>3
  <2> QED BY <2>1, <2>2 DEF OutcomeInv
<1>5. CrossInv'
  <2> SUFFICES ASSUME last # None, NEW y \in Receivers \ crossed
               PROVE /\ \A d \in Changes \ {last} : ~Unsettled(d, y)'
                     /\ call'[last][y] \in {"accepted", "ok"} => held[y] = last
    BY DEF CrossInv
  <2>1. \A d \in Changes \ {last} : ~Unsettled(d, y)
    BY DEF CrossInv, SyncInv
  <2>2. ASSUME NEW d \in Changes \ {last} PROVE ~Unsettled(d, y)'
    <3>1. call'[d][y] # "ready" /\ pc'[d] # "restart"
      BY <2>1, <1>1 DEF Unsettled
    <3>2. <<d, y>> \notin net'
      BY <2>1 DEF Unsettled
    <3> QED BY <3>1, <3>2 DEF Unsettled
  <2>3. call'[last][y] \in {"accepted", "ok"} => held[y] = last
    BY <1>1 DEF CrossInv, SyncInv
  <2> QED BY <2>2, <2>3
<1> QED BY <1>3, <1>4, <1>5 DEF SyncInv

\* A request arrives: of the last change, or at a receiver that is crossed.
LEMMA DeliverStep ==
  ASSUME TypeOK, SyncInv, NEW c \in Changes, NEW x \in Receivers, Deliver(c, x)
  PROVE  SyncInv'
<1> USE DEF TypeOK
<1>1. /\ <<c, x>> \in net /\ net' \subseteq net
      /\ last' = last /\ pc' = pc /\ sync' = sync /\ errs' = errs /\ crossed' = crossed
      /\ applied \subseteq applied'
  BY DEF Deliver
<1>2. \A d \in Changes, y \in Receivers : <<d, y>> # <<c, x>> => call'[d][y] = call[d][y]
  BY DEF Deliver, Becomes
<1>3. \/ call'[c][x] = call[c][x]
      \/ call[c][x] = "waiting" /\ call'[c][x] = "refused" /\ held' = held
      \/ call[c][x] = "waiting" /\ call'[c][x] = "accepted" /\ <<c, x>> \in applied' /\ held'[x] = c
  BY DEF Deliver, Becomes
<1>4. held' = held \/ held' = [held EXCEPT ![x] = c]
  BY DEF Deliver
<1>5. QuietInv'
  BY <1>1, <1>2 DEF SyncInv, QuietInv
<1>6. OutcomeInv'
  <2>1. ASSUME NEW d \in Changes, NEW y \in Receivers, call'[d][y] \in {"accepted", "ok"}
        PROVE  <<d, y>> \in applied'
    <3>1. CASE call'[d][y] = call[d][y]
      BY <3>1, <2>1, <1>1 DEF OutcomeInv, SyncInv
    <3>2. CASE <<d, y>> = <<c, x>>
      BY <3>1, <3>2, <2>1, <1>3
    <3> QED BY <3>1, <3>2, <1>2
  <2>2. ASSUME NEW d \in Changes, NEW t \in Targets
        PROVE  /\ call'[d][t] = "failed" => t \in errs'[d]
               /\ sync'[d] = "running" => call'[d][t] \in Live \cup {"ok", "failed"}
               /\ sync'[d] = "returned" => call'[d][t] \in {"ok", "failed"}
    <3>1. t \in Receivers
      BY DEF Receivers
    <3>2. CASE <<d, t>> = <<c, x>>
      BY <3>1, <3>2, <1>1, <1>3 DEF OutcomeInv, SyncInv, Live
    <3>3. CASE <<d, t>> # <<c, x>>
      BY <3>1, <3>3, <1>1, <1>2 DEF OutcomeInv, SyncInv
    <3> QED BY <3>2, <3>3
  <2> QED BY <2>1, <2>2 DEF OutcomeInv
<1>7. CrossInv'
  <2> SUFFICES ASSUME last # None, NEW y \in Receivers \ crossed
               PROVE /\ \A d \in Changes \ {last} : ~Unsettled(d, y)'
                     /\ call'[last][y] \in {"accepted", "ok"} => held'[y] = last
    BY <1>1 DEF CrossInv
  <2>1. /\ \A d \in Changes \ {last} : ~Unsettled(d, y)
        /\ call[last][y] \in {"accepted", "ok"} => held[y] = last
    BY DEF CrossInv, SyncInv
  <2>2. last \in Changes
    OBVIOUS
  <2>3. x = y => c = last
    BY <2>1, <1>1 DEF Unsettled
  <2>4. ASSUME NEW d \in Changes \ {last} PROVE ~Unsettled(d, y)'
    <3>1. call'[d][y] = call[d][y]
      BY <2>3, <1>2
    <3> QED BY <3>1, <2>1, <1>1 DEF Unsettled
  <2>5. call'[last][y] \in {"accepted", "ok"} => held'[y] = last
    <3>1. CASE x # y
      BY <3>1, <2>1, <2>2, <1>2, <1>4
    <3>2. CASE x = y
      BY <3>2, <2>1, <2>2, <2>3, <1>3, <1>4
    <3> QED BY <3>1, <3>2
  <2> QED BY <2>4, <2>5
<1> QED BY <1>5, <1>6, <1>7 DEF SyncInv

\* Stopping kills goroutines; what is on its way and what has returned stays.
LEMMA CrashStep == ASSUME TypeOK, SyncInv, Crash PROVE SyncInv'
<1> USE DEF TypeOK
<1>1. \A c \in Changes : pc'[c] = IF pc[c] = "restart" THEN "lost" ELSE pc[c]
  BY DEF Crash
<1>2. \A c \in Changes, x \in Receivers :
        call'[c][x] = IF call[c][x] \in Live THEN "killed" ELSE call[c][x]
  BY DEF Crash
<1>3. \A c \in Changes : sync'[c] = IF sync[c] = "running" THEN "killed" ELSE sync[c]
  BY DEF Crash
<1>4. UNCHANGED <<last, errs, net, held, applied, crossed>>
  BY DEF Crash, outside
<1>5. QuietInv'
  BY <1>1, <1>2, <1>4 DEF SyncInv, QuietInv, Live
<1>6. OutcomeInv'
  <2>1. \A c \in Changes, x \in Receivers :
          call'[c][x] \in {"accepted", "ok"} => <<c, x>> \in applied'
    BY <1>2, <1>4 DEF SyncInv, OutcomeInv
  <2>2. ASSUME NEW c \in Changes, NEW t \in Targets
        PROVE  /\ call'[c][t] = "failed" => t \in errs'[c]
               /\ sync'[c] = "running" => call'[c][t] \in Live \cup {"ok", "failed"}
               /\ sync'[c] = "returned" => call'[c][t] \in {"ok", "failed"}
    <3>1. call'[c][t] = IF call[c][t] \in Live THEN "killed" ELSE call[c][t]
      BY <1>2 DEF Receivers
    <3> QED BY <3>1, <1>3, <1>4 DEF SyncInv, OutcomeInv, Live
  <2> QED BY <2>1, <2>2 DEF OutcomeInv
<1>7. CrossInv'
  <2> SUFFICES ASSUME last # None, NEW x \in Receivers \ crossed
               PROVE /\ \A d \in Changes \ {last} : ~Unsettled(d, x)'
                     /\ call'[last][x] \in {"accepted", "ok"} => held[x] = last
    BY <1>4 DEF CrossInv
  <2>1. /\ \A d \in Changes \ {last} : ~Unsettled(d, x)
        /\ call[last][x] \in {"accepted", "ok"} => held[x] = last
    BY DEF CrossInv, SyncInv
  <2>2. ASSUME NEW d \in Changes \ {last} PROVE ~Unsettled(d, x)'
    BY <2>1, <1>1, <1>2, <1>4 DEF Unsettled, Live
  <2>3. last \in Changes
    OBVIOUS
  <2> QED BY <2>1, <2>2, <2>3, <1>2 DEF Live
<1> QED BY <1>5, <1>6, <1>7 DEF SyncInv

\* Every step keeps the invariant.
LEMMA SyncStep == TypeOK /\ SyncInv /\ [Next]_vars => SyncInv'
<1> SUFFICES ASSUME TypeOK, SyncInv, [Next]_vars PROVE SyncInv'
  OBVIOUS
<1>1. ASSUME NEW c \in Changes, WriteFails(c) PROVE SyncInv'
  <2>1. UNCHANGED <<last, call, sync, errs, net, held, applied, crossed>>
    BY <1>1 DEF WriteFails, calls, outside
  <2>2. pc[c] = "idle" /\ pc' = [pc EXCEPT ![c] = "failed"]
    BY <1>1 DEF WriteFails
  <2>3. QuietInv'
    BY <2>1, <2>2 DEF SyncInv, QuietInv, TypeOK
  <2>4. OutcomeInv'
    BY <2>1 DEF SyncInv, OutcomeInv
  <2>5. CrossInv'
    BY <2>1, <2>2 DEF SyncInv, CrossInv, Unsettled, TypeOK
  <2> QED BY <2>3, <2>4, <2>5 DEF SyncInv
<1>2. ASSUME NEW c \in Changes, Return(c) PROVE SyncInv'
  <2>1. UNCHANGED <<last, pc, call, errs, net, held, applied, crossed>>
    BY <1>2 DEF Return, outside
  <2>2. sync[c] = "running" /\ sync' = [sync EXCEPT ![c] = "returned"]
    BY <1>2 DEF Return
  <2>3. QuietInv' /\ CrossInv'
    BY <2>1 DEF SyncInv, QuietInv, CrossInv, Unsettled
  <2>4. OutcomeInv'
    BY <1>2, <2>1, <2>2 DEF SyncInv, OutcomeInv, Return, TypeOK
  <2> QED BY <2>3, <2>4 DEF SyncInv
<1>3. ASSUME NEW c \in Changes, NEW x \in Receivers, Goroutine(c, x) PROVE SyncInv'
  <2> USE DEF Becomes, outside, CallMoves, Live
  <2>1. CASE Send(c, x)
    <3>1. CallMoves(c, x, "waiting")
      BY <2>1 DEF Send
    <3> QED BY <3>1, CallStep DEF CallStates
  <2>2. CASE CannotSend(c, x)
    <3>1. CallMoves(c, x, "failed")
      BY <2>2 DEF CannotSend, Fail, TypeOK
    <3> QED BY <3>1, CallStep DEF CallStates
  <2>3. CASE Answered(c, x) /\ call[c][x] = "accepted"
    <3>1. CallMoves(c, x, "ok")
      BY <2>3 DEF Answered
    <3> QED BY <3>1, CallStep DEF CallStates
  <2>4. CASE Answered(c, x) /\ call[c][x] = "refused"
    <3>1. CallMoves(c, x, "failed")
      BY <2>4 DEF Answered, Fail, TypeOK
    <3> QED BY <3>1, CallStep DEF CallStates
  <2>5. CASE Timeout(c, x)
    <3>1. CallMoves(c, x, "failed")
      BY <2>5 DEF Timeout, Fail, TypeOK
    <3> QED BY <3>1, CallStep DEF CallStates
  <2> QED BY <1>3, <2>1, <2>2, <2>3, <2>4, <2>5 DEF Goroutine, Answered
<1>4. ASSUME NEW c \in Changes, NEW x \in Receivers, Lose(c, x) PROVE SyncInv'
  <2>1. net' \subseteq net /\ UNCHANGED <<last, pc, call, sync, errs, held, applied, crossed>>
    BY <1>4 DEF Lose, calls
  <2> QED BY <2>1 DEF SyncInv, QuietInv, OutcomeInv, CrossInv, Unsettled
<1>5. CASE UNCHANGED vars
  BY <1>5 DEF vars, calls, outside, SyncInv, QuietInv, OutcomeInv, CrossInv, Unsettled
<1> QED
  BY <1>1, <1>2, <1>3, <1>4, <1>5, WriteStep, LaunchStep, DeliverStep, CrashStep DEF Next

\* The invariant says of an unreported target, and of an acknowledged change, what is promised.
LEMMA SyncPromises == TypeOK /\ SyncInv => UnreportedIsApplied /\ AcknowledgedIsLast
<1> SUFFICES ASSUME TypeOK, SyncInv PROVE UnreportedIsApplied /\ AcknowledgedIsLast
  OBVIOUS
<1>1. UnreportedIsApplied
  BY DEF SyncInv, OutcomeInv, UnreportedIsApplied, Receivers
<1>2. AcknowledgedIsLast
  BY DEF SyncInv, CrossInv, AcknowledgedIsLast
<1> QED BY <1>1, <1>2

\* Types and invariant hold together.
LEMMA SyncInvAlways == Spec => [](TypeOK /\ SyncInv)
<1>1. Init => TypeOK
  BY DEF Init, TypeOK, CallStates, Receivers
<1> QED BY <1>1, SyncInit, TypeStep, SyncStep, PTL DEF Spec

\* A target that SyncPassword does not report has carried the change out.
THEOREM UnreportedIsAppliedAlways == Spec => []UnreportedIsApplied
  BY SyncInvAlways, SyncPromises, PTL

\* A receiver that acknowledged the last password keeps it, unless an older change was still
\* under way to it when the users file was written.
THEOREM AcknowledgedStaysLast == Spec => []AcknowledgedIsLast
  BY SyncInvAlways, SyncPromises, PTL
=============================================================================
