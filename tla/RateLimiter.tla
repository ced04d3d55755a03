----------------------------- MODULE RateLimiter -----------------------------
(***************************************************************************)
(* The per-address rate limiter of the public endpoints                    *)
(* (internal/middleware/ratelimit.go): a map from addresses to token       *)
(* buckets, a sweep that forgets addresses not seen for a while, and       *)
(* requests that fetch their bucket in one step and draw from it in a      *)
(* later one, when the sweep may have dropped it.                          *)
(*                                                                         *)
(* A bucket is golang.org/x/time/rate's Limiter.  Credit is counted in     *)
(* ticks: a tick of time adds one, a token is worth Interval.              *)
(***************************************************************************)
EXTENDS Integers, Sequences

CONSTANTS
  IPs,        \* client addresses
  Requests,   \* request goroutines
  None,       \* no bucket
  Burst,      \* tokens in a full bucket: the n of PerMinute(n)
  Interval,   \* ticks per token: a minute / n
  Stale,      \* 5 minutes
  SweepEvery, \* 3 minutes
  MaxHold,    \* what a request between fetching and drawing is expected to take at most
  MaxTime,    \* bound on the clock
  MaxBuckets  \* bound on the buckets made for one address

Buckets == IPs \X (1 .. MaxBuckets)

ASSUME BoundsAssumption ==
  /\ {Burst, Interval} \subseteq Nat \ {0}
  /\ {Stale, SweepEvery, MaxHold, MaxTime, MaxBuckets} \subseteq Nat
ASSUME NoneAssumption == None \notin Buckets

\* A bucket that has not been drawn from for Stale - MaxHold ticks is full.
ASSUME StaleAssumption == Burst * Interval + MaxHold <= Stale

VARIABLES
  now,       \* the clock
  sweepAt,   \* when the sweep runs next
  visitors,  \* the addresses in the map
  lastSeen,  \* when an address last fetched its bucket
  made,      \* buckets made for an address; the last one is the one in the map
  credit,    \* the credit of a bucket ...
  last,      \* ... at the time of the last draw
  held,      \* the bucket a request has fetched
  since,     \* when it fetched it
  passed,    \* ghost: when requests of an address were let through
  slow       \* ghost: addresses of which a request took more than MaxHold

mapVars == <<sweepAt, visitors, lastSeen, made>>
bucketVars == <<credit, last>>
vars == <<now, mapVars, bucketVars, held, since, passed, slow>>

\* Mutant of Full: one token short.
Full_Short == (Burst - 1) * Interval
\* NewLimiter(rate, burst) starts full.
Full == Burst * Interval

Init ==
  /\ now = 0 /\ sweepAt = SweepEvery
  /\ visitors = {}
  /\ lastSeen = [ip \in IPs |-> 0] /\ made = [ip \in IPs |-> 0]
  /\ credit = [b \in Buckets |-> 0] /\ last = [b \in Buckets |-> 0]
  /\ held = [r \in Requests |-> None] /\ since = [r \in Requests |-> 0]
  /\ passed = [ip \in IPs |-> <<>>]
  /\ slow = {}

\* Mutant of Seen: an address in the map keeps its old time.
Seen_Unmoved(ip) == UNCHANGED lastSeen
Seen(ip) == lastSeen' = [lastSeen EXCEPT ![ip] = now]

\* getLimiter, for an address in the map ...
Fetch(r, ip) ==
  /\ held[r] = None /\ ip \in visitors
  /\ Seen(ip)
  /\ held' = [held EXCEPT ![r] = <<ip, made[ip]>>]
  /\ since' = [since EXCEPT ![r] = now]
  /\ UNCHANGED <<now, sweepAt, visitors, made, bucketVars, passed, slow>>

\* ... and for a new one.
MakeAndFetch(r, ip) ==
  LET b == <<ip, made[ip] + 1>> IN
  /\ held[r] = None /\ ip \notin visitors /\ made[ip] < MaxBuckets
  /\ visitors' = visitors \cup {ip}
  /\ made' = [made EXCEPT ![ip] = made[ip] + 1]
  /\ lastSeen' = [lastSeen EXCEPT ![ip] = now]
  /\ credit' = [credit EXCEPT ![b] = Full] /\ last' = [last EXCEPT ![b] = now]
  /\ held' = [held EXCEPT ![r] = b]
  /\ since' = [since EXCEPT ![r] = now]
  /\ UNCHANGED <<now, sweepAt, passed, slow>>

\* The credit of a bucket at this moment.
Available(b) ==
  LET c == credit[b] + (now - last[b]) IN IF c > Full THEN Full ELSE c

\* Allow() returns true ...
Pass(r) ==
  LET b == held[r] IN
  /\ b # None /\ Available(b) >= Interval
  /\ credit' = [credit EXCEPT ![b] = Available(b) - Interval]
  /\ last' = [last EXCEPT ![b] = now]
  /\ passed' = [passed EXCEPT ![b[1]] = Append(@, now)]
  /\ held' = [held EXCEPT ![r] = None] /\ since' = [since EXCEPT ![r] = 0]
  /\ UNCHANGED <<now, mapVars, slow>>

\* ... or false, which leaves the bucket as it is: "too many requests".
Refuse(r) ==
  /\ held[r] # None /\ Available(held[r]) < Interval
  /\ held' = [held EXCEPT ![r] = None] /\ since' = [since EXCEPT ![r] = 0]
  /\ UNCHANGED <<now, mapVars, bucketVars, passed, slow>>

\* Mutant of Forgotten: addresses are forgotten as soon as they rest.
Forgotten_Early == {ip \in visitors : now > lastSeen[ip]}
Forgotten == {ip \in visitors : now - lastSeen[ip] > Stale}

\* One round of cleanup.
Sweep ==
  /\ now >= sweepAt
  /\ visitors' = visitors \ Forgotten
  /\ lastSeen' = [ip \in IPs |-> IF ip \in Forgotten THEN 0 ELSE lastSeen[ip]]
  /\ sweepAt' = now + SweepEvery
  /\ UNCHANGED <<now, made, bucketVars, held, since, passed, slow>>

\* Time passes.
Tick ==
  /\ now < MaxTime
  /\ now' = now + 1
  /\ slow' = slow \cup {held[r][1] : r \in {q \in Requests : held[q] # None /\ now' - since[q] > MaxHold}}
  /\ UNCHANGED <<mapVars, bucketVars, held, since, passed>>

Next ==
  \/ \E r \in Requests : Pass(r) \/ Refuse(r) \/ \E ip \in IPs : Fetch(r, ip) \/ MakeAndFetch(r, ip)
  \/ Sweep \/ Tick

Spec == Init /\ [][Next]_vars

-----------------------------------------------------------------------------
(* Properties *)

\* Every variable holds a value of its type.
TypeOK ==
  /\ now \in Nat /\ sweepAt \in Nat
  /\ visitors \subseteq IPs
  /\ lastSeen \in [IPs -> Nat]
  /\ made \in [IPs -> 0 .. MaxBuckets]
  /\ credit \in [Buckets -> Nat] /\ last \in [Buckets -> Nat]
  /\ held \in [Requests -> Buckets \cup {None}]
  /\ since \in [Requests -> Nat]
  /\ passed \in [IPs -> Seq(Nat)]
  /\ slow \subseteq IPs

\* From any request that was let through on, an address gets no more through than a
\* burst and what has flowed in since, although its bucket may be dropped and made
\* anew meanwhile, unless a request of it was held up for longer than MaxHold.
\* Code: the times of PerMinute (one minute to refill) and of cleanup (five minutes).
RateBound ==
  \A ip \in IPs \ slow : \A i \in DOMAIN passed[ip] :
    (Len(passed[ip]) - i + 1) * Interval <= Burst * Interval + (now - passed[ip][i])

\* A request is refused only when letting it through would break RateBound: refused
\* requests cost nothing, and the buckets an address had before are not counted twice.
RefusedForCause ==
  [][\A r \in Requests : Refuse(r) =>
       LET p == passed[held[r][1]] IN
       \E i \in DOMAIN p : (Len(p) - i + 2) * Interval > Burst * Interval + (now - p[i])]_vars
=============================================================================
