-------------------------- MODULE RateLimiterProofs --------------------------
(***************************************************************************)
(* Proofs about RateLimiter, for any number of addresses, requests and     *)
(* buckets, and all rates and times within the assumptions.                *)
(***************************************************************************)
EXTENDS RateLimiter, TLAPS

\* The bucket the map has for an address, and what an address could draw now.
Current(ip) == <<ip, made[ip]>>
Drawable(ip) == IF ip \in visitors THEN Available(Current(ip)) ELSE Full

\* What the requests let through since the i-th of log s cost.
Cost(s, i) == (Len(s) - i + 1) * Interval

\* No bucket holds more than it can, or is from the future.
BucketInv ==
  /\ \A b \in Buckets : credit[b] <= Full /\ last[b] <= now
  /\ \A ip \in IPs : lastSeen[ip] <= now
  /\ \A ip \in visitors : made[ip] > 0

\* A request that is not slow has the bucket that is in the map, and a bucket is
\* not drawn from long after its address was seen.
HeldInv ==
  /\ \A r \in Requests : held[r] # None /\ held[r][1] \notin slow =>
       /\ held[r][1] \in visitors /\ held[r] = Current(held[r][1])
       /\ now - since[r] <= MaxHold /\ since[r] <= lastSeen[held[r][1]]
  /\ \A ip \in visitors \ slow : last[Current(ip)] <= lastSeen[ip] + MaxHold

\* What was let through and what is left make no more than a burst and the inflow.
SpentInv ==
  \A ip \in IPs \ slow : \A i \in DOMAIN passed[ip] :
    Cost(passed[ip], i) + Drawable(ip) <= Full + (now - passed[ip][i])

\* A bucket lacks no more than what was let through.
LackInv ==
  \A b \in Buckets :
    \/ credit[b] = Full
    \/ \E i \in DOMAIN passed[b[1]] :
         credit[b] - last[b] >= Full - passed[b[1]][i] - Cost(passed[b[1]], i)
    \/ b[2] > made[b[1]]

HeldMade == \A r \in Requests : held[r] # None => held[r][2] <= made[held[r][1]]

\* TypeOK, value by value.
Types ==
  /\ now \in Nat /\ visitors \subseteq IPs /\ slow \subseteq IPs
  /\ \A ip \in IPs : lastSeen[ip] \in Nat /\ made[ip] \in Nat /\ made[ip] <= MaxBuckets
  /\ \A b \in Buckets : credit[b] \in Nat /\ last[b] \in Nat
  /\ \A r \in Requests : since[r] \in Nat /\ (held[r] # None => held[r] \in Buckets)

Inv == TypeOK /\ BucketInv /\ HeldInv /\ SpentInv /\ LackInv /\ HeldMade

-----------------------------------------------------------------------------
(* Arithmetic *)

LEMMA FullFacts == Full \in Nat /\ Interval \in Nat /\ 0 < Interval /\ Interval <= Full
<1>1. Burst \in Nat /\ Burst >= 1 /\ Interval \in Nat /\ Interval >= 1
  BY BoundsAssumption DEF BoundsAssumption
<1>2. \A a, b \in Nat : a >= 1 => a * b \in Nat /\ a * b >= b
  OBVIOUS
<1> QED BY <1>1, <1>2 DEF Full

LEMMA Times == \A k \in Int : k * Interval \in Int /\ (k + 1) * Interval = k * Interval + Interval
BY FullFacts

LEMMA ConstantFacts == Stale \in Nat /\ SweepEvery \in Nat /\ MaxHold \in Nat /\ MaxBuckets \in Nat
                       /\ Full + MaxHold <= Stale
BY BoundsAssumption, StaleAssumption DEF BoundsAssumption, StaleAssumption, Full

LEMMA BucketParts == \A b \in Buckets : b[1] \in IPs /\ b[2] \in Nat /\ b[2] > 0 /\ b = <<b[1], b[2]>>
BY ConstantFacts DEF Buckets

LEMMA BucketMade == \A ip \in IPs, g \in Nat : 0 < g /\ g <= MaxBuckets => <<ip, g>> \in Buckets
BY ConstantFacts DEF Buckets

LEMMA TypesHold == TypeOK => Types
BY ConstantFacts DEF TypeOK, Types

LEMMA TypesHoldNext == TypeOK' => Types'
BY ConstantFacts DEF TypeOK, Types

\* The credit at one moment is between nothing and a full bucket.
LEMMA AvailableFacts ==
  ASSUME TypeOK, BucketInv, NEW b \in Buckets
  PROVE  /\ Available(b) \in Nat /\ Available(b) <= Full
         /\ Available(b) <= credit[b] + (now - last[b])
         /\ credit[b] + (now - last[b]) >= Full => Available(b) = Full
         /\ credit[b] + (now - last[b]) <= Full => Available(b) = credit[b] + (now - last[b])
BY FullFacts DEF Available, TypeOK, BucketInv

-----------------------------------------------------------------------------
LEMMA InitInv == Init => Inv
<1> SUFFICES ASSUME Init PROVE Inv
    OBVIOUS
<1>1. TypeOK
  BY ConstantFacts DEF Init, TypeOK
<1>2. BucketInv /\ HeldInv /\ SpentInv /\ HeldMade
  BY FullFacts DEF Init, BucketInv, HeldInv, SpentInv, HeldMade
<1>3. LackInv
  BY DEF Init, LackInv, Buckets
<1> QED BY <1>1, <1>2, <1>3 DEF Inv

LEMMA TypeStep == TypeOK /\ BucketInv /\ [Next]_vars => TypeOK'
<1> SUFFICES ASSUME TypeOK, BucketInv, [Next]_vars PROVE TypeOK'
    OBVIOUS
<1> USE DEF TypeOK, mapVars, bucketVars
<1>1. ASSUME NEW r \in Requests, NEW ip \in IPs, Fetch(r, ip) PROVE TypeOK'
  <2>1. <<ip, made[ip]>> \in Buckets
    BY <1>1, ConstantFacts DEF Fetch, BucketInv, Buckets
  <2> QED BY <1>1, <2>1 DEF Fetch, Seen
<1>2. ASSUME NEW r \in Requests, NEW ip \in IPs, MakeAndFetch(r, ip) PROVE TypeOK'
  <2> DEFINE b == <<ip, made[ip] + 1>>
  <2>1. b \in Buckets /\ made[ip] + 1 \in 0 .. MaxBuckets
    BY <1>2, ConstantFacts DEF MakeAndFetch, Buckets
  <2>2. /\ visitors' = visitors \cup {ip} /\ made' = [made EXCEPT ![ip] = made[ip] + 1]
        /\ lastSeen' = [lastSeen EXCEPT ![ip] = now]
        /\ credit' = [credit EXCEPT ![b] = Full] /\ last' = [last EXCEPT ![b] = now]
        /\ held' = [held EXCEPT ![r] = b] /\ since' = [since EXCEPT ![r] = now]
        /\ UNCHANGED <<now, sweepAt, passed, slow>>
    BY <1>2 DEF MakeAndFetch
  <2> HIDE DEF b
  <2> QED BY <2>1, <2>2, FullFacts
<1>3. ASSUME NEW r \in Requests, Pass(r) PROVE TypeOK'
  <2> DEFINE b == held[r]
  <2>1. b \in Buckets /\ b[1] \in IPs /\ Available(b) >= Interval
    BY <1>3 DEF Pass, Buckets
  <2>2. Available(b) \in Nat
    BY <2>1, AvailableFacts
  <2>3. Available(b) - Interval \in Nat
    BY <2>1, <2>2, FullFacts
  <2>4. /\ credit' = [credit EXCEPT ![b] = Available(b) - Interval]
        /\ last' = [last EXCEPT ![b] = now]
        /\ passed' = [passed EXCEPT ![b[1]] = Append(passed[b[1]], now)]
        /\ held' = [held EXCEPT ![r] = None] /\ since' = [since EXCEPT ![r] = 0]
        /\ UNCHANGED <<now, mapVars, slow>>
    BY <1>3 DEF Pass
  <2> HIDE DEF b
  <2> QED BY <2>1, <2>3, <2>4
<1>4. ASSUME NEW r \in Requests, Refuse(r) PROVE TypeOK'
  BY <1>4 DEF Refuse
<1>5. CASE Sweep
  BY <1>5, ConstantFacts DEF Sweep
<1>6. CASE Tick
  <2>1. \A r \in Requests : held[r] # None => held[r][1] \in IPs
    BY DEF Buckets
  <2> QED BY <1>6, <2>1 DEF Tick
<1>7. CASE UNCHANGED vars
  BY <1>7 DEF vars
<1> QED BY <1>1, <1>2, <1>3, <1>4, <1>5, <1>6, <1>7 DEF Next

-----------------------------------------------------------------------------
(* Each action keeps the rest of the invariant. *)

LEMMA FetchKeeps ==
  ASSUME Inv, TypeOK', NEW r \in Requests, NEW ip \in IPs, Fetch(r, ip)
  PROVE  Inv'
<1>0. Types /\ Types'
  BY TypesHold, TypesHoldNext DEF Inv
<1> USE <1>0 DEF Inv, Types
<1>1. /\ ip \in visitors /\ held[r] = None
      /\ lastSeen'[ip] = now /\ \A p \in IPs \ {ip} : lastSeen'[p] = lastSeen[p]
      /\ held'[r] = Current(ip) /\ \A q \in Requests \ {r} : held'[q] = held[q]
      /\ since'[r] = now /\ \A q \in Requests \ {r} : since'[q] = since[q]
      /\ UNCHANGED <<now, visitors, made, credit, last, passed, slow>>
  BY DEF TypeOK, Fetch, Seen, Current, mapVars, bucketVars
<1>2. Current(ip) \in Buckets /\ Current(ip)[1] = ip /\ Current(ip)[2] = made[ip]
  BY <1>1 DEF Current, Buckets, BucketInv
<1>3. BucketInv'
  BY <1>1 DEF BucketInv
<1>4. HeldInv'
  <2>1. \A p \in IPs : lastSeen'[p] >= lastSeen[p] /\ Current(p)' = Current(p)
    BY <1>1 DEF BucketInv, Current
  <2>2. ASSUME NEW q \in Requests, held'[q] # None, held'[q][1] \notin slow
        PROVE  /\ held'[q][1] \in visitors /\ held'[q] = <<held'[q][1], made[held'[q][1]]>>
               /\ now - since'[q] <= MaxHold /\ since'[q] <= lastSeen'[held'[q][1]]
    <3>1. CASE q = r
      BY <1>1, <1>2, <3>1, ConstantFacts DEF Current
    <3>2. CASE q # r
      <4>1. /\ held[q][1] \in visitors /\ held[q] = Current(held[q][1])
            /\ now - since[q] <= MaxHold /\ since[q] <= lastSeen[held[q][1]]
        BY <1>1, <2>2, <3>2 DEF HeldInv
      <4> QED BY <1>1, <2>1, <3>2, <4>1 DEF Current
    <3> QED BY <3>1, <3>2
  <2>3. ASSUME NEW p \in visitors \ slow PROVE last[Current(p)] <= lastSeen'[p] + MaxHold
    <3>1. last[Current(p)] <= lastSeen[p] + MaxHold /\ Current(p) \in Buckets
      BY DEF HeldInv, BucketInv, Current, Buckets
    <3> QED BY <2>1, <3>1, ConstantFacts
  <2> QED BY <1>1, <2>1, <2>2, <2>3 DEF Current, HeldInv
<1>5. SpentInv'
  BY <1>1 DEF SpentInv, Cost, Drawable, Available, Current
<1>6. LackInv'
  BY <1>1 DEF LackInv, Cost
<1>7. HeldMade'
  BY <1>1, <1>2 DEF HeldMade
<1> QED BY <1>3, <1>4, <1>5, <1>6, <1>7

\* A new bucket is full, as an address without one is taken to have.
LEMMA MakeKeeps ==
  ASSUME Inv, TypeOK', NEW r \in Requests, NEW ip \in IPs, MakeAndFetch(r, ip)
  PROVE  Inv'
<1>0. Types /\ Types'
  BY TypesHold, TypesHoldNext DEF Inv
<1> USE <1>0 DEF Inv, Types
<1> DEFINE b == <<ip, made[ip] + 1>>
<1>1. /\ ip \notin visitors /\ held[r] = None
      /\ visitors' = visitors \cup {ip}
      /\ made'[ip] = made[ip] + 1 /\ \A p \in IPs \ {ip} : made'[p] = made[p]
      /\ lastSeen'[ip] = now /\ \A p \in IPs \ {ip} : lastSeen'[p] = lastSeen[p]
      /\ b \in Buckets
      /\ credit'[b] = Full /\ \A c \in Buckets \ {b} : credit'[c] = credit[c]
      /\ last'[b] = now /\ \A c \in Buckets \ {b} : last'[c] = last[c]
      /\ held'[r] = b /\ \A q \in Requests \ {r} : held'[q] = held[q]
      /\ since'[r] = now /\ \A q \in Requests \ {r} : since'[q] = since[q]
      /\ UNCHANGED <<now, passed, slow>>
  <2>1. b \in Buckets
    BY ConstantFacts DEF TypeOK, MakeAndFetch, Buckets
  <2> QED BY <2>1 DEF TypeOK, MakeAndFetch, mapVars, bucketVars
<1>2. Current(ip)' = b /\ b[1] = ip /\ b[2] = made[ip] + 1
  BY <1>1 DEF Current
<1>3. \A p \in IPs \ {ip} : Current(p)' = Current(p) /\ Current(p) # b
  BY <1>1 DEF Current
<1>4. \A p \in visitors : Current(p) \in Buckets /\ p # ip /\ p \in IPs
  BY <1>1 DEF Current, Buckets, BucketInv
<1>5. BucketInv'
  BY <1>1, FullFacts DEF BucketInv
<1>6. HeldInv'
  <2>1. ASSUME NEW q \in Requests, held'[q] # None, held'[q][1] \notin slow
        PROVE  /\ held'[q][1] \in visitors' /\ held'[q] = <<held'[q][1], made'[held'[q][1]]>>
               /\ now - since'[q] <= MaxHold /\ since'[q] <= lastSeen'[held'[q][1]]
    <3>1. CASE q = r
      BY <1>1, <1>2, <3>1, ConstantFacts
    <3>2. CASE q # r
      <4>1. /\ held[q][1] \in visitors /\ held[q] = Current(held[q][1])
            /\ now - since[q] <= MaxHold /\ since[q] <= lastSeen[held[q][1]]
        BY <1>1, <2>1, <3>2 DEF HeldInv
      <4> QED BY <1>1, <1>3, <1>4, <3>2, <4>1 DEF Current
    <3> QED BY <3>1, <3>2
  <2>2. ASSUME NEW p \in visitors' \ slow PROVE last'[Current(p)'] <= lastSeen'[p] + MaxHold
    <3>1. CASE p = ip
      BY <1>1, <1>2, <3>1, ConstantFacts
    <3>2. CASE p # ip
      <4>1. last[Current(p)] <= lastSeen[p] + MaxHold
        BY <1>1, <3>2, <2>2 DEF HeldInv
      <4> QED BY <1>1, <1>3, <1>4, <2>2, <3>2, <4>1
    <3> QED BY <3>1, <3>2
  <2> QED BY <1>1, <2>1, <2>2 DEF Current, HeldInv
<1>7. SpentInv'
  <2>1. Drawable(ip)' = Full /\ Drawable(ip) = Full
    BY <1>1, <1>2, FullFacts DEF Drawable, Available
  <2>2. \A p \in IPs \ {ip} : Drawable(p)' = Drawable(p)
    BY <1>1, <1>3, <1>4 DEF Drawable, Available
  <2>3. \A p \in IPs : Drawable(p)' = Drawable(p)
    BY <2>1, <2>2
  <2> HIDE DEF b
  <2> QED BY <1>1, <2>3 DEF SpentInv
<1>8. LackInv'
  <2> SUFFICES ASSUME NEW c \in Buckets
               PROVE  \/ credit'[c] = Full
                      \/ \E i \in DOMAIN passed[c[1]] :
                           credit'[c] - last'[c] >= Full - passed[c[1]][i] - Cost(passed[c[1]], i)
                      \/ c[2] > made'[c[1]]
    BY <1>1 DEF LackInv, Cost
  <2>1. CASE c = b
    BY <1>1, <2>1
  <2>2. CASE c # b
    <3>2. c[2] > made[c[1]] => c[2] > made'[c[1]]
      BY <1>1, <2>2, BucketParts
    <3> QED BY <1>1, <2>2, <3>2 DEF LackInv
  <2> QED BY <2>1, <2>2
<1>9. HeldMade'
  <2> SUFFICES ASSUME NEW q \in Requests, held'[q] # None PROVE held'[q][2] <= made'[held'[q][1]]
    BY DEF HeldMade
  <2>1. CASE q = r
    BY <1>1, <1>2, <2>1
  <2>2. CASE q # r
    <3>1. held[q] \in Buckets /\ held[q][1] \in IPs /\ held[q][2] \in Nat /\ held[q][2] <= made[held[q][1]]
      BY <1>1, <2>2, BucketParts DEF HeldMade
    <3> QED BY <1>1, <2>2, <3>1
  <2> QED BY <2>1, <2>2
<1> QED BY <1>5, <1>6, <1>7, <1>8, <1>9

\* One more request let through, and what that costs.
LEMMA PassedFacts ==
  ASSUME TypeOK, NEW ip \in IPs, passed'[ip] = Append(passed[ip], now)
  PROVE  /\ \A i \in DOMAIN passed[ip] :
              /\ i \in DOMAIN passed'[ip] /\ passed'[ip][i] = passed[ip][i]
              /\ i \in Int /\ passed[ip][i] \in Int
              /\ Cost(passed[ip], i) \in Int /\ Cost(passed'[ip], i) = Cost(passed[ip], i) + Interval
         /\ DOMAIN passed'[ip] = DOMAIN passed[ip] \cup {Len(passed[ip]) + 1}
         /\ passed'[ip][Len(passed[ip]) + 1] = now
         /\ Cost(passed'[ip], Len(passed[ip]) + 1) = Interval
<1>1. /\ passed[ip] \in Seq(Nat) /\ Len(passed[ip]) \in Nat /\ now \in Nat
      /\ DOMAIN passed[ip] = 1 .. Len(passed[ip])
      /\ Len(passed'[ip]) = Len(passed[ip]) + 1
      /\ DOMAIN passed'[ip] = 1 .. Len(passed[ip]) + 1
      /\ passed'[ip][Len(passed[ip]) + 1] = now
      /\ \A i \in DOMAIN passed[ip] : passed'[ip][i] = passed[ip][i] /\ passed[ip][i] \in Nat
  BY DEF TypeOK
<1>2. ASSUME NEW i \in DOMAIN passed[ip]
      PROVE  Cost(passed[ip], i) \in Int /\ Cost(passed'[ip], i) = Cost(passed[ip], i) + Interval
  <2> DEFINE k == Len(passed[ip]) - i + 1
  <2>1. k \in Int /\ Len(passed'[ip]) - i + 1 = k + 1
    BY <1>1
  <2>2. Cost(passed[ip], i) = k * Interval /\ Cost(passed'[ip], i) = (k + 1) * Interval
    BY <2>1 DEF Cost
  <2> HIDE DEF k
  <2> QED BY <2>1, <2>2, Times
<1>3. Cost(passed'[ip], Len(passed[ip]) + 1) = Interval
  <2>1. Len(passed'[ip]) - (Len(passed[ip]) + 1) + 1 = 1
    BY <1>1
  <2>2. Cost(passed'[ip], Len(passed[ip]) + 1) = 1 * Interval
    BY <2>1 DEF Cost
  <2> QED BY <2>2, FullFacts
<1> QED BY <1>1, <1>2, <1>3

\* A token leaves the bucket for each request let through.
LEMMA PassKeeps ==
  ASSUME Inv, TypeOK', NEW r \in Requests, Pass(r)
  PROVE  Inv'
<1>0. Types /\ Types'
  BY TypesHold, TypesHoldNext DEF Inv
<1> USE <1>0 DEF Inv, Types
<1>a. held[r] \in Buckets /\ held[r][1] \in IPs
  BY BucketParts DEF Pass
<1>b. PICK b \in Buckets : b = held[r]
  BY <1>a
<1>c. PICK ip \in IPs : ip = b[1]
  BY <1>a, <1>b
<1>1. /\ b # None /\ Available(b) >= Interval
      /\ credit'[b] = Available(b) - Interval /\ \A c \in Buckets \ {b} : credit'[c] = credit[c]
      /\ last'[b] = now /\ \A c \in Buckets \ {b} : last'[c] = last[c]
      /\ passed'[ip] = Append(passed[ip], now) /\ \A p \in IPs \ {ip} : passed'[p] = passed[p]
      /\ held'[r] = None /\ \A q \in Requests \ {r} : held'[q] = held[q]
      /\ since'[r] = 0 /\ \A q \in Requests \ {r} : since'[q] = since[q]
      /\ UNCHANGED <<now, visitors, lastSeen, made, slow>>
  BY <1>b, <1>c DEF Pass, TypeOK, mapVars, bucketVars
<1>2. /\ Available(b) \in Nat /\ Available(b) <= Full
      /\ credit[b] + (now - last[b]) >= Full => Available(b) = Full
      /\ credit[b] + (now - last[b]) <= Full => Available(b) = credit[b] + (now - last[b])
  BY <1>1, AvailableFacts
<1>3. \A p \in visitors : Current(p) \in Buckets /\ Current(p)' = Current(p) /\ (p # ip => Current(p) # b)
  BY <1>1, <1>c, BucketMade DEF Current, BucketInv
<1>10. /\ \A i \in DOMAIN passed[ip] :
            /\ i \in DOMAIN passed'[ip] /\ passed'[ip][i] = passed[ip][i]
            /\ i \in Int /\ passed[ip][i] \in Int
            /\ Cost(passed[ip], i) \in Int /\ Cost(passed'[ip], i) = Cost(passed[ip], i) + Interval
       /\ DOMAIN passed'[ip] = DOMAIN passed[ip] \cup {Len(passed[ip]) + 1}
       /\ passed'[ip][Len(passed[ip]) + 1] = now
       /\ Cost(passed'[ip], Len(passed[ip]) + 1) = Interval
  BY <1>1, PassedFacts
<1>11. b[2] <= made[ip]
  BY <1>1, <1>b, <1>c DEF HeldMade
<1>12. /\ Full \in Nat /\ Interval \in Nat /\ now \in Nat
       /\ \A c \in Buckets : credit[c] \in Nat /\ last[c] \in Nat
  BY FullFacts
<1>4. BucketInv'
  <2>1. Available(b) - Interval <= Full
    BY <1>2, <1>12
  <2>2. \A c \in Buckets : credit'[c] <= Full /\ last'[c] <= now
    BY <1>1, <1>12, <2>1 DEF BucketInv
  <2> QED BY <1>1, <2>2 DEF BucketInv
<1>5. ip \notin slow => ip \in visitors /\ b = Current(ip) /\ now <= lastSeen[ip] + MaxHold
  BY <1>1, <1>b, <1>c, ConstantFacts DEF HeldInv
<1>6. HeldInv'
  <2>1. ASSUME NEW q \in Requests, held'[q] # None, held'[q][1] \notin slow
        PROVE  /\ held'[q][1] \in visitors /\ held'[q] = Current(held'[q][1])
               /\ now - since'[q] <= MaxHold /\ since'[q] <= lastSeen[held'[q][1]]
    BY <1>1, <2>1 DEF HeldInv
  <2>2. ASSUME NEW p \in visitors \ slow PROVE last'[Current(p)] <= lastSeen[p] + MaxHold
    <3>1. CASE p = ip
      BY <1>1, <1>5, <2>2, <3>1
    <3>2. CASE p # ip
      BY <1>1, <1>3, <2>2, <3>2 DEF HeldInv
    <3> QED BY <3>1, <3>2
  <2> QED BY <1>1, <2>1, <2>2 DEF HeldInv, Current
<1>7. SpentInv'
  <2>1. ASSUME NEW p \in IPs \ slow, p # ip, NEW i \in DOMAIN passed[p]
        PROVE  Cost(passed'[p], i) + Drawable(p)' <= Full + (now - passed'[p][i])
    <3>1. Drawable(p)' = Drawable(p) /\ Cost(passed'[p], i) = Cost(passed[p], i)
      BY <1>1, <1>3, <2>1 DEF Drawable, Available, Cost
    <3> QED BY <1>1, <2>1, <3>1 DEF SpentInv
  <2>2. ASSUME ip \notin slow, NEW i \in DOMAIN passed'[ip]
        PROVE  Cost(passed'[ip], i) + Drawable(ip)' <= Full + (now - passed'[ip][i])
    <3>1. Drawable(ip) = Available(b)
      BY <1>5, <2>2 DEF Drawable
    <3>2. Drawable(ip)' = Available(b) - Interval
      BY <1>1, <1>2, <1>3, <1>5, <2>2, FullFacts DEF Drawable, Available
    <3>3. CASE i \in DOMAIN passed[ip]
      <4>1. Cost(passed[ip], i) + Available(b) <= Full + (now - passed[ip][i])
        BY <2>2, <3>1, <3>3 DEF SpentInv
      <4>2. /\ Cost(passed'[ip], i) = Cost(passed[ip], i) + Interval /\ Cost(passed[ip], i) \in Int
            /\ passed'[ip][i] = passed[ip][i] /\ passed[ip][i] \in Int
        BY <3>3, <1>10
      <4> QED BY <1>2, <1>12, <3>2, <4>1, <4>2
    <3>4. CASE i = Len(passed[ip]) + 1
      BY <1>1, <1>2, <3>2, <3>4, <1>10, FullFacts
    <3> QED BY <1>1, <2>2, <3>3, <3>4, <1>10
  <2>3. ASSUME NEW p \in IPs \ slow, NEW i \in DOMAIN passed'[p]
        PROVE  Cost(passed'[p], i) + Drawable(p)' <= Full + (now - passed'[p][i])
    <3>1. CASE p = ip
      BY <2>2, <2>3, <3>1
    <3>2. CASE p # ip
      BY <1>1, <2>1, <2>3, <3>2
    <3> QED BY <3>1, <3>2
  <2> QED BY <1>1, <2>3 DEF SpentInv
<1>8. LackInv'
  <2> SUFFICES ASSUME NEW c \in Buckets
               PROVE  \/ credit'[c] = Full
                      \/ \E i \in DOMAIN passed'[c[1]] :
                           credit'[c] - last'[c] >= Full - passed'[c[1]][i] - Cost(passed'[c[1]], i)
                      \/ c[2] > made[c[1]]
    BY <1>1 DEF LackInv
  <2>1. CASE c[1] # ip
    <3>1. passed'[c[1]] = passed[c[1]] /\ credit'[c] = credit[c] /\ last'[c] = last[c]
      BY <1>1, <1>c, <2>1, BucketParts
    <3> QED BY <3>1 DEF LackInv
  <2>2. CASE c[1] = ip /\ c # b
    <3>1. CASE \E i \in DOMAIN passed[ip] :
                 credit[c] - last[c] >= Full - passed[ip][i] - Cost(passed[ip], i)
      <4>1. PICK i \in DOMAIN passed[ip] : credit[c] - last[c] >= Full - passed[ip][i] - Cost(passed[ip], i)
        BY <3>1
      <4>2. /\ Cost(passed'[ip], i) = Cost(passed[ip], i) + Interval /\ Cost(passed[ip], i) \in Int
            /\ passed'[ip][i] = passed[ip][i] /\ passed[ip][i] \in Int /\ i \in DOMAIN passed'[ip]
        BY <1>10
      <4>3. credit'[c] = credit[c] /\ last'[c] = last[c]
        BY <1>1, <2>2
      <4>4. credit'[c] - last'[c] >= Full - passed'[ip][i] - Cost(passed'[ip], i)
        BY <1>12, <4>1, <4>2, <4>3
      <4> QED BY <2>2, <4>2, <4>4
    <3> QED BY <1>1, <2>2, <3>1 DEF LackInv
  <2>3. CASE c = b
    <3>1. CASE Available(b) = Full
      <4>0. PICK i \in DOMAIN passed'[ip] : i = Len(passed[ip]) + 1
        BY <1>10
      <4>1. i \in DOMAIN passed'[ip] /\ passed'[ip][i] = now /\ Cost(passed'[ip], i) = Interval
        BY <4>0, <1>10
      <4>2. credit'[b] - last'[b] >= Full - now - Interval
        BY <1>1, <3>1, FullFacts
      <4> QED BY <2>3, <4>1, <4>2, <1>c
    <3>2. CASE Available(b) # Full
      <4>1. Available(b) = credit[b] + (now - last[b]) /\ credit[b] # Full /\ b[2] <= made[ip]
        BY <1>1, <1>2, <3>2, <1>11, FullFacts DEF BucketInv
      <4>2. \/ credit[b] = Full \/ b[2] > made[ip]
            \/ \E i \in DOMAIN passed[ip] :
                 credit[b] - last[b] >= Full - passed[ip][i] - Cost(passed[ip], i)
        BY <1>c DEF LackInv
      <4>3. b[2] \in Nat /\ made[ip] \in Nat
        BY BucketParts
      <4>4. PICK i \in DOMAIN passed[ip] :
               credit[b] - last[b] >= Full - passed[ip][i] - Cost(passed[ip], i)
        BY <4>1, <4>2, <4>3
      <4>5. /\ Cost(passed'[ip], i) = Cost(passed[ip], i) + Interval /\ Cost(passed[ip], i) \in Int
            /\ passed'[ip][i] = passed[ip][i] /\ passed[ip][i] \in Int /\ i \in DOMAIN passed'[ip]
        BY <1>10
      <4>6. credit'[b] = credit[b] + (now - last[b]) - Interval /\ last'[b] = now
        <5>1. credit'[b] = Available(b) - Interval /\ last'[b] = now
          BY <1>1
        <5> QED BY <1>12, <4>1, <5>1
      <4>7. credit'[b] - last'[b] >= Full - passed'[ip][i] - Cost(passed'[ip], i)
        BY <1>12, <4>4, <4>5, <4>6
      <4> QED BY <1>c, <2>3, <4>5, <4>7
    <3> QED BY <3>1, <3>2
  <2> QED BY <2>1, <2>2, <2>3
<1>9. HeldMade'
  BY <1>1 DEF HeldMade
<1> QED BY <1>4, <1>6, <1>7, <1>8, <1>9

LEMMA RefuseKeeps ==
  ASSUME Inv, TypeOK', NEW r \in Requests, Refuse(r)
  PROVE  Inv'
<1> USE DEF Inv
<1>1. /\ held'[r] = None /\ \A q \in Requests \ {r} : held'[q] = held[q] /\ since'[q] = since[q]
      /\ UNCHANGED <<now, visitors, lastSeen, made, credit, last, passed, slow>>
  BY DEF Refuse, TypeOK, mapVars, bucketVars
<1>2. BucketInv'
  BY <1>1 DEF BucketInv
<1>3. HeldInv'
  BY <1>1 DEF HeldInv, Current
<1>4. SpentInv'
  BY <1>1 DEF SpentInv, Drawable, Available, Current
<1>5. LackInv'
  BY <1>1 DEF LackInv
<1>6. HeldMade'
  BY <1>1 DEF HeldMade
<1> QED BY <1>2, <1>3, <1>4, <1>5, <1>6

\* A bucket that is forgotten is full, and no request has it.
LEMMA SweepKeeps ==
  ASSUME Inv, TypeOK', Sweep
  PROVE  Inv'
<1>0. Types /\ Types'
  BY TypesHold, TypesHoldNext DEF Inv
<1> USE <1>0 DEF Inv, Types
<1>1. /\ visitors' = visitors \ Forgotten
      /\ \A p \in IPs : lastSeen'[p] = IF p \in Forgotten THEN 0 ELSE lastSeen[p]
      /\ UNCHANGED <<now, made, credit, last, held, since, passed, slow>>
  BY DEF Sweep, bucketVars
<1>2. \A p \in Forgotten : p \in visitors /\ now - lastSeen[p] > Stale
  BY DEF Forgotten
<1>3. \A p \in IPs : Current(p)' = Current(p)
  BY <1>1 DEF Current
<1>4. BucketInv'
  BY <1>1 DEF BucketInv
<1>5. HeldInv'
  <2>1. ASSUME NEW q \in Requests, held[q] # None, held[q][1] \notin slow
        PROVE  /\ held[q][1] \in visitors' /\ held[q] = Current(held[q][1])
               /\ now - since[q] <= MaxHold /\ since[q] <= lastSeen'[held[q][1]]
    <3>1. /\ held[q][1] \in visitors /\ held[q] = Current(held[q][1])
          /\ now - since[q] <= MaxHold /\ since[q] <= lastSeen[held[q][1]]
      BY <2>1 DEF HeldInv
    <3>2. held[q][1] \notin Forgotten
      BY <1>2, <3>1, ConstantFacts, FullFacts
    <3> QED BY <1>1, <3>1, <3>2
  <2>2. ASSUME NEW p \in visitors' \ slow PROVE last[Current(p)] <= lastSeen'[p] + MaxHold
    BY <1>1, <2>2 DEF HeldInv
  <2> QED BY <1>1, <1>3, <2>1, <2>2 DEF HeldInv, Current
<1>6. SpentInv'
  <2> SUFFICES ASSUME NEW p \in IPs \ slow, NEW i \in DOMAIN passed[p]
               PROVE  Cost(passed[p], i) + Drawable(p)' <= Full + (now - passed[p][i])
    BY <1>1 DEF SpentInv
  <2>1. Drawable(p)' = Drawable(p)
    <3>1. CASE p \in Forgotten
      <4> DEFINE b == Current(p)
      <4>1. b \in Buckets /\ p \in visitors
        BY <1>2, <3>1, BucketMade DEF Current, BucketInv
      <4>2. last[b] <= lastSeen[p] + MaxHold /\ credit[b] >= 0
        BY <4>1 DEF HeldInv
      <4>3. credit[b] + (now - last[b]) >= Full
        <5> HIDE DEF b
        <5> QED BY <1>2, <3>1, <4>1, <4>2, ConstantFacts, FullFacts
      <4>4. Available(b) = Full
        BY <4>1, <4>3, AvailableFacts
      <4> QED BY <1>1, <3>1, <4>1, <4>4 DEF Drawable
    <3>2. CASE p \notin Forgotten
      BY <1>1, <1>3, <3>2 DEF Drawable, Available
    <3> QED BY <3>1, <3>2
  <2> QED BY <2>1 DEF SpentInv
<1>7. LackInv'
  BY <1>1 DEF LackInv
<1>8. HeldMade'
  BY <1>1 DEF HeldMade
<1> QED BY <1>4, <1>5, <1>6, <1>7, <1>8

\* A tick of time gives no bucket more than a tick's credit.
LEMMA TickKeeps ==
  ASSUME Inv, TypeOK', Tick
  PROVE  Inv'
<1>0. Types /\ Types'
  BY TypesHold, TypesHoldNext DEF Inv
<1> USE <1>0 DEF Inv, Types
<1>1. /\ now' = now + 1 /\ slow \subseteq slow'
      /\ \A r \in Requests : held[r] # None /\ now' - since[r] > MaxHold => held[r][1] \in slow'
      /\ UNCHANGED <<visitors, lastSeen, made, credit, last, held, since, passed>>
  BY DEF Tick, mapVars, bucketVars
<1>2. BucketInv'
  BY <1>1 DEF BucketInv
<1>3. HeldInv'
  <2>1. ASSUME NEW q \in Requests, held[q] # None, held[q][1] \notin slow'
        PROVE  /\ held[q][1] \in visitors /\ held[q] = Current(held[q][1])
               /\ now' - since[q] <= MaxHold /\ since[q] <= lastSeen[held[q][1]]
    BY <1>1, <2>1, ConstantFacts DEF HeldInv
  <2>2. \A p \in visitors \ slow' : last[Current(p)] <= lastSeen[p] + MaxHold
    BY <1>1 DEF HeldInv
  <2> QED BY <1>1, <2>1, <2>2 DEF HeldInv, Current
<1>4. SpentInv'
  <2> SUFFICES ASSUME NEW p \in IPs \ slow', NEW i \in DOMAIN passed[p]
               PROVE  Cost(passed[p], i) + Drawable(p)' <= Full + (now' - passed[p][i])
    BY <1>1 DEF SpentInv
  <2>1. Drawable(p) \in Nat /\ Drawable(p)' \in Nat /\ Drawable(p)' <= Drawable(p) + 1
    <3>1. CASE p \in visitors
      <4>1. PICK b \in Buckets : b = Current(p)
        BY <3>1, BucketMade DEF Current, BucketInv
      <4>2. Current(p)' = b
        BY <1>1, <4>1 DEF Current
      <4>3. Available(b) \in Nat
        BY AvailableFacts
      <4>4. Available(b)' \in Nat /\ Available(b)' <= Available(b) + 1
        BY <1>1, <4>3, FullFacts DEF Available, BucketInv
      <4> QED BY <1>1, <3>1, <4>1, <4>2, <4>3, <4>4 DEF Drawable
    <3>2. CASE p \notin visitors
      BY <1>1, <3>2, FullFacts DEF Drawable
    <3> QED BY <3>1, <3>2
  <2>2. Cost(passed[p], i) + Drawable(p) <= Full + (now - passed[p][i])
    BY <1>1 DEF SpentInv
  <2>3. passed[p][i] \in Int /\ Cost(passed[p], i) \in Int
    <3>1. passed[p][i] \in Int /\ Len(passed[p]) - i + 1 \in Int
      BY DEF TypeOK
    <3> QED BY <3>1, Times DEF Cost
  <2> QED BY <1>1, <2>1, <2>2, <2>3, FullFacts
<1>5. LackInv'
  BY <1>1 DEF LackInv
<1>6. HeldMade'
  BY <1>1 DEF HeldMade
<1> QED BY <1>2, <1>3, <1>4, <1>5, <1>6

LEMMA StutterKeeps == Inv /\ TypeOK' /\ UNCHANGED vars => Inv'
<1> SUFFICES ASSUME Inv, TypeOK', UNCHANGED vars PROVE Inv'
    OBVIOUS
<1> USE DEF Inv, vars, mapVars, bucketVars
<1>1. BucketInv' /\ LackInv' /\ HeldMade'
  BY DEF BucketInv, LackInv, HeldMade
<1>2. HeldInv'
  BY DEF HeldInv, Current
<1>3. SpentInv'
  BY DEF SpentInv, Drawable, Available, Current
<1> QED BY <1>1, <1>2, <1>3

LEMMA Invariance == Spec => []Inv
<1>1. Inv /\ [Next]_vars => Inv'
  <2> SUFFICES ASSUME Inv, [Next]_vars PROVE Inv'
    OBVIOUS
  <2>1. TypeOK'
    BY TypeStep DEF Inv
  <2>2. ASSUME NEW r \in Requests, NEW ip \in IPs, Fetch(r, ip) \/ MakeAndFetch(r, ip) PROVE Inv'
    BY <2>1, <2>2, FetchKeeps, MakeKeeps
  <2>3. ASSUME NEW r \in Requests, Pass(r) \/ Refuse(r) PROVE Inv'
    BY <2>1, <2>3, PassKeeps, RefuseKeeps
  <2>4. CASE Sweep \/ Tick \/ UNCHANGED vars
    BY <2>1, <2>4, SweepKeeps, TickKeeps, StutterKeeps
  <2> QED BY <2>2, <2>3, <2>4 DEF Next
<1> QED BY InitInv, <1>1, PTL DEF Spec

-----------------------------------------------------------------------------
\* Every variable of the rate limiter keeps its type.
THEOREM LimiterTypeCorrect == Spec => []TypeOK
<1>1. Inv => TypeOK
  BY DEF Inv
<1> QED BY Invariance, <1>1, PTL

\* Over any stretch of time an address gets no more than a burst and the inflow,
\* for every rate that refills a bucket before it can be forgotten.
THEOREM RateIsBounded == Spec => []RateBound
<1>1. Inv => RateBound
  <2> SUFFICES ASSUME Inv, NEW ip \in IPs \ slow, NEW i \in DOMAIN passed[ip]
               PROVE  Cost(passed[ip], i) <= Full + (now - passed[ip][i])
    BY DEF RateBound, Cost, Full
  <2>1. Cost(passed[ip], i) + Drawable(ip) <= Full + (now - passed[ip][i])
    BY DEF Inv, SpentInv
  <2>2. Drawable(ip) \in Nat
    <3>1. ip \in visitors => Current(ip) \in Buckets
      BY BucketMade, TypesHold DEF Inv, Types, Current, BucketInv
    <3> QED BY <3>1, AvailableFacts, FullFacts DEF Inv, Drawable
  <2>3. passed[ip][i] \in Int /\ now \in Int /\ Cost(passed[ip], i) \in Int
    <3>1. passed[ip][i] \in Int /\ now \in Int /\ Len(passed[ip]) - i + 1 \in Int
      BY DEF Inv, TypeOK
    <3> QED BY <3>1, Times DEF Cost
  <2> QED BY <2>1, <2>2, <2>3, FullFacts
<1> QED BY Invariance, <1>1, PTL

\* A refused request is one too many for its address.
THEOREM RefusalsHaveACause == Spec => RefusedForCause
<1> DEFINE A == \A r \in Requests : Refuse(r) =>
       LET p == passed[held[r][1]] IN
       \E i \in DOMAIN p : (Len(p) - i + 2) * Interval > Burst * Interval + (now - p[i])
<1>1. Inv => A
  <2> SUFFICES ASSUME Inv, NEW r \in Requests, Refuse(r)
               PROVE  \E i \in DOMAIN passed[held[r][1]] :
                        (Len(passed[held[r][1]]) - i + 2) * Interval
                           > Full + (now - passed[held[r][1]][i])
    BY DEF Full
  <2>1. held[r] \in Buckets /\ held[r][1] \in IPs /\ Available(held[r]) < Interval
    BY BucketParts DEF Refuse, Inv, TypeOK
  <2>2. PICK b \in Buckets : b = held[r]
    BY <2>1
  <2>3. PICK p \in Seq(Nat) : p = passed[b[1]]
    BY <2>1, <2>2 DEF Inv, TypeOK
  <2>4. /\ credit[b] \in Nat /\ last[b] \in Nat /\ now \in Nat /\ last[b] <= now
        /\ b[2] <= made[b[1]] /\ b[2] \in Nat /\ made[b[1]] \in Nat
    BY <2>1, <2>2, BucketParts, TypesHold DEF Inv, Types, BucketInv, HeldMade, Refuse
  <2>5. credit[b] + (now - last[b]) < Interval
    BY <2>1, <2>2, <2>4, FullFacts DEF Available
  <2>6. PICK i \in DOMAIN p : credit[b] - last[b] >= Full - p[i] - Cost(p, i)
    BY <2>3, <2>4, <2>5, FullFacts DEF Inv, LackInv
  <2>7. (Len(p) - i + 2) * Interval = Cost(p, i) + Interval /\ Cost(p, i) \in Int
    <3>1. Len(p) - i + 1 \in Int /\ Len(p) - i + 2 = (Len(p) - i + 1) + 1
      BY <2>3
    <3> QED BY <3>1, Times DEF Cost
  <2>8. p[i] \in Nat
    BY <2>3
  <2>9. (Len(p) - i + 2) * Interval > Full + (now - p[i])
    <3>1. Cost(p, i) \in Int
      BY <2>7
    <3>2. Cost(p, i) + Interval > Full + (now - p[i])
      <4>1. \A c, l, n, f, q, k, v \in Int :
              c + (n - l) < v /\ c - l >= f - q - k => k + v > f + (n - q)
        OBVIOUS
      <4>2. /\ credit[b] \in Int /\ last[b] \in Int /\ now \in Int /\ Full \in Int
            /\ p[i] \in Int /\ Interval \in Int
        BY <2>4, <2>8, FullFacts
      <4> QED BY <2>5, <2>6, <3>1, <4>1, <4>2
    <3> QED BY <2>7, <3>2
  <2> QED BY <2>2, <2>3, <2>9
<1> QED BY <1>1, Invariance, PTL DEF RefusedForCause
=============================================================================
