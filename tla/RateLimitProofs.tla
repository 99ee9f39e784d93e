---------------------------- MODULE RateLimitProofs ----------------------------
(***************************************************************************)
(* Theorems about RateLimit for any number of clients and API processes,   *)
(* any clocks and any capacities and rates.                                *)
(***************************************************************************)
EXTENDS RateLimit, SumTheorems

\* The types, with what a state function must be to be updated at a point.
TypeInv ==
    /\ TypeOK
    /\ bucket = [k \in Keys |-> bucket[k]]
    /\ request = [p \in Processes |-> request[p]]
    /\ \A p \in Processes :
          /\ request[p] = [pc |-> request[p].pc, key |-> request[p].key, now |-> request[p].now,
                           wait |-> request[p].wait]
          /\ request[p].now \in Times

\* The smaller of two numbers.
LEMMA MinOfTwo ==
    ASSUME NEW a \in Nat, NEW b \in Nat
    PROVE  Min({a, b}) = IF a <= b THEN a ELSE b
  <1>1. \E x \in {a, b} : \A y \in {a, b} : x <= y
    OBVIOUS
  <1>2. QED
    BY <1>1 DEF Min

\* The larger of two numbers.
LEMMA MaxOfTwo ==
    ASSUME NEW a \in Nat, NEW b \in Nat
    PROVE  Max({a, b}) \in Nat /\ Max({a, b}) >= a /\ Max({a, b}) >= b
  <1>1. \E x \in {a, b} : \A y \in {a, b} : x >= y
    OBVIOUS
  <1>2. QED
    BY <1>1 DEF Max

\* Rounding up never gives less than what was divided.
LEMMA CeilDivUp ==
    ASSUME NEW a \in Nat, NEW b \in Nat \ {0}
    PROVE  CeilDiv(a, b) \in Nat /\ CeilDiv(a, b) * b >= a
  <1> DEFINE n == a + b - 1
  <1> DEFINE q == CeilDiv(a, b)
  <1>1. n \in Nat /\ q = n \div b
    BY DEF CeilDiv
  <1>2. q \in Nat /\ n % b \in 0..(b - 1) /\ n = b * q + (n % b)
    BY <1>1
  <1>3. b * q \in Nat /\ b * q = q * b
    BY <1>2
  <1>4. n % b <= b - 1
    BY <1>2
  <1>5. b * q >= a
    BY <1>2, <1>3, <1>4
  <1>6. QED
    BY <1>2, <1>3, <1>5

\* Enough whole seconds, counted up, refill what is missing.
LEMMA WaitRefills ==
    ASSUME NEW missing \in Nat, NEW rate \in Nat \ {0},
           NEW wait, wait = Max({1, CeilDiv(missing, rate * Second)})
    PROVE  /\ wait \in Nat
           /\ wait * Second * rate \in Nat /\ wait * Second * rate >= missing
  <1> DEFINE b == rate * Second
  <1> DEFINE c == CeilDiv(missing, b)
  <1>1. Second \in Nat \ {0} /\ b \in Nat \ {0}
    BY RateLimitAssumption
  <1>2. c \in Nat /\ c * b >= missing
    BY <1>1, CeilDivUp
  <1>3. wait \in Nat /\ wait >= c
    BY <1>2, MaxOfTwo
  <1>4. wait * b \in Nat /\ wait * b >= c * b
    BY <1>1, <1>2, <1>3
  <1>5. wait * Second * rate = wait * b
    BY <1>1, <1>3
  <1>6. QED
    BY <1>1, <1>2, <1>3, <1>4, <1>5

\* What a client is told to wait is a number of seconds.
LEMMA WaitIsNat ==
    ASSUME NEW k \in Keys, NEW missing \in Nat
    PROVE  Max({1, CeilDiv(missing, Rate[k] * Second)}) \in Nat
  <1>1. PICK rate \in Nat \ {0} : rate = Rate[k]
    BY RateLimitAssumption
  <1>2. Max({1, CeilDiv(missing, rate * Second)}) \in Nat
    BY WaitRefills
  <1>3. QED
    BY <1>1, <1>2

\* The time to live is a number.
LEMMA TimeToLiveIsNat == \A k \in Keys : TimeToLive(k) \in Nat /\ TimeToLive(k) * Second \in Nat
  <1>1. SUFFICES ASSUME NEW k \in Keys PROVE TimeToLive(k) \in Nat /\ TimeToLive(k) * Second \in Nat
    OBVIOUS
  <1>2. PICK a \in Nat : a = Capacity[k]
    BY RateLimitAssumption
  <1>3. PICK b \in Nat \ {0} : b = Rate[k] * Second
    <2>1. \A x, y \in Nat \ {0} : x * y \in Nat \ {0}
      OBVIOUS
    <2> QED
      BY <2>1, RateLimitAssumption
  <1>4. CeilDiv(a, b) \in Nat
    BY CeilDivUp
  <1>5. \A x, y \in Nat : x * y \in Nat
    OBVIOUS
  <1> QED
    BY <1>2, <1>3, <1>4, <1>5, RateLimitAssumption DEF TimeToLive

-----------------------------------------------------------------------------

\* What Redis answers about a bucket is nothing or a bucket of the right kind,
\* and refilling it keeps to its capacity.
LEMMA RefilledFits ==
    ASSUME TypeInv, NEW k \in Keys, NEW now \in Times
    PROVE  Refilled(k, now) \in 0..Capacity[k]
  <1> USE RateLimitAssumption
  <1>1. CASE Held(k) = Unlimited
    BY <1>1 DEF Refilled
  <1>2. CASE Held(k) # Unlimited
    <2>1. Held(k).tokens \in Nat /\ Held(k).timestamp \in Nat
      BY <1>2, SMTT(30) DEF Held, TypeInv, TypeOK, Times
    <2>2. Elapsed(now, Held(k).timestamp) \in Nat
      BY <2>1 DEF Elapsed, Times
    <2>3. Elapsed(now, Held(k).timestamp) * Rate[k] \in Nat
      BY <2>2
    <2>4. Held(k).tokens + Elapsed(now, Held(k).timestamp) * Rate[k] \in Nat
      BY <2>1, <2>3
    <2>5. QED
      BY <1>2, <2>4, MinOfTwo DEF Refilled
  <1>3. QED
    BY <1>1, <1>2

\* Nobody has arrived at the start.
LEMMA TypeInvInit == ASSUME Init PROVE TypeInv
  <1>1. (CHOOSE k \in Keys : TRUE) \in Keys
    BY RateLimitAssumption
  <1>2. 0 \in Times
    BY RateLimitAssumption DEF Times
  <1>3. /\ bucket = [k \in Keys |-> bucket[k]]
        /\ \A k \in Keys : bucket[k] = Unlimited
        /\ admitted \in [Keys -> [Times -> Nat]]
        /\ setback \in [Keys -> Nat]
        /\ promised \in [Keys -> SUBSET Nat]
        /\ clock \in Times
    BY <1>2 DEF Init
  <1>4. /\ request = [p \in Processes |-> request[p]]
        /\ \A p \in Processes :
              request[p] = [pc |-> "idle", key |-> CHOOSE k \in Keys : TRUE, now |-> 0, wait |-> 0]
    BY DEF Init
  <1>5. QED
    BY <1>1, <1>2, <1>3, <1>4 DEF TypeInv, TypeOK

\* The script leaves between nothing and a full bucket.
LEMMA ScriptStep == ASSUME TypeInv, NEW p \in Processes, Script(p) PROVE TypeInv'
  <1> USE DEF TypeInv, TypeOK
  <1> DEFINE k == request[p].key
  <1> DEFINE now == request[p].now
  <1> DEFINE have == Refilled(k, now)
  <1> DEFINE left == IF have >= Cost THEN have - Cost ELSE have
  <1> DEFINE wait == Max({1, CeilDiv(Cost - left, Rate[k] * Second)})
  <1>1. k \in Keys /\ now \in Times
    OBVIOUS
  <1>2. have \in 0..Capacity[k] /\ Capacity[k] \in Nat /\ Cost \in Nat
    BY <1>1, RefilledFits, RateLimitAssumption
  <1>3. left \in 0..Capacity[k]
    BY <1>2
  <1>4. /\ clock' = clock
        /\ bucket' = [bucket EXCEPT ![k] = [tokens |-> left, timestamp |-> now,
                                            expires |-> clock + TimeToLive(k) * Second]]
    BY DEF Script
  <1>5. bucket' = [j \in Keys |-> bucket'[j]]
    BY <1>1, <1>4
  <1>6. \A j \in Keys : bucket'[j] # Unlimited =>
            /\ bucket'[j].tokens \in 0..Capacity[j]
            /\ bucket'[j].timestamp \in Times
            /\ bucket'[j].expires \in Nat
    <2>1. PICK ttl \in Nat : ttl = TimeToLive(k) * Second
      BY <1>1, TimeToLiveIsNat
    <2>2. clock + ttl \in Nat
      <3>1. clock \in Nat
        BY RateLimitAssumption DEF Times
      <3> HIDE DEF TypeInv, TypeOK
      <3>2. QED
        BY <2>1, <3>1
    <2>3. QED
      BY <1>1, <1>3, <1>4, <2>1, <2>2
  <1>7. admitted' \in [Keys -> [Times -> Nat]]
    <2>1. admitted[k] \in [Times -> Nat] /\ admitted[k][now] + 1 \in Nat
      BY <1>1
    <2>2. [admitted[k] EXCEPT ![now] = @ + 1] \in [Times -> Nat]
      BY <2>1
    <2>3. admitted' = admitted \/ admitted' = [admitted EXCEPT ![k] = [admitted[k] EXCEPT ![now] = @ + 1]]
      BY DEF Script
    <2>4. QED
      BY <1>1, <2>2, <2>3
  <1>8. setback' \in [Keys -> Nat]
    <2>1. bucket[k] # Unlimited => Behind(bucket[k].timestamp, now) \in Nat
      <3>1. \A t \in Times : t \in Nat
        BY RateLimitAssumption DEF Times
      <3>2. \A t, u \in Nat : Behind(t, u) \in Nat
        BY DEF Behind
      <3>3. QED
        BY <1>1, <3>1, <3>2
    <2>2. QED
      BY <1>1, <2>1 DEF Script
  <1>9. \/ /\ have >= Cost
           /\ request' = [request EXCEPT ![p].pc = "admitted"]
           /\ promised' = [promised EXCEPT ![k] = {}]
        \/ /\ have < Cost
           /\ request' = [request EXCEPT ![p] = [pc |-> "refused", key |-> k, now |-> now, wait |-> wait]]
           /\ promised' = [promised EXCEPT ![k] = @ \cup {clock + Skew[p] + wait * Second}]
    BY DEF Script
  <1>10. have < Cost => wait \in Nat
    <2>1. have < Cost => left = have /\ Cost - left \in Nat
      BY <1>2
    <2>2. QED
      BY <1>1, <2>1, WaitIsNat
  <1> HIDE DEF have, left, wait
  <1>11. /\ request' = [q \in Processes |-> request'[q]]
         /\ \A q \in Processes :
               /\ request'[q] = [pc |-> request'[q].pc, key |-> request'[q].key,
                                 now |-> request'[q].now, wait |-> request'[q].wait]
               /\ request'[q].now \in Times
               /\ request'[q].pc \in {"idle", "script", "admitted", "refused"}
               /\ request'[q].key \in Keys
               /\ request'[q].wait \in Nat
    <2>1. CASE /\ have >= Cost
               /\ request' = [request EXCEPT ![p].pc = "admitted"]
      <3>1. PICK old : old = request[p]
        OBVIOUS
      <3>2. /\ old = [pc |-> old.pc, key |-> old.key, now |-> old.now, wait |-> old.wait]
            /\ old.now \in Times /\ old.key \in Keys /\ old.wait \in Nat
        BY <3>1
      <3>3. PICK r : r = [pc |-> "admitted", key |-> old.key, now |-> old.now, wait |-> old.wait]
        OBVIOUS
      <3>4. [old EXCEPT !.pc = "admitted"] = r
        <4> HIDE DEF TypeInv, TypeOK
        <4>1. QED
          BY <3>2, <3>3
      <3>5. request' = [request EXCEPT ![p] = r]
        BY <2>1, <3>1, <3>4
      <3>6. /\ r = [pc |-> r.pc, key |-> r.key, now |-> r.now, wait |-> r.wait]
            /\ r.now \in Times /\ r.key \in Keys /\ r.wait \in Nat
            /\ r.pc \in {"idle", "script", "admitted", "refused"}
        BY <3>2, <3>3
      <3>7. QED
        BY <3>5, <3>6
    <2>2. CASE /\ have < Cost
               /\ request' = [request EXCEPT ![p] = [pc |-> "refused", key |-> k, now |-> now, wait |-> wait]]
      <3>1. PICK seconds \in Nat : seconds = wait
        BY <1>10, <2>2
      <3>2. PICK r : r = [pc |-> "refused", key |-> k, now |-> now, wait |-> seconds]
        OBVIOUS
      <3>3. /\ r = [pc |-> r.pc, key |-> r.key, now |-> r.now, wait |-> r.wait]
            /\ r.now \in Times /\ r.key \in Keys /\ r.wait \in Nat
            /\ r.pc \in {"idle", "script", "admitted", "refused"}
        BY <1>1, <3>1, <3>2
      <3>4. request' = [request EXCEPT ![p] = r]
        BY <2>2, <3>1, <3>2
      <3>5. QED
        BY <3>3, <3>4
    <2>3. QED
      BY <1>9, <2>1, <2>2
  <1>12. promised' \in [Keys -> SUBSET Nat]
    <2>1. CASE promised' = [promised EXCEPT ![k] = {}]
      BY <1>1, <2>1
    <2>2. CASE /\ have < Cost
               /\ promised' = [promised EXCEPT ![k] = @ \cup {clock + Skew[p] + wait * Second}]
      <3>1. PICK seconds \in Nat : seconds = wait
        BY <1>10, <2>2
      <3>2. PICK told \in Nat : told = clock + Skew[p] + seconds * Second
        <4>1. clock \in Nat /\ Skew[p] \in Nat /\ Second \in Nat
          BY RateLimitAssumption DEF Times
        <4>2. seconds * Second \in Nat
          BY <4>1
        <4>3. QED
          BY <4>1, <4>2
      <3>3. QED
        BY <1>1, <2>2, <3>1, <3>2
    <2>3. QED
      BY <1>9, <2>1, <2>2
  <1>13. QED
    BY <1>1, <1>4, <1>5, <1>6, <1>7, <1>8, <1>11, <1>12

\* Every step keeps the types.
LEMMA TypeInvStep == ASSUME TypeInv, [Next]_vars PROVE TypeInv'
  <1> USE DEF TypeInv, TypeOK
  <1>1. ASSUME NEW p \in Processes, NEW k \in Keys, Arrive(p, k) PROVE TypeInv'
    <2>1. clock + Skew[p] \in Times
      <3>1. Skew[p] \in Nat /\ Horizon \in Nat
        BY RateLimitAssumption
      <3>2. clock \in Nat /\ clock + Skew[p] <= Horizon
        BY <1>1, <3>1 DEF Arrive, Times
      <3>3. QED
        BY <3>1, <3>2 DEF Times
    <2>2. QED
      BY <1>1, <2>1 DEF Arrive
  <1>2. ASSUME NEW p \in Processes, Script(p) PROVE TypeInv'
    BY <1>2, ScriptStep
  <1>3. CASE Tick
    BY <1>3, RateLimitAssumption DEF Tick, Times
  <1>4. CASE UNCHANGED vars
    BY <1>4 DEF vars
  <1>5. QED
    BY <1>1, <1>2, <1>3, <1>4 DEF Next

\* The types hold in every reachable state.
LEMMA TypeInvHolds == Spec => []TypeInv
  BY TypeInvInit, TypeInvStep, PTL DEF Spec

\* Every bucket holds between nothing and its capacity, whatever the clocks say
\* and in whatever order the scripts run.
THEOREM TypeCorrect == Spec => []TypeOK
  <1>1. TypeInv => TypeOK
    BY DEF TypeInv
  <1>2. QED
    BY <1>1, TypeInvHolds, PTL

-----------------------------------------------------------------------------

(***************************************************************************)
(* The return of a refused client.                                         *)
(***************************************************************************)

\* A script carries the time its process read at most MaxDelay ago.
InTime ==
    \A p \in Processes : request[p].pc = "script" =>
        request[p].now <= clock + Skew[p] /\ clock + Skew[p] <= request[p].now + MaxDelay

\* When the time a client was told has come, the bucket has refilled for it.
PromisesBacked ==
    \A k \in Keys : \A u \in promised[k] :
        /\ bucket[k] # Unlimited
        /\ bucket[k].timestamp <= u
        /\ bucket[k].tokens + (u - bucket[k].timestamp) * Rate[k] >= Cost

\* A longer time refills no less.
LEMMA LongerIsMore ==
    ASSUME NEW a \in Nat, NEW b \in Nat, NEW rate \in Nat, a <= b
    PROVE  a * rate \in Nat /\ b * rate \in Nat /\ a * rate <= b * rate
  <1>1. PICK d \in Nat : b = a + d
    <2>1. b - a \in Nat /\ b = a + (b - a)
      OBVIOUS
    <2>2. QED
      BY <2>1
  <1>2. b * rate = a * rate + d * rate
    BY <1>1
  <1>3. a * rate \in Nat /\ d * rate \in Nat
    OBVIOUS
  <1>4. QED
    BY <1>2, <1>3

\* What a bucket that holds too little refills to, and when it will hold enough:
\* later than now, and from now on no later than from its own time on.
LEMMA StillToCome ==
    ASSUME NEW tokens \in Nat, NEW then \in Nat, NEW now \in Nat, NEW u \in Nat, NEW rate \in Nat,
           NEW cost \in Nat, then <= u, tokens + (u - then) * rate >= cost,
           NEW have \in Nat, have = tokens + Elapsed(now, then) * rate, have < cost
    PROVE  now < u /\ have + (u - now) * rate >= cost
  <1>1. CASE now < then
    <2>1. have = tokens
      BY <1>1 DEF Elapsed
    <2>2. u - then \in Nat /\ u - now \in Nat /\ u - then <= u - now
      BY <1>1
    <2>3. (u - then) * rate \in Nat /\ (u - now) * rate \in Nat /\ (u - then) * rate <= (u - now) * rate
      BY <2>2, LongerIsMore
    <2>4. QED
      BY <1>1, <2>1, <2>3
  <1>2. CASE then <= now
    <2>1. PICK e \in Nat : e = now - then /\ have = tokens + e * rate
      BY <1>2 DEF Elapsed
    <2>2. PICK f \in Nat : f = u - then
      OBVIOUS
    <2>3. e < f
      <3>1. SUFFICES ASSUME f <= e PROVE FALSE
        BY <2>1, <2>2
      <3>2. f * rate \in Nat /\ e * rate \in Nat /\ f * rate <= e * rate
        BY <3>1, LongerIsMore
      <3>3. QED
        BY <2>1, <2>2, <3>2
    <2>4. PICK g \in Nat : g = u - now /\ f = e + g
      BY <2>1, <2>2, <2>3
    <2>5. f * rate = e * rate + g * rate /\ e * rate \in Nat /\ g * rate \in Nat
      BY <2>4
    <2>6. QED
      BY <2>1, <2>2, <2>3, <2>4, <2>5
  <1>3. QED
    BY <1>1, <1>2

\* What a refusal finds, leaves and tells the client.
LEMMA RefusalLeaves ==
    ASSUME TypeInv, InTime, NEW p \in Processes, Script(p), request'[p].pc = "refused"
    PROVE  \E k \in Keys, now \in Nat, have \in Nat, told \in Nat :
              /\ k = request[p].key /\ now = request[p].now
              /\ have = Refilled(k, now) /\ have < Cost
              /\ bucket'[k] # Unlimited
              /\ bucket'[k].tokens = have /\ bucket'[k].timestamp = now
              /\ \A j \in Keys \ {k} : bucket'[j] = bucket[j]
              /\ promised' = [promised EXCEPT ![k] = @ \cup {told}]
              /\ now <= told /\ have + (told - now) * Rate[k] >= Cost
  <1>1. PICK k \in Keys : k = request[p].key
    BY DEF TypeInv, TypeOK
  <1>2. PICK now \in Times : now = request[p].now
    BY DEF TypeInv
  <1>3. PICK have \in Nat : have = Refilled(k, now)
    BY RefilledFits, RateLimitAssumption
  <1>4. /\ now \in Nat /\ clock \in Nat /\ Skew[p] \in Nat /\ Second \in Nat /\ Cost \in Nat
        /\ now <= clock + Skew[p]
    BY <1>2, RateLimitAssumption DEF TypeInv, TypeOK, Times, InTime, Script
  <1>5. ~(have >= Cost)
    <2>1. CASE Refilled(request[p].key, request[p].now) >= Cost
      BY <2>1, <1>4, <1>3, <1>2, <1>1 DEF Script, TypeInv, TypeOK
    <2>2. QED
      BY <1>1, <1>2, <1>3, <2>1
  <1>6. PICK missing \in Nat : missing = Cost - have
    BY <1>4, <1>5
  <1>7. PICK rate \in Nat \ {0} : rate = Rate[k]
    BY RateLimitAssumption
  <1>8. PICK wait \in Nat : /\ wait = Max({1, CeilDiv(missing, rate * Second)})
                            /\ wait * Second * rate \in Nat /\ wait * Second * rate >= missing
    BY WaitRefills
  <1>9. PICK told \in Nat : told = clock + Skew[p] + wait * Second
    BY <1>4, SMTT(30)
  <1>10. promised' = [promised EXCEPT ![k] = @ \cup {told}]
    BY <1>1, <1>2, <1>3, <1>5, <1>6, <1>7, <1>8, <1>9 DEF Script
  <1>11. PICK ttl \in Nat : ttl = TimeToLive(k) * Second
    BY TimeToLiveIsNat
  <1>12. bucket' = [bucket EXCEPT ![k] = [tokens |-> have, timestamp |-> now, expires |-> clock + ttl]]
    BY <1>1, <1>2, <1>3, <1>5, <1>11 DEF Script
  <1>13. /\ bucket'[k] = [tokens |-> have, timestamp |-> now, expires |-> clock + ttl]
         /\ \A j \in Keys \ {k} : bucket'[j] = bucket[j]
    BY <1>12 DEF TypeInv
  <1>14. bucket'[k] # Unlimited
    BY <1>4, <1>13, UnlimitedAssumption
  <1>15. now <= told /\ have + (told - now) * rate >= Cost
    <2>1. PICK a \in Nat : a = wait * Second
      BY <1>4
    <2>2. PICK b \in Nat : b = told - now /\ a <= b
      BY <1>4, <1>9, <2>1
    <2>3. a * rate \in Nat /\ b * rate \in Nat /\ a * rate <= b * rate
      BY <2>2, LongerIsMore
    <2>4. a * rate >= missing
      BY <1>8, <2>1
    <2>5. QED
      BY <1>4, <1>5, <1>6, <1>9, <2>1, <2>2, <2>3, <2>4
  <1>16. have < Cost /\ bucket'[k].tokens = have /\ bucket'[k].timestamp = now
    BY <1>4, <1>5, <1>13
  <1>17. have + (told - now) * Rate[k] >= Cost
    BY <1>7, <1>15
  <1>18. now \in Nat
    BY <1>4
  <1> WITNESS k \in Keys, now \in Nat, have \in Nat, told \in Nat
  <1>19. QED
    BY <1>1, <1>2, <1>3, <1>10, <1>13, <1>14, <1>15, <1>16, <1>17

\* A script that refuses found a bucket, and found it below its capacity.
LEMMA RefusedBelowCapacity ==
    ASSUME TypeInv, NEW k \in Keys, NEW now \in Times, Refilled(k, now) < Cost
    PROVE  /\ bucket[k] # Unlimited
           /\ Refilled(k, now) = bucket[k].tokens + Elapsed(now, bucket[k].timestamp) * Rate[k]
  <1>1. Cost \in Nat /\ Capacity[k] \in Nat /\ Cost <= Capacity[k] /\ Rate[k] \in Nat
    BY RateLimitAssumption
  <1>2. Held(k) # Unlimited
    BY <1>1 DEF Refilled
  <1>3. Held(k) = bucket[k] /\ bucket[k] # Unlimited
    BY <1>2 DEF Held
  <1>4. bucket[k].tokens \in Nat /\ bucket[k].timestamp \in Nat /\ now \in Nat
    BY <1>3, RateLimitAssumption, SMTT(30) DEF TypeInv, TypeOK, Times
  <1>5. PICK e \in Nat : e = Elapsed(now, bucket[k].timestamp)
    BY <1>4 DEF Elapsed
  <1>6. PICK n \in Nat : n = bucket[k].tokens + e * Rate[k]
    BY <1>1, <1>4
  <1>7. Refilled(k, now) = Min({Capacity[k], n})
    BY <1>2, <1>3, <1>5, <1>6 DEF Refilled
  <1>8. Min({Capacity[k], n}) = IF Capacity[k] <= n THEN Capacity[k] ELSE n
    BY <1>1, MinOfTwo
  <1>9. QED
    BY <1>1, <1>3, <1>5, <1>6, <1>7, <1>8

\* Whoever is refused reads a clock before every promise, and the promises stay
\* backed, its own among them.
LEMMA RefusalKeeps ==
    ASSUME TypeInv, InTime, PromisesBacked, NEW p \in Processes, Script(p),
           request'[p].pc = "refused"
    PROVE  /\ PromisesBacked'
           /\ \A u \in promised[request[p].key] : request[p].now < u
  <1>1. PICK k \in Keys, now \in Nat, have \in Nat, told \in Nat :
              /\ k = request[p].key /\ now = request[p].now
              /\ have = Refilled(k, now) /\ have < Cost
              /\ bucket'[k] # Unlimited
              /\ bucket'[k].tokens = have /\ bucket'[k].timestamp = now
              /\ \A j \in Keys \ {k} : bucket'[j] = bucket[j]
              /\ promised' = [promised EXCEPT ![k] = @ \cup {told}]
              /\ now <= told /\ have + (told - now) * Rate[k] >= Cost
    BY RefusalLeaves
  <1>2. now \in Times
    BY <1>1 DEF TypeInv
  <1>3. /\ bucket[k] # Unlimited
        /\ have = bucket[k].tokens + Elapsed(now, bucket[k].timestamp) * Rate[k]
    BY <1>1, <1>2, RefusedBelowCapacity
  <1>4. /\ bucket[k].tokens \in Nat /\ bucket[k].timestamp \in Nat
        /\ promised \in [Keys -> SUBSET Nat]
        /\ Rate[k] \in Nat /\ Cost \in Nat
    <2>1. Rate[k] \in Nat /\ Cost \in Nat /\ Capacity[k] \in Nat /\ Horizon \in Nat
      BY RateLimitAssumption
    <2>2. bucket[k].tokens \in 0..Capacity[k] /\ bucket[k].timestamp \in 0..Horizon
      BY <1>3 DEF TypeInv, TypeOK, Times
    <2>3. promised \in [Keys -> SUBSET Nat]
      BY SMTT(30) DEF TypeInv, TypeOK
    <2>4. QED
      BY <2>1, <2>2, <2>3
  <1>5. ASSUME NEW u \in promised[k] PROVE now < u /\ have + (u - now) * Rate[k] >= Cost
    <2>1. u \in Nat
      BY <1>4
    <2>2. /\ bucket[k].timestamp <= u
          /\ bucket[k].tokens + (u - bucket[k].timestamp) * Rate[k] >= Cost
      BY DEF PromisesBacked
    <2>3. QED
      BY <1>1, <1>3, <1>4, <2>1, <2>2, StillToCome
  <1>6. /\ promised'[k] = promised[k] \cup {told}
        /\ \A j \in Keys \ {k} : promised'[j] = promised[j]
    BY <1>1, <1>4
  <1>7. \A u \in promised'[k] : now <= u /\ have + (u - now) * Rate[k] >= Cost
    <2>1. \A u \in promised[k] : u \in Nat
      BY <1>4
    <2>2. QED
      BY <1>1, <1>5, <1>6, <2>1
  <1>8. PromisesBacked'
    <2>1. SUFFICES ASSUME NEW j \in Keys, NEW u \in promised'[j]
                   PROVE  /\ bucket'[j] # Unlimited
                          /\ bucket'[j].timestamp <= u
                          /\ bucket'[j].tokens + (u - bucket'[j].timestamp) * Rate[j] >= Cost
      BY DEF PromisesBacked
    <2>2. CASE j = k
      BY <1>1, <1>7, <2>1, <2>2
    <2>3. CASE j # k
      <3>1. j \in Keys \ {k}
        BY <2>3
      <3>2. bucket'[j] = bucket[j] /\ u \in promised[j]
        BY <1>1, <1>6, <2>1, <3>1
      <3>3. QED
        BY <3>2 DEF PromisesBacked
    <2>4. QED
      BY <2>2, <2>3
  <1>9. QED
    BY <1>1, <1>5, <1>8

\* A request let through ends the promises to its client.
LEMMA AdmissionKeeps ==
    ASSUME TypeInv, PromisesBacked, NEW p \in Processes, Script(p), request'[p].pc # "refused"
    PROVE  PromisesBacked'
  <1>1. PICK k \in Keys : k = request[p].key
    BY DEF TypeInv, TypeOK
  <1>2. promised' = [promised EXCEPT ![k] = {}]
    BY <1>1 DEF Script, TypeInv, TypeOK
  <1>3. promised'[k] = {} /\ \A j \in Keys \ {k} : promised'[j] = promised[j]
    BY <1>2 DEF TypeInv, TypeOK
  <1>4. \A j \in Keys \ {k} : bucket'[j] = bucket[j]
    BY <1>1 DEF Script, TypeInv
  <1>5. QED
    BY <1>3, <1>4 DEF PromisesBacked

\* Clocks only go on, and a script runs before it is too late.
LEMMA InTimeStep == ASSUME TypeInv, InTime, [Next]_vars PROVE InTime'
  <1>0. clock \in Nat /\ MaxDelay \in Nat /\ \A q \in Processes : Skew[q] \in Nat /\ request[q].now \in Nat
    BY RateLimitAssumption DEF TypeInv, TypeOK, Times
  <1>1. ASSUME NEW p \in Processes, NEW k \in Keys, Arrive(p, k) PROVE InTime'
    <2>1. /\ request'[p].now = clock + Skew[p]
          /\ \A q \in Processes \ {p} : request'[q] = request[q]
          /\ clock' = clock
      BY <1>1 DEF Arrive, TypeInv
    <2> QED
      BY <1>0, <2>1 DEF InTime
  <1>2. ASSUME NEW p \in Processes, Script(p) PROVE InTime'
    <2>1. /\ request'[p].pc # "script"
          /\ \A q \in Processes \ {p} : request'[q] = request[q]
          /\ clock' = clock
      BY <1>2 DEF Script, TypeInv
    <2> QED
      BY <2>1 DEF InTime
  <1>3. CASE Tick
    <2>1. /\ request' = request
          /\ clock' = clock + 1
          /\ \A q \in Processes : request[q].pc = "script" => clock + Skew[q] < request[q].now + MaxDelay
      BY <1>3 DEF Tick
    <2>2. SUFFICES ASSUME NEW q \in Processes, request[q].pc = "script"
                   PROVE  request[q].now <= clock' + Skew[q] /\ clock' + Skew[q] <= request[q].now + MaxDelay
      BY <2>1 DEF InTime
    <2>3. request[q].now <= clock + Skew[q] /\ clock + Skew[q] < request[q].now + MaxDelay
      BY <2>1, <2>2 DEF InTime
    <2> QED
      BY <1>0, <2>1, <2>3
  <1>4. CASE UNCHANGED vars
    BY <1>4 DEF vars, InTime
  <1> QED
    BY <1>1, <1>2, <1>3, <1>4 DEF Next

\* A refused client that returns once the clock it meets shows the time it was
\* told is let through, unless the client was let through before, whatever
\* requests were refused in between and however late scripts run: for any
\* number of clients and API processes, any clocks, capacities and rates.
THEOREM WaitingIsEnough == Spec => RetryAfterSuffices
  <1> DEFINE Kept(p) ==
        LET k == request[p].key IN
        request[p].pc = "script" /\ request'[p].pc = "refused" =>
            \A u \in promised[k] : request[p].now < u
  <1>1. Init => InTime /\ PromisesBacked
    BY DEF Init, InTime, PromisesBacked
  <1>2. ASSUME TypeInv, InTime, PromisesBacked, Next
        PROVE  PromisesBacked' /\ \A p \in Processes : Kept(p)
    <2>1. ASSUME NEW q \in Processes, Script(q)
          PROVE  PromisesBacked' /\ \A p \in Processes : Kept(p)
      <3>1. \A p \in Processes \ {q} : request'[p] = request[p]
        BY <1>2, <2>1 DEF Script, TypeInv
      <3>2. PromisesBacked' /\ Kept(q)
        BY <1>2, <2>1, RefusalKeeps, AdmissionKeeps
      <3>3. QED
        BY <3>1, <3>2
    <2>2. ASSUME NEW q \in Processes, NEW k \in Keys, Arrive(q, k)
          PROVE  PromisesBacked' /\ \A p \in Processes : Kept(p)
      BY <1>2, <2>2 DEF Arrive, TypeInv, PromisesBacked
    <2>3. CASE Tick
      BY <1>2, <2>3 DEF Tick, PromisesBacked
    <2>4. QED
      BY <1>2, <2>1, <2>2, <2>3 DEF Next
  <1>3. TypeInv /\ InTime /\ PromisesBacked /\ [Next]_vars => InTime' /\ PromisesBacked'
    <2>1. ASSUME TypeInv, InTime, PromisesBacked, UNCHANGED vars PROVE PromisesBacked'
      BY <2>1 DEF vars, PromisesBacked
    <2>2. QED
      BY <1>2, <2>1, InTimeStep
  <1>4. TypeInv /\ InTime /\ PromisesBacked /\ [Next]_vars => [\A p \in Processes : Kept(p)]_vars
    BY <1>2
  <1>5. QED
    BY <1>1, <1>3, <1>4, TypeInvHolds, PTL DEF Spec, RetryAfterSuffices

-----------------------------------------------------------------------------
(***************************************************************************)
(* The budget.                                                             *)
(***************************************************************************)

\* The second that the time to live adds covers what a script may be late and
\* how far two clocks may be apart.
SkewIsCovered == \A p, q \in Processes : MaxDelay + Skew[q] <= Skew[p] + Second

\* A bucket is kept as long as it would take to fill, by the clock of whoever
\* wrote it.
OutlivesRefill ==
    \A k \in Keys : bucket[k] # Unlimited =>
        /\ bucket[k].expires \in Nat
        /\ \E q \in Processes :
              bucket[k].timestamp + TimeToLive(k) * Second <= bucket[k].expires + Skew[q]

\* What was let through since t and what is left in the bucket came from one
\* full bucket and the refill of every tick since t, counted up to the time on
\* the bucket and again for every tick a script ran behind.
TokensAccounted ==
    \A k \in Keys : \A t \in Times : \A u \in t..Horizon :
        Between(k, t, u) > 0 =>
            /\ bucket[k] # Unlimited
            /\ Between(k, t, u) * Cost + bucket[k].tokens + Rate[k] * t
                 <= Capacity[k] + Rate[k] * (bucket[k].timestamp + setback[k])

BudgetInv == InTime /\ OutlivesRefill /\ TokensAccounted /\ BudgetUpToSetback

\* A stretch of time is a finite set of times.
LEMMA Stretch ==
    ASSUME NEW t \in Times, NEW u \in t..Horizon
    PROVE  t..u \subseteq Times /\ IsFiniteSet(t..u) /\ t \in Nat /\ u \in Nat /\ t <= u /\ u \in Times
  <1>1. t \in Nat /\ u \in Nat /\ t <= u /\ Horizon \in Nat /\ u <= Horizon
    BY RateLimitAssumption DEF Times
  <1>2. IsFiniteSet(t..u)
    BY <1>1, FS_Interval
  <1>3. t..u \subseteq Times /\ u \in Times
    BY <1>1 DEF Times
  <1> QED
    BY <1>1, <1>2, <1>3

\* Between as the sum of a function.
LEMMA BetweenIsSum ==
    ASSUME TypeInv, NEW k \in Keys, NEW t \in Times, NEW u \in t..Horizon
    PROVE  /\ Between(k, t, u) = Sum(admitted[k], t..u)
           /\ Summable(admitted[k], t..u)
           /\ Between(k, t, u) \in Nat
  <1>1. Between(k, t, u) = Sum(admitted[k], t..u)
    BY DEF Between, Sum
  <1>2. \A x \in t..u : admitted[k][x] \in Nat
    BY Stretch DEF TypeInv, TypeOK
  <1>3. IsFiniteSet(t..u)
    BY Stretch
  <1>4. PICK f : f = admitted[k]
    OBVIOUS
  <1>5. PICK S : S = t..u
    OBVIOUS
  <1>6. IsFiniteSet(S) /\ \A x \in S : f[x] \in Nat
    BY <1>2, <1>3, <1>4, <1>5
  <1>7. Sum(f, S) \in Nat /\ Summable(f, S)
    BY <1>6, SumOfPart DEF Summable
  <1> QED
    BY <1>1, <1>4, <1>5, <1>7

\* The same as a formula of the state, which can also be read in the next one.
BetweenTypes ==
    TypeInv =>
        \A k \in Keys : \A t \in Times : \A u \in t..Horizon :
            /\ Between(k, t, u) = Sum(admitted[k], t..u)
            /\ Summable(admitted[k], t..u)
            /\ Between(k, t, u) \in Nat

\* What is true of every state is true of the next.
LEMMA BetweenTypesNext == BetweenTypes'
  <1>1. BetweenTypes
    BY BetweenIsSum DEF BetweenTypes
  <1> QED
    BY <1>1, PTL

\* The types in the next state.
LEMMA BetweenIsSumNext ==
    ASSUME TypeInv', NEW k \in Keys, NEW t \in Times, NEW u \in t..Horizon
    PROVE  /\ Between(k, t, u)' = Sum(admitted'[k], t..u)
           /\ Summable(admitted'[k], t..u)
           /\ Between(k, t, u)' \in Nat
  <1>1. Sum(admitted[k], t..u)' = Sum(admitted'[k], t..u)
    BY DEF Sum, MapThenSumSet, MapThenFoldSet
  <1>2. Summable(admitted[k], t..u)' = Summable(admitted'[k], t..u)
    BY DEF Summable
  <1> QED
    BY <1>1, <1>2, BetweenTypesNext DEF BetweenTypes, Times

\* Requests let through count from the moment their script runs.
LEMMA BetweenSame ==
    ASSUME TypeInv, TypeInv', NEW k \in Keys, admitted'[k] = admitted[k],
           NEW t \in Times, NEW u \in t..Horizon
    PROVE  Between(k, t, u)' = Between(k, t, u)
  BY BetweenIsSum, BetweenIsSumNext

\* The script adds one where its time falls into the stretch.
LEMMA BetweenAdmitted ==
    ASSUME TypeInv, TypeInv', NEW k \in Keys, NEW now \in Times,
           admitted'[k] = [admitted[k] EXCEPT ![now] = @ + 1],
           NEW t \in Times, NEW u \in t..Horizon
    PROVE  Between(k, t, u)' = IF now \in t..u THEN Between(k, t, u) + 1 ELSE Between(k, t, u)
  <1>1. PICK S : S = t..u
    OBVIOUS
  <1>2. PICK f : f = admitted[k]
    OBVIOUS
  <1>3. PICK e : e = admitted'[k]
    OBVIOUS
  <1>4. /\ Between(k, t, u) = Sum(f, S) /\ Summable(f, S) /\ Sum(f, S) \in Nat
        /\ Between(k, t, u)' = Sum(e, S) /\ Summable(e, S) /\ Sum(e, S) \in Nat
    BY <1>1, <1>2, <1>3, BetweenIsSum, BetweenIsSumNext
  <1>5. S \subseteq Times
    BY <1>1, Stretch
  <1>6. /\ \A x \in S : x # now => e[x] = f[x]
        /\ now \in S => e[now] = f[now] + 1 /\ f[now] \in Nat
    BY <1>2, <1>3, <1>5 DEF TypeInv, TypeOK
  <1>7. CASE now \in S
    <2>1. Sum(e, S) = Sum(f, S) + (e[now] - f[now])
      BY <1>4, <1>6, <1>7, SumChanged
    <2>2. e[now] - f[now] = 1
      BY <1>6, <1>7
    <2> QED
      BY <1>1, <1>4, <1>7, <2>1, <2>2
  <1>8. CASE now \notin S
    <2>1. \A x \in S : e[x] = f[x]
      BY <1>6, <1>8
    <2>2. Sum(e, S) = Sum(f, S)
      BY <1>4, <2>1, SumSame DEF Summable
    <2> QED
      BY <1>1, <1>4, <1>8, <2>2
  <1> QED
    BY <1>7, <1>8

-----------------------------------------------------------------------------

\* What refills in n seconds and more, if n seconds are enough to fill it.
LEMMA LongEnough ==
    ASSUME NEW cap \in Nat, NEW rate \in Nat, NEW n \in Nat, NEW elapsed \in Nat,
           Second \in Nat, n * Second <= elapsed, cap <= n * (rate * Second)
    PROVE  cap <= elapsed * rate
  <1>1. \A a, b, m \in Nat : a <= b => a * m <= b * m
    OBVIOUS
  <1>2. n * Second \in Nat /\ elapsed * rate \in Nat /\ (n * Second) * rate \in Nat
    OBVIOUS
  <1>3. (n * Second) * rate <= elapsed * rate
    BY <1>1, <1>2
  <1>4. (n * Second) * rate = n * (rate * Second)
    OBVIOUS
  <1> QED
    BY <1>2, <1>3, <1>4

\* What a script finds in the bucket is at most what was left and the refill.
LEMMA FoundAtMost ==
    ASSUME SkewIsCovered, TypeInv, InTime, OutlivesRefill,
           NEW p \in Processes, request[p].pc = "script",
           NEW k, k = request[p].key, NEW now, now = request[p].now,
           bucket[k] # Unlimited
    PROVE  Refilled(k, now) <= bucket[k].tokens + Elapsed(now, bucket[k].timestamp) * Rate[k]
  <1>1. /\ k \in Keys /\ now \in Nat /\ clock \in Nat
        /\ bucket[k].tokens \in Nat /\ bucket[k].timestamp \in Nat /\ bucket[k].expires \in Nat
        /\ Capacity[k] \in Nat \ {0} /\ Rate[k] \in Nat \ {0}
    <2>1. \A x \in Times : x \in Nat
      BY RateLimitAssumption DEF Times
    <2>2. k \in Keys /\ now \in Times /\ clock \in Times
      BY DEF TypeInv, TypeOK
    <2>3. Capacity[k] \in Nat \ {0} /\ Rate[k] \in Nat \ {0}
      BY <2>2, RateLimitAssumption
    <2>4. bucket[k].tokens \in 0..Capacity[k] /\ bucket[k].timestamp \in Times
      BY <2>2 DEF TypeInv, TypeOK
    <2>5. bucket[k].expires \in Nat
      BY <2>2 DEF OutlivesRefill
    <2> QED
      BY <2>1, <2>2, <2>3, <2>4, <2>5
  <1>2. PICK refill : refill = Elapsed(now, bucket[k].timestamp) * Rate[k]
    OBVIOUS
  <1>3. refill \in Nat
    BY <1>1, <1>2 DEF Elapsed
  <1>4. CASE clock < bucket[k].expires
    <2>1. Held(k) = bucket[k]
      BY <1>4 DEF Held
    <2>2. Refilled(k, now) = Min({Capacity[k], bucket[k].tokens + refill})
      BY <1>2, <2>1 DEF Refilled
    <2> QED
      BY <1>1, <1>2, <1>3, <2>2, MinOfTwo
  <1>5. CASE ~(clock < bucket[k].expires)
    <2>1. Refilled(k, now) = Capacity[k]
      BY <1>5 DEF Held, Refilled
    <2>2. PICK q \in Processes :
              bucket[k].timestamp + TimeToLive(k) * Second <= bucket[k].expires + Skew[q]
      BY <1>1 DEF OutlivesRefill
    <2>3. /\ Second \in Nat \ {0} /\ MaxDelay \in Nat /\ Skew[p] \in Nat /\ Skew[q] \in Nat
          /\ Rate[k] * Second \in Nat \ {0}
      BY <1>1, RateLimitAssumption
    <2>4. PICK n \in Nat : n = CeilDiv(Capacity[k], Rate[k] * Second) /\ Capacity[k] <= n * (Rate[k] * Second)
      <3>1. PICK a \in Nat : a = Capacity[k]
        BY <1>1
      <3>2. PICK b \in Nat \ {0} : b = Rate[k] * Second
        BY <2>3
      <3>3. CeilDiv(a, b) \in Nat /\ CeilDiv(a, b) * b >= a
        BY CeilDivUp
      <3> QED
        BY <3>1, <3>2, <3>3
    <2>5. TimeToLive(k) * Second = n * Second + Second /\ n * Second \in Nat
      BY <2>3, <2>4 DEF TimeToLive
    <2>6. now >= bucket[k].timestamp /\ Capacity[k] <= (now - bucket[k].timestamp) * Rate[k]
      <3>1. clock + Skew[p] <= now + MaxDelay /\ bucket[k].expires <= clock
        BY <1>1, <1>5 DEF InTime
      <3>2. MaxDelay + Skew[q] <= Skew[p] + Second
        BY DEF SkewIsCovered
      <3>3. bucket[k].timestamp + n * Second <= now
        BY <1>1, <2>2, <2>3, <2>5, <3>1, <3>2
      <3>4. now >= bucket[k].timestamp /\ n * Second <= now - bucket[k].timestamp /\ now - bucket[k].timestamp \in Nat
        BY <1>1, <2>5, <3>3
      <3> QED
        BY <1>1, <2>3, <2>4, <3>4, LongEnough
    <2>7. Capacity[k] <= refill
      BY <1>2, <2>6 DEF Elapsed
    <2> QED
      BY <1>1, <1>2, <1>3, <2>1, <2>7
  <1> QED
    BY <1>4, <1>5

\* What is there before the script takes its token is accounted for.
LEMMA RefillAccounted ==
    ASSUME NEW used \in Nat, NEW left \in Nat, NEW found \in Nat, NEW rate \in Nat, NEW t \in Nat,
           NEW cap \in Nat, NEW upto \in Nat, NEW elapsed \in Nat,
           used + left + rate * t <= cap + rate * upto,
           found <= left + elapsed * rate
    PROVE  used + found + rate * t <= cap + rate * (upto + elapsed)
  <1>1. rate * (upto + elapsed) = rate * upto + elapsed * rate
    OBVIOUS
  <1>2. rate * t \in Nat /\ rate * upto \in Nat /\ elapsed * rate \in Nat
    OBVIOUS
  <1> QED
    BY <1>1, <1>2

\* The account is settled at the time of the script.
LEMMA AccountSettled ==
    ASSUME NEW used \in Nat, NEW left \in Nat, NEW rate \in Nat, NEW t \in Nat, NEW u \in Nat,
           NEW cap \in Nat, NEW now \in Nat, NEW back \in Nat, t <= now, now <= u,
           used + left + rate * t <= cap + rate * (now + back)
    PROVE  used <= cap + rate * (u - t + back)
  <1>1. PICK d \in Nat : d = (u - t) + back
    OBVIOUS
  <1>2. now + back <= t + d /\ now + back \in Nat /\ t + d \in Nat
    BY <1>1
  <1>3. \A a, b \in Nat : a <= b => rate * a <= rate * b
    OBVIOUS
  <1>4. rate * (now + back) <= rate * (t + d)
    BY <1>2, <1>3
  <1>5. rate * (t + d) = rate * t + rate * d
    OBVIOUS
  <1>6. rate * t \in Nat /\ rate * d \in Nat /\ rate * (now + back) \in Nat
    BY <1>2
  <1>7. used <= cap + rate * d
    BY <1>4, <1>5, <1>6
  <1> QED
    BY <1>1, <1>7

\* A script takes a token of client k, or none: it finds so many units and
\* leaves so many.
Takes(k, now, found, left) ==
    /\ found <= Capacity[k]
    /\ bucket[k] # Unlimited =>
          found <= bucket[k].tokens + Elapsed(now, bucket[k].timestamp) * Rate[k]
    /\ bucket' = [bucket EXCEPT ![k] = [tokens |-> left, timestamp |-> now,
                                        expires |-> clock + TimeToLive(k) * Second]]
    /\ setback' = [setback EXCEPT ![k] =
                     IF bucket[k] = Unlimited THEN @ ELSE @ + Behind(bucket[k].timestamp, now)]
    /\ \/ admitted' = [admitted EXCEPT ![k][now] = @ + 1] /\ left + Cost = found
       \/ admitted' = admitted /\ left <= found

\* That is what Script does.
LEMMA ScriptTakes ==
    ASSUME SkewIsCovered, TypeInv, BudgetInv, NEW p \in Processes, Script(p)
    PROVE  \E k \in Keys, now \in Times, found \in Nat, left \in Nat : Takes(k, now, found, left)
  <1>1. PICK k \in Keys : k = request[p].key
    BY DEF TypeInv, TypeOK
  <1>2. PICK now \in Times : now = request[p].now
    BY DEF TypeInv
  <1>3. PICK found \in Nat : found = Refilled(k, now) /\ found <= Capacity[k]
    BY RefilledFits, RateLimitAssumption
  <1>4. Cost \in Nat
    BY RateLimitAssumption
  <1>5. PICK left \in Nat : left = IF found >= Cost THEN found - Cost ELSE found
    BY <1>3, <1>4
  <1>6. /\ request[p].pc = "script"
        /\ bucket' = [bucket EXCEPT ![k] = [tokens |-> left, timestamp |-> now,
                                            expires |-> clock + TimeToLive(k) * Second]]
        /\ setback' = [setback EXCEPT ![k] =
                         IF bucket[k] = Unlimited THEN @ ELSE @ + Behind(bucket[k].timestamp, now)]
        /\ \/ found >= Cost /\ admitted' = [admitted EXCEPT ![k][now] = @ + 1]
           \/ ~(found >= Cost) /\ admitted' = admitted
    BY <1>1, <1>2, <1>3, <1>4, <1>5 DEF Script
  <1>7. bucket[k] # Unlimited =>
            found <= bucket[k].tokens + Elapsed(now, bucket[k].timestamp) * Rate[k]
    BY <1>1, <1>2, <1>3, <1>6, FoundAtMost DEF BudgetInv
  <1>8. \/ admitted' = [admitted EXCEPT ![k][now] = @ + 1] /\ left + Cost = found
        \/ admitted' = admitted /\ left <= found
    BY <1>3, <1>4, <1>5, <1>6
  <1>9. Takes(k, now, found, left)
    BY <1>3, <1>6, <1>7, <1>8 DEF Takes
  <1> QED
    BY <1>9

\* The bucket's expiry is set from a time that is not behind the script's.
LEMMA OutlivesStep == ASSUME TypeInv, InTime, OutlivesRefill, [Next]_vars PROVE OutlivesRefill'
  <1>1. ASSUME NEW p \in Processes, Script(p) PROVE OutlivesRefill'
    <2>1. PICK k \in Keys : k = request[p].key
      BY DEF TypeInv, TypeOK
    <2>2. PICK now \in Nat : now = request[p].now /\ now <= clock + Skew[p]
      BY <1>1, RateLimitAssumption DEF TypeInv, Times, InTime, Script
    <2>3. PICK ttl \in Nat : ttl = TimeToLive(k) * Second
      BY TimeToLiveIsNat
    <2>4. PICK left : bucket' = [bucket EXCEPT ![k] = [tokens |-> left, timestamp |-> now,
                                                       expires |-> clock + ttl]]
      BY <1>1, <2>1, <2>2, <2>3 DEF Script
    <2>5. clock \in Nat /\ Skew[p] \in Nat
      BY RateLimitAssumption DEF TypeInv, TypeOK, Times
    <2>6. bucket'[k].timestamp = now /\ bucket'[k].expires = clock + ttl /\ \A j \in Keys \ {k} : bucket'[j] = bucket[j]
      BY <2>4 DEF TypeInv
    <2>7. bucket'[k].expires \in Nat /\ now + ttl <= (clock + ttl) + Skew[p]
      BY <2>2, <2>5, <2>6
    <2>8. \A j \in Keys : TimeToLive(j)' = TimeToLive(j)
      BY DEF TimeToLive, CeilDiv
    <2> QED
      BY <2>3, <2>6, <2>7, <2>8 DEF OutlivesRefill
  <1>2. ASSUME UNCHANGED bucket PROVE OutlivesRefill'
    BY <1>2 DEF OutlivesRefill, TimeToLive, CeilDiv
  <1> QED
    BY <1>1, <1>2 DEF Next, Arrive, Tick, vars

\* The bucket a script leaves, and the others.
LEMMA TakesBucket ==
    ASSUME TypeInv, NEW k \in Keys, NEW now \in Times, NEW found \in Nat, NEW left \in Nat,
           Takes(k, now, found, left)
    PROVE  /\ bucket'[k] # Unlimited
           /\ bucket'[k].tokens = left
           /\ bucket'[k].timestamp = now
           /\ \A j \in Keys \ {k} : bucket'[j] = bucket[j]
  <1>1. PICK expires \in Nat : expires = clock + TimeToLive(k) * Second
    <2>1. TimeToLive(k) * Second \in Nat /\ clock \in Nat
      BY TimeToLiveIsNat, RateLimitAssumption DEF TypeInv, TypeOK, Times
    <2> QED
      BY <2>1
  <1>2. bucket' = [bucket EXCEPT ![k] = [tokens |-> left, timestamp |-> now, expires |-> expires]]
    BY <1>1 DEF Takes
  <1>3. bucket'[k] = [tokens |-> left, timestamp |-> now, expires |-> expires]
    BY <1>2 DEF TypeInv
  <1>4. now \in Nat
    BY RateLimitAssumption DEF Times
  <1>5. bucket'[k] # Unlimited
    BY <1>3, <1>4, UnlimitedAssumption
  <1>6. \A j \in Keys \ {k} : bucket'[j] = bucket[j]
    BY <1>2 DEF TypeInv
  <1> QED
    BY <1>3, <1>5, <1>6

\* What it leaves of the counts.
LEMMA TakesCounts ==
    ASSUME TypeInv, NEW k \in Keys, NEW now \in Times, NEW found \in Nat, NEW left \in Nat,
           Takes(k, now, found, left)
    PROVE  /\ \A j \in Keys \ {k} : setback'[j] = setback[j] /\ admitted'[j] = admitted[j]
           /\ setback'[k] = IF bucket[k] = Unlimited THEN setback[k]
                            ELSE setback[k] + Behind(bucket[k].timestamp, now)
           /\ \/ admitted'[k] = [admitted[k] EXCEPT ![now] = @ + 1] /\ left + Cost = found
              \/ admitted'[k] = admitted[k] /\ left <= found
  BY DEF Takes, TypeInv, TypeOK

\* The account of the client whose script runs, for one stretch of time.
LEMMA OwnStretch ==
    ASSUME TypeInv, TypeInv', TokensAccounted,
           NEW k \in Keys, NEW now \in Times, NEW found \in Nat, NEW left \in Nat,
           Takes(k, now, found, left),
           NEW t \in Times, NEW u \in t..Horizon,
           Between(k, t, u)' > 0
    PROVE  Between(k, t, u)' * Cost + left + Rate[k] * t
             <= Capacity[k] + Rate[k] * (now + setback'[k])
  <1>1. PICK N \in Nat : N = Between(k, t, u)
    BY BetweenIsSum
  <1>2. PICK M \in Nat : M = Between(k, t, u)'
    BY BetweenIsSumNext
  <1>3. /\ t \in Nat /\ u \in Nat /\ now \in Nat /\ Cost \in Nat /\ M > 0
        /\ \A x \in Times : x \in Nat
    BY <1>2, Stretch, RateLimitAssumption DEF Times
  <1>4. PICK rate \in Nat : rate = Rate[k]
    BY RateLimitAssumption
  <1>5. PICK cap \in Nat : cap = Capacity[k] /\ found <= cap
    BY RateLimitAssumption DEF Takes
  <1>6. PICK back \in Nat : back = setback[k]
    BY DEF TypeInv, TypeOK
  <1>7. PICK newback \in Nat : newback = setback'[k]
    BY DEF TypeInv, TypeOK
  <1>8. \/ M = N /\ left <= found
        \/ M = N + 1 /\ t <= now /\ left + Cost = found
    <2>1. CASE admitted'[k] = admitted[k] /\ left <= found
      BY <1>1, <1>2, <2>1, BetweenSame
    <2>2. CASE admitted'[k] = [admitted[k] EXCEPT ![now] = @ + 1] /\ left + Cost = found
      <3>1. M = IF now \in t..u THEN N + 1 ELSE N
        BY <1>1, <1>2, <2>2, BetweenAdmitted
      <3>2. left <= found
        BY <1>3, <2>2
      <3>3. now \in t..u => t <= now
        BY <1>3
      <3> QED
        BY <2>2, <3>1, <3>2, <3>3
    <2>3. \/ admitted'[k] = [admitted[k] EXCEPT ![now] = @ + 1] /\ left + Cost = found
          \/ admitted'[k] = admitted[k] /\ left <= found
      BY TakesCounts
    <2> QED
      BY <2>1, <2>2, <2>3
  <1>9. PICK then \in Nat, before \in Nat :
            /\ newback = back + Behind(then, now)
            /\ N > 0 => /\ N * Cost + before + rate * t <= cap + rate * (then + back)
                        /\ found <= before + Elapsed(now, then) * rate
    <2>1. CASE bucket[k] # Unlimited
      <3>1. PICK then \in Nat : then = bucket[k].timestamp
        BY <1>3, <2>1 DEF TypeInv, TypeOK
      <3>2. PICK before \in Nat : before = bucket[k].tokens
        BY <2>1, RateLimitAssumption DEF TypeInv, TypeOK
      <3>3. newback = back + Behind(then, now)
        <4>1. setback'[k] = setback[k] + Behind(bucket[k].timestamp, now)
          BY <2>1, TakesCounts
        <4> QED
          BY <1>6, <1>7, <3>1, <4>1
      <3>4. N > 0 => N * Cost + before + rate * t <= cap + rate * (then + back)
        BY <1>1, <1>4, <1>5, <1>6, <3>1, <3>2 DEF TokensAccounted
      <3>5. found <= before + Elapsed(now, then) * rate
        BY <1>4, <2>1, <3>1, <3>2 DEF Takes
      <3> QED
        BY <3>3, <3>4, <3>5
    <2>2. CASE bucket[k] = Unlimited
      <3>1. ~(N > 0)
        BY <1>1, <2>2 DEF TokensAccounted
      <3>2. setback'[k] = setback[k]
        BY <2>2, TakesCounts
      <3>3. Behind(now, now) = 0
        BY <1>3 DEF Behind
      <3>4. newback = back + Behind(now, now)
        BY <1>6, <1>7, <3>2, <3>3
      <3> QED
        BY <1>3, <3>1, <3>4
    <2> QED
      BY <2>1, <2>2
  <1>10. PICK elapsed \in Nat : elapsed = Elapsed(now, then) /\ now + newback = (then + back) + elapsed
    <2>1. Elapsed(now, then) \in Nat /\ now + newback = (then + back) + Elapsed(now, then)
      BY <1>3, <1>9 DEF Elapsed, Behind
    <2> QED
      BY <2>1
  <1>11. rate * t \in Nat /\ N * Cost \in Nat /\ rate * (now + newback) \in Nat /\ (N + 1) * Cost = N * Cost + Cost
    BY <1>3
  <1>12. ASSUME N > 0
         PROVE  M * Cost + left + rate * t <= cap + rate * (now + newback)
    <2>1. PICK used \in Nat : used = N * Cost
      BY <1>11
    <2>2. PICK upto \in Nat : upto = then + back
      OBVIOUS
    <2>3. used + found + rate * t <= cap + rate * (upto + elapsed)
      BY <1>3, <1>9, <1>10, <1>12, <2>1, <2>2, RefillAccounted
    <2>4. N * Cost + found + rate * t <= cap + rate * (now + newback)
      BY <1>10, <2>1, <2>2, <2>3
    <2>5. PICK r \in Nat : r = rate * t
      BY <1>11
    <2>6. PICK b \in Nat : b = rate * (now + newback)
      BY <1>11
    <2>7. PICK m : m = M * Cost
      OBVIOUS
    <2>8. (m = used /\ left <= found) \/ (m = used + Cost /\ left + Cost = found)
      BY <1>8, <1>11, <2>1, <2>7
    <2>9. used + found + r <= cap + b
      BY <2>1, <2>4, <2>5, <2>6
    <2> QED
      BY <1>3, <1>5, <2>5, <2>6, <2>7, <2>8, <2>9
  <1>13. ASSUME N = 0
         PROVE  M * Cost + left + rate * t <= cap + rate * (now + newback)
    <2>1. M = 1 /\ t <= now /\ left + Cost = found
      BY <1>3, <1>8, <1>13
    <2>2. t <= now + newback /\ now + newback \in Nat
      BY <1>3, <2>1
    <2>3. \A a, b \in Nat : a <= b => rate * a <= rate * b
      OBVIOUS
    <2>4. rate * t <= rate * (now + newback)
      BY <1>3, <2>2, <2>3
    <2>5. M * Cost = Cost
      BY <1>3, <2>1
    <2>6. PICK r \in Nat : r = rate * t
      BY <1>11
    <2>7. PICK b \in Nat : b = rate * (now + newback)
      BY <1>11
    <2> QED
      BY <1>3, <1>5, <2>1, <2>4, <2>5, <2>6, <2>7
  <1>14. M * Cost + left + rate * t <= cap + rate * (now + newback)
    BY <1>12, <1>13
  <1> QED
    BY <1>2, <1>4, <1>5, <1>7, <1>14

\* A script keeps the account of every client.
LEMMA AccountStep ==
    ASSUME TypeInv, TypeInv', TokensAccounted,
           NEW k \in Keys, NEW now \in Times, NEW found \in Nat, NEW left \in Nat,
           Takes(k, now, found, left)
    PROVE  TokensAccounted'
  <1>0. bucket'[k].tokens = left /\ bucket'[k].timestamp = now /\ bucket'[k] # Unlimited
    BY TakesBucket, ZenonT(30)
  <1>1. SUFFICES ASSUME NEW j \in Keys, NEW t \in Times, NEW u \in t..Horizon, Between(j, t, u)' > 0
                 PROVE  /\ bucket'[j] # Unlimited
                        /\ Between(j, t, u)' * Cost + bucket'[j].tokens + Rate[j] * t
                             <= Capacity[j] + Rate[j] * (bucket'[j].timestamp + setback'[j])
    BY DEF TokensAccounted, Times
  <1>2. CASE j = k
    <2>2. Between(k, t, u)' * Cost + left + Rate[k] * t <= Capacity[k] + Rate[k] * (now + setback'[k])
      BY <1>1, <1>2, OwnStretch
    <2> QED
      BY <1>0, <1>2, <2>2
  <1>3. CASE j # k
    <2>0. j \in Keys \ {k}
      BY <1>3
    <2>1. bucket'[j] = bucket[j] /\ setback'[j] = setback[j] /\ admitted'[j] = admitted[j]
      <3>1. bucket'[j] = bucket[j]
        BY <2>0, TakesBucket
      <3>2. setback'[j] = setback[j] /\ admitted'[j] = admitted[j]
        BY <2>0, TakesCounts
      <3> QED
        BY <3>1, <3>2
    <2>2. Between(j, t, u)' = Between(j, t, u)
      BY <2>1, BetweenSame
    <2> QED
      BY <1>1, <2>1, <2>2 DEF TokensAccounted
  <1> QED
    BY <1>2, <1>3

\* A bucket that falls further behind has more to account for.
LEMMA SlackGrows ==
    ASSUME NEW used \in Nat, NEW cap \in Nat, NEW rate \in Nat, NEW span \in Nat,
           NEW back \in Nat, NEW newback \in Nat, back <= newback,
           used <= cap + rate * (span + back)
    PROVE  used <= cap + rate * (span + newback)
  <1>1. PICK d \in Nat : newback = back + d
    <2>1. newback - back \in Nat /\ newback = back + (newback - back)
      OBVIOUS
    <2> QED
      BY <2>1
  <1>2. rate * (span + newback) = rate * (span + back) + rate * d
    BY <1>1
  <1>3. rate * d \in Nat /\ rate * (span + back) \in Nat /\ rate * (span + newback) \in Nat
    BY <1>1
  <1> QED
    BY <1>2, <1>3

\* The budget of one stretch of time of the client whose script runs.
LEMMA OwnBudget ==
    ASSUME TypeInv, TypeInv', TokensAccounted', BudgetUpToSetback,
           NEW k \in Keys, NEW now \in Times, NEW found \in Nat, NEW left \in Nat,
           Takes(k, now, found, left),
           NEW t \in Times, NEW u \in t..Horizon
    PROVE  Between(k, t, u)' * Cost <= Capacity[k] + Rate[k] * (u - t + setback'[k])
  <1>1. /\ t \in Nat /\ u \in Nat /\ t <= u /\ now \in Nat /\ Cost \in Nat
        /\ \A x \in Times : x \in Nat
    BY Stretch, RateLimitAssumption DEF Times
  <1>2. PICK span \in Nat : span = u - t
    BY <1>1
  <1>3. PICK rate \in Nat : rate = Rate[k]
    BY RateLimitAssumption
  <1>4. PICK cap \in Nat : cap = Capacity[k]
    BY RateLimitAssumption
  <1>5. PICK back \in Nat : back = setback[k]
    BY DEF TypeInv, TypeOK
  <1>6. PICK newback \in Nat : newback = setback'[k]
    BY DEF TypeInv, TypeOK
  <1>7. back <= newback
    <2>1. \/ setback'[k] = setback[k]
          \/ bucket[k] # Unlimited /\ setback'[k] = setback[k] + Behind(bucket[k].timestamp, now)
      BY TakesCounts
    <2>2. CASE setback'[k] = setback[k]
      BY <1>5, <1>6, <2>2
    <2>3. CASE bucket[k] # Unlimited /\ setback'[k] = setback[k] + Behind(bucket[k].timestamp, now)
      <3>1. bucket[k].timestamp \in Nat
        BY <1>1, <2>3 DEF TypeInv, TypeOK
      <3>2. Behind(bucket[k].timestamp, now) \in Nat
        BY <1>1, <3>1 DEF Behind
      <3> QED
        BY <1>5, <1>6, <2>3, <3>2
    <2> QED
      BY <2>1, <2>2, <2>3
  <1>8. PICK N \in Nat : N = Between(k, t, u)
    BY BetweenIsSum
  <1>9. PICK M \in Nat : M = Between(k, t, u)'
    BY BetweenIsSumNext
  <1>10. CASE M = N
    <2>1. PICK used \in Nat : used = N * Cost
      BY <1>1
    <2>2. used <= cap + rate * (span + back)
      BY <1>2, <1>3, <1>4, <1>5, <1>8, <2>1 DEF BudgetUpToSetback
    <2>3. used <= cap + rate * (span + newback)
      BY <1>7, <2>2, SlackGrows
    <2> QED
      BY <1>2, <1>3, <1>4, <1>6, <1>9, <1>10, <2>1, <2>3
  <1>11. CASE M # N
    <2>1. M = N + 1 /\ now \in t..u
      <3>1. admitted'[k] # admitted[k]
        BY <1>8, <1>9, <1>11, BetweenSame
      <3>2. admitted'[k] = [admitted[k] EXCEPT ![now] = @ + 1]
        BY <3>1, TakesCounts
      <3>3. M = IF now \in t..u THEN N + 1 ELSE N
        BY <1>8, <1>9, <3>2, BetweenAdmitted
      <3> QED
        BY <1>11, <3>3
    <2>2. M > 0 /\ t <= now /\ now <= u
      BY <1>1, <2>1
    <2>3. bucket'[k].tokens = left /\ bucket'[k].timestamp = now
      BY TakesBucket, ZenonT(30)
    <2>4. M * Cost + left + rate * t <= cap + rate * (now + newback)
      BY <1>3, <1>4, <1>6, <1>9, <2>2, <2>3 DEF TokensAccounted, Times
    <2>5. PICK used \in Nat : used = M * Cost
      BY <1>1
    <2>6. used <= cap + rate * (u - t + newback)
      BY <1>1, <2>2, <2>4, <2>5, AccountSettled
    <2> QED
      BY <1>3, <1>4, <1>6, <1>9, <2>5, <2>6
  <1> QED
    BY <1>10, <1>11

\* A script keeps every client within its budget.
LEMMA BudgetStep ==
    ASSUME TypeInv, TypeInv', TokensAccounted', BudgetUpToSetback,
           NEW k \in Keys, NEW now \in Times, NEW found \in Nat, NEW left \in Nat,
           Takes(k, now, found, left)
    PROVE  BudgetUpToSetback'
  <1>1. SUFFICES ASSUME NEW j \in Keys, NEW t \in Times, NEW u \in t..Horizon
                 PROVE  Between(j, t, u)' * Cost <= Capacity[j] + Rate[j] * (u - t + setback'[j])
    BY DEF BudgetUpToSetback, Times
  <1>2. CASE j = k
    <2>1. Between(k, t, u)' * Cost <= Capacity[k] + Rate[k] * (u - t + setback'[k])
      BY OwnBudget
    <2> QED
      BY <1>2, <2>1
  <1>3. CASE j # k
    <2>1. j \in Keys \ {k}
      BY <1>3
    <2>2. setback'[j] = setback[j] /\ admitted'[j] = admitted[j]
      BY <2>1, TakesCounts
    <2>3. Between(j, t, u)' = Between(j, t, u)
      BY <2>2, BetweenSame
    <2> QED
      BY <2>2, <2>3 DEF BudgetUpToSetback
  <1> QED
    BY <1>2, <1>3

\* What the accounts say does not change while no script runs.
LEMMA AccountFrame ==
    ASSUME TypeInv, TypeInv', TokensAccounted, BudgetUpToSetback,
           UNCHANGED <<bucket, admitted, setback>>
    PROVE  TokensAccounted' /\ BudgetUpToSetback'
  <1>1. \A k \in Keys : \A t \in Times : \A u \in t..Horizon : Between(k, t, u)' = Between(k, t, u)
    BY BetweenSame
  <1>2. TokensAccounted'
    BY <1>1 DEF TokensAccounted, Times
  <1>3. BudgetUpToSetback'
    BY <1>1 DEF BudgetUpToSetback, Times
  <1> QED
    BY <1>2, <1>3

\* Nothing has been let through at the start.
LEMMA BudgetInvInit == ASSUME Init PROVE BudgetInv
  <1>1. InTime
    BY DEF Init, InTime
  <1>2. OutlivesRefill
    BY DEF Init, OutlivesRefill
  <1>3. ASSUME NEW k \in Keys, NEW t \in Times, NEW u \in t..Horizon PROVE Between(k, t, u) = 0
    <2>1. PICK S : S = t..u
      OBVIOUS
    <2>2. PICK f : f = admitted[k]
      OBVIOUS
    <2>3. IsFiniteSet(S) /\ S \subseteq Times
      BY <2>1, Stretch
    <2>4. \A x \in S : f[x] = 0 * f[x] /\ f[x] \in Int
      BY <2>2, <2>3 DEF Init
    <2>5. Summable(f, S)
      BY <2>3, <2>4 DEF Summable
    <2>6. Sum(f, S) = 0 * Sum(f, S) /\ Sum(f, S) \in Int
      BY <2>4, <2>5, SumTimes, SumInt
    <2>7. Between(k, t, u) = Sum(f, S)
      BY <1>3, <2>1, <2>2, TypeInvInit, BetweenIsSum
    <2> QED
      BY <2>6, <2>7
  <1>4. TokensAccounted
    BY <1>3 DEF TokensAccounted
  <1>5. BudgetUpToSetback
    <2>1. SUFFICES ASSUME NEW k \in Keys, NEW t \in Times, NEW u \in t..Horizon
                   PROVE  Between(k, t, u) * Cost <= Capacity[k] + Rate[k] * (u - t + setback[k])
      BY DEF BudgetUpToSetback
    <2>2. PICK cap \in Nat : cap = Capacity[k]
      BY RateLimitAssumption
    <2>3. PICK rate \in Nat : rate = Rate[k]
      BY RateLimitAssumption
    <2>4. PICK n \in Nat : n = u - t + setback[k]
      BY Stretch DEF Init
    <2>5. Between(k, t, u) * Cost = 0
      BY <1>3, RateLimitAssumption
    <2>6. 0 <= cap + rate * n
      <3>1. rate * n \in Nat
        OBVIOUS
      <3> QED
        BY <3>1
    <2> QED
      BY <2>2, <2>3, <2>4, <2>5, <2>6
  <1> QED
    BY <1>1, <1>2, <1>4, <1>5 DEF BudgetInv

\* Every step keeps the accounts.
LEMMA BudgetInvStep ==
    ASSUME SkewIsCovered, TypeInv, BudgetInv, [Next]_vars
    PROVE  BudgetInv'
  <1>1. TypeInv' /\ InTime' /\ OutlivesRefill'
    BY TypeInvStep, InTimeStep, OutlivesStep DEF BudgetInv
  <1>2. ASSUME NEW p \in Processes, Script(p) PROVE TokensAccounted' /\ BudgetUpToSetback'
    <2>1. PICK k \in Keys, now \in Times, found \in Nat, left \in Nat : Takes(k, now, found, left)
      BY <1>2, ScriptTakes
    <2>2. TokensAccounted'
      BY <1>1, <2>1, AccountStep DEF BudgetInv
    <2> QED
      BY <1>1, <2>1, <2>2, BudgetStep DEF BudgetInv
  <1>3. ASSUME UNCHANGED <<bucket, admitted, setback>> PROVE TokensAccounted' /\ BudgetUpToSetback'
    BY <1>1, <1>3, AccountFrame DEF BudgetInv
  <1>4. TokensAccounted' /\ BudgetUpToSetback'
    BY <1>2, <1>3 DEF Next, Arrive, Tick, vars
  <1> QED
    BY <1>1, <1>4 DEF BudgetInv

\* In any stretch of time a client gets through no more requests than one full
\* bucket and the refill of that stretch allow, plus what scripts that ran
\* behind later ones refilled a second time: for any number of clients and API
\* processes and any capacities and rates, as long as the second that the time
\* to live adds covers the delay of a script and the skew of the clocks.
THEOREM BudgetHolds ==
    ASSUME SkewIsCovered
    PROVE  Spec => []BudgetUpToSetback
  <1>1. TypeInv /\ BudgetInv /\ [Next]_vars => BudgetInv'
    BY BudgetInvStep
  <1>2. Init => BudgetInv
    BY BudgetInvInit
  <1>3. BudgetInv => BudgetUpToSetback
    BY DEF BudgetInv
  <1> QED
    BY <1>1, <1>2, <1>3, TypeInvHolds, PTL DEF Spec
=============================================================================
