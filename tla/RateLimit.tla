------------------------------ MODULE RateLimit ------------------------------
(***************************************************************************)
(* The token bucket of RateLimitMiddleware.  Every request takes one token *)
(* from its client's bucket in Redis through a Lua script, which Redis     *)
(* runs as one step; but the time the script refills by is read earlier,   *)
(* by the API process that handles the request, so scripts may run in      *)
(* another order than their clocks were read, and the clocks of two        *)
(* processes may differ.                                                   *)
(*                                                                         *)
(* Time is counted in ticks and tokens in units, Cost units to a token, so *)
(* that the refill per tick is a whole number of units (the code divides   *)
(* floats).  Tokens are thereby exact; rounding of floats is left out.     *)
(***************************************************************************)
EXTENDS Naturals, FiniteSetsExt

CONSTANTS
    Keys,        \* "general" and "auth" of each client IP, the keys of Redis
    Processes,   \* API processes, each with one request in hand
    Skew,        \* [Processes -> ticks its clock is ahead]
    Capacity,    \* [Keys -> units in a full bucket]
    Rate,        \* [Keys -> units refilled per tick]
    Cost,        \* units one request takes
    Second,      \* ticks to a second
    Unlimited,   \* the bucket of a client Redis holds nothing about
    MaxDelay,    \* ticks by which a script may run after its clock was read
    Horizon,     \* bound on time, for TLC
    MaxSetback   \* bound on the setback of a bucket, for TLC

Times == 0..Horizon

ASSUME RateLimitAssumption ==
    /\ Keys # {}
    /\ Skew \in [Processes -> Nat]
    /\ Capacity \in [Keys -> Nat \ {0}]
    /\ Rate \in [Keys -> Nat \ {0}]
    /\ \A k \in Keys : Cost <= Capacity[k]
    /\ Cost \in Nat \ {0} /\ Second \in Nat \ {0} /\ MaxDelay \in Nat
    /\ Horizon \in Nat /\ MaxSetback \in Nat

\* An empty answer of HMGET is no bucket.
ASSUME UnlimitedAssumption == Unlimited \notin [tokens : Nat, timestamp : Nat, expires : Nat]

VARIABLES
    clock,     \* Redis's own time
    bucket,    \* [Keys -> [tokens, timestamp, expires] or Unlimited]
    request,   \* [Processes -> [pc, key, now, wait]]
    admitted,  \* history: [Keys -> [time stamped -> requests let through]]
    setback,   \* history: [Keys -> ticks by which a script ran behind an earlier one]
    promised   \* history: [Keys -> when clients refused since the last request let
               \* through were told to return, by the clock of who refused them]

vars == <<clock, bucket, request, admitted, setback, promised>>

\* Slip: rounded down.
CeilDiv_floor(a, b) == a \div b

CeilDiv(a, b) == (a + b - 1) \div b

Init ==
    /\ clock = 0
    /\ bucket = [k \in Keys |-> Unlimited]
    /\ request = [p \in Processes |->
                    [pc |-> "idle", key |-> CHOOSE k \in Keys : TRUE, now |-> 0, wait |-> 0]]
    /\ admitted = [k \in Keys |-> [t \in Times |-> 0]]
    /\ setback = [k \in Keys |-> 0]
    /\ promised = [k \in Keys |-> {}]

-----------------------------------------------------------------------------

\* Redis answers as if a key were gone from the moment it expires.
Held(k) == IF bucket[k] # Unlimited /\ clock < bucket[k].expires THEN bucket[k] ELSE Unlimited

\* math.max(0, now - timestamp)
Elapsed(now, then) == IF now >= then THEN now - then ELSE 0

Behind(then, now) == IF then > now THEN then - now ELSE 0

\* Slip: the refill is not capped.
Refilled_uncapped(k, now) ==
    IF Held(k) = Unlimited THEN Capacity[k]
    ELSE Held(k).tokens + Elapsed(now, Held(k).timestamp) * Rate[k]

\* What the bucket holds for a script that says it is now.
Refilled(k, now) ==
    IF Held(k) = Unlimited THEN Capacity[k]
    ELSE Min({Capacity[k], Held(k).tokens + Elapsed(now, Held(k).timestamp) * Rate[k]})

\* Slip: without the extra second.
TimeToLive_exact(k) == CeilDiv(Capacity[k], Rate[k] * Second)

\* math.ceil(capacity / refill_rate) + 1, with the rate per second.
TimeToLive(k) == CeilDiv(Capacity[k], Rate[k] * Second) + 1

\* The request reaches the middleware, which picks the bucket by path and reads
\* time.time(); /health never gets here.
Arrive(p, k) ==
    /\ request[p].pc # "script"
    /\ clock + Skew[p] <= Horizon
    /\ setback[k] < MaxSetback
    /\ request' = [request EXCEPT ![p] =
                     [pc |-> "script", key |-> k, now |-> clock + Skew[p], wait |-> 0]]
    /\ UNCHANGED <<clock, bucket, admitted, setback, promised>>

\* The script and the answer: the request goes on, or is refused with the
\* number of seconds to wait.
Script(p) ==
    LET k    == request[p].key
        now  == request[p].now
        have == Refilled(k, now)
        left == IF have >= Cost THEN have - Cost ELSE have
        wait == Max({1, CeilDiv(Cost - left, Rate[k] * Second)})
    IN
    /\ request[p].pc = "script"
    /\ bucket' = [bucket EXCEPT ![k] = [tokens |-> left, timestamp |-> now,
                                        expires |-> clock + TimeToLive(k) * Second]]
    /\ \/ /\ have >= Cost
          /\ request' = [request EXCEPT ![p].pc = "admitted"]
          /\ admitted' = [admitted EXCEPT ![k][now] = @ + 1]
          /\ promised' = [promised EXCEPT ![k] = {}]
       \/ /\ have < Cost
          /\ request' = [request EXCEPT ![p] =
                           [pc |-> "refused", key |-> k, now |-> now, wait |-> wait]]
          /\ promised' = [promised EXCEPT ![k] = @ \cup {clock + Skew[p] + wait * Second}]
          /\ UNCHANGED admitted
    /\ setback' = [setback EXCEPT ![k] =
                     IF bucket[k] = Unlimited THEN @ ELSE @ + Behind(bucket[k].timestamp, now)]
    /\ UNCHANGED clock

\* Time passes, but not past the delay a request may meet.
Tick ==
    /\ clock < Horizon
    /\ \A p \in Processes : request[p].pc = "script" =>
          clock + Skew[p] < request[p].now + MaxDelay
    /\ clock' = clock + 1
    /\ UNCHANGED <<bucket, request, admitted, setback, promised>>

Next ==
    \/ \E p \in Processes : (\E k \in Keys : Arrive(p, k)) \/ Script(p)
    \/ Tick

Spec == Init /\ [][Next]_vars

-----------------------------------------------------------------------------
(***************************************************************************)
(*                               Properties                                *)
(***************************************************************************)

\* In particular no bucket ever holds less than nothing or more than it can.
TypeOK ==
    /\ clock \in Times
    /\ \A k \in Keys : bucket[k] # Unlimited =>
          /\ bucket[k].tokens \in 0..Capacity[k]
          /\ bucket[k].timestamp \in Times
          /\ bucket[k].expires \in Nat
    /\ \A p \in Processes :
          /\ request[p].pc \in {"idle", "script", "admitted", "refused"}
          /\ request[p].key \in Keys
          /\ request[p].wait \in Nat
    /\ admitted \in [Keys -> [Times -> Nat]]
    /\ setback \in [Keys -> Nat]
    /\ promised \in [Keys -> SUBSET Nat]

Between(k, t, u) == MapThenSumSet(LAMBDA x : admitted[k][x], t..u)

\* In any stretch of time a client gets through no more requests than one full
\* bucket and the refill of that stretch allow, plus what scripts that ran
\* behind later ones refilled a second time.  A bucket that Redis dropped
\* (EXPIRE) would have been full: the second added to its time to live covers
\* the delays and the skew of the clocks.
BudgetUpToSetback ==
    \A k \in Keys : \A t \in Times : \A u \in t..Horizon :
        Between(k, t, u) * Cost <= Capacity[k] + Rate[k] * (u - t + setback[k])

\* Retry-After is long enough: a client that returns when the clock of whoever
\* refused it has come that many seconds further, by the clock of whoever it
\* returns to, is let through, unless another request of the same client took
\* the token; requests refused in between, late scripts and the expiry of the
\* bucket do not delay it.  A process whose clock is behind the refuser's may
\* refuse once more, by as much as it is behind.
RetryAfterSuffices ==
    [][\A p \in Processes :
         LET k == request[p].key IN
         request[p].pc = "script" /\ request'[p].pc = "refused" =>
             \A u \in promised[k] : request[p].now < u]_vars
=============================================================================
