-------------------------------- MODULE Store --------------------------------
(***************************************************************************)
(* PostgreSQL as the services use it: the committed tables, the row locks  *)
(* taken by SELECT ... FOR UPDATE, and what each session holds in memory.  *)
(*                                                                         *)
(* A transaction's writes become visible in one step, its commit, so the   *)
(* tables change in commit actions only.  What a service decided earlier   *)
(* it decided on `row`, the ORM object filled when the lock was granted,   *)
(* and the commit writes the values computed from that object: nothing but *)
(* the row locks keeps two transactions from losing each other's updates.  *)
(* Every SELECT reads the latest committed rows (READ COMMITTED).          *)
(***************************************************************************)
EXTENDS Requests

VARIABLES
    pools,             \* [Pools -> PoolRow]
    contributions,     \* committed contribution rows (the sessions that made them)
    orders,            \* [Orders -> {"absent", "pending", "paid", "expired"}]
    payments,          \* committed payment rows (the webhooks that made them)
    processed_events,  \* event ids recorded
    payouts,           \* committed rows [pool, farmer, amount]

    pool_lock,         \* [Pools -> Processes \cup {Free}]
    order_lock,        \* [Orders -> Processes \cup {Free}]

    pc,                \* where each session or sweeper is
    answer,            \* what each session answered
    row,               \* the pool row a process read under its lock
    due,               \* payout rows a session has added and not committed
    batch,             \* candidate ids a sweep run has still to visit
    current,           \* the candidate it is on

    aged,              \* orders older than sweep_order_max_age_hours
    initialized,       \* orders Paystack has a transaction for
    released,          \* history: orders whose quantity was given back
    faults             \* history: transactions aborted so far

tables  == <<pools, contributions, orders, payments, processed_events, payouts>>
locks   == <<pool_lock, order_lock>>
sweep   == <<batch, current>>
outside == <<aged, initialized, released, faults>>
vars    == <<tables, locks, pc, answer, row, due, sweep, outside>>

\* What only the sweep and the environment change.
background == <<sweep, outside>>

Goto(s, label) ==
    /\ pc' = [pc EXCEPT ![s] = label]
    /\ UNCHANGED answer

Reply(s, a) ==
    /\ pc' = [pc EXCEPT ![s] = "done"]
    /\ answer' = [answer EXCEPT ![s] = a]

-----------------------------------------------------------------------------

\* Slip: a plain SELECT, which waits for nobody.
PoolIsFree_plain_select(p) == TRUE

\* SELECT ... FROM pools WHERE id = p FOR UPDATE waits until nobody holds it.
PoolIsFree(p) == pool_lock[p] = Free

LockPool(s, p) ==
    /\ pool_lock' = [pool_lock EXCEPT ![p] = s]
    /\ row' = [row EXCEPT ![s] = pools[p]]

\* COMMIT and ROLLBACK release the lock and end the life of the ORM object.
UnlockPool(s, p) ==
    /\ pool_lock' = [pool_lock EXCEPT ![p] = Free]
    /\ row' = [row EXCEPT ![s] = NoRow]

OrderIsFree(o) == order_lock[o] = Free

LockOrder(s, o) == order_lock' = [order_lock EXCEPT ![o] = s]

UnlockOrder(o) == order_lock' = [order_lock EXCEPT ![o] = Free]

\* Slip: a failed session keeps the lock on its order (a leaked connection).
ReleaseAll_but_order(s) ==
    /\ pool_lock' = [p \in Pools |-> IF pool_lock[p] = s THEN Free ELSE pool_lock[p]]
    /\ row' = [row EXCEPT ![s] = NoRow]
    /\ UNCHANGED order_lock

\* Rollback of whatever process s holds.
ReleaseAll(s) ==
    /\ pool_lock' = [p \in Pools |-> IF pool_lock[p] = s THEN Free ELSE pool_lock[p]]
    /\ order_lock' = [o \in Orders |-> IF order_lock[o] = s THEN Free ELSE order_lock[o]]
    /\ row' = [row EXCEPT ![s] = NoRow]

\* A SELECT under the lock that finds a reason to refuse: the service rolls
\* back and raises, so the lock is gone again in the same step.
Refuse(s, a) ==
    /\ Reply(s, a)
    /\ UNCHANGED <<locks, row>>
=============================================================================
