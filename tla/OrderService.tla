---------------------------- MODULE OrderService ----------------------------
(***************************************************************************)
(* features/orders/service.py: placing an order, and the sweep that gives  *)
(* the stock of unpaid orders back.  An order row and its allocation row   *)
(* are inserted by the same commit and neither is ever deleted, so         *)
(* `orders` stands for both.                                               *)
(***************************************************************************)
EXTENDS Store

Placed == {o \in Orders : orders[o] # "absent"}

\* _find_by_idempotency_key: the committed orders with this buyer and key.
FoundByKey(s) == {o \in Placed : SameKey(s, o)}

\* The read that needs no lock.  Without a key there is nothing to read.
FindByKey(s) ==
    /\ pc[s] = "start"
    /\ Request[s].op = "order"
    /\ \/ \E o \in FoundByKey(s) : Reply(s, o)
       \/ FoundByKey(s) = {} /\ Goto(s, "order_lock")
    /\ UNCHANGED <<tables, locks, row, due, background>>

\* Slip: the stock is not checked again under the lock.
Sellable_unchecked(s, r) == TRUE

Sellable(s, r) == Request[s].qty <= r.available_qty

\* Slip: a refusal under the lock leaves the session open, and the lock with it.
LockForOrder_never_closed(s) ==
    LET p == Request[s].pool IN
    /\ pc[s] = "order_lock"
    /\ PoolIsFree(p)
    /\ LockPool(s, p)
    /\ \/ pools[p].status = "absent" /\ Reply(s, "not_found")
       \/ pools[p].status = "closed" /\ Reply(s, "closed")
       \/ pools[p].status = "open" /\ ~Sellable(s, pools[p]) /\ Reply(s, "insufficient")
       \/ pools[p].status = "open" /\ Sellable(s, pools[p]) /\ Goto(s, "order_flush")
    /\ UNCHANGED <<tables, order_lock, due, background>>

LockForOrder(s) ==
    LET p == Request[s].pool IN
    /\ pc[s] = "order_lock"
    /\ PoolIsFree(p)
    /\ \/ pools[p].status = "absent" /\ Refuse(s, "not_found")
       \/ pools[p].status = "closed" /\ Refuse(s, "closed")
       \/ pools[p].status = "open" /\ ~Sellable(s, pools[p]) /\ Refuse(s, "insufficient")
       \/ /\ pools[p].status = "open"
          /\ Sellable(s, pools[p])
          /\ LockPool(s, p)
          /\ Goto(s, "order_flush")
          /\ UNCHANGED order_lock
    /\ UNCHANGED <<tables, due, background>>

\* Slip: an index that sees committed rows only.
Flushed_committed_only == {}

\* An INSERT that meets an uncommitted row with the same key waits for it.
Flushed == {t \in Orders : pc[t] = "order_commit"}

\* Slip: no unique index on (buyer_id, idempotency_key).
FlushOrder_no_index(s) ==
    /\ pc[s] = "order_flush"
    /\ Goto(s, "order_commit")
    /\ UNCHANGED <<tables, locks, row, due, background>>

\* db.flush(): the INSERT is refused by the unique index (roll back, then look
\* the winner up), or by the Numeric column (nothing catches it: a 500).
FlushOrder(s) ==
    LET p == Request[s].pool IN
    /\ pc[s] = "order_flush"
    /\ \/ /\ Total(s) > MaxTotal
          /\ UnlockPool(s, p)
          /\ Reply(s, "error")
       \/ /\ Total(s) <= MaxTotal
          /\ FoundByKey(s) # {}
          /\ UnlockPool(s, p)
          /\ Goto(s, "order_reread")
       \/ /\ Total(s) <= MaxTotal
          /\ FoundByKey(s) = {}
          /\ \A t \in Flushed : ~SameKey(s, t)
          /\ Goto(s, "order_commit")
          /\ UNCHANGED <<pool_lock, row>>
    /\ UNCHANGED <<tables, order_lock, due, background>>

CommitOrder(s) ==
    LET p == Request[s].pool IN
    /\ pc[s] = "order_commit"
    /\ pools' = [pools EXCEPT ![p] = Sold(row[s], Request[s].qty)]
    /\ orders' = [orders EXCEPT ![s] = "pending"]
    /\ UnlockPool(s, p)
    /\ Reply(s, s)
    /\ UNCHANGED <<contributions, payments, processed_events, payouts>>
    /\ UNCHANGED <<order_lock, due, background>>

RereadByKey(s) ==
    /\ pc[s] = "order_reread"
    /\ \/ \E o \in FoundByKey(s) : Reply(s, o)
       \/ FoundByKey(s) = {} /\ Reply(s, "error")
    /\ UNCHANGED <<tables, locks, row, due, background>>

OrderStep(s) ==
    \/ FindByKey(s) \/ LockForOrder(s) \/ FlushOrder(s)
    \/ CommitOrder(s) \/ RereadByKey(s)

-----------------------------------------------------------------------------

\* The condition of the candidate query, checked again under the order's lock.
Expirable(o) == orders[o] = "pending" /\ o \in aged

\* sweep_expired_orders on its APScheduler timer.  A run that finds no
\* candidate changes nothing and is left out.
FindExpired(w) ==
    /\ pc[w] = "idle"
    /\ {o \in Orders : Expirable(o)} # {}
    /\ batch' = [batch EXCEPT ![w] = {o \in Orders : Expirable(o)}]
    /\ Goto(w, "sweep_next")
    /\ UNCHANGED <<tables, locks, row, due, current, outside>>

NextCandidate(w) ==
    /\ pc[w] = "sweep_next"
    /\ \/ \E o \in batch[w] :
             /\ current' = [current EXCEPT ![w] = o]
             /\ batch' = [batch EXCEPT ![w] = @ \ {o}]
             /\ Goto(w, "expire_order")
       \/ /\ batch[w] = {}
          /\ current' = [current EXCEPT ![w] = NoOrder]
          /\ Goto(w, "idle")
          /\ UNCHANGED batch
    /\ UNCHANGED <<tables, locks, row, due, outside>>

\* Slip: the candidate query is trusted, nothing is checked under the lock.
LockExpired_no_recheck(w) ==
    /\ pc[w] = "expire_order"
    /\ OrderIsFree(current[w])
    /\ LockOrder(w, current[w])
    /\ Goto(w, "expire_pool")
    /\ UNCHANGED <<tables, pool_lock, row, due, background>>

\* _release_one_expired_order locks the order first, then its pool.
LockExpired(w) ==
    LET o == current[w] IN
    /\ pc[w] = "expire_order"
    /\ OrderIsFree(o)
    /\ \/ Expirable(o) /\ LockOrder(w, o) /\ Goto(w, "expire_pool")
       \/ ~Expirable(o) /\ Goto(w, "sweep_next") /\ UNCHANGED order_lock
    /\ UNCHANGED <<tables, pool_lock, row, due, background>>

LockExpiredPool(w) ==
    LET p == Request[current[w]].pool IN
    /\ pc[w] = "expire_pool"
    /\ PoolIsFree(p)
    /\ LockPool(w, p)
    /\ Goto(w, "expire_commit")
    /\ UNCHANGED <<tables, order_lock, due, background>>

CommitExpired(w) ==
    LET o == current[w]
        p == Request[o].pool
    IN
    /\ pc[w] = "expire_commit"
    /\ pools' = [pools EXCEPT ![p] = Released(row[w], Request[o].qty)]
    /\ orders' = [orders EXCEPT ![o] = "expired"]
    /\ released' = released \cup {o}
    /\ UnlockPool(w, p)
    /\ UnlockOrder(o)
    /\ Goto(w, "sweep_next")
    /\ UNCHANGED <<contributions, payments, processed_events, payouts>>
    /\ UNCHANGED <<due, sweep, aged, initialized, faults>>

SweepStep(w) ==
    \/ FindExpired(w) \/ NextCandidate(w)
    \/ LockExpired(w) \/ LockExpiredPool(w) \/ CommitExpired(w)
=============================================================================
