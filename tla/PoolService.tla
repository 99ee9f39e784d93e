----------------------------- MODULE PoolService -----------------------------
(***************************************************************************)
(* features/pools/service.py: creating and closing a pool.  The reads and  *)
(* their Redis cache are modelled in PoolCache.                            *)
(***************************************************************************)
EXTENDS Store

\* create_pool: one INSERT, committed at once.  Ids are fresh in the code, so
\* a workload has one create_pool session per pool.
CreatePool(s) ==
    LET p == Request[s].pool IN
    /\ pc[s] = "start"
    /\ Request[s].op = "create_pool"
    /\ pools[p].status = "absent"
    /\ pools' = [pools EXCEPT ![p].status = "open"]
    /\ Reply(s, "ok")
    /\ UNCHANGED <<contributions, orders, payments, processed_events, payouts>>
    /\ UNCHANGED <<locks, row, due, background>>

\* close_pool up to its status check.
LockForClose(s) ==
    LET p == Request[s].pool IN
    /\ pc[s] = "start"
    /\ Request[s].op = "close_pool"
    /\ PoolIsFree(p)
    /\ \/ pools[p].status = "absent" /\ Refuse(s, "not_found")
       \/ pools[p].status = "closed" /\ Refuse(s, "closed")
       \/ /\ pools[p].status = "open"
          /\ LockPool(s, p)
          /\ Goto(s, "close_commit")
          /\ UNCHANGED order_lock
    /\ UNCHANGED <<tables, due, background>>

CommitClose(s) ==
    LET p == Request[s].pool IN
    /\ pc[s] = "close_commit"
    /\ pools' = [pools EXCEPT ![p] = Closed(row[s])]
    /\ UnlockPool(s, p)
    /\ Reply(s, "ok")
    /\ UNCHANGED <<contributions, orders, payments, processed_events, payouts>>
    /\ UNCHANGED <<order_lock, due, background>>

PoolStep(s) == CreatePool(s) \/ LockForClose(s) \/ CommitClose(s)
=============================================================================
