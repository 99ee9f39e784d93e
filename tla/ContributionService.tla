------------------------- MODULE ContributionService -------------------------
(***************************************************************************)
(* features/contributions/service.py: a farmer adds stock to an open pool. *)
(***************************************************************************)
EXTENDS Store

LockForContribution(s) ==
    LET p == Request[s].pool IN
    /\ pc[s] = "start"
    /\ Request[s].op = "contribute"
    /\ PoolIsFree(p)
    /\ \/ pools[p].status = "absent" /\ Refuse(s, "not_found")
       \/ pools[p].status = "closed" /\ Refuse(s, "closed")
       \/ /\ pools[p].status = "open"
          /\ LockPool(s, p)
          /\ Goto(s, "contribution_commit")
          /\ UNCHANGED order_lock
    /\ UNCHANGED <<tables, due, background>>

\* The UPDATE of an Integer column beyond its range fails the transaction:
\* the handler catches nothing, so the client sees a 500 and no row changes.
QuantityFits(s) == row[s].total_qty + Request[s].qty <= MaxQty

\* Slip: the contribution row is inserted by a transaction of its own.
CommitContribution_in_two(s) ==
    LET p == Request[s].pool IN
    /\ pc[s] = "contribution_commit"
    /\ UnlockPool(s, p)
    /\ contributions' = contributions \cup {s}
    /\ pools' = IF QuantityFits(s) THEN [pools EXCEPT ![p] = Stocked(row[s], Request[s].qty)] ELSE pools
    /\ Reply(s, IF QuantityFits(s) THEN "ok" ELSE "error")
    /\ UNCHANGED <<orders, payments, processed_events, payouts>>
    /\ UNCHANGED <<order_lock, due, background>>

CommitContribution(s) ==
    LET p == Request[s].pool IN
    /\ pc[s] = "contribution_commit"
    /\ UnlockPool(s, p)
    /\ \/ /\ QuantityFits(s)
          /\ pools' = [pools EXCEPT ![p] = Stocked(row[s], Request[s].qty)]
          /\ contributions' = contributions \cup {s}
          /\ Reply(s, "ok")
       \/ /\ ~QuantityFits(s)
          /\ Reply(s, "error")
          /\ UNCHANGED <<pools, contributions>>
    /\ UNCHANGED <<orders, payments, processed_events, payouts>>
    /\ UNCHANGED <<order_lock, due, background>>

ContributionStep(s) == LockForContribution(s) \/ CommitContribution(s)

-----------------------------------------------------------------------------

\* get_pool_contributor_summary: SUM(qty) GROUP BY farmer.
ContributionsTo(p) == {c \in contributions : Request[c].pool = p}

Contributors(p) == {Request[c].farmer : c \in ContributionsTo(p)}

ContributedBy(f, p) ==
    MapThenSumSet(LAMBDA c : Request[c].qty, {c \in ContributionsTo(p) : Request[c].farmer = f})
=============================================================================
