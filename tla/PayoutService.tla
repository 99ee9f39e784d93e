---------------------------- MODULE PayoutService ----------------------------
(***************************************************************************)
(* features/payouts/service.py: sharing a closed pool's revenue among the  *)
(* farmers who contributed to it.                                          *)
(***************************************************************************)
EXTENDS Integers, ContributionService

\* Slip: unpaid orders counted as revenue.
Revenue_of_all(p) == MapThenSumSet(Total, {o \in Orders : Request[o].pool = p /\ orders[o] # "absent"})

\* SUM(orders.total) over the pool's paid orders, in kobo.
Revenue(p) == MapThenSumSet(Total, {o \in Orders : Request[o].pool = p /\ orders[o] = "paid"})

PayoutsOf(p) == {r \in payouts : r.pool = p}

\* Slip: no check for rows of an earlier distribution.
AlreadyPaid_unchecked(p) == FALSE

AlreadyPaid(p) == PayoutsOf(p) # {}

\* Slip: an open pool is shared out too.
LockForPayout_any_status(s) ==
    LET p == Request[s].pool IN
    /\ pc[s] = "start"
    /\ Request[s].op = "distribute"
    /\ PoolIsFree(p)
    /\ \/ AlreadyPaid(p) /\ Refuse(s, "already_paid")
       \/ ~AlreadyPaid(p) /\ LockPool(s, p) /\ Goto(s, "payout_shares") /\ UNCHANGED order_lock
    /\ UNCHANGED <<tables, due, background>>

LockForPayout(s) ==
    LET p == Request[s].pool IN
    /\ pc[s] = "start"
    /\ Request[s].op = "distribute"
    /\ PoolIsFree(p)
    /\ \/ pools[p].status = "absent" /\ Refuse(s, "not_found")
       \/ pools[p].status = "open" /\ Refuse(s, "not_closed")
       \/ pools[p].status = "closed" /\ AlreadyPaid(p) /\ Refuse(s, "already_paid")
       \/ /\ pools[p].status = "closed"
          /\ ~AlreadyPaid(p)
          /\ LockPool(s, p)
          /\ Goto(s, "payout_shares")
          /\ UNCHANGED order_lock
    /\ UNCHANGED <<tables, due, background>>

\* Contributors by ascending quantity; the order among equals is the database's.
LastInLine(p) ==
    {f \in Contributors(p) : \A g \in Contributors(p) : ContributedBy(g, p) <= ContributedBy(f, p)}

\* quantize(0.01, ROUND_DOWN) of the farmer's proportion: whole kobo.
RoundedShare(f, p) ==
    (Revenue(p) * ContributedBy(f, p)) \div MapThenSumSet(LAMBDA g : ContributedBy(g, p), Contributors(p))

\* Slip: nobody takes what rounding leaves.
AmountFor_rounded(f, p, last) == RoundedShare(f, p)

\* Everybody's share is rounded down, and the last in line takes what is left.
AmountFor(f, p, last) ==
    IF f = last
    THEN Revenue(p) - MapThenSumSet(LAMBDA g : RoundedShare(g, p), Contributors(p) \ {last})
    ELSE RoundedShare(f, p)

Shares(p, last) ==
    {[pool |-> p, farmer |-> f, amount |-> AmountFor(f, p, last)] : f \in Contributors(p)}

ComputeShares(s) ==
    LET p == Request[s].pool IN
    /\ pc[s] = "payout_shares"
    /\ \/ /\ Contributors(p) = {} \/ Revenue(p) <= 0
          /\ UnlockPool(s, p)
          /\ Reply(s, "ok")
          /\ UNCHANGED due
       \/ /\ Contributors(p) # {}
          /\ Revenue(p) > 0
          /\ \E last \in LastInLine(p) : due' = [due EXCEPT ![s] = Shares(p, last)]
          /\ Goto(s, "payout_commit")
          /\ UNCHANGED <<pool_lock, row>>
    /\ UNCHANGED <<tables, order_lock, background>>

\* UNIQUE(pool_id, farmer_id) refuses a second row for a farmer.
Clashes(s) == \E r \in payouts, d \in due[s] : r.pool = d.pool /\ r.farmer = d.farmer

\* An amount the column cannot hold: a DataError, which the handler for
\* IntegrityError does not catch.
TooLarge(s) == \E d \in due[s] : d.amount > MaxTotal

\* All rows are inserted together, or none.
CommitPayouts(s) ==
    LET p == Request[s].pool IN
    /\ pc[s] = "payout_commit"
    /\ UnlockPool(s, p)
    /\ due' = [due EXCEPT ![s] = {}]
    /\ \/ TooLarge(s) /\ Reply(s, "error") /\ UNCHANGED payouts
       \/ Clashes(s) /\ Reply(s, "already_paid") /\ UNCHANGED payouts
       \/ ~TooLarge(s) /\ ~Clashes(s) /\ Reply(s, "ok") /\ payouts' = payouts \cup due[s]
    /\ UNCHANGED <<pools, contributions, orders, payments, processed_events>>
    /\ UNCHANGED <<order_lock, background>>

PayoutStep(s) == LockForPayout(s) \/ ComputeShares(s) \/ CommitPayouts(s)
=============================================================================
