------------------------------- MODULE FarmLink -------------------------------
(***************************************************************************)
(* The services composed: every request of the workload and every sweeper  *)
(* runs against the same Store, their statements interleaved, any of them  *)
(* aborted at any point of its transaction.                                *)
(***************************************************************************)
EXTENDS PoolService, OrderService, PaymentService, PayoutService

CONSTANT MaxFaults  \* bound on aborted transactions, for TLC

ASSUME FaultsAssumption == MaxFaults \in Nat

Init ==
    /\ pools = [p \in Pools |-> NoRow]
    /\ contributions = {}
    /\ orders = [o \in Orders |-> "absent"]
    /\ payments = {}
    /\ processed_events = {}
    /\ payouts = {}
    /\ pool_lock = [p \in Pools |-> Free]
    /\ order_lock = [o \in Orders |-> Free]
    /\ pc = [x \in Processes |-> IF x \in Sweepers THEN "idle" ELSE "start"]
    /\ answer = [s \in Sessions |-> "none"]
    /\ row = [x \in Processes |-> NoRow]
    /\ due = [s \in Sessions |-> {}]
    /\ batch = [w \in Sweepers |-> {}]
    /\ current = [w \in Sweepers |-> NoOrder]
    /\ aged = {}
    /\ initialized = {}
    /\ released = {}
    /\ faults = 0

-----------------------------------------------------------------------------

\* A request between its first statement and its answer.
InFlight(s) == pc[s] \notin {"start", "done"}

\* The connection, the process or the database fails before COMMIT: PostgreSQL
\* rolls the transaction back and the client sees an error or no answer.
Abort(s) ==
    /\ InFlight(s)
    /\ faults < MaxFaults
    /\ faults' = faults + 1
    /\ ReleaseAll(s)
    /\ due' = [due EXCEPT ![s] = {}]
    /\ Reply(s, "error")
    /\ UNCHANGED <<tables, sweep, aged, initialized, released>>

\* The same in a sweep: an exception is logged and the run goes on with its
\* next candidate; a process that dies takes its batch with it.
AbortSweep(w) ==
    /\ pc[w] \in {"expire_order", "expire_pool", "expire_commit"}
    /\ faults < MaxFaults
    /\ faults' = faults + 1
    /\ ReleaseAll(w)
    /\ \/ Goto(w, "sweep_next") /\ UNCHANGED sweep
       \/ /\ Goto(w, "idle")
          /\ batch' = [batch EXCEPT ![w] = {}]
          /\ current' = [current EXCEPT ![w] = NoOrder]
    /\ UNCHANGED <<tables, due, aged, initialized, released>>

\* An unpaid order outlives sweep_order_max_age_hours.
Age(o) ==
    /\ orders[o] = "pending"
    /\ o \notin aged
    /\ aged' = aged \cup {o}
    /\ UNCHANGED <<tables, locks, pc, answer, row, due, sweep, initialized, released, faults>>

\* Everything has been answered, or cannot arrive, and the sweep finds nothing.
Quiet ==
    /\ \A s \in Sessions \ Webhooks : pc[s] = "done"
    /\ \A s \in Webhooks : pc[s] = "done" \/ (pc[s] = "start" /\ ~Deliverable(s))
    /\ \A w \in Sweepers : pc[w] = "idle" /\ \A o \in Orders : ~Expirable(o)
    /\ UNCHANGED vars

SessionStep(s) ==
    PoolStep(s) \/ ContributionStep(s) \/ OrderStep(s) \/ PaymentStep(s) \/ PayoutStep(s)

Next ==
    \/ \E s \in Sessions : SessionStep(s) \/ Abort(s)
    \/ \E w \in Sweepers : SweepStep(w) \/ AbortSweep(w)
    \/ \E o \in Orders : Age(o)
    \/ Quiet

Spec == Init /\ [][Next]_vars

-----------------------------------------------------------------------------
(***************************************************************************)
(*                               Properties                                *)
(***************************************************************************)

Labels == {"start", "done", "close_commit", "contribution_commit",
           "order_lock", "order_flush", "order_commit", "order_reread",
           "paystack_open", "event_commit", "webhook_order", "payment_commit",
           "payout_shares", "payout_commit",
           "idle", "sweep_next", "expire_order", "expire_pool", "expire_commit"}

\* Tables, locks, labels and copies have their types; in particular no pool row,
\* committed or held under a lock, ever has less than nothing left to sell.
\* (What events and payouts may hold, PaymentMatches and PayoutsAreBacked say.)
TypeOK ==
    /\ pools \in [Pools -> PoolRow]
    /\ contributions \subseteq Contributions
    /\ orders \in [Orders -> {"absent", "pending", "paid", "expired"}]
    /\ payments \subseteq Webhooks
    /\ pool_lock \in [Pools -> Processes \cup {Free}]
    /\ order_lock \in [Orders -> Processes \cup {Free}]
    /\ pc \in [Processes -> Labels]
    /\ answer \in [Sessions -> Outcomes \cup Orders]
    /\ row \in [Processes -> PoolRow]
    /\ batch \in [Sweepers -> SUBSET Orders]
    /\ current \in [Sweepers -> Orders \cup {NoOrder}]
    /\ aged \subseteq Orders
    /\ initialized \subseteq Orders
    /\ released \subseteq Orders
    /\ faults \in Nat

\* Between the lock on the pool and the commit.
UnderPoolLock == {"close_commit", "contribution_commit", "order_flush", "order_commit",
                  "payout_shares", "payout_commit", "expire_commit"}

PoolOf(x) == IF x \in Sweepers THEN Request[current[x]].pool ELSE Request[x].pool

\* A process that will write a pool row holds its lock and a copy that is still
\* the committed row, so no commit overwrites a change made after its read
\* (orders/service.py:98-100, "no other transaction can be reading or writing
\* this same row concurrently").
LockedRowIsFresh ==
    \A x \in Processes : pc[x] \in UnderPoolLock =>
        pool_lock[PoolOf(x)] = x /\ row[x] = pools[PoolOf(x)]

Holding == {o \in Placed : o \notin released}

QtyOf(S) == MapThenSumSet(LAMBDA s : Request[s].qty, S)

\* The counters agree with the rows behind them: what was contributed is what
\* is left to sell plus what unreleased orders hold, whatever the
\* interleaving of orders, contributions, sweeps and failures.
StockConserved ==
    \A p \in Pools :
        /\ pools[p].total_qty = QtyOf(ContributionsTo(p))
        /\ pools[p].total_qty = pools[p].available_qty + QtyOf({o \in Holding : Request[o].pool = p})

\* A buyer's idempotency key names at most one order, across all pools.
OneOrderPerKey == \A o, t \in Placed : o # t => ~SameKey(o, t)

\* create_order answers with an order that exists, is the caller's own, and is
\* either the one just placed or the one its key already named.
RetryReturnsOriginal ==
    \A s \in Orders : answer[s] \in Orders =>
        /\ orders[answer[s]] # "absent"
        /\ Request[answer[s]].buyer = Request[s].buyer
        /\ answer[s] = s \/ (Request[s].key # NoKey /\ Request[answer[s]].key = Request[s].key)

\* An order is paid exactly when one payment row says so, and the event behind
\* that row is recorded: no payment is lost, doubled, or undone by the sweep.
PaymentMatches ==
    /\ \A o \in Orders : orders[o] = "paid" <=> PaymentsOf(o) # {}
    /\ \A v, w \in payments : Reference(v) = Reference(w) => v = w
    /\ \A w \in payments : Request[w].event \in processed_events

\* A successful charge that the webhook acknowledged (so Paystack will not send
\* it again) has paid its order: an id already recorded means that "this exact
\* webhook delivery has already been fully handled" (payments/service.py:100-103).
\* It holds if different events have different ids.
AcknowledgedChargeIsPaid ==
    \A w \in Webhooks :
        Reference(w) # NoOrder /\ Request[w].type = "charge.success" /\ answer[w] = "ok"
            => orders[Reference(w)] = "paid"

\* The locks make the unique constraints a second line of defence only: the
\* loser of a key finds the winner's order (else the IntegrityError is raised
\* again, orders/service.py:123-124), a payment under the order's lock is the
\* first one (nothing would catch a second), and payouts computed under the
\* pool's lock are the first ones (guard #2, payouts/service.py:117-120, is
\* never needed).
NoUnhandledConflict ==
    \A s \in Sessions :
        /\ pc[s] = "order_reread" => FoundByKey(s) # {}
        /\ pc[s] = "payment_commit" => PaymentsOf(Reference(s)) = {}
        /\ pc[s] = "payout_commit" => ~Clashes(s)

Amounts(S) == MapThenSumSet(LAMBDA r : r.amount, S)

PaymentsTo(p) == {w \in payments : Request[Reference(w)].pool = p}

\* What a pool's buyers have paid: SUM(payments.amount) over its orders.
Collected(p) == MapThenSumSet(LAMBDA w : Request[w].amount, PaymentsTo(p))

\* How far a payment falls short of the order it made paid.
Missing(w) ==
    IF Request[w].amount < Total(Reference(w)) THEN Total(Reference(w)) - Request[w].amount ELSE 0

Shortfall(p) == MapThenSumSet(Missing, PaymentsTo(p))

\* Farmers receive no more than buyers paid, except for what payments fall
\* short of their orders: the webhook makes an order paid whatever amount the
\* event carries (payments/service.py:141-146), and revenue counts its total.
\* So the payments table covers the payouts of a pool if each payment covers
\* its order.  Nobody gets a negative amount, and only farmers who contributed
\* to that pool are paid, once each.
PayoutsAreBacked ==
    \A p \in Pools :
        /\ Amounts(PayoutsOf(p)) <= Collected(p) + Shortfall(p)
        /\ \A r \in PayoutsOf(p) : r.amount >= 0 /\ r.farmer \in Contributors(p)
        /\ \A r, q \in PayoutsOf(p) : r.farmer = q.farmer => r = q

\* Within a kobo below a farmer's proportion of the revenue, and fewer kobo above
\* it than there are farmers: what is left over from rounding all shares down.
NearProportion(r, p) ==
    LET exact == Revenue(p) * ContributedBy(r.farmer, p)
        all == MapThenSumSet(LAMBDA g : ContributedBy(g, p), Contributors(p))
    IN
    /\ exact < all * r.amount + all
    /\ all * r.amount < exact + all * Cardinality(Contributors(p))

\* "Payout amounts are computed to sum to EXACTLY the pool's revenue", with at
\* most "a few kobo" moved by rounding (payouts/service.py:20-24), at the moment
\* they are computed.
RevenueIsSharedOut ==
    [][\A s \in Distributions : due'[s] \notin {{}, due[s]} =>
         /\ Amounts(due'[s]) = Revenue(Request[s].pool)
         /\ \A r \in due'[s] : NearProportion(r, Request[s].pool)]_vars

\* The services implement the atomic promises of Ledger: what is committed is
\* all that the ledger knows, the sessions and their locks are hidden.
Promise == INSTANCE Ledger WITH
               pools <- pools,
               contributions <- contributions,
               orders <- orders,
               payments <- payments,
               processed_events <- processed_events,
               payouts <- payouts

ImplementsLedger == Promise!Spec

-----------------------------------------------------------------------------

\* An order left unpaid past the limit does not hold its stock for ever, even
\* if a sweep fails on it, because a later run finds it again.
Stale(o) == orders[o] = "pending" /\ o \in aged

StaleReleased == \A o \in Orders : []<>~Stale(o)

-----------------------------------------------------------------------------
(***************************************************************************)
(*     What the repository says and the code does not do (see README)      *)
(***************************************************************************)

\* orders/service.py:5-6, "the pool must never be sold below zero", and
\* tests/test_orders.py:5-6, "total allocated never exceeds total contributed": the
\* orders that are due their goods fit into what was contributed, also when a
\* payment and the sweep race for one of them (payments/service.py:124-130).
NeverOversold ==
    \A p \in Pools :
        QtyOf({o \in Orders : Request[o].pool = p /\ orders[o] \in {"pending", "paid"}})
            <= pools[p].total_qty

\* orders/service.py:115-118, "Whichever one loses the race here isn't a real
\* failure: return the order the winner created": a refused request never
\* has its key on a committed order.
LoserGetsWinnersOrder ==
    [][\A s \in Orders :
         answer[s] = "none" /\ answer'[s] \in {"closed", "insufficient"} => FoundByKey(s) = {}]_vars

\* payouts/service.py:20, "Payout amounts are computed to sum to EXACTLY the
\* pool's revenue".
PayoutsEqualRevenue ==
    \A p \in Pools : PayoutsOf(p) # {} => Amounts(PayoutsOf(p)) = Revenue(p)
===============================================================================
