------------------------------ MODULE MCFarmLink ------------------------------
(***************************************************************************)
(* Workloads for FarmLink.  Sessions are named for what they do; every     *)
(* session of a workload may arrive at any time, or, in the runs without   *)
(* fairness, never.                                                        *)
(***************************************************************************)
EXTENDS FarmLink, TLC

create_pool(p)   == [op |-> "create_pool", pool |-> p]
close_pool(p)    == [op |-> "close_pool", pool |-> p]
contribute(p, f, n) == [op |-> "contribute", pool |-> p, farmer |-> f, qty |-> n]
order(p, b, n, k)   == [op |-> "order", pool |-> p, buyer |-> b, qty |-> n, key |-> k]
initialize(o, b) == [op |-> "initialize", order |-> o, buyer |-> b]
charge(e, t, o, n)  == [op |-> "webhook", event |-> e, type |-> t, reference |-> o, amount |-> n]
distribute(p)    == [op |-> "distribute", pool |-> p]

MCPrice == [p \in Pools |-> 1]

PayoutPrice == [p \in Pools |-> 5]

\* A key sent twice, another buyer with the same key, more demand than stock.
OrderingWorkload ==
    "create" :> create_pool("maize")
    @@ "give" :> contribute("maize", "ada", 2)
    @@ "o1" :> order("maize", "ben", 1, "k")
    @@ "o2" :> order("maize", "ben", 1, "k")
    @@ "o3" :> order("maize", "eve", 2, "k")
    @@ "close" :> close_pool("maize")

\* A successful charge delivered twice, a second charge of the same order, one of
\* more than the column holds, a failed attempt and another buyer's request to
\* pay, against the sweep; and two contributions of which the column holds the first.
PaymentWorkload ==
    "create" :> create_pool("maize")
    @@ "give" :> contribute("maize", "ada", 1)
    @@ "give2" :> contribute("maize", "zoe", 2)
    @@ "o1" :> order("maize", "ben", 1, NoKey)
    @@ "pay" :> initialize("o1", "ben")
    @@ "pay2" :> initialize("o1", "eve")
    @@ "w1" :> charge("e1", "charge.success", "o1", 1)
    @@ "w1 again" :> charge("e1", "charge.success", "o1", 1)
    @@ "w2" :> charge("e2", "charge.success", "o1", 1)
    @@ "w3" :> charge("e3", "charge.failed", "o1", 1)
    @@ "w4" :> charge("e4", "charge.success", "o1", 11)

\* Two farmers, two orders of 5 kobo each, either of which may stay unpaid, and two
\* distributions.  The first order is charged for less than its total.  With both
\* orders paid the larger share is more than the column holds.
PayoutWorkload ==
    "create" :> create_pool("maize")
    @@ "give" :> contribute("maize", "ada", 2)
    @@ "give2" :> contribute("maize", "zoe", 1)
    @@ "o1" :> order("maize", "ben", 1, NoKey)
    @@ "o2" :> order("maize", "eve", 1, NoKey)
    @@ "pay" :> initialize("o1", "ben")
    @@ "pay2" :> initialize("o2", "eve")
    @@ "w1" :> charge("e1", "charge.success", "o1", 3)
    @@ "w2" :> charge("e2", "charge.success", "o2", 5)
    @@ "close" :> close_pool("maize")
    @@ "share" :> distribute("maize")
    @@ "share2" :> distribute("maize")

-----------------------------------------------------------------------------

\* A charge that succeeds after the sweep gave the stock to another buyer.
LatePaymentWorkload ==
    "create" :> create_pool("maize")
    @@ "give" :> contribute("maize", "ada", 1)
    @@ "o1" :> order("maize", "ben", 1, NoKey)
    @@ "o2" :> order("maize", "eve", 1, NoKey)
    @@ "pay" :> initialize("o1", "ben")
    @@ "w1" :> charge("e1", "charge.success", "o1", 1)

\* A request and its retry, both in flight, for the last of the stock.
RetryWorkload ==
    "create" :> create_pool("maize")
    @@ "give" :> contribute("maize", "ada", 1)
    @@ "o1" :> order("maize", "ben", 1, "k")
    @@ "o2" :> order("maize", "ben", 1, "k")

\* Two orders, one paid before and one after the revenue is shared out.
LateRevenueWorkload ==
    "create" :> create_pool("maize")
    @@ "give" :> contribute("maize", "ada", 2)
    @@ "o1" :> order("maize", "ben", 1, NoKey)
    @@ "o2" :> order("maize", "eve", 1, NoKey)
    @@ "pay" :> initialize("o1", "ben")
    @@ "pay2" :> initialize("o2", "eve")
    @@ "w1" :> charge("e1", "charge.success", "o1", 1)
    @@ "w2" :> charge("e2", "charge.success", "o2", 1)
    @@ "close" :> close_pool("maize")
    @@ "share" :> distribute("maize")

\* Paystack reports a failed attempt, then the success, of one transaction:
\* both events carry that transaction's id.
SharedIdWorkload ==
    "create" :> create_pool("maize")
    @@ "give" :> contribute("maize", "ada", 1)
    @@ "o1" :> order("maize", "ben", 1, NoKey)
    @@ "pay" :> initialize("o1", "ben")
    @@ "w1" :> charge("t1", "charge.failed", "o1", 1)
    @@ "w2" :> charge("t1", "charge.success", "o1", 1)
===============================================================================
