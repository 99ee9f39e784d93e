----------------------------- MODULE BalanceProofs -----------------------------
(***************************************************************************)
(* Theorems about the sums behind the counters: the goods of a pool        *)
(* against its contributions and orders, and the money paid out of it      *)
(* against the money paid in.  They hold for every workload, also one      *)
(* without end: at any time only finitely many rows have been committed.   *)
(***************************************************************************)
EXTENDS FarmLinkProofs, SumTheorems

USE DEF Goto, Reply, Refuse, LockPool, UnlockPool, LockOrder, UnlockOrder, ReleaseAll,
        tables, locks, sweep, outside, background, Processes

-----------------------------------------------------------------------------
(***************************************************************************)
(* Quantities.                                                             *)
(***************************************************************************)

Qty == [s \in Sessions |-> Request[s].qty]

\* The rows that have a quantity.
Goods == Orders \cup Contributions

\* Orders and contributions carry a quantity (their schemas require one).
LEMMA GoodsHaveQty ==
    /\ Goods \subseteq Sessions
    /\ \A s \in Goods : Qty[s] = Request[s].qty /\ Qty[s] \in Nat
  BY RequestsAssumption DEF Goods, Orders, Contributions, Carrying, Qty

\* QtyOf as the sum of a function, to which the general lemmas apply.
LEMMA QtyIsSum ==
    ASSUME NEW S \in SUBSET Goods, IsFiniteSet(S)
    PROVE  QtyOf(S) = Sum(Qty, S)
  <1> DEFINE body(a) == [s \in SUBSET S |-> IF s = {} THEN 0 ELSE Request[Pick(s)].qty + a[s \ {Pick(s)}]]
             h == CHOOSE a : a = body(a)
  <1>1. QtyOf(S) = h[S]
    BY DEF QtyOf, MapThenSumSet, MapThenFoldSet, Pick
  <1>2. \A a : Adds(a, Qty, SUBSET S) <=> a = body(a)
    <2>1. \A s \in SUBSET S : s # {} => Qty[Pick(s)] = Request[Pick(s)].qty
      BY PickIn, GoodsHaveQty
    <2>2. SUFFICES ASSUME NEW a
                   PROVE  [s \in SUBSET S |-> IF s = {} THEN 0 ELSE Qty[Pick(s)] + a[s \ {Pick(s)}]] = body(a)
      BY DEF Adds
    <2> QED
      BY <2>1
  <1>3. \E a : a = body(a)
    BY <1>2, AddsExists
  <1>4. Adds(h, Qty, SUBSET S)
    BY <1>2, <1>3
  <1> HIDE DEF h
  <1>5. Sum(Qty, S) = h[S]
    BY <1>4, SumIs
  <1> QED
    BY <1>1, <1>5

\* A pool without rows has contributed and held nothing.
LEMMA QtyOfNothing == QtyOf({}) = 0
  <1>1. {} \in SUBSET Goods /\ IsFiniteSet({})
    BY FS_EmptySet
  <1> QED
    BY <1>1, QtyIsSum, SumEmpty

\* One more row, and one row less.
LEMMA QtyWith ==
    ASSUME NEW S \in SUBSET Goods, IsFiniteSet(S), NEW x \in Goods, x \notin S
    PROVE  QtyOf(S) \in Int /\ QtyOf(S \cup {x}) = QtyOf(S) + Request[x].qty
  <1>1. Summable(Qty, S) /\ Qty[x] = Request[x].qty /\ Qty[x] \in Int
    BY GoodsHaveQty DEF Summable
  <1>2. S \cup {x} \in SUBSET Goods /\ IsFiniteSet(S \cup {x})
    BY FS_AddElement
  <1>3. QtyOf(S) = Sum(Qty, S) /\ QtyOf(S \cup {x}) = Sum(Qty, S \cup {x})
    BY <1>2, QtyIsSum
  <1> QED
    BY <1>1, <1>3, SumAdd

\* A release takes the quantity of its order off what is held, and no other.
LEMMA QtyWithout ==
    ASSUME NEW S \in SUBSET Goods, IsFiniteSet(S), NEW x \in S
    PROVE  QtyOf(S \ {x}) \in Int /\ QtyOf(S) = QtyOf(S \ {x}) + Request[x].qty
  <1>1. S \ {x} \in SUBSET Goods /\ IsFiniteSet(S \ {x}) /\ (S \ {x}) \cup {x} = S
    BY FS_Subset
  <1> QED
    BY <1>1, QtyWith

-----------------------------------------------------------------------------
(***************************************************************************)
(* Goods.                                                                  *)
(***************************************************************************)

\* The rows there are so far.
RowsFinite == IsFiniteSet(contributions) /\ IsFiniteSet(Placed)

\* What was given back had been taken, and is not to be given back again.
ReleasedOnce == released \subseteq Placed /\ \A o \in released : orders[o] # "pending"

GoodsInv == RowsFinite /\ ReleasedOnce /\ StockConserved

HeldOf(p) == {o \in Holding : Request[o].pool = p}

\* Only the sweep gives goods back.
LEMMA ReleasedSteps ==
    ASSUME Next
    PROVE  (\E w \in Sweepers : CommitExpired(w)) \/ UNCHANGED released
  <1>1. ASSUME NEW s \in Sessions, SessionStep(s) PROVE UNCHANGED released
    <2>1. ASSUME PoolStep(s) \/ ContributionStep(s) \/ OrderStep(s) PROVE UNCHANGED released
      BY <2>1
      DEF PoolStep, ContributionStep, OrderStep, CreatePool, LockForClose, CommitClose,
          LockForContribution, CommitContribution, FindByKey, LockForOrder, FlushOrder, CommitOrder,
          RereadByKey
    <2>2. ASSUME PaymentStep(s) \/ PayoutStep(s) PROVE UNCHANGED released
      BY <2>2
      DEF PaymentStep, PayoutStep, InitializePayment, OpenTransaction, RecordEvent, CommitEvent,
          LockPaidOrder, CommitPayment, LockForPayout, ComputeShares, CommitPayouts
    <2> QED
      BY <1>1, <2>1, <2>2 DEF SessionStep
  <1>2. ASSUME NEW w \in Sweepers, SweepStep(w), ~CommitExpired(w) PROVE UNCHANGED released
    BY <1>2 DEF SweepStep, FindExpired, NextCandidate, LockExpired, LockExpiredPool
  <1>3. ASSUME \/ \E s \in Sessions : Abort(s)
               \/ \E w \in Sweepers : AbortSweep(w)
               \/ \E o \in Orders : Age(o)
               \/ Quiet
        PROVE  UNCHANGED released
    BY <1>3 DEF Abort, AbortSweep, Age, Quiet, vars
  <1> QED
    BY <1>1, <1>2, <1>3 DEF Next

\* A step that commits neither goods nor their sale or return leaves every
\* sum of goods as it is, whatever becomes of the orders' payment.
LEMMA SameGoods ==
    ASSUME GoodsInv, UNCHANGED <<contributions, released>>, Placed' = Placed,
           \A o \in released : orders'[o] # "pending",
           \A p \in Pools : /\ pools'[p].total_qty = pools[p].total_qty
                            /\ pools'[p].available_qty = pools[p].available_qty
    PROVE  GoodsInv'
  <1>1. \A p : ContributionsTo(p)' = ContributionsTo(p) /\ HeldOf(p)' = HeldOf(p)
    BY DEF ContributionsTo, HeldOf, Holding
  <1>2. StockConserved'
    BY <1>1 DEF GoodsInv, StockConserved, HeldOf
  <1> QED
    BY <1>2 DEF GoodsInv, RowsFinite, ReleasedOnce

\* The rows of a pool are goods, and finitely many.
LEMMA RowsOfPool ==
    ASSUME TypeInv, RowsFinite, NEW p
    PROVE  /\ ContributionsTo(p) \in SUBSET Goods /\ IsFiniteSet(ContributionsTo(p))
           /\ HeldOf(p) \in SUBSET Goods /\ IsFiniteSet(HeldOf(p))
  <1>1. ContributionsTo(p) \in SUBSET contributions /\ HeldOf(p) \in SUBSET Placed
    BY DEF ContributionsTo, HeldOf, Holding
  <1> QED
    BY <1>1, FS_Subset DEF RowsFinite, Goods, TypeInv, TypeOK, Placed

\* Where nothing changed the sums still agree.
LEMMA OtherGoods ==
    ASSUME StockConserved, NEW p \in Pools,
           \A q \in Pools : q # p =>
               /\ pools'[q] = pools[q]
               /\ ContributionsTo(q)' = ContributionsTo(q)
               /\ HeldOf(q)' = HeldOf(q),
           pools'[p].total_qty = QtyOf(ContributionsTo(p)'),
           pools'[p].total_qty = pools'[p].available_qty + QtyOf(HeldOf(p)')
    PROVE  StockConserved'
  <1>1. ASSUME NEW q \in Pools, q # p
        PROVE  /\ pools'[q].total_qty = QtyOf(ContributionsTo(q)')
               /\ pools'[q].total_qty = pools'[q].available_qty + QtyOf(HeldOf(q)')
    BY <1>1 DEF StockConserved, HeldOf
  <1> QED
    BY <1>1 DEF StockConserved, HeldOf

\* The figures of one pool, and their types.
LEMMA GoodsOfPool ==
    ASSUME TypeInv, GoodsInv, NEW p \in Pools
    PROVE  /\ pools[p].total_qty = QtyOf(ContributionsTo(p))
           /\ pools[p].total_qty = pools[p].available_qty + QtyOf(HeldOf(p))
           /\ pools[p].total_qty \in Nat /\ pools[p].available_qty \in Nat
           /\ QtyOf(HeldOf(p)) \in Int
           /\ pools[p] \in PoolRow
  <1>1. QtyOf(HeldOf(p)) \in Int
    BY RowsOfPool, QtyIsSum, GoodsHaveQty, SumInt DEF Summable, GoodsInv
  <1> QED
    BY <1>1 DEF GoodsInv, StockConserved, HeldOf, TypeInv, TypeOK, PoolRow

\* A contribution adds the same to the row's counters and to the rows.
LEMMA ContributionGoods ==
    ASSUME FullInv, GoodsInv, NEW s \in Sessions, CommitContribution(s)
    PROVE  GoodsInv'
  <1> DEFINE p == Request[s].pool
  <1>1. s \in Contributions /\ s \in Goods /\ p \in Pools /\ row[s] = pools[p]
    <2>1. pc[s] = "contribution_commit"
      BY DEF CommitContribution
    <2> QED
      BY <2>1, RequestTypes, NamesAssumption
      DEF FullInv, TypeInv, LockInv, LockedRowIsFresh, UnderPoolLock, PoolOf, Goods
  <1>2. s \notin contributions
    BY DEF CommitContribution, FullInv, WorkInv, NotYetContributed
  <1>3. CASE QuantityFits(s)
    <2>1. /\ pools' = [pools EXCEPT ![p] = Stocked(pools[p], Request[s].qty)]
          /\ contributions' = contributions \cup {s}
          /\ UNCHANGED <<orders, released>>
      BY <1>1, <1>3 DEF CommitContribution
    <2>2. \A q \in Pools : q # p =>
              pools'[q] = pools[q] /\ ContributionsTo(q)' = ContributionsTo(q) /\ HeldOf(q)' = HeldOf(q)
      BY <2>1 DEF ContributionsTo, HeldOf, Holding, Placed, FullInv, TypeInv, TypeOK
    <2>3. /\ ContributionsTo(p)' = ContributionsTo(p) \cup {s}
          /\ s \notin ContributionsTo(p)
          /\ HeldOf(p)' = HeldOf(p)
      BY <1>2, <2>1 DEF ContributionsTo, HeldOf, Holding, Placed
    <2>4. /\ QtyOf(ContributionsTo(p)) \in Int
          /\ QtyOf(ContributionsTo(p)') = QtyOf(ContributionsTo(p)) + Request[s].qty
          /\ QtyOf(HeldOf(p)') = QtyOf(HeldOf(p))
      BY <1>1, <2>3, RowsOfPool, QtyWith DEF FullInv, GoodsInv
    <2>5. /\ pools'[p].total_qty = pools[p].total_qty + Request[s].qty
          /\ pools'[p].available_qty = pools[p].available_qty + Request[s].qty
      BY <1>1, <2>1 DEF Stocked, FullInv, TypeInv, TypeOK
    <2>6. Request[s].qty \in Nat
      BY <1>1, GoodsHaveQty
    <2>7. /\ pools'[p].total_qty = QtyOf(ContributionsTo(p)')
          /\ pools'[p].total_qty = pools'[p].available_qty + QtyOf(HeldOf(p)')
      BY <1>1, <2>4, <2>5, <2>6, GoodsOfPool DEF FullInv
    <2>8. StockConserved'
      BY <1>1, <2>2, <2>7, OtherGoods DEF GoodsInv
    <2>9. RowsFinite' /\ ReleasedOnce'
      BY <2>1, FS_AddElement DEF GoodsInv, RowsFinite, ReleasedOnce, Placed
    <2> QED
      BY <2>8, <2>9 DEF GoodsInv
  <1>4. CASE ~QuantityFits(s)
    BY <1>4, SameGoods DEF CommitContribution, GoodsInv, ReleasedOnce, Placed
  <1> QED
    BY <1>3, <1>4

\* An order takes from the stock what it holds.
LEMMA OrderGoods ==
    ASSUME FullInv, GoodsInv, NEW s \in Sessions, CommitOrder(s)
    PROVE  GoodsInv'
  <1> DEFINE p == Request[s].pool
  <1>1. /\ s \in Orders /\ s \in Goods /\ p \in Pools /\ row[s] = pools[p]
        /\ Request[s].qty <= pools[p].available_qty
    <2>1. pc[s] = "order_commit"
      BY DEF CommitOrder
    <2> QED
      BY <2>1, RequestTypes, NamesAssumption
      DEF FullInv, TypeInv, LockInv, LockedRowIsFresh, UnderPoolLock, PoolOf, Goods, StockReserved, Sellable
  <1>2. s \notin Placed /\ s \notin released
    BY <1>1 DEF CommitOrder, FullInv, OrderInv, NotYetPlaced, Placed, GoodsInv, ReleasedOnce
  <1>3. /\ pools' = [pools EXCEPT ![p] = Sold(pools[p], Request[s].qty)]
        /\ orders' = [orders EXCEPT ![s] = "pending"]
        /\ UNCHANGED <<contributions, released>>
    BY <1>1 DEF CommitOrder
  <1>4. Placed' = Placed \cup {s}
    BY <1>1, <1>3 DEF Placed, FullInv, TypeInv, TypeOK
  <1>5. \A q \in Pools : q # p =>
            pools'[q] = pools[q] /\ ContributionsTo(q)' = ContributionsTo(q) /\ HeldOf(q)' = HeldOf(q)
    BY <1>3, <1>4 DEF ContributionsTo, HeldOf, Holding, FullInv, TypeInv, TypeOK
  <1>6. /\ HeldOf(p)' = HeldOf(p) \cup {s}
        /\ s \notin HeldOf(p)
        /\ ContributionsTo(p)' = ContributionsTo(p)
    BY <1>2, <1>3, <1>4 DEF ContributionsTo, HeldOf, Holding
  <1>7. /\ QtyOf(HeldOf(p)') = QtyOf(HeldOf(p)) + Request[s].qty
        /\ QtyOf(ContributionsTo(p)') = QtyOf(ContributionsTo(p))
    BY <1>1, <1>6, RowsOfPool, QtyWith DEF FullInv, GoodsInv
  <1>8. /\ pools'[p].total_qty = pools[p].total_qty
        /\ pools'[p].available_qty = pools[p].available_qty - Request[s].qty
    BY <1>1, <1>3, GoodsOfPool DEF Sold, PoolRow, FullInv, TypeInv, TypeOK
  <1>9. Request[s].qty \in Nat
    BY <1>1, GoodsHaveQty
  <1>10. /\ pools'[p].total_qty = QtyOf(ContributionsTo(p)')
         /\ pools'[p].total_qty = pools'[p].available_qty + QtyOf(HeldOf(p)')
    BY <1>1, <1>7, <1>8, <1>9, GoodsOfPool DEF FullInv
  <1>11. StockConserved'
    BY <1>1, <1>5, <1>10, OtherGoods DEF GoodsInv
  <1>12. RowsFinite'
    BY <1>3, <1>4, FS_AddElement DEF GoodsInv, RowsFinite
  <1>13. ReleasedOnce'
    BY <1>2, <1>3, <1>4 DEF GoodsInv, ReleasedOnce, FullInv, TypeInv, TypeOK
  <1> QED
    BY <1>11, <1>12, <1>13 DEF GoodsInv

\* An expired order gives back what it took, which nobody gave back before.
LEMMA ExpiryGoods ==
    ASSUME FullInv, GoodsInv, NEW w \in Sweepers, CommitExpired(w)
    PROVE  GoodsInv'
  <1>1. PICK o : o = current[w]
    OBVIOUS
  <1> DEFINE p == Request[o].pool
  <1>2. o \in Orders /\ o \in Goods /\ p \in Pools /\ row[w] = pools[p] /\ orders[o] = "pending"
    <2>1. pc[w] = "expire_commit"
      BY DEF CommitExpired
    <2> QED
      BY <1>1, <2>1, RequestTypes, NamesAssumption
      DEF FullInv, TypeInv, LabelsFit, Expiring, LockInv, LockedRowIsFresh, UnderPoolLock, PoolOf, Goods,
          OrderInv, OrderLockHeld
  <1>3. o \in Placed /\ o \notin released
    BY <1>2 DEF Placed, GoodsInv, ReleasedOnce
  <1>4. /\ pools' = [pools EXCEPT ![p] = Released(pools[p], Request[o].qty)]
        /\ orders' = [orders EXCEPT ![o] = "expired"]
        /\ released' = released \cup {o}
        /\ UNCHANGED contributions
    BY <1>1, <1>2 DEF CommitExpired
  <1>5. Placed' = Placed
    BY <1>2, <1>3, <1>4 DEF Placed, FullInv, TypeInv, TypeOK
  <1>6. \A q \in Pools : q # p =>
            pools'[q] = pools[q] /\ ContributionsTo(q)' = ContributionsTo(q) /\ HeldOf(q)' = HeldOf(q)
    BY <1>4, <1>5 DEF ContributionsTo, HeldOf, Holding, FullInv, TypeInv, TypeOK
  <1>7. /\ HeldOf(p)' = HeldOf(p) \ {o}
        /\ o \in HeldOf(p)
        /\ ContributionsTo(p)' = ContributionsTo(p)
    BY <1>3, <1>4, <1>5 DEF ContributionsTo, HeldOf, Holding
  <1>8. /\ QtyOf(HeldOf(p)) = QtyOf(HeldOf(p)') + Request[o].qty
        /\ QtyOf(HeldOf(p)') \in Int
        /\ QtyOf(ContributionsTo(p)') = QtyOf(ContributionsTo(p))
    BY <1>7, RowsOfPool, QtyWithout DEF FullInv, GoodsInv
  <1>9. /\ pools'[p].total_qty = pools[p].total_qty
        /\ pools'[p].available_qty = pools[p].available_qty + Request[o].qty
    BY <1>2, <1>4, GoodsOfPool DEF Released, PoolRow, FullInv, TypeInv, TypeOK
  <1>10. Request[o].qty \in Nat
    BY <1>2, GoodsHaveQty
  <1>11. /\ pools'[p].total_qty = QtyOf(ContributionsTo(p)')
         /\ pools'[p].total_qty = pools'[p].available_qty + QtyOf(HeldOf(p)')
    BY <1>2, <1>8, <1>9, <1>10, GoodsOfPool DEF FullInv
  <1>12. StockConserved'
    BY <1>2, <1>6, <1>11, OtherGoods DEF GoodsInv
  <1>13. RowsFinite'
    BY <1>4, <1>5 DEF GoodsInv, RowsFinite
  <1>14. ReleasedOnce'
    BY <1>2, <1>3, <1>4, <1>5 DEF GoodsInv, ReleasedOnce, FullInv, TypeInv, TypeOK
  <1> QED
    BY <1>12, <1>13, <1>14 DEF GoodsInv

\* Every step keeps the sums of goods.
LEMMA GoodsInvStep == ASSUME FullInv, GoodsInv, [Next]_vars PROVE GoodsInv'
  <1>1. ASSUME NEW s \in Sessions, Committing(s), UNCHANGED released PROVE GoodsInv'
    <2>1. CASE CreatePool(s)
      <3>1. \A p \in Pools : /\ pools'[p].total_qty = pools[p].total_qty
                             /\ pools'[p].available_qty = pools[p].available_qty
        BY <2>1 DEF CreatePool, FullInv, TypeInv, TypeOK, PoolRow
      <3> QED
        BY <2>1, <3>1, SameGoods DEF CreatePool, GoodsInv, ReleasedOnce, Placed
    <2>2. CASE CommitClose(s)
      <3>1. Request[s].pool \in Pools /\ row[s] = pools[Request[s].pool]
        BY <2>2, RequestTypes, NamesAssumption
        DEF CommitClose, FullInv, TypeInv, LockInv, LockedRowIsFresh, UnderPoolLock, PoolOf
      <3>2. \A p \in Pools : /\ pools'[p].total_qty = pools[p].total_qty
                             /\ pools'[p].available_qty = pools[p].available_qty
        BY <2>2, <3>1 DEF CommitClose, Closed, FullInv, TypeInv, TypeOK, PoolRow
      <3> QED
        BY <1>1, <2>2, <3>2, SameGoods DEF CommitClose, GoodsInv, ReleasedOnce, Placed
    <2>3. CASE CommitPayment(s)
      <3>1. Reference(s) \in Placed
        BY <2>3 DEF CommitPayment, FullInv, LockInv, RowsExist
      <3>2. Placed' = Placed /\ \A o \in released : orders'[o] # "pending"
        BY <2>3, <3>1 DEF CommitPayment, Placed, FullInv, TypeInv, TypeOK, GoodsInv, ReleasedOnce
      <3> QED
        BY <1>1, <2>3, <3>2, SameGoods DEF CommitPayment
    <2>4. CASE UNCHANGED <<pools, contributions, orders>>
      BY <1>1, <2>4, SameGoods DEF GoodsInv, ReleasedOnce, Placed
    <2> QED
      BY <1>1, <2>1, <2>2, <2>3, <2>4, ContributionGoods, OrderGoods
      DEF Committing, CommitEvent, LockPaidOrder, CommitPayouts
  <1>2. ASSUME UNCHANGED tables, UNCHANGED released PROVE GoodsInv'
    BY <1>2, SameGoods DEF GoodsInv, ReleasedOnce, Placed
  <1>3. CASE Next
    <2>1. ASSUME NEW w \in Sweepers, CommitExpired(w) PROVE GoodsInv'
      BY <2>1, ExpiryGoods
    <2> QED
      BY <1>1, <1>2, <1>3, <2>1, TableSteps, ReleasedSteps
  <1>4. CASE UNCHANGED vars
    BY <1>2, <1>4 DEF vars
  <1> QED
    BY <1>3, <1>4

\* The tables start empty, and the counters with them.
LEMMA GoodsInvInit == ASSUME Init PROVE GoodsInv
  <1>1. Placed = {} /\ contributions = {} /\ released = {}
    BY DEF Init, Placed
  <1>2. RowsFinite /\ ReleasedOnce
    BY <1>1, FS_EmptySet DEF RowsFinite, ReleasedOnce
  <1>3. \A p \in Pools : ContributionsTo(p) = {} /\ HeldOf(p) = {}
    BY <1>1 DEF ContributionsTo, HeldOf, Holding
  <1>4. \A p \in Pools : pools[p].total_qty = 0 /\ pools[p].available_qty = 0
    BY DEF Init, NoRow
  <1>5. \A p \in Pools : QtyOf(ContributionsTo(p)) = 0 /\ QtyOf(HeldOf(p)) = 0
    BY <1>3, QtyOfNothing
  <1>6. StockConserved
    BY <1>4, <1>5 DEF StockConserved, HeldOf
  <1> QED
    BY <1>2, <1>6 DEF GoodsInv

\* The counters agree with the rows behind them: what was contributed is what
\* is left to sell plus what unreleased orders hold, whatever the
\* interleaving of orders, contributions, payments, sweeps and failures.
THEOREM CountersAgree == Spec => []StockConserved
  <1>1. FullInv /\ GoodsInv /\ [Next]_vars => GoodsInv'
    BY GoodsInvStep
  <1>2. Init => GoodsInv
    BY GoodsInvInit
  <1>3. GoodsInv => StockConserved
    BY DEF GoodsInv
  <1> QED
    BY <1>1, <1>2, <1>3, FullInvHolds, PTL DEF Spec

-----------------------------------------------------------------------------
(***************************************************************************)
(* Rounding.                                                               *)
(***************************************************************************)

\* Rounding down a proportion.
LEMMA RoundedDown ==
    ASSUME NEW a \in Nat, NEW k \in Nat, k > 0
    PROVE  a \div k \in Nat /\ k * (a \div k) <= a /\ a < k * (a \div k) + k
  OBVIOUS

\* Arithmetic: a common positive factor can be left out of a comparison.
LEMMA FactorDropped ==
    ASSUME NEW a \in Int, NEW b \in Int, NEW k \in Nat, k > 0, k * a <= k * b
    PROVE  a <= b
  OBVIOUS

\* Arithmetic: and be put into one.
LEMMA FactorKept ==
    ASSUME NEW a \in Nat, NEW b \in Nat, NEW k \in Nat, a <= b
    PROVE  k * a <= k * b
  OBVIOUS

\* R divided in the proportions c: each share rounded down, with what is left
\* given to the last.
Divided(C, last, R, c, share, amount) ==
    /\ IsFiniteSet(C) /\ last \in C /\ R \in Nat
    /\ \A f \in C : c[f] \in Nat
    /\ c[last] > 0
    /\ \A f \in C : share[f] = (R * c[f]) \div Sum(c, C)
    /\ \A f \in C : amount[f] = IF f = last THEN R - Sum(share, C \ {last}) ELSE share[f]

\* The amounts add up to R, and nobody's is negative.
LEMMA SharesAddUp ==
    ASSUME NEW C, NEW last, NEW R, NEW c, NEW share, NEW amount,
           Divided(C, last, R, c, share, amount)
    PROVE  /\ \A f \in C : share[f] \in Nat /\ amount[f] \in Nat
           /\ Sum(amount, C) = R
  <1> USE DEF Divided
  <1> DEFINE K == Sum(c, C)
             D == C \ {last}
  <1>1. Summable(c, C) /\ Summable(c, D) /\ IsFiniteSet(D) /\ D \in SUBSET C
    BY FS_Subset DEF Summable
  <1>2. K \in Nat /\ Sum(c, D) \in Nat /\ Sum(c, D) <= K
    BY <1>1, SumOfPart
  <1>3. K > 0
    <2>1. K = c[last] + Sum(c, D)
      BY <1>1, SumTake
    <2> QED
      BY <1>2, <2>1
  <1> HIDE DEF K
  <1>4. \A f \in C : R * c[f] \in Nat /\ share[f] = (R * c[f]) \div K
    BY DEF K
  <1>5. \A f \in C : share[f] \in Nat /\ K * share[f] <= R * c[f]
    BY <1>2, <1>3, <1>4, RoundedDown
  <1>6. Summable(share, D)
    BY <1>1, <1>5 DEF Summable
  <1>7. Sum(share, D) \in Nat
    BY <1>1, <1>5, SumOfPart
  <1>8. Sum(share, D) <= R
    <2> DEFINE high == [f \in D |-> R * c[f]]
               low == [f \in D |-> K * share[f]]
    <2>1. \A f \in D : high[f] = R * c[f] /\ low[f] = K * share[f] /\ low[f] <= high[f]
      BY <1>5
    <2> HIDE DEF high, low
    <2>2. Summable(high, D) /\ Sum(high, D) = R * Sum(c, D)
      BY <1>1, <2>1, SumTimes
    <2>3. Summable(low, D) /\ Sum(low, D) = K * Sum(share, D)
      BY <1>2, <1>6, <2>1, SumTimes
    <2>4. K * Sum(share, D) <= R * Sum(c, D)
      BY <2>1, <2>2, <2>3, SumAtMost
    <2>5. R * Sum(c, D) <= R * K /\ R * K = K * R
      BY <1>2, FactorKept
    <2>6. K * Sum(share, D) \in Nat /\ R * Sum(c, D) \in Nat /\ K * R \in Nat
      BY <1>2, <1>7
    <2>7. K * Sum(share, D) <= K * R
      BY <2>4, <2>5, <2>6
    <2> QED
      BY <1>2, <1>3, <1>7, <2>7, FactorDropped
  <1>9. \A f \in C : amount[f] \in Nat
    BY <1>5, <1>7, <1>8
  <1>10. Sum(amount, C) = R
    <2>1. Summable(amount, C)
      BY <1>9 DEF Summable
    <2>2. Sum(amount, C) = amount[last] + Sum(amount, D)
      BY <2>1, SumTake
    <2>3. \A f \in D : amount[f] = share[f]
      OBVIOUS
    <2>4. Sum(amount, D) = Sum(share, D)
      BY <1>1, <2>3, SumSame
    <2>5. amount[last] = R - Sum(share, D)
      OBVIOUS
    <2> QED
      BY <1>7, <2>2, <2>4, <2>5
  <1> QED
    BY <1>5, <1>9, <1>10

\* Amounts that add up to what they stand for, each less than k short of it but
\* for the last, which takes the rest: the last is over by the others' shortages.
LEMMA LastTakesTheRest ==
    ASSUME NEW C, IsFiniteSet(C), NEW last \in C, NEW k \in Nat, k > 0,
           NEW exact, NEW given, Summable(exact, C), Summable(given, C),
           Sum(given, C) = Sum(exact, C),
           \A f \in C \ {last} : given[f] <= exact[f] /\ exact[f] < given[f] + k
    PROVE  \A f \in C : /\ exact[f] < given[f] + k
                        /\ given[f] < exact[f] + k * Cardinality(C)
  <1> DEFINE D == C \ {last}
             high == [f \in D |-> given[f] + k]
  <1>1. IsFiniteSet(D) /\ Summable(exact, D) /\ Summable(given, D)
    BY FS_Subset DEF Summable
  <1>2. PICK n \in Nat : Cardinality(C) = n + 1 /\ Cardinality(D) = n
    <2>1. Cardinality(C) \in Nat /\ Cardinality(D) \in Nat /\ Cardinality(D) = Cardinality(C) - 1
      BY <1>1, FS_RemoveElement, FS_CardinalityType
    <2> QED
      BY <2>1
  <1>3. \A f \in C : exact[f] \in Int /\ given[f] \in Int
    BY DEF Summable
  <1>4. \A f \in D : high[f] = given[f] + k /\ exact[f] <= high[f] /\ given[f] <= exact[f]
    BY <1>3
  <1> HIDE DEF high
  <1>5. Summable(high, D) /\ Sum(high, D) = Sum(given, D) + k * n
    BY <1>1, <1>2, <1>4, SumShifted
  <1>6. Sum(given, D) <= Sum(exact, D) /\ Sum(exact, D) <= Sum(high, D)
    BY <1>1, <1>4, <1>5, SumAtMost
  <1>7. PICK E \in Int, G \in Int : E = Sum(exact, D) /\ G = Sum(given, D)
    BY <1>1, SumInt
  <1>8. Sum(exact, C) = exact[last] + E /\ Sum(given, C) = given[last] + G
    BY <1>7, SumTake
  <1>9. PICK m \in Nat : m = k * n /\ k * Cardinality(C) = m + k
    BY <1>2
  <1>10. exact[last] <= given[last] /\ given[last] <= exact[last] + m
    BY <1>3, <1>5, <1>6, <1>7, <1>8, <1>9
  <1>11. ASSUME NEW f \in C
         PROVE  exact[f] < given[f] + k /\ given[f] < exact[f] + (m + k)
    <2>1. CASE f = last
      BY <1>3, <1>10, <2>1
    <2>2. CASE f # last
      BY <1>3, <1>4, <2>2
    <2> QED
      BY <2>1, <2>2
  <1> QED
    BY <1>9, <1>11

\* Nobody's share is off by a kobo from rounding, but for the one who takes what
\* is left: less than a kobo for everybody.
LEMMA RoundingIsSmall ==
    ASSUME NEW C, NEW last, NEW R, NEW c, NEW share, NEW amount,
           Divided(C, last, R, c, share, amount)
    PROVE  LET all == Sum(c, C) IN
           \A f \in C : /\ R * c[f] < all * amount[f] + all
                        /\ all * amount[f] < R * c[f] + all * Cardinality(C)
  <1>1. (\A f \in C : amount[f] \in Nat) /\ Sum(amount, C) = R
    BY SharesAddUp
  <1>2. Summable(c, C) /\ Summable(amount, C)
    BY <1>1 DEF Summable, Divided
  <1>3. PICK K \in Nat : K = Sum(c, C) /\ K > 0
    <2>1. Summable(c, C \ {last}) /\ Sum(c, C) = c[last] + Sum(c, C \ {last})
      BY <1>2, SumTake DEF Divided
    <2>2. Sum(c, C \ {last}) \in Nat /\ Sum(c, C) \in Nat
      BY SumOfPart DEF Divided
    <2> QED
      BY <2>1, <2>2 DEF Divided
  <1> DEFINE exact == [f \in C |-> R * c[f]]
             given == [f \in C |-> K * amount[f]]
  <1>4. \A f \in C : exact[f] = R * c[f] /\ given[f] = K * amount[f]
    OBVIOUS
  <1> HIDE DEF exact, given
  <1>5. Summable(exact, C) /\ Sum(exact, C) = R * K
    <2>1. R \in Int
      BY DEF Divided
    <2>2. Sum(exact, C) = R * Sum(c, C) /\ Summable(exact, C)
      BY <1>2, <1>4, <2>1, SumTimes
    <2> QED
      BY <1>3, <2>2
  <1>6. Summable(given, C) /\ Sum(given, C) = K * R
    <2>1. K \in Int
      BY <1>3
    <2>2. Sum(given, C) = K * Sum(amount, C) /\ Summable(given, C)
      BY <1>2, <1>4, <2>1, SumTimes
    <2> QED
      BY <1>1, <2>2
  <1>7. Sum(given, C) = Sum(exact, C)
    BY <1>3, <1>5, <1>6 DEF Divided
  <1>8. ASSUME NEW f \in C \ {last}
        PROVE  given[f] <= exact[f] /\ exact[f] < given[f] + K
    <2>1. PICK a \in Nat : a = R * c[f]
      BY DEF Divided
    <2>2. amount[f] = a \div K
      BY <1>3, <2>1 DEF Divided
    <2>3. K * (a \div K) <= a /\ a < K * (a \div K) + K
      BY <1>3, RoundedDown
    <2> QED
      BY <1>4, <2>1, <2>2, <2>3
  <1>9. \A f \in C : exact[f] < given[f] + K /\ given[f] < exact[f] + K * Cardinality(C)
    BY <1>3, <1>5, <1>6, <1>7, <1>8, LastTakesTheRest DEF Divided
  <1> QED
    BY <1>3, <1>4, <1>9

-----------------------------------------------------------------------------
(***************************************************************************)
(* Money: the sums of the payout service as sums of functions.             *)
(***************************************************************************)

Totals == [o \in Orders |-> Total(o)]
OrderTotal == [w \in Webhooks |-> Total(Reference(w))]
AmountOf == [w \in Webhooks |-> Request[w].amount]
MissingOf == [w \in Webhooks |-> Missing(w)]

PaidOrders(p) == {o \in Orders : Request[o].pool = p /\ orders[o] = "paid"}

\* The total of an order, price by quantity, is never negative.
LEMMA TotalsAreNat == \A o \in Orders : Totals[o] = Total(o) /\ Total(o) \in Nat
  <1>1. \A o \in Orders : Price[Request[o].pool] \in Nat /\ Request[o].qty \in Nat
    BY RequestsAssumption, LimitsAssumption DEF Orders, Carrying
  <1>2. \A a, b \in Nat : a * b \in Nat
    OBVIOUS
  <1> QED
    BY <1>1, <1>2 DEF Totals, Total

\* The revenue of create_payouts as the sum of a function over the paid orders.
LEMMA RevenueIsSum ==
    ASSUME NEW p, IsFiniteSet(PaidOrders(p))
    PROVE  Revenue(p) = Sum(Totals, PaidOrders(p))
  <1>1. PICK S : S = PaidOrders(p)
    OBVIOUS
  <1> DEFINE body(a) == [s \in SUBSET S |-> IF s = {} THEN 0 ELSE Total(Pick(s)) + a[s \ {Pick(s)}]]
             h == CHOOSE a : a = body(a)
  <1>2. Revenue(p) = h[S]
    BY <1>1 DEF Revenue, PaidOrders, MapThenSumSet, MapThenFoldSet, Pick
  <1>3. \A a : Adds(a, Totals, SUBSET S) <=> a = body(a)
    <2>1. \A s \in SUBSET S : s # {} => Totals[Pick(s)] = Total(Pick(s))
      BY <1>1, PickIn, TotalsAreNat DEF PaidOrders
    <2>2. SUFFICES ASSUME NEW a
                   PROVE  [s \in SUBSET S |-> IF s = {} THEN 0 ELSE Totals[Pick(s)] + a[s \ {Pick(s)}]] = body(a)
      BY DEF Adds
    <2> QED
      BY <2>1
  <1>4. \E a : a = body(a)
    BY <1>1, <1>3, AddsExists
  <1>5. Adds(h, Totals, SUBSET S)
    BY <1>3, <1>4
  <1> HIDE DEF h
  <1>6. Sum(Totals, S) = h[S]
    BY <1>1, <1>5, SumIs
  <1> QED
    BY <1>1, <1>2, <1>6

\* What was collected as the sum of a function over the payments.
LEMMA CollectedIsSum ==
    ASSUME NEW p, IsFiniteSet(PaymentsTo(p)), payments \subseteq Webhooks
    PROVE  Collected(p) = Sum(AmountOf, PaymentsTo(p))
  <1>1. PICK S : S = PaymentsTo(p)
    OBVIOUS
  <1> DEFINE body(a) == [s \in SUBSET S |-> IF s = {} THEN 0 ELSE Request[Pick(s)].amount + a[s \ {Pick(s)}]]
             h == CHOOSE a : a = body(a)
  <1>2. Collected(p) = h[S]
    BY <1>1 DEF Collected, MapThenSumSet, MapThenFoldSet, Pick
  <1>3. \A a : Adds(a, AmountOf, SUBSET S) <=> a = body(a)
    <2>1. \A s \in SUBSET S : s # {} => AmountOf[Pick(s)] = Request[Pick(s)].amount
      BY <1>1, PickIn DEF PaymentsTo, AmountOf
    <2>2. SUFFICES ASSUME NEW a
                   PROVE  [s \in SUBSET S |-> IF s = {} THEN 0 ELSE AmountOf[Pick(s)] + a[s \ {Pick(s)}]] = body(a)
      BY DEF Adds
    <2> QED
      BY <2>1
  <1>4. \E a : a = body(a)
    BY <1>1, <1>3, AddsExists
  <1>5. Adds(h, AmountOf, SUBSET S)
    BY <1>3, <1>4
  <1> HIDE DEF h
  <1>6. Sum(AmountOf, S) = h[S]
    BY <1>1, <1>5, SumIs
  <1> QED
    BY <1>1, <1>2, <1>6

\* What they fall short of their orders, likewise.
LEMMA ShortfallIsSum ==
    ASSUME NEW p, IsFiniteSet(PaymentsTo(p)), payments \subseteq Webhooks
    PROVE  Shortfall(p) = Sum(MissingOf, PaymentsTo(p))
  <1>1. PICK S : S = PaymentsTo(p)
    OBVIOUS
  <1> DEFINE body(a) == [s \in SUBSET S |-> IF s = {} THEN 0 ELSE Missing(Pick(s)) + a[s \ {Pick(s)}]]
             h == CHOOSE a : a = body(a)
  <1>2. Shortfall(p) = h[S]
    BY <1>1 DEF Shortfall, MapThenSumSet, MapThenFoldSet, Pick
  <1>3. \A a : Adds(a, MissingOf, SUBSET S) <=> a = body(a)
    <2>1. \A s \in SUBSET S : s # {} => MissingOf[Pick(s)] = Missing(Pick(s))
      BY <1>1, PickIn DEF PaymentsTo, MissingOf
    <2>2. SUFFICES ASSUME NEW a
                   PROVE  [s \in SUBSET S |-> IF s = {} THEN 0 ELSE MissingOf[Pick(s)] + a[s \ {Pick(s)}]] = body(a)
      BY DEF Adds
    <2> QED
      BY <2>1
  <1>4. \E a : a = body(a)
    BY <1>1, <1>3, AddsExists
  <1>5. Adds(h, MissingOf, SUBSET S)
    BY <1>3, <1>4
  <1> HIDE DEF h
  <1>6. Sum(MissingOf, S) = h[S]
    BY <1>1, <1>5, SumIs
  <1> QED
    BY <1>1, <1>2, <1>6

\* The amounts of a finite set of rows.
LEMMA AmountsIsSum ==
    ASSUME NEW S, IsFiniteSet(S), NEW e, \A r \in S : e[r] = r.amount
    PROVE  Amounts(S) = Sum(e, S)
  <1> DEFINE body(a) == [s \in SUBSET S |-> IF s = {} THEN 0 ELSE Pick(s).amount + a[s \ {Pick(s)}]]
             h == CHOOSE a : a = body(a)
  <1>1. Amounts(S) = h[S]
    BY DEF Amounts, MapThenSumSet, MapThenFoldSet, Pick
  <1>2. \A a : Adds(a, e, SUBSET S) <=> a = body(a)
    <2>1. \A s \in SUBSET S : s # {} => e[Pick(s)] = Pick(s).amount
      BY PickIn
    <2>2. SUFFICES ASSUME NEW a
                   PROVE  [s \in SUBSET S |-> IF s = {} THEN 0 ELSE e[Pick(s)] + a[s \ {Pick(s)}]] = body(a)
      BY DEF Adds
    <2> QED
      BY <2>1
  <1>3. \E a : a = body(a)
    BY <1>2, AddsExists
  <1>4. Adds(h, e, SUBSET S)
    BY <1>2, <1>3
  <1> HIDE DEF h
  <1>5. Sum(e, S) = h[S]
    BY <1>4, SumIs
  <1> QED
    BY <1>1, <1>5

\* What a pool's farmers contributed, and what they would be paid.
LEMMA ContributedIsSum ==
    ASSUME NEW p, NEW C, IsFiniteSet(C), NEW c, \A f \in C : c[f] = ContributedBy(f, p)
    PROVE  MapThenSumSet(LAMBDA g : ContributedBy(g, p), C) = Sum(c, C)
  <1> DEFINE body(a) == [s \in SUBSET C |-> IF s = {} THEN 0 ELSE ContributedBy(Pick(s), p) + a[s \ {Pick(s)}]]
             h == CHOOSE a : a = body(a)
  <1>1. MapThenSumSet(LAMBDA g : ContributedBy(g, p), C) = h[C]
    BY DEF MapThenSumSet, MapThenFoldSet, Pick
  <1>2. \A a : Adds(a, c, SUBSET C) <=> a = body(a)
    <2>1. \A s \in SUBSET C : s # {} => c[Pick(s)] = ContributedBy(Pick(s), p)
      BY PickIn
    <2>2. SUFFICES ASSUME NEW a
                   PROVE  [s \in SUBSET C |-> IF s = {} THEN 0 ELSE c[Pick(s)] + a[s \ {Pick(s)}]] = body(a)
      BY DEF Adds
    <2> QED
      BY <2>1
  <1>3. \E a : a = body(a)
    BY <1>2, AddsExists
  <1>4. Adds(h, c, SUBSET C)
    BY <1>2, <1>3
  <1> HIDE DEF h
  <1>5. Sum(c, C) = h[C]
    BY <1>4, SumIs
  <1> QED
    BY <1>1, <1>5

\* The rounded shares of create_payouts as the sum of a function.
LEMMA RoundedIsSum ==
    ASSUME NEW p, NEW C, IsFiniteSet(C), NEW c, \A f \in C : c[f] = RoundedShare(f, p)
    PROVE  MapThenSumSet(LAMBDA g : RoundedShare(g, p), C) = Sum(c, C)
  <1> DEFINE body(a) == [s \in SUBSET C |-> IF s = {} THEN 0 ELSE RoundedShare(Pick(s), p) + a[s \ {Pick(s)}]]
             h == CHOOSE a : a = body(a)
  <1>1. MapThenSumSet(LAMBDA g : RoundedShare(g, p), C) = h[C]
    BY DEF MapThenSumSet, MapThenFoldSet, Pick
  <1>2. \A a : Adds(a, c, SUBSET C) <=> a = body(a)
    <2>1. \A s \in SUBSET C : s # {} => c[Pick(s)] = RoundedShare(Pick(s), p)
      BY PickIn
    <2>2. SUFFICES ASSUME NEW a
                   PROVE  [s \in SUBSET C |-> IF s = {} THEN 0 ELSE c[Pick(s)] + a[s \ {Pick(s)}]] = body(a)
      BY DEF Adds
    <2> QED
      BY <2>1
  <1>3. \E a : a = body(a)
    BY <1>2, AddsExists
  <1>4. Adds(h, c, SUBSET C)
    BY <1>2, <1>3
  <1> HIDE DEF h
  <1>5. Sum(c, C) = h[C]
    BY <1>4, SumIs
  <1> QED
    BY <1>1, <1>5

-----------------------------------------------------------------------------
(***************************************************************************)
(* The rows of one distribution.                                           *)
(***************************************************************************)

\* There are finitely many farmers to pay, each of whom contributed something.
LEMMA ContributorsOfPool ==
    ASSUME TypeInv, RowsFinite, NEW p
    PROVE  /\ IsFiniteSet(Contributors(p))
           /\ \A f \in Contributors(p) : ContributedBy(f, p) \in Nat /\ ContributedBy(f, p) > 0
  <1>1. ContributionsTo(p) \in SUBSET Goods /\ IsFiniteSet(ContributionsTo(p))
    BY RowsOfPool
  <1>2. IsFiniteSet(Contributors(p))
    <2>1. PICK S : S = ContributionsTo(p)
      OBVIOUS
    <2>2. PICK F : F = Contributors(p)
      OBVIOUS
    <2> DEFINE farmer == [c \in S |-> Request[c].farmer]
    <2>3. farmer \in Surjection(S, F)
      BY <2>1, <2>2 DEF Contributors, Surjection
    <2> HIDE DEF farmer
    <2> QED
      BY <1>1, <2>1, <2>2, <2>3, FS_Surjection
  <1>3. ASSUME NEW f \in Contributors(p)
        PROVE  ContributedBy(f, p) \in Nat /\ ContributedBy(f, p) > 0
    <2>1. PICK S : S = {c \in ContributionsTo(p) : Request[c].farmer = f}
      OBVIOUS
    <2>2. ContributedBy(f, p) = QtyOf(S)
      BY <2>1 DEF ContributedBy, QtyOf, MapThenSumSet, MapThenFoldSet
    <2>3. S \in SUBSET Goods /\ IsFiniteSet(S)
      BY <1>1, <2>1, FS_Subset
    <2>4. PICK x \in S : TRUE
      BY <2>1 DEF Contributors
    <2>5. Request[x].qty \in Nat /\ Request[x].qty > 0
      <3>1. x \in Contributions
        BY <2>1, <2>4 DEF ContributionsTo, TypeInv, TypeOK
      <3> QED
        BY <3>1, RequestsAssumption
    <2>6. S \ {x} \in SUBSET Goods /\ IsFiniteSet(S \ {x})
      BY <2>3, FS_Subset
    <2>7. QtyOf(S) = QtyOf(S \ {x}) + Request[x].qty
      BY <2>3, <2>4, QtyWithout
    <2>8. QtyOf(S \ {x}) \in Nat
      <3>1. \A s \in S \ {x} : Qty[s] \in Nat
        BY <2>6, GoodsHaveQty
      <3>2. Sum(Qty, S \ {x}) \in Nat
        BY <2>6, <3>1, SumOfPart
      <3> QED
        BY <2>6, <3>2, QtyIsSum
    <2> QED
      BY <2>2, <2>5, <2>7, <2>8
  <1> QED
    BY <1>2, <1>3

\* The rows computed for a pool: nobody is owed less than nothing, together they
\* are the revenue, and each is near its farmer's proportion of it.
LEMMA SharesAreRevenue ==
    ASSUME TypeInv, RowsFinite, NEW p, Revenue(p) \in Nat, NEW last \in Contributors(p)
    PROVE  /\ IsFiniteSet(Shares(p, last))
           /\ \A r \in Shares(p, last) : r.amount \in Nat
           /\ Amounts(Shares(p, last)) = Revenue(p)
           /\ \A r \in Shares(p, last) : NearProportion(r, p)
  <1>1. PICK C : C = Contributors(p)
    OBVIOUS
  <1> DEFINE c == [f \in C |-> ContributedBy(f, p)]
             share == [f \in C |-> RoundedShare(f, p)]
             amount == [f \in C |-> AmountFor(f, p, last)]
             record == [f \in C |-> [pool |-> p, farmer |-> f, amount |-> AmountFor(f, p, last)]]
  <1>2. IsFiniteSet(C) /\ last \in C /\ \A f \in C : c[f] \in Nat /\ c[f] > 0
    BY <1>1, ContributorsOfPool
  <1>3. \A f \in C : share[f] = (Revenue(p) * c[f]) \div Sum(c, C)
    <2>1. \A f \in C : c[f] = ContributedBy(f, p)
      OBVIOUS
    <2>2. PICK k : k = MapThenSumSet(LAMBDA g : ContributedBy(g, p), C)
      OBVIOUS
    <2>3. k = Sum(c, C)
      <3> HIDE DEF c
      <3> QED
        BY <1>2, <2>1, <2>2, ContributedIsSum
    <2>4. \A f \in C : RoundedShare(f, p) = (Revenue(p) * ContributedBy(f, p)) \div k
      BY <1>1, <2>2 DEF RoundedShare
    <2> QED
      BY <2>3, <2>4
  <1>4. \A f \in C : amount[f] = IF f = last THEN Revenue(p) - Sum(share, C \ {last}) ELSE share[f]
    <2>1. \A f \in C \ {last} : share[f] = RoundedShare(f, p)
      OBVIOUS
    <2>2. IsFiniteSet(C \ {last})
      BY <1>2, FS_Subset
    <2>3. PICK k : k = MapThenSumSet(LAMBDA g : RoundedShare(g, p), C \ {last})
      OBVIOUS
    <2>4. k = Sum(share, C \ {last})
      <3> HIDE DEF share
      <3> QED
        BY <2>1, <2>2, <2>3, RoundedIsSum
    <2>5. \A f \in C : AmountFor(f, p, last) = IF f = last THEN Revenue(p) - k ELSE RoundedShare(f, p)
      BY <1>1, <2>3 DEF AmountFor
    <2> QED
      BY <2>4, <2>5
  <1>5. \A f \in C : record[f].amount = amount[f] /\ record[f].farmer = f
    OBVIOUS
  <1>6. Shares(p, last) = {record[f] : f \in C}
    BY <1>1 DEF Shares
  <1> HIDE DEF c, share, amount, record
  <1>7. PICK R : R = Revenue(p) /\ Divided(C, last, R, c, share, amount)
    BY <1>2, <1>3, <1>4 DEF Divided
  <1>8. (\A f \in C : amount[f] \in Nat) /\ Sum(amount, C) = Revenue(p)
    BY <1>7, SharesAddUp
  <1>9. PICK S : S = {record[f] : f \in C}
    OBVIOUS
  <1> DEFINE e == [r \in S |-> r.amount]
  <1>10. \A r \in S : e[r] = r.amount
    OBVIOUS
  <1>11. \A f \in C : e[record[f]] = amount[f]
    BY <1>5, <1>9
  <1>12. \A f, g \in C : record[f] = record[g] => f = g
    BY <1>5
  <1> HIDE DEF e
  <1>13. Summable(amount, C)
    BY <1>2, <1>8 DEF Summable
  <1>14. Summable(e, S) /\ Sum(e, S) = Sum(amount, C)
    BY <1>9, <1>11, <1>12, <1>13, SumOfImage
  <1>15. IsFiniteSet(S) /\ Amounts(S) = Sum(e, S)
    BY <1>10, <1>14, AmountsIsSum DEF Summable
  <1>16. \A r \in S : r.amount \in Nat
    BY <1>5, <1>8, <1>9
  <1>17. \A f \in C : NearProportion(record[f], p)
    <2>1. PICK k : k = MapThenSumSet(LAMBDA g : ContributedBy(g, p), C)
      OBVIOUS
    <2>2. \A f \in C : c[f] = ContributedBy(f, p)
      BY DEF c
    <2>3. k = Sum(c, C)
      BY <1>2, <2>1, <2>2, ContributedIsSum
    <2>4. \A f \in C : /\ R * c[f] < k * amount[f] + k
                       /\ k * amount[f] < R * c[f] + k * Cardinality(C)
      BY <1>7, <2>3, RoundingIsSmall
    <2>5. ASSUME NEW f \in C PROVE NearProportion(record[f], p)
      <3>1. PICK r : r = record[f]
        OBVIOUS
      <3>2. r.farmer = f /\ r.amount = amount[f] /\ c[f] = ContributedBy(f, p)
        BY <1>5, <2>2, <3>1
      <3>3. /\ Revenue(p) * ContributedBy(f, p) < k * r.amount + k
            /\ k * r.amount < Revenue(p) * ContributedBy(f, p) + k * Cardinality(C)
        BY <1>7, <2>4, <3>2
      <3>4. NearProportion(r, p)
        BY <1>1, <2>1, <3>2, <3>3 DEF NearProportion
      <3> QED
        BY <3>1, <3>4
    <2> QED
      BY <2>5
  <1> QED
    BY <1>6, <1>8, <1>9, <1>14, <1>15, <1>16, <1>17

-----------------------------------------------------------------------------
(***************************************************************************)
(* Payouts against payments.                                               *)
(***************************************************************************)

\* The totals of the orders that a payment row made paid.
Earned(p) == Sum(OrderTotal, PaymentsTo(p))

\* Rows of one distribution: never a negative amount, a farmer who did not
\* contribute, or a farmer twice, and never more than the paid orders come to.
Backed(S, p) ==
    /\ IsFiniteSet(S)
    /\ \A r \in S : r.amount \in Nat /\ r.farmer \in Contributors(p)
    /\ \A r, q \in S : r.farmer = q.farmer => r = q
    /\ Amounts(S) \in Nat
    /\ Amounts(S) <= Earned(p)

\* The payments there are so far, each of an order.
PaymentsMade == IsFiniteSet(payments) /\ \A w \in payments : Reference(w) \in Orders

\* Rows are backed when they are computed, and stay so until and after their commit.
MoneyInv ==
    /\ PaymentsMade
    /\ \A s \in Sessions : pc[s] = "payout_commit" => Backed(due[s], Request[s].pool)
    /\ \A p \in Pools : Backed(PayoutsOf(p), p)

\* What the paid orders of a pool come to, and its types.
LEMMA EarnedIsNat ==
    ASSUME TypeInv, PaymentsMade, NEW p
    PROVE  /\ IsFiniteSet(PaymentsTo(p))
           /\ \A w \in PaymentsTo(p) : OrderTotal[w] \in Nat
           /\ Earned(p) \in Nat
  <1>1. IsFiniteSet(PaymentsTo(p)) /\ PaymentsTo(p) \subseteq payments /\ payments \subseteq Webhooks
    BY FS_Subset DEF PaymentsTo, PaymentsMade, TypeInv, TypeOK
  <1>2. \A w \in PaymentsTo(p) : OrderTotal[w] \in Nat
    BY <1>1, TotalsAreNat DEF OrderTotal, PaymentsMade
  <1>3. Sum(OrderTotal, PaymentsTo(p)) \in Nat
    BY <1>1, <1>2, SumOfPart
  <1> QED
    BY <1>1, <1>2, <1>3 DEF Earned

\* Each payment and what it lacks make up at least the order's total, so the
\* payments of a pool and their shortfall make up what its paid orders come to.
LEMMA PaymentsAndShortfall ==
    ASSUME TypeInv, PaymentsMade, NEW p
    PROVE  Collected(p) \in Nat /\ Shortfall(p) \in Nat /\ Earned(p) <= Collected(p) + Shortfall(p)
  <1>1. PICK S : S = PaymentsTo(p)
    OBVIOUS
  <1>2. IsFiniteSet(S) /\ S \subseteq payments /\ payments \subseteq Webhooks
    BY <1>1, EarnedIsNat DEF PaymentsTo, TypeInv, TypeOK
  <1> DEFINE both == [w \in Webhooks |-> AmountOf[w] + MissingOf[w]]
  <1>3. ASSUME NEW w \in S
        PROVE  /\ AmountOf[w] \in Nat /\ MissingOf[w] \in Nat /\ OrderTotal[w] \in Nat
               /\ OrderTotal[w] <= both[w]
               /\ both[w] = AmountOf[w] + MissingOf[w]
    <2>1. w \in Webhooks /\ OrderTotal[w] \in Nat
      BY <1>1, <1>2, EarnedIsNat
    <2>2. AmountOf[w] = Request[w].amount /\ MissingOf[w] = Missing(w) /\ OrderTotal[w] = Total(Reference(w))
      BY <2>1 DEF AmountOf, MissingOf, OrderTotal
    <2>3. Request[w].amount \in Nat
      BY <2>1, RequestsAssumption
    <2>4. PICK a \in Nat, t \in Nat : a = Request[w].amount /\ t = Total(Reference(w))
      BY <2>1, <2>2, <2>3
    <2>5. Missing(w) = IF a < t THEN t - a ELSE 0
      BY <2>4 DEF Missing
    <2> QED
      BY <2>1, <2>2, <2>4, <2>5
  <1> HIDE DEF both
  <1>4. Summable(AmountOf, S) /\ Summable(MissingOf, S) /\ Summable(OrderTotal, S) /\ Summable(both, S)
    BY <1>2, <1>3 DEF Summable
  <1>5. Sum(both, S) = Sum(AmountOf, S) + Sum(MissingOf, S)
    BY <1>3, <1>4, SumPlus
  <1>6. Sum(OrderTotal, S) <= Sum(both, S)
    BY <1>3, <1>4, SumAtMost
  <1>7. Sum(AmountOf, S) \in Nat /\ Sum(MissingOf, S) \in Nat
    BY <1>2, <1>3, SumOfPart
  <1>8. Collected(p) = Sum(AmountOf, S) /\ Shortfall(p) = Sum(MissingOf, S)
    BY <1>1, <1>2, CollectedIsSum, ShortfallIsSum
  <1> QED
    BY <1>1, <1>5, <1>6, <1>7, <1>8 DEF Earned

\* The same as a formula of the state, which can also be read in the next one.
EarnedTypes ==
    TypeInv /\ PaymentsMade =>
        \A p : /\ IsFiniteSet(PaymentsTo(p))
               /\ \A w \in PaymentsTo(p) : OrderTotal[w] \in Nat

\* What is true of every state is true of the next.
LEMMA EarnedTypesNext == EarnedTypes'
  <1>1. EarnedTypes
    BY EarnedIsNat DEF EarnedTypes
  <1> QED
    BY <1>1, PTL

\* The paid orders and the payments tell the same revenue.
LEMMA EarnedIsRevenue ==
    ASSUME TypeInv, RowsFinite, PaymentMatches, PaymentsMade, NEW p
    PROVE  Revenue(p) \in Nat /\ Earned(p) = Revenue(p)
  <1>1. PICK S : S = PaymentsTo(p)
    OBVIOUS
  <1> DEFINE h == [w \in S |-> Reference(w)]
  <1>2. IsFiniteSet(S) /\ (\A w \in S : OrderTotal[w] \in Nat) /\ Earned(p) = Sum(OrderTotal, S) /\ Earned(p) \in Nat
    BY <1>1, EarnedIsNat DEF Earned
  <1>3. S \subseteq payments /\ payments \subseteq Webhooks /\ \A w \in S : Reference(w) \in Orders
    BY <1>1 DEF PaymentsTo, PaymentsMade, TypeInv, TypeOK
  <1>4. \A w \in S : h[w] = Reference(w)
    OBVIOUS
  <1>5. {h[w] : w \in S} = PaidOrders(p)
    <2>1. ASSUME NEW w \in S PROVE h[w] \in PaidOrders(p)
      <3>1. w \in PaymentsOf(Reference(w))
        BY <1>3 DEF PaymentsOf
      <3> QED
        BY <1>1, <1>3, <1>4, <3>1 DEF PaidOrders, PaymentsTo, PaymentMatches
    <2>2. ASSUME NEW o \in PaidOrders(p) PROVE \E w \in S : h[w] = o
      <3>1. PICK w \in PaymentsOf(o) : TRUE
        BY DEF PaidOrders, PaymentMatches
      <3>2. w \in S /\ Reference(w) = o
        BY <1>1 DEF PaymentsOf, PaymentsTo, PaidOrders
      <3> QED
        BY <1>4, <3>2
    <2> QED
      BY <2>1, <2>2
  <1>6. \A v, w \in S : h[v] = h[w] => v = w
    BY <1>3, <1>4 DEF PaymentMatches
  <1>7. \A w \in S : Totals[h[w]] = OrderTotal[w]
    <2> TAKE w \in S
    <2>1. w \in Webhooks /\ Reference(w) \in Orders /\ h[w] = Reference(w)
      BY <1>3, <1>4
    <2>2. OrderTotal[w] = Total(Reference(w))
      BY <2>1 DEF OrderTotal
    <2>3. Totals[Reference(w)] = Total(Reference(w))
      BY <2>1, TotalsAreNat
    <2> QED
      BY <2>1, <2>2, <2>3
  <1> HIDE DEF h
  <1>8. Summable(OrderTotal, S)
    BY <1>2 DEF Summable
  <1>9. Sum(Totals, PaidOrders(p)) = Sum(OrderTotal, S)
    <2>1. PICK I : I = {h[w] : w \in S}
      OBVIOUS
    <2>2. ASSUME NEW e, NEW f, Summable(f, S), \A w \in S : e[h[w]] = f[w]
          PROVE  Sum(e, I) = Sum(f, S)
      BY <1>6, <2>1, <2>2, SumOfImage
    <2>3. Sum(Totals, I) = Sum(OrderTotal, S)
      BY <1>7, <1>8, <2>2
    <2> QED
      BY <1>5, <2>1, <2>3
  <1>10. IsFiniteSet(PaidOrders(p))
    <2>1. PaidOrders(p) \subseteq Placed
      BY DEF PaidOrders, Placed
    <2> QED
      BY <2>1, FS_Subset DEF RowsFinite
  <1> QED
    BY <1>2, <1>9, <1>10, RevenueIsSum

\* Payments and contributions are only ever added.
LEMMA RowsGrow ==
    ASSUME FullInv, [Next]_vars
    PROVE  /\ contributions \subseteq contributions'
           /\ payments \subseteq payments'
           /\ \/ payments' = payments
              \/ \E s \in Sessions : /\ payments' = payments \cup {s}
                                     /\ Reference(s) \in Orders
  <1>1. ASSUME NEW s \in Sessions, CommitPayment(s)
        PROVE  Reference(s) \in Orders
    BY <1>1, RequestTypes DEF CommitPayment, FullInv, TypeInv
  <1>2. CASE UNCHANGED vars
    BY <1>2, SMTT(30) DEF vars
  <1>3. CASE Next
    BY <1>1, <1>3, TableSteps
    DEF Committing, CreatePool, CommitClose, CommitContribution, CommitOrder, CommitEvent,
        LockPaidOrder, CommitPayment, CommitPayouts, CommitExpired
  <1> QED
    BY <1>2, <1>3

\* So what was paid in stays paid in.
LEMMA MoneyGrows ==
    ASSUME FullInv, PaymentsMade, [Next]_vars
    PROVE  /\ PaymentsMade'
           /\ \A p : /\ Contributors(p) \subseteq Contributors(p)'
                     /\ Earned(p) \in Nat /\ Earned(p)' \in Nat
                     /\ Earned(p) <= Earned(p)'
  <1>1. PaymentsMade'
    BY RowsGrow, FS_AddElement DEF PaymentsMade, Reference
  <1>2. TypeInv /\ TypeInv'
    BY FullInvStep DEF FullInv
  <1>3. ASSUME NEW p
        PROVE  /\ Contributors(p) \subseteq Contributors(p)'
               /\ Earned(p) \in Nat /\ Earned(p)' \in Nat
               /\ Earned(p) <= Earned(p)'
    <2>1. Contributors(p) \subseteq Contributors(p)'
      BY RowsGrow DEF Contributors, ContributionsTo
    <2>2. PICK T : T = PaymentsTo(p)
      OBVIOUS
    <2>3. PICK S : S = PaymentsTo(p)'
      OBVIOUS
    <2>4. T \in SUBSET S
      BY <2>2, <2>3, RowsGrow DEF PaymentsTo, Reference
    <2>5. Earned(p) = Sum(OrderTotal, T)
      BY <2>2 DEF Earned
    <2>6. /\ IsFiniteSet(S) /\ \A w \in S : OrderTotal[w] \in Nat
          /\ Earned(p)' = Sum(OrderTotal, S)
      <3>1. IsFiniteSet(PaymentsTo(p)') /\ \A w \in PaymentsTo(p)' : OrderTotal'[w] \in Nat
        BY <1>1, <1>2, EarnedTypesNext DEF EarnedTypes
      <3>2. OrderTotal' = OrderTotal
        BY DEF OrderTotal, Reference, Total, Webhooks, Carrying, Sessions
      <3>3. Sum(OrderTotal, PaymentsTo(p))' = Sum(OrderTotal, PaymentsTo(p)')
        BY <3>2 DEF Sum, MapThenSumSet, MapThenFoldSet
      <3> QED
        BY <2>3, <3>1, <3>2, <3>3 DEF Earned
    <2> QED
      BY <2>1, <2>4, <2>5, <2>6, SumOfPart
  <1> QED
    BY <1>1, <1>3

\* Backed rows stay backed.
LEMMA BackedKept ==
    ASSUME FullInv, PaymentsMade, [Next]_vars, NEW S, NEW p, Backed(S, p)
    PROVE  Backed(S, p)'
  <1>1. Amounts(S)' = Amounts(S)
    BY DEF Amounts, MapThenSumSet, MapThenFoldSet
  <1>2. Amounts(S) <= Earned(p)'
    <2>1. PICK a \in Nat : a = Amounts(S)
      BY DEF Backed
    <2>2. PICK b \in Nat : b = Earned(p)
      BY MoneyGrows
    <2>3. PICK c \in Nat : c = Earned(p)'
      BY MoneyGrows
    <2>4. a <= b /\ b <= c
      BY <2>1, <2>2, <2>3, MoneyGrows DEF Backed
    <2> QED
      BY <2>1, <2>3, <2>4
  <1> QED
    BY <1>1, <1>2, MoneyGrows DEF Backed

\* A session reaches "payout_commit" by computing its rows.
LEMMA ToPayoutCommit ==
    ASSUME TypeInv, NEW s \in Sessions, Acts(s), pc'[s] = "payout_commit"
    PROVE  ComputeShares(s)
  <1> USE NamesAssumption DEF TypeInv, TypeOK
  <1>1. ~PoolStep(s) /\ ~ContributionStep(s) /\ ~Abort(s)
    BY DEF PoolStep, ContributionStep, CreatePool, LockForClose, CommitClose, LockForContribution,
           CommitContribution, Abort
  <1>2. ~OrderStep(s)
    BY DEF OrderStep, FindByKey, LockForOrder, FlushOrder, CommitOrder, RereadByKey
  <1>3. ~PaymentStep(s)
    BY DEF PaymentStep, InitializePayment, OpenTransaction, RecordEvent, CommitEvent, LockPaidOrder,
           CommitPayment
  <1>4. ~LockForPayout(s) /\ ~CommitPayouts(s)
    BY DEF LockForPayout, CommitPayouts
  <1> QED
    BY <1>1, <1>2, <1>3, <1>4 DEF Acts, SessionStep, PayoutStep

\* The rows a distribution computes are backed: they share out the revenue,
\* and the revenue is what the payments say.
LEMMA SharesAreBacked ==
    ASSUME FullInv, RowsFinite, PaymentsMade, NEW p, NEW last \in Contributors(p)
    PROVE  Backed(Shares(p, last), p)
  <1>1. Revenue(p) \in Nat /\ Earned(p) = Revenue(p)
    BY EarnedIsRevenue DEF FullInv
  <1>2. PICK S : S = Shares(p, last)
    OBVIOUS
  <1>3. /\ IsFiniteSet(S)
        /\ \A r \in S : r.amount \in Nat
        /\ Amounts(S) = Revenue(p)
    <2>1. PICK k : k = Amounts(S)
      OBVIOUS
    <2>2. Amounts(Shares(p, last)) = k
      BY <1>2, <2>1
    <2> QED
      BY <1>1, <1>2, <2>1, <2>2, SharesAreRevenue DEF FullInv
  <1>4. /\ {r.farmer : r \in S} = Contributors(p)
        /\ \A r, q \in S : r.farmer = q.farmer => r = q
    BY <1>2, SharesRows
  <1>5. Backed(S, p)
    BY <1>1, <1>3, <1>4 DEF Backed
  <1> QED
    BY <1>2, <1>5

\* The rows about to be committed are backed in every state.
LEMMA DueBackedStep ==
    ASSUME FullInv, RowsFinite, MoneyInv, Next,
           NEW s \in Sessions, pc'[s] = "payout_commit"
    PROVE  Backed(due[s], Request[s].pool)'
  <1>1. PICK S : S = due'[s]
    OBVIOUS
  <1>2. Backed(S, Request[s].pool)
    <2>1. CASE ~Acts(s)
      <3>1. pc[s] = "payout_commit" /\ due[s] = S
        BY <1>1, <2>1, Bystander, DueStep DEF FullInv, WorkInv
      <3> QED
        BY <3>1 DEF MoneyInv
    <2>2. CASE Acts(s)
      <3>1. ComputeShares(s)
        BY <2>2, ToPayoutCommit DEF FullInv
      <3>2. PICK last \in LastInLine(Request[s].pool) : due' = [due EXCEPT ![s] = Shares(Request[s].pool, last)]
        BY <3>1 DEF ComputeShares, FullInv, TypeInv, TypeOK
      <3>3. S = Shares(Request[s].pool, last) /\ last \in Contributors(Request[s].pool)
        BY <1>1, <3>2 DEF FullInv, WorkInv, PayoutsPending, LastInLine
      <3> QED
        BY <3>3, SharesAreBacked DEF MoneyInv
    <2> QED
      BY <2>1, <2>2
  <1>3. Backed(S, Request[s].pool)'
    BY <1>2, BackedKept DEF MoneyInv
  <1> QED
    BY <1>1, <1>3 DEF Backed

\* The rows committed are backed in every state: a distribution commits the
\* first rows of its pool, and all of them.
LEMMA PaidBackedStep ==
    ASSUME FullInv, MoneyInv, Next, NEW p \in Pools
    PROVE  Backed(PayoutsOf(p), p)'
  <1>1. PICK S : S = PayoutsOf(p)'
    BY SMTT(30)
  <1>2. Backed(S, p)
    <2>1. CASE payouts' = payouts
      <3>1. S = PayoutsOf(p)
        BY <1>1, <2>1 DEF PayoutsOf
      <3> QED
        BY <3>1 DEF MoneyInv
    <2>2. ASSUME NEW s \in Sessions, CommitPayouts(s), payouts' # payouts PROVE Backed(S, p)
      <3>1. pc[s] = "payout_commit" /\ ~Clashes(s) /\ PayoutsOf(Request[s].pool) = {} /\ DueRows(s)
        BY <2>2, NoClash DEF CommitPayouts
      <3>2. payouts' = payouts \cup due[s] /\ \A r \in due[s] : r.pool = Request[s].pool
        BY <2>2, <3>1 DEF CommitPayouts, DueRows
      <3>3. CASE p = Request[s].pool
        <4>1. S = due[s]
          BY <1>1, <3>1, <3>2, <3>3 DEF PayoutsOf
        <4> QED
          BY <3>1, <3>3, <4>1 DEF MoneyInv
      <3>4. CASE p # Request[s].pool
        <4>1. S = PayoutsOf(p)
          BY <1>1, <3>2, <3>4 DEF PayoutsOf
        <4> QED
          BY <4>1 DEF MoneyInv
      <3> QED
        BY <3>3, <3>4
    <2> QED
      BY <2>1, <2>2, TableSteps
      DEF Committing, CreatePool, CommitClose, CommitContribution, CommitOrder, CommitEvent,
          LockPaidOrder, CommitPayment, CommitExpired
  <1>3. Backed(S, p)'
    BY <1>2, BackedKept DEF MoneyInv
  <1> QED
    BY <1>1, <1>3 DEF Backed

\* All of it survives every step and stutter.
LEMMA MoneyInvStep == ASSUME FullInv, RowsFinite, MoneyInv, [Next]_vars PROVE MoneyInv'
  <1>1. PaymentsMade'
    BY MoneyGrows DEF MoneyInv
  <1>2. CASE Next
    BY <1>1, <1>2, DueBackedStep, PaidBackedStep DEF MoneyInv
  <1>3. CASE UNCHANGED vars
    <2>1. ASSUME NEW S, NEW p, Backed(S, p) PROVE Backed(S, p)'
      BY <2>1, BackedKept DEF MoneyInv
    <2>2. ASSUME NEW s \in Sessions, pc'[s] = "payout_commit" PROVE Backed(due[s], Request[s].pool)'
      <3>1. PICK S : S = due'[s]
        OBVIOUS
      <3>2. Backed(S, Request[s].pool)
        BY <1>3, <2>2, <3>1 DEF vars, MoneyInv
      <3> QED
        BY <2>1, <3>1, <3>2 DEF Backed
    <2>3. ASSUME NEW p \in Pools PROVE Backed(PayoutsOf(p), p)'
      <3>1. PICK S : S = PayoutsOf(p)'
        OBVIOUS
      <3>2. Backed(S, p)
        BY <1>3, <3>1 DEF vars, MoneyInv, PayoutsOf
      <3> QED
        BY <2>1, <3>1, <3>2 DEF Backed
    <2> QED
      BY <1>1, <2>2, <2>3 DEF MoneyInv
  <1> QED
    BY <1>2, <1>3

\* Nobody has paid or been paid at the start.
LEMMA MoneyInvInit == ASSUME Init PROVE MoneyInv
  <1>1. payments = {} /\ \A s \in Sessions : pc[s] # "payout_commit"
    BY NamesAssumption DEF Init
  <1>2. PaymentsMade
    BY <1>1, FS_EmptySet DEF PaymentsMade
  <1>3. ASSUME NEW p \in Pools PROVE Backed({}, p)
    <2>1. Amounts({}) = 0
      <3>1. IsFiniteSet({}) /\ \A r \in {} : [x \in {} |-> 0][r] = r.amount
        BY FS_EmptySet
      <3> QED
        BY <3>1, AmountsIsSum, SumEmpty
    <2>2. Earned(p) \in Nat
      BY <1>2, FullInvInit, EarnedIsNat DEF FullInv
    <2> QED
      BY <2>1, <2>2, FS_EmptySet DEF Backed
  <1>4. \A p \in Pools : PayoutsOf(p) = {}
    BY DEF Init, PayoutsOf
  <1> QED
    BY <1>1, <1>2, <1>3, <1>4 DEF MoneyInv

\* Farmers receive no more than the payments table holds and what its rows fall
\* short of their orders, nobody a negative amount, and only farmers who
\* contributed to that pool are paid, once each, whatever amounts the events
\* carry and however distributions, late payments, sweeps and failures interleave.
THEOREM PayoutsBacked == Spec => []PayoutsAreBacked
  <1>1. FullInv /\ GoodsInv /\ MoneyInv /\ [Next]_vars => (GoodsInv /\ MoneyInv)'
    BY GoodsInvStep, MoneyInvStep DEF GoodsInv
  <1>2. Init => GoodsInv /\ MoneyInv
    BY GoodsInvInit, MoneyInvInit
  <1>3. ASSUME FullInv, MoneyInv, NEW p \in Pools
        PROVE  Backed(PayoutsOf(p), p) /\ Amounts(PayoutsOf(p)) <= Collected(p) + Shortfall(p)
    <2>1. Amounts(PayoutsOf(p)) \in Nat /\ Earned(p) \in Nat /\ Amounts(PayoutsOf(p)) <= Earned(p)
      BY <1>3, EarnedIsNat DEF MoneyInv, Backed, FullInv
    <2>2. Collected(p) \in Nat /\ Shortfall(p) \in Nat /\ Earned(p) <= Collected(p) + Shortfall(p)
      BY <1>3, PaymentsAndShortfall DEF MoneyInv, FullInv
    <2>3. \A a, b, c, d \in Nat : a <= b /\ b <= c + d => a <= c + d
      OBVIOUS
    <2> QED
      BY <1>3, <2>1, <2>2, <2>3 DEF MoneyInv
  <1>4. FullInv /\ MoneyInv => PayoutsAreBacked
    BY <1>3 DEF Backed, PayoutsAreBacked
  <1> QED
    BY <1>1, <1>2, <1>4, FullInvHolds, PTL DEF Spec

-----------------------------------------------------------------------------
(***************************************************************************)
(* The shares of a distribution when they are computed.                    *)
(***************************************************************************)

\* Only ComputeShares gives a distribution rows to commit.
LEMMA ToDueRows ==
    ASSUME TypeInv, PayoutsPending, Next, NEW s \in Sessions, due'[s] \notin {{}, due[s]}
    PROVE  ComputeShares(s)
  <1>1. Acts(s) /\ s \notin Sweepers
    BY DueStep, NamesAssumption
  <1>2. PoolStep(s) \/ ContributionStep(s) \/ OrderStep(s) => due' = due
    BY DEF PoolStep, ContributionStep, OrderStep, CreatePool, LockForClose, CommitClose,
           LockForContribution, CommitContribution, FindByKey, LockForOrder, FlushOrder, CommitOrder,
           RereadByKey
  <1>3. PaymentStep(s) => due' = due
    BY DEF PaymentStep, InitializePayment, OpenTransaction, RecordEvent, CommitEvent, LockPaidOrder,
           CommitPayment
  <1>4. Abort(s) \/ CommitPayouts(s) => due'[s] = {}
    BY DEF Abort, CommitPayouts, PayoutsPending
  <1>5. LockForPayout(s) => due' = due
    BY DEF LockForPayout
  <1> QED
    BY <1>1, <1>2, <1>3, <1>4, <1>5 DEF Acts, SessionStep, PayoutStep

\* Payouts are computed to the exact revenue, each a rounding away from its
\* farmer's proportion, for any prices, quantities and numbers of farmers.
THEOREM SharedOut == Spec => RevenueIsSharedOut
  <1> DEFINE Exact(s) == /\ Amounts(due'[s]) = Revenue(Request[s].pool)
                         /\ \A r \in due'[s] : NearProportion(r, Request[s].pool)
  <1>1. ASSUME FullInv, GoodsInv, MoneyInv, Next,
               NEW s \in Distributions, due'[s] \notin {{}, due[s]}
        PROVE  Exact(s)
    <2>1. PICK S : S = due'[s]
      OBVIOUS
    <2>2. PICK p : p = Request[s].pool
      OBVIOUS
    <2>3. s \in Sessions
      BY DEF Distributions, Carrying
    <2>4. ComputeShares(s)
      BY <1>1, <2>3, ToDueRows DEF FullInv, WorkInv
    <2>5. PICK last \in LastInLine(p) : due' = [due EXCEPT ![s] = Shares(p, last)]
      BY <1>1, <2>2, <2>4 DEF ComputeShares
    <2>6. S = Shares(p, last) /\ last \in Contributors(p)
      BY <1>1, <2>1, <2>3, <2>5 DEF FullInv, WorkInv, PayoutsPending, LastInLine
    <2>7. Revenue(p) \in Nat
      BY <1>1, EarnedIsRevenue DEF FullInv, GoodsInv, MoneyInv
    <2>8. Amounts(Shares(p, last)) = Revenue(p) /\ \A r \in Shares(p, last) : NearProportion(r, p)
      BY <1>1, <2>6, <2>7, SharesAreRevenue DEF FullInv, GoodsInv
    <2>9. PICK R : R = Revenue(p)
      OBVIOUS
    <2>10. Amounts(S) = R
      BY <2>6, <2>8, <2>9
    <2> QED
      BY <2>1, <2>2, <2>6, <2>8, <2>9, <2>10
  <1>2. FullInv /\ GoodsInv /\ MoneyInv /\ [Next]_vars =>
            [\A s \in Distributions : due'[s] \notin {{}, due[s]} => Exact(s)]_vars
    BY <1>1
  <1>3. FullInv /\ GoodsInv /\ MoneyInv /\ [Next]_vars => (GoodsInv /\ MoneyInv)'
    BY GoodsInvStep, MoneyInvStep DEF GoodsInv
  <1>4. Init => GoodsInv /\ MoneyInv
    BY GoodsInvInit, MoneyInvInit
  <1> QED
    BY <1>2, <1>3, <1>4, FullInvHolds, PTL DEF Spec, RevenueIsSharedOut
=============================================================================
