---------------------------- MODULE FarmLinkProofs ----------------------------
(***************************************************************************)
(* Theorems about FarmLink for every workload, any number of sweepers and  *)
(* any number of failures.  Each invariant of FarmLink is proved from an   *)
(* inductive one, built up in layers: TypeInv (where a session can be and  *)
(* what it reserved), LockInv (what holding a pool's lock means), and so   *)
(* on.  A layer's step lemma assumes the layers below it.                  *)
(***************************************************************************)
EXTENDS FarmLink, TLAPS

\* The bookkeeping every action is written with.
USE DEF Goto, Reply, Refuse, LockPool, UnlockPool, LockOrder, UnlockOrder, ReleaseAll,
        tables, locks, sweep, outside, background, Processes

-----------------------------------------------------------------------------
(***************************************************************************)
(* Layer 1: types, and which labels a session of each kind can be at.      *)
(***************************************************************************)

LabelsOf(op) ==
    CASE op = "create_pool"  -> {"start", "done"}
      [] op = "close_pool"   -> {"start", "close_commit", "done"}
      [] op = "contribute"   -> {"start", "contribution_commit", "done"}
      [] op = "order"        -> {"start", "order_lock", "order_flush", "order_commit",
                                 "order_reread", "done"}
      [] op = "initialize"   -> {"start", "paystack_open", "done"}
      [] op = "webhook"      -> {"start", "event_commit", "webhook_order", "payment_commit", "done"}
      [] op = "distribute"   -> {"start", "payout_shares", "payout_commit", "done"}

Expiring == {"expire_order", "expire_pool", "expire_commit"}

LabelsFit ==
    /\ \A s \in Sessions : pc[s] \in LabelsOf(Request[s].op)
    /\ \A w \in Sweepers : pc[w] \in {"idle", "sweep_next"} \cup Expiring
    /\ \A w \in Sweepers : pc[w] \in Expiring => current[w] \in Orders
    /\ \A s \in Sessions : pc[s] \in {"webhook_order", "payment_commit"} => ActedOn(s)

\* What an order session is about to take off the row is there to be taken.
StockReserved ==
    \A s \in Orders : pc[s] \in {"order_flush", "order_commit"} => Sellable(s, row[s])

TypeInv == TypeOK /\ LabelsFit /\ StockReserved

\* What a service does to a pool row leaves a pool row, a sale only if the
\* stock is there.
LEMMA RowTypes ==
    /\ NoRow \in PoolRow
    /\ \A r \in PoolRow, q \in Nat :
          /\ Stocked(r, q) \in PoolRow
          /\ Released(r, q) \in PoolRow
          /\ Closed(r) \in PoolRow
          /\ [r EXCEPT !.status = "open"] \in PoolRow
          /\ q <= r.available_qty => Sold(r, q) \in PoolRow
  BY DEF PoolRow, NoRow, Stocked, Released, Closed, Sold

\* What a session's label says about its request.
LEMMA RequestTypes ==
    ASSUME LabelsFit
    PROVE  /\ \A s \in Sessions :
                 Request[s].op \notin {"initialize", "webhook"} => Request[s].pool \in Pools
           /\ \A s \in Sessions :
                 /\ pc[s] \in {"close_commit", "contribution_commit", "payout_shares", "payout_commit"}
                        => Request[s].pool \in Pools
                 /\ pc[s] \in {"order_lock", "order_flush", "order_commit", "order_reread"}
                        => s \in Orders
                 /\ pc[s] = "contribution_commit" => s \in Contributions
                 /\ pc[s] = "paystack_open" => Request[s].op = "initialize"
                 /\ pc[s] \in {"payout_shares", "payout_commit"} => s \in Distributions
                 /\ pc[s] \in {"event_commit", "webhook_order", "payment_commit"} => s \in Webhooks
                 /\ pc[s] \in {"webhook_order", "payment_commit"} => Reference(s) \in Orders
                 /\ pc[s] \notin {"idle", "sweep_next"} \cup Expiring
           /\ \A s \in Orders \cup Contributions : Request[s].qty \in Nat /\ Request[s].pool \in Pools
           /\ \A w \in Sweepers : pc[w] \in Expiring => Request[current[w]].pool \in Pools
  <1>1. \A s \in Orders \cup Contributions : Request[s].qty \in Nat /\ Request[s].pool \in Pools
    BY RequestsAssumption DEF Orders, Contributions, Carrying
  <1>2. \A s \in Sessions : Request[s].op \in Ops /\ pc[s] \in LabelsOf(Request[s].op)
    BY RequestsAssumption DEF LabelsFit
  <1>3. \A s \in Sessions : pc[s] \in {"webhook_order", "payment_commit"} => Reference(s) \in Orders
    BY <1>2, RequestsAssumption DEF LabelsFit, LabelsOf, Ops, ActedOn, Reference, Webhooks, Carrying
  <1>4. \A w \in Sweepers : pc[w] \in Expiring => Request[current[w]].pool \in Pools
    BY <1>1 DEF LabelsFit
  <1>5. QED
    BY <1>1, <1>2, <1>3, <1>4, RequestsAssumption
    DEF LabelsOf, Ops, Orders, Contributions, Webhooks, Distributions, Carrying, Expiring

\* Every action keeps the types; the checks made under the lock keep the
\* quantities natural numbers.
LEMMA TypeOKStep ==
    ASSUME TypeInv, Next
    PROVE  TypeOK'
  <1> USE DEF TypeInv, TypeOK, Labels, Outcomes
  <1>1. ASSUME NEW s \in Sessions, CreatePool(s) \/ LockForClose(s) PROVE TypeOK'
    <2>1. Request[s].pool \in Pools
      BY <1>1, RequestTypes DEF CreatePool, LockForClose
    <2>2. CASE CreatePool(s)
      <3>1. [pools[Request[s].pool] EXCEPT !.status = "open"] \in PoolRow
        BY <2>1, RowTypes
      <3>2. pools' \in [Pools -> PoolRow]
        BY <2>2, <2>1, <3>1 DEF CreatePool
      <3>3. QED
        BY <2>2, <3>2 DEF CreatePool
    <2>3. CASE LockForClose(s)
      BY <2>3, <2>1 DEF LockForClose
    <2>4. QED
      BY <1>1, <2>2, <2>3
  <1>2. ASSUME NEW s \in Sessions, CommitClose(s) PROVE TypeOK'
    BY <1>2, RowTypes, RequestTypes DEF CommitClose
  <1>3. ASSUME NEW s \in Sessions, LockForContribution(s) PROVE TypeOK'
    BY <1>3, RowTypes, RequestTypes DEF LockForContribution
  <1>4. ASSUME NEW s \in Sessions, CommitContribution(s) PROVE TypeOK'
    <2>1. s \in Contributions /\ Stocked(row[s], Request[s].qty) \in PoolRow
      BY <1>4, RowTypes, RequestTypes DEF CommitContribution
    <2>2. QED
      BY <1>4, <2>1, RowTypes, RequestTypes DEF CommitContribution
  <1>5. ASSUME NEW s \in Sessions, FindByKey(s) \/ RereadByKey(s) PROVE TypeOK'
    <2>1. FoundByKey(s) \subseteq Orders
      BY DEF FoundByKey, Placed
    <2>2. CASE FindByKey(s)
      BY <2>1, <2>2 DEF FindByKey
    <2>3. CASE RereadByKey(s)
      BY <2>1, <2>3 DEF RereadByKey
    <2>4. QED
      BY <1>5, <2>2, <2>3
  <1>6. ASSUME NEW s \in Sessions, LockForOrder(s) PROVE TypeOK'
    BY <1>6, RowTypes, RequestTypes DEF LockForOrder
  <1>7. ASSUME NEW s \in Sessions, FlushOrder(s) PROVE TypeOK'
    BY <1>7, RowTypes, RequestTypes, SMTT(30) DEF FlushOrder
  <1>8. ASSUME NEW s \in Sessions, CommitOrder(s) PROVE TypeOK'
    <2>1. s \in Orders /\ Sold(row[s], Request[s].qty) \in PoolRow
      BY <1>8, RowTypes, RequestTypes DEF CommitOrder, StockReserved, Sellable
    <2>2. QED
      BY <1>8, <2>1, RowTypes, RequestTypes DEF CommitOrder
  <1>9. ASSUME NEW s \in Sessions, InitializePayment(s) \/ OpenTransaction(s) PROVE TypeOK'
    <2>1. Request[s].op = "initialize"
      BY <1>9, RequestTypes DEF InitializePayment, OpenTransaction
    <2>2. Request[s].order \in Orders
      BY <2>1, RequestsAssumption DEF Carrying
    <2>3. QED
      BY <1>9, <2>2 DEF InitializePayment, OpenTransaction
  <1>10. ASSUME NEW s \in Sessions, RecordEvent(s) \/ CommitEvent(s) PROVE TypeOK'
    BY <1>10 DEF RecordEvent, CommitEvent
  <1>11. ASSUME NEW s \in Sessions, LockPaidOrder(s) PROVE TypeOK'
    BY <1>11, RequestTypes DEF LockPaidOrder
  <1>12. ASSUME NEW s \in Sessions, CommitPayment(s) PROVE TypeOK'
    <2>1. s \in Webhooks /\ Reference(s) \in Orders
      BY <1>12, RequestTypes DEF CommitPayment
    <2>2. QED
      BY <1>12, <2>1 DEF CommitPayment
  <1>13. ASSUME NEW s \in Sessions, PayoutStep(s) PROVE TypeOK'
    BY <1>13, RowTypes, RequestTypes, SMTT(30) DEF PayoutStep, LockForPayout, ComputeShares, CommitPayouts
  <1>14. ASSUME NEW s \in Sessions, Abort(s) PROVE TypeOK'
    BY <1>14, RowTypes DEF Abort
  <1>15. ASSUME NEW w \in Sweepers, FindExpired(w) \/ NextCandidate(w) PROVE TypeOK'
    BY <1>15 DEF FindExpired, NextCandidate
  <1>16. ASSUME NEW w \in Sweepers, LockExpired(w) PROVE TypeOK'
    BY <1>16, RequestTypes DEF LockExpired
  <1>17. ASSUME NEW w \in Sweepers, LockExpiredPool(w) PROVE TypeOK'
    <2>1. Request[current[w]].pool \in Pools
      BY <1>17, RequestTypes DEF LockExpiredPool, Expiring
    <2>2. QED
      BY <1>17, <2>1 DEF LockExpiredPool
  <1>18. ASSUME NEW w \in Sweepers, CommitExpired(w) PROVE TypeOK'
    <2>1. current[w] \in Orders /\ Released(row[w], Request[current[w]].qty) \in PoolRow
      BY <1>18, RowTypes, RequestTypes DEF CommitExpired, LabelsFit, Expiring
    <2>2. Request[current[w]].pool \in Pools
      BY <2>1, RequestTypes
    <2>3. QED
      BY <1>18, <2>1, <2>2, RowTypes DEF CommitExpired
  <1>19. ASSUME NEW w \in Sweepers, AbortSweep(w) PROVE TypeOK'
    BY <1>19, RowTypes DEF AbortSweep
  <1>20. ASSUME NEW o \in Orders, Age(o) PROVE TypeOK'
    BY <1>20 DEF Age
  <1>21. CASE Quiet
    BY <1>21 DEF Quiet, vars
  <1>22. QED
    BY <1>1, <1>2, <1>3, <1>4, <1>5, <1>6, <1>7, <1>8, <1>9, <1>10, <1>11, <1>12, <1>13, <1>14,
       <1>15, <1>16, <1>17, <1>18, <1>19, <1>20, <1>21
    DEF Next, SessionStep, PoolStep, ContributionStep, OrderStep, PaymentStep, SweepStep

\* A step of one session keeps the labels of the others as they were.
LEMMA LabelsFitFrame ==
    ASSUME TypeInv, NEW s \in Sessions, NEW label,
           pc' = [pc EXCEPT ![s] = label], UNCHANGED current,
           label \in LabelsOf(Request[s].op),
           label \in {"webhook_order", "payment_commit"} => ActedOn(s)
    PROVE  LabelsFit'
  <1>1. pc'[s] = label /\ \A x \in Processes \ {s} : pc'[x] = pc[x]
    BY DEF TypeInv, TypeOK
  <1>2. s \notin Sweepers
    BY NamesAssumption
  <1>3. QED
    BY <1>1, <1>2 DEF TypeInv, LabelsFit, ActedOn, Reference

\* No step takes a session or a sweeper to a label its request does not have.
LEMMA LabelsFitStep ==
    ASSUME TypeInv, Next
    PROVE  LabelsFit'
  <1>1. ASSUME NEW s \in Sessions, PoolStep(s) PROVE LabelsFit'
    <2>1. CASE CreatePool(s)
      BY <2>1, LabelsFitFrame DEF CreatePool, LabelsOf
    <2>2. CASE LockForClose(s)
      BY <2>2, LabelsFitFrame DEF LockForClose, LabelsOf
    <2>3. CASE CommitClose(s)
      <3>1. "done" \in LabelsOf(Request[s].op)
        BY <2>3, RequestsAssumption DEF LabelsOf, Ops
      <3>2. QED
        BY <2>3, <3>1, LabelsFitFrame DEF CommitClose
    <2>4. QED
      BY <1>1, <2>1, <2>2, <2>3 DEF PoolStep
  <1>2. ASSUME NEW s \in Sessions, ContributionStep(s) PROVE LabelsFit'
    <2>1. Request[s].op = "contribute"
      BY <1>2, RequestTypes
      DEF ContributionStep, LockForContribution, CommitContribution, Contributions, Carrying, TypeInv
    <2>2. QED
      BY <1>2, <2>1, LabelsFitFrame
      DEF ContributionStep, LockForContribution, CommitContribution, LabelsOf
  <1>3. ASSUME NEW s \in Sessions, OrderStep(s) PROVE LabelsFit'
    <2>1. Request[s].op = "order"
      BY <1>3, RequestTypes
      DEF OrderStep, FindByKey, LockForOrder, FlushOrder, CommitOrder, RereadByKey,
          Orders, Carrying, TypeInv
    <2>2. QED
      BY <1>3, <2>1, LabelsFitFrame
      DEF OrderStep, FindByKey, LockForOrder, FlushOrder, CommitOrder, RereadByKey, LabelsOf
  <1>4. ASSUME NEW s \in Sessions, PaymentStep(s) PROVE LabelsFit'
    <2>1. CASE InitializePayment(s) \/ OpenTransaction(s)
      <3>1. Request[s].op = "initialize"
        BY <2>1, RequestTypes DEF InitializePayment, OpenTransaction, TypeInv
      <3>2. QED
        BY <2>1, <3>1, LabelsFitFrame DEF InitializePayment, OpenTransaction, LabelsOf
    <2>2. CASE RecordEvent(s)
      BY <2>2, LabelsFitFrame DEF RecordEvent, LabelsOf
    <2>3. CASE CommitEvent(s) \/ LockPaidOrder(s) \/ CommitPayment(s)
      <3>1. Request[s].op = "webhook"
        BY <2>3, RequestTypes DEF CommitEvent, LockPaidOrder, CommitPayment, Webhooks, Carrying, TypeInv
      <3>2. pc[s] \in {"webhook_order", "payment_commit"} => ActedOn(s)
        BY DEF TypeInv, LabelsFit
      <3>3. QED
        BY <2>3, <3>1, <3>2, LabelsFitFrame DEF CommitEvent, LockPaidOrder, CommitPayment, LabelsOf
    <2>4. QED
      BY <1>4, <2>1, <2>2, <2>3 DEF PaymentStep
  <1>5. ASSUME NEW s \in Sessions, PayoutStep(s) PROVE LabelsFit'
    <2>1. Request[s].op = "distribute"
      BY <1>5, RequestTypes
      DEF PayoutStep, LockForPayout, ComputeShares, CommitPayouts, Distributions, Carrying, TypeInv
    <2>2. QED
      BY <1>5, <2>1, LabelsFitFrame
      DEF PayoutStep, LockForPayout, ComputeShares, CommitPayouts, LabelsOf
  <1>6. ASSUME NEW s \in Sessions, Abort(s) PROVE LabelsFit'
    <2>1. "done" \in LabelsOf(Request[s].op)
      BY RequestsAssumption DEF LabelsOf, Ops
    <2>2. QED
      BY <1>6, <2>1, LabelsFitFrame DEF Abort
  <1>7. ASSUME NEW w \in Sweepers, SweepStep(w) \/ AbortSweep(w) PROVE LabelsFit'
    <2>1. \A s \in Sessions : pc'[s] = pc[s]
      BY <1>7, NamesAssumption
      DEF SweepStep, FindExpired, NextCandidate, LockExpired, LockExpiredPool, CommitExpired,
          AbortSweep, TypeInv, TypeOK
    <2>2. \A v \in Sweepers :
             /\ pc'[v] \in {"idle", "sweep_next"} \cup Expiring
             /\ pc'[v] \in Expiring => current'[v] \in Orders
      BY <1>7
      DEF SweepStep, FindExpired, NextCandidate, LockExpired, LockExpiredPool, CommitExpired,
          AbortSweep, TypeInv, TypeOK, LabelsFit, Expiring
    <2>3. QED
      BY <2>1, <2>2 DEF TypeInv, LabelsFit, ActedOn, Reference
  <1>8. ASSUME NEW o \in Orders, Age(o) PROVE LabelsFit'
    BY <1>8 DEF Age, TypeInv, LabelsFit, ActedOn, Reference
  <1>9. CASE Quiet
    BY <1>9 DEF Quiet, vars, TypeInv, LabelsFit, ActedOn, Reference
  <1>10. QED
    BY <1>1, <1>2, <1>3, <1>4, <1>5, <1>6, <1>7, <1>8, <1>9 DEF Next, SessionStep

\* The row a session reserved stock on is its own until it is done with it.
LEMMA StockReservedStep ==
    ASSUME TypeInv, Next
    PROVE  StockReserved'
  <1> USE NamesAssumption DEF TypeInv, TypeOK, StockReserved, Sellable
  <1> USE DEF Orders, Carrying
  <1>1. ASSUME NEW s \in Sessions, PoolStep(s) PROVE StockReserved'
    BY <1>1 DEF PoolStep, CreatePool, LockForClose, CommitClose
  <1>2. ASSUME NEW s \in Sessions, ContributionStep(s) PROVE StockReserved'
    BY <1>2 DEF ContributionStep, LockForContribution, CommitContribution
  <1>3. ASSUME NEW s \in Sessions, OrderStep(s) PROVE StockReserved'
    BY <1>3 DEF OrderStep, FindByKey, LockForOrder, FlushOrder, CommitOrder, RereadByKey
  <1>4. ASSUME NEW s \in Sessions, PaymentStep(s) PROVE StockReserved'
    BY <1>4 DEF PaymentStep, InitializePayment, OpenTransaction, RecordEvent, CommitEvent,
                LockPaidOrder, CommitPayment
  <1>5. ASSUME NEW s \in Sessions, PayoutStep(s) PROVE StockReserved'
    BY <1>5 DEF PayoutStep, LockForPayout, ComputeShares, CommitPayouts
  <1>6. ASSUME NEW s \in Sessions, Abort(s) PROVE StockReserved'
    BY <1>6 DEF Abort
  <1>7. ASSUME NEW w \in Sweepers, SweepStep(w) PROVE StockReserved'
    BY <1>7 DEF SweepStep, FindExpired, NextCandidate, LockExpired, LockExpiredPool, CommitExpired
  <1>8. ASSUME NEW w \in Sweepers, AbortSweep(w) PROVE StockReserved'
    BY <1>8 DEF AbortSweep
  <1>9. ASSUME NEW o \in Orders, Age(o) PROVE StockReserved'
    BY <1>9 DEF Age
  <1>10. CASE Quiet
    BY <1>10 DEF Quiet, vars
  <1>11. QED
    BY <1>1, <1>2, <1>3, <1>4, <1>5, <1>6, <1>7, <1>8, <1>9, <1>10 DEF Next, SessionStep

\* The types, labels and reservations hold at the start.
LEMMA TypeInvInit == ASSUME Init PROVE TypeInv
  BY NamesAssumption, RequestsAssumption, RowTypes
  DEF Init, TypeInv, TypeOK, LabelsFit, LabelsOf, StockReserved, Labels, Outcomes, Ops, Expiring,
      Orders, Carrying

\* The types, labels and reservations survive every step and stutter.
LEMMA TypeInvStep == ASSUME TypeInv, [Next]_vars PROVE TypeInv'
  <1>1. CASE Next
    BY <1>1, TypeOKStep, LabelsFitStep, StockReservedStep DEF TypeInv
  <1>2. CASE UNCHANGED vars
    BY <1>2 DEF vars, TypeInv, TypeOK, LabelsFit, StockReserved, Sellable, ActedOn, Reference
  <1>3. QED
    BY <1>1, <1>2

\* Every variable keeps its type; in particular no pool row, committed or held
\* under a lock, ever has less than nothing left to sell.
THEOREM TypeCorrect == Spec => []TypeOK
  <1>1. Spec => []TypeInv
    BY TypeInvInit, TypeInvStep, PTL DEF Spec
  <1>2. TypeInv => TypeOK
    BY DEF TypeInv
  <1>3. QED
    BY <1>1, <1>2, PTL

-----------------------------------------------------------------------------
(***************************************************************************)
(* Layer 2: what holding a pool's row lock means.  The row in hand is the  *)
(* committed one, and the status it was checked for is still its status.   *)
(***************************************************************************)

StatusChecked ==
    \A s \in Sessions :
        /\ pc[s] \in {"close_commit", "contribution_commit", "order_flush", "order_commit"}
               => row[s].status = "open"
        /\ pc[s] \in {"payout_shares", "payout_commit"} => row[s].status = "closed"

\* An order's pool exists, and so does an order whose row is locked.
RowsExist ==
    /\ \A o \in Placed : pools[Request[o].pool].status # "absent"
    /\ \A w \in Sweepers : pc[w] \in {"expire_pool", "expire_commit"} => current[w] \in Placed
    /\ \A s \in Sessions : pc[s] = "payment_commit" => Reference(s) \in Placed

LockInv == LockedRowIsFresh /\ StatusChecked /\ RowsExist

\* Who takes a step, and what every other process keeps.
Acts(x) ==
    \/ x \in Sessions /\ (SessionStep(x) \/ Abort(x))
    \/ x \in Sweepers /\ (SweepStep(x) \/ AbortSweep(x))

\* A process that does not act in a step is left as it was by it.
LEMMA Bystander ==
    ASSUME TypeInv, Next, NEW x \in Processes, ~Acts(x)
    PROVE  /\ pc'[x] = pc[x]
           /\ row'[x] = row[x]
           /\ x \in Sweepers => current'[x] = current[x]
           /\ x \in Sessions => answer'[x] = answer[x]
  <1> USE NamesAssumption DEF TypeInv, TypeOK
  <1>1. ASSUME NEW s \in Sessions \ {x}, SessionStep(s) \/ Abort(s)
        PROVE  /\ pc'[x] = pc[x] /\ row'[x] = row[x] /\ current' = current
               /\ x \in Sessions => answer'[x] = answer[x]
    <2>1. CASE PoolStep(s)
      BY <1>1, <2>1
      DEF PoolStep, CreatePool, LockForClose, CommitClose
    <2>2. CASE ContributionStep(s)
      BY <1>1, <2>2
      DEF ContributionStep, LockForContribution, CommitContribution
    <2>3. CASE OrderStep(s)
      BY <1>1, <2>3
      DEF OrderStep, FindByKey, LockForOrder, FlushOrder, CommitOrder, RereadByKey
    <2>4. CASE PaymentStep(s)
      BY <1>1, <2>4
      DEF PaymentStep, InitializePayment, OpenTransaction, RecordEvent, CommitEvent,
              LockPaidOrder, CommitPayment
    <2>5. CASE PayoutStep(s)
      BY <1>1, <2>5
      DEF PayoutStep, LockForPayout, ComputeShares, CommitPayouts
    <2>6. CASE Abort(s)
      BY <1>1, <2>6
      DEF Abort
    <2>7. QED
      BY <1>1, <2>1, <2>2, <2>3, <2>4, <2>5, <2>6 DEF SessionStep
  <1>2. ASSUME NEW w \in Sweepers \ {x}, SweepStep(w) \/ AbortSweep(w)
        PROVE  /\ pc'[x] = pc[x] /\ row'[x] = row[x] /\ answer' = answer
               /\ x \in Sweepers => current'[x] = current[x]
    BY <1>2
    DEF SweepStep, FindExpired, NextCandidate, LockExpired, LockExpiredPool, CommitExpired, AbortSweep
  <1>3. ASSUME Quiet \/ \E o \in Orders : Age(o)
        PROVE  UNCHANGED <<pc, row, current, answer>>
    BY <1>3 DEF Quiet, Age, vars
  <1>4. QED
    BY <1>1, <1>2, <1>3 DEF Next, Acts

\* A session reaches "payment_commit" by locking its order.
LEMMA ToPaymentCommit ==
    ASSUME TypeInv, NEW s \in Sessions, Acts(s), pc'[s] = "payment_commit"
    PROVE  LockPaidOrder(s)
  <1> USE NamesAssumption DEF TypeInv, TypeOK
  <1>1. ~PoolStep(s) /\ ~ContributionStep(s) /\ ~PayoutStep(s) /\ ~Abort(s)
    BY DEF PoolStep, ContributionStep, PayoutStep, CreatePool, LockForClose, CommitClose,
           LockForContribution, CommitContribution, LockForPayout, ComputeShares, CommitPayouts, Abort
  <1>2. ~OrderStep(s)
    BY DEF OrderStep, FindByKey, LockForOrder, FlushOrder, CommitOrder, RereadByKey
  <1>3. QED
    BY <1>1, <1>2
    DEF Acts, SessionStep, PaymentStep, InitializePayment, OpenTransaction, RecordEvent,
        CommitEvent, CommitPayment

\* A process under a pool lock is working on a pool.
LEMMA PoolOfTypes ==
    ASSUME TypeInv, NEW x \in Processes, pc[x] \in UnderPoolLock
    PROVE  PoolOf(x) \in Pools
  <1>1. CASE x \in Sweepers
    <2>1. pc[x] \in Expiring
      BY <1>1 DEF TypeInv, LabelsFit, UnderPoolLock, Expiring
    <2>2. QED
      BY <1>1, <2>1, RequestTypes DEF TypeInv, PoolOf
  <1>2. CASE x \in Sessions
    <2>1. pc[x] # "expire_commit"
      BY <1>2, RequestTypes DEF TypeInv, Expiring
    <2>2. QED
      BY <1>2, <2>1, NamesAssumption, RequestTypes DEF TypeInv, PoolOf, UnderPoolLock
  <1>3. QED
    BY <1>1, <1>2

\* A process y that works on the lock of p, which it holds or nobody does,
\* disturbs no other holder; it remains to say what y itself holds.
LEMMA LockFrame ==
    ASSUME TypeInv, LockedRowIsFresh,
           NEW y \in Processes, NEW p \in Pools,
           pool_lock[p] \in {y, Free},
           \A x \in Processes \ {y} : pc'[x] = pc[x] /\ row'[x] = row[x],
           \A w \in Sweepers \ {y} : current'[w] = current[w],
           \A q \in Pools \ {p} : pool_lock'[q] = pool_lock[q] /\ pools'[q] = pools[q],
           pc'[y] \in UnderPoolLock =>
               pool_lock'[PoolOf(y)'] = y /\ row'[y] = pools'[PoolOf(y)']
    PROVE  LockedRowIsFresh'
  <1>1. SUFFICES ASSUME NEW x \in Processes \ {y}, pc[x] \in UnderPoolLock
                 PROVE  pool_lock'[PoolOf(x)'] = x /\ row'[x] = pools'[PoolOf(x)']
    BY DEF LockedRowIsFresh, UnderPoolLock
  <1>2. PoolOf(x)' = PoolOf(x)
    BY <1>1 DEF PoolOf
  <1>3. PoolOf(x) \in Pools
    BY <1>1, PoolOfTypes
  <1>4. pool_lock[PoolOf(x)] = x /\ row[x] = pools[PoolOf(x)]
    BY <1>1 DEF LockedRowIsFresh
  <1>5. PoolOf(x) # p
    BY <1>1, <1>4, NamesAssumption
  <1>6. QED
    BY <1>1, <1>2, <1>3, <1>4, <1>5

\* A step that leaves rows, locks and the sweep's position alone.
LEMMA LockIdle ==
    ASSUME TypeInv, LockedRowIsFresh,
           UNCHANGED <<pools, pool_lock, row>>,
           \A x \in Processes :
               pc'[x] \in UnderPoolLock => pc[x] \in UnderPoolLock /\ PoolOf(x)' = PoolOf(x)
    PROVE  LockedRowIsFresh'
  BY DEF LockedRowIsFresh, UnderPoolLock

\* Nobody holds the lock of a pool that does not exist yet.
LEMMA LockedPoolExists ==
    ASSUME TypeInv, LockInv, NEW x \in Processes, pc[x] \in UnderPoolLock
    PROVE  pools[PoolOf(x)].status # "absent"
  <1>1. row[x] = pools[PoolOf(x)]
    BY DEF LockInv, LockedRowIsFresh
  <1>2. CASE x \in Sweepers
    BY <1>2 DEF TypeInv, LabelsFit, LockInv, RowsExist, UnderPoolLock, Expiring, PoolOf
  <1>3. CASE x \in Sessions
    <2>1. pc[x] # "expire_commit"
      BY <1>3, RequestTypes DEF TypeInv, Expiring
    <2>2. QED
      BY <1>1, <1>3, <2>1 DEF LockInv, StatusChecked, UnderPoolLock
  <1>4. QED
    BY <1>2, <1>3

\* Every action keeps the rows read under a lock equal to the table: nobody
\* writes a pool without its lock, and the lock excludes everybody else.
LEMMA LockedRowStep ==
    ASSUME TypeInv, LockInv, Next
    PROVE  LockedRowIsFresh'
  <1> USE NamesAssumption DEF PoolOf, UnderPoolLock, LockInv
  <1>1. ASSUME NEW s \in Sessions, CreatePool(s) PROVE LockedRowIsFresh'
    <2>1. SUFFICES ASSUME NEW x \in Processes, pc[x] \in UnderPoolLock
                   PROVE  pool_lock[PoolOf(x)] = x /\ row[x] = pools'[PoolOf(x)]
      BY <1>1 DEF CreatePool, LockedRowIsFresh, TypeInv, TypeOK
    <2>2. PoolOf(x) # Request[s].pool /\ PoolOf(x) \in Pools
      BY <1>1, <2>1, LockedPoolExists, PoolOfTypes DEF CreatePool
    <2>3. QED
      BY <1>1, <2>1, <2>2 DEF CreatePool, LockedRowIsFresh, TypeInv, TypeOK
  <1>2. ASSUME NEW s \in Sessions,
               LockForClose(s) \/ LockForContribution(s) \/ LockForOrder(s) \/ LockForPayout(s)
        PROVE  LockedRowIsFresh'
    <2>1. Request[s].pool \in Pools /\ pool_lock[Request[s].pool] = Free
      BY <1>2, RequestTypes
      DEF TypeInv, LockForClose, LockForContribution, LockForOrder, LockForPayout, PoolIsFree
    <2>2. CASE LockForClose(s)
      BY <2>2, <2>1, LockFrame DEF TypeInv, TypeOK, LockForClose
    <2>3. CASE LockForContribution(s)
      BY <2>3, <2>1, LockFrame, SMTT(30) DEF TypeInv, TypeOK, LockForContribution
    <2>4. CASE LockForOrder(s)
      <3>1. CASE UNCHANGED <<pools, pool_lock, row>> /\ pc' = [pc EXCEPT ![s] = "done"]
        BY <2>4, <3>1, LockIdle, SMTT(30) DEF LockForOrder, TypeInv, TypeOK
      <3>2. CASE LockPool(s, Request[s].pool) /\ pc' = [pc EXCEPT ![s] = "order_flush"]
        BY <2>4, <2>1, <3>2, LockFrame DEF LockForOrder, LockPool, TypeInv, TypeOK
      <3>3. QED
        BY <2>4, <3>1, <3>2 DEF LockForOrder, Refuse, Reply, Goto, locks
    <2>5. CASE LockForPayout(s)
      BY <2>5, <2>1, LockFrame DEF TypeInv, TypeOK, LockForPayout
    <2>6. QED
      BY <1>2, <2>2, <2>3, <2>4, <2>5
  <1>3. ASSUME NEW s \in Sessions,
               \/ CommitClose(s) \/ CommitContribution(s) \/ CommitOrder(s)
               \/ FlushOrder(s) \/ ComputeShares(s) \/ CommitPayouts(s)
        PROVE  LockedRowIsFresh'
    <2>1. /\ Request[s].pool \in Pools
          /\ pool_lock[Request[s].pool] = s
          /\ row[s] = pools[Request[s].pool]
      BY <1>3, RequestTypes
      DEF TypeInv, LockedRowIsFresh, CommitClose, CommitContribution, CommitOrder, FlushOrder,
          ComputeShares, CommitPayouts
    <2>2. CASE CommitClose(s)
      BY <2>2, <2>1, LockFrame DEF TypeInv, TypeOK, CommitClose
    <2>3. CASE CommitContribution(s)
      BY <2>3, <2>1, LockFrame, SMTT(30) DEF TypeInv, TypeOK, CommitContribution
    <2>4. CASE CommitOrder(s)
      BY <2>4, <2>1, LockFrame DEF TypeInv, TypeOK, CommitOrder
    <2>5. CASE FlushOrder(s)
      BY <2>5, <2>1, LockFrame, SMTT(30) DEF TypeInv, TypeOK, FlushOrder
    <2>6. CASE ComputeShares(s)
      BY <2>6, <2>1, LockFrame, SMTT(30) DEF TypeInv, TypeOK, ComputeShares
    <2>7. CASE CommitPayouts(s)
      <3>1. pc' = [pc EXCEPT ![s] = "done"] /\ UnlockPool(s, Request[s].pool)
        BY <2>7 DEF CommitPayouts, Reply
      <3>2. UNCHANGED <<pools, current>>
        BY <2>7 DEF CommitPayouts
      <3>3. QED
        BY <2>1, <3>1, <3>2, LockFrame DEF UnlockPool, TypeInv, TypeOK
    <2>8. QED
      BY <1>3, <2>2, <2>3, <2>4, <2>5, <2>6, <2>7
  <1>4. ASSUME NEW s \in Sessions, FindByKey(s) \/ RereadByKey(s) \/ PaymentStep(s)
        PROVE  LockedRowIsFresh'
    BY <1>4, LockIdle
    DEF TypeInv, TypeOK, FindByKey, RereadByKey, PaymentStep, InitializePayment, OpenTransaction,
        RecordEvent,
        CommitEvent, LockPaidOrder, CommitPayment
  <1>5. ASSUME NEW s \in Sessions, Abort(s) PROVE LockedRowIsFresh'
    <2>1. SUFFICES ASSUME NEW x \in Processes \ {s}, pc[x] \in UnderPoolLock
                   PROVE  pool_lock'[PoolOf(x)] = x /\ row'[x] = pools[PoolOf(x)]
      BY <1>5 DEF Abort, LockedRowIsFresh, TypeInv, TypeOK
    <2>2. PoolOf(x) \in Pools
      BY <2>1, PoolOfTypes
    <2>3. QED
      BY <1>5, <2>1, <2>2 DEF Abort, LockedRowIsFresh, TypeInv, TypeOK
  <1>6. ASSUME NEW w \in Sweepers, FindExpired(w) \/ NextCandidate(w) \/ LockExpired(w)
        PROVE  LockedRowIsFresh'
    BY <1>6, LockIdle DEF TypeInv, TypeOK, FindExpired, NextCandidate, LockExpired
  <1>7. ASSUME NEW w \in Sweepers, LockExpiredPool(w) PROVE LockedRowIsFresh'
    <2>1. Request[current[w]].pool \in Pools /\ pool_lock[Request[current[w]].pool] = Free
      BY <1>7, RequestTypes DEF TypeInv, LockExpiredPool, PoolIsFree, Expiring
    <2>2. QED
      BY <1>7, <2>1, LockFrame DEF TypeInv, TypeOK, LockExpiredPool
  <1>8. ASSUME NEW w \in Sweepers, CommitExpired(w) PROVE LockedRowIsFresh'
    <2>1. Request[current[w]].pool \in Pools /\ pool_lock[Request[current[w]].pool] = w
      BY <1>8, RequestTypes DEF TypeInv, CommitExpired, LockedRowIsFresh, Expiring
    <2>2. QED
      BY <1>8, <2>1, LockFrame DEF TypeInv, TypeOK, CommitExpired
  <1>9. ASSUME NEW w \in Sweepers, AbortSweep(w) PROVE LockedRowIsFresh'
    <2>1. SUFFICES ASSUME NEW x \in Processes \ {w}, pc[x] \in UnderPoolLock
                   PROVE  pool_lock'[PoolOf(x)] = x /\ row'[x] = pools[PoolOf(x)]
      BY <1>9 DEF AbortSweep, LockedRowIsFresh, TypeInv, TypeOK
    <2>2. PoolOf(x) \in Pools
      BY <2>1, PoolOfTypes
    <2>3. QED
      BY <1>9, <2>1, <2>2 DEF AbortSweep, LockedRowIsFresh, TypeInv, TypeOK
  <1>10. ASSUME NEW o \in Orders, Age(o) PROVE LockedRowIsFresh'
    BY <1>10, LockIdle DEF Age
  <1>11. CASE Quiet
    BY <1>11, LockIdle DEF Quiet, vars
  <1>12. QED
    BY <1>1, <1>2, <1>3, <1>4, <1>5, <1>6, <1>7, <1>8, <1>9, <1>10, <1>11
    DEF Next, SessionStep, PoolStep, ContributionStep, OrderStep, PayoutStep, SweepStep

\* What a session found the status of its pool to be stays so while it holds
\* the lock.
LEMMA StatusCheckedStep ==
    ASSUME TypeInv, LockInv, Next
    PROVE  StatusChecked'
  <1> USE NamesAssumption DEF StatusChecked, TypeInv, TypeOK, LockInv
  <1>1. ASSUME NEW s \in Sessions, PoolStep(s) PROVE StatusChecked'
    BY <1>1 DEF PoolStep, CreatePool, LockForClose, CommitClose
  <1>2. ASSUME NEW s \in Sessions, ContributionStep(s) PROVE StatusChecked'
    BY <1>2 DEF ContributionStep, LockForContribution, CommitContribution
  <1>3. ASSUME NEW s \in Sessions, OrderStep(s) PROVE StatusChecked'
    BY <1>3 DEF OrderStep, FindByKey, LockForOrder, FlushOrder, CommitOrder, RereadByKey
  <1>4. ASSUME NEW s \in Sessions, PaymentStep(s) PROVE StatusChecked'
    BY <1>4 DEF PaymentStep, InitializePayment, OpenTransaction, RecordEvent, CommitEvent,
                LockPaidOrder, CommitPayment
  <1>5. ASSUME NEW s \in Sessions, PayoutStep(s) PROVE StatusChecked'
    BY <1>5 DEF PayoutStep, LockForPayout, ComputeShares, CommitPayouts
  <1>6. ASSUME NEW s \in Sessions, Abort(s) PROVE StatusChecked'
    BY <1>6 DEF Abort
  <1>7. ASSUME NEW w \in Sweepers, SweepStep(w) \/ AbortSweep(w) PROVE StatusChecked'
    BY <1>7 DEF SweepStep, FindExpired, NextCandidate, LockExpired, LockExpiredPool, CommitExpired,
                AbortSweep
  <1>8. ASSUME NEW o \in Orders, Age(o) PROVE StatusChecked'
    BY <1>8 DEF Age
  <1>9. CASE Quiet
    BY <1>9 DEF Quiet, vars
  <1>10. QED
    BY <1>1, <1>2, <1>3, <1>4, <1>5, <1>6, <1>7, <1>8, <1>9 DEF Next, SessionStep

\* The steps that commit something; every other step leaves the tables alone.
Committing(s) ==
    \/ CreatePool(s) \/ CommitClose(s) \/ CommitContribution(s) \/ CommitOrder(s)
    \/ CommitEvent(s) \/ LockPaidOrder(s) \/ CommitPayment(s) \/ CommitPayouts(s)

\* The tables change in the commits and in CreatePool, nowhere else.
LEMMA TableSteps ==
    ASSUME Next
    PROVE  \/ \E s \in Sessions : Committing(s)
           \/ \E w \in Sweepers : CommitExpired(w)
           \/ UNCHANGED tables
  <1>1. ASSUME NEW s \in Sessions, SessionStep(s), ~Committing(s) PROVE UNCHANGED tables
    BY <1>1
    DEF SessionStep, Committing, PoolStep, ContributionStep, OrderStep, PaymentStep, PayoutStep,
        LockForClose, LockForContribution, FindByKey, LockForOrder, FlushOrder, RereadByKey,
        InitializePayment, OpenTransaction, RecordEvent, LockForPayout, ComputeShares
  <1>2. ASSUME NEW w \in Sweepers, SweepStep(w), ~CommitExpired(w) PROVE UNCHANGED tables
    BY <1>2 DEF SweepStep, FindExpired, NextCandidate, LockExpired, LockExpiredPool
  <1>3. ASSUME \/ \E s \in Sessions : Abort(s)
               \/ \E w \in Sweepers : AbortSweep(w)
               \/ \E o \in Orders : Age(o)
               \/ Quiet
        PROVE  UNCHANGED tables
    BY <1>3 DEF Abort, AbortSweep, Age, Quiet, vars
  <1>4. QED
    BY <1>1, <1>2, <1>3 DEF Next

\* A status that is not "absent" stays so: what is written comes from a row
\* that was there.
LEMMA PoolsStay ==
    ASSUME TypeInv, LockInv, Next, NEW p \in Pools, pools[p].status # "absent"
    PROVE  pools'[p].status # "absent"
  <1> USE DEF TypeInv, TypeOK
  <1>1. ASSUME NEW s \in Sessions, Committing(s) PROVE pools'[p].status # "absent"
    <2>1. CASE CommitClose(s)
      <3>1. Closed(row[s]).status = "closed"
        BY DEF Closed, PoolRow
      <3>2. QED
        BY <2>1, <3>1 DEF CommitClose
    <2>2. CASE CommitContribution(s)
      <3>1. Stocked(row[s], Request[s].qty).status = "open"
        BY <2>2 DEF CommitContribution, LockInv, StatusChecked, Stocked
      <3>2. QED
        BY <2>2, <3>1 DEF CommitContribution
    <2>3. CASE CommitOrder(s)
      <3>1. Sold(row[s], Request[s].qty).status = "open"
        BY <2>3 DEF CommitOrder, LockInv, StatusChecked, Sold, PoolRow
      <3>2. QED
        BY <2>3, <3>1 DEF CommitOrder
    <2>4. QED
      BY <1>1, <2>1, <2>2, <2>3
      DEF Committing, CreatePool, CommitEvent, LockPaidOrder, CommitPayment, CommitPayouts
  <1>2. ASSUME NEW w \in Sweepers, CommitExpired(w) PROVE pools'[p].status # "absent"
    <2>1. row[w] = pools[PoolOf(w)] /\ pools[PoolOf(w)].status # "absent"
      BY <1>2, LockedPoolExists DEF CommitExpired, LockInv, LockedRowIsFresh, UnderPoolLock
    <2>2. Released(row[w], Request[current[w]].qty).status # "absent"
      BY <2>1 DEF Released, PoolRow
    <2>3. QED
      BY <1>2, <2>2 DEF CommitExpired
  <1>3. QED
    BY <1>1, <1>2, TableSteps

\* Order rows are never deleted, and an order is placed by its own session.
LEMMA OrdersStep ==
    ASSUME TypeInv, RowsExist, Next
    PROVE  /\ Placed \subseteq Placed'
           /\ \A o \in Placed' : o \in Placed \/ CommitOrder(o)
  <1> USE DEF TypeInv, TypeOK, Placed, RowsExist
  <1>1. ASSUME NEW s \in Sessions, Committing(s)
        PROVE  Placed \subseteq Placed' /\ \A o \in Placed' : o \in Placed \/ CommitOrder(o)
    <2>1. CASE CommitOrder(s)
      BY <2>1 DEF CommitOrder
    <2>2. CASE CommitPayment(s)
      BY <2>2 DEF CommitPayment
    <2>3. CASE UNCHANGED orders
      BY <2>3
    <2>4. QED
      BY <1>1, <2>1, <2>2, <2>3
      DEF Committing, CreatePool, CommitClose, CommitContribution, CommitEvent, LockPaidOrder,
          CommitPayouts
  <1>2. ASSUME NEW w \in Sweepers, CommitExpired(w)
        PROVE  Placed \subseteq Placed' /\ \A o \in Placed' : o \in Placed \/ CommitOrder(o)
    BY <1>2 DEF CommitExpired
  <1>3. QED
    BY <1>1, <1>2, TableSteps

\* Rows are never deleted, so foreign keys keep pointing at rows.
LEMMA RowsExistStep ==
    ASSUME TypeInv, LockInv, Next
    PROVE  RowsExist'
  <1>1. \A o \in Placed' : pools'[Request[o].pool].status # "absent"
    <2>1. SUFFICES ASSUME NEW o \in Placed'
                   PROVE  pools'[Request[o].pool].status # "absent"
      OBVIOUS
    <2>2. Request[o].pool \in Pools
      BY RequestTypes DEF TypeInv, Placed
    <2>3. CASE o \in Placed
      BY <2>2, <2>3, PoolsStay DEF LockInv, RowsExist
    <2>4. CASE CommitOrder(o)
      <3>1. Sold(row[o], Request[o].qty).status = "open"
        BY <2>4 DEF CommitOrder, LockInv, StatusChecked, Sold, PoolRow, TypeInv, TypeOK, Placed,
                    Orders, Carrying
      <3>2. QED
        BY <2>2, <2>4, <3>1 DEF CommitOrder, TypeInv, TypeOK
    <2>5. QED
      BY <2>3, <2>4, OrdersStep DEF LockInv
  <1>2. ASSUME NEW w \in Sweepers, pc'[w] \in {"expire_pool", "expire_commit"}
        PROVE  current'[w] \in Placed
    <2>1. CASE SweepStep(w) \/ AbortSweep(w)
      BY <1>2, <2>1
      DEF SweepStep, FindExpired, NextCandidate, LockExpired, LockExpiredPool, CommitExpired, AbortSweep,
          Expirable, LabelsFit, Expiring, Placed, LockInv, RowsExist, TypeInv, TypeOK
    <2>2. CASE ~(SweepStep(w) \/ AbortSweep(w))
      <3>1. ~Acts(w)
        BY <2>2, NamesAssumption DEF Acts
      <3>2. QED
        BY <1>2, <3>1, Bystander DEF LockInv, RowsExist
    <2>3. QED
      BY <2>1, <2>2
  <1>3. ASSUME NEW s \in Sessions, pc'[s] = "payment_commit"
        PROVE  Reference(s) \in Placed
    <2>1. CASE pc[s] = "payment_commit"
      BY <2>1 DEF LockInv, RowsExist
    <2>2. CASE pc[s] # "payment_commit"
      <3>1. Acts(s)
        BY <1>3, <2>2, Bystander
      <3>2. LockPaidOrder(s)
        BY <1>3, <3>1, ToPaymentCommit
      <3>3. QED
        BY <1>3, <3>2, RequestTypes DEF LockPaidOrder, Placed, TypeInv, TypeOK
    <2>3. QED
      BY <2>1, <2>2
  <1>4. QED
    BY <1>1, <1>2, <1>3, OrdersStep DEF LockInv, RowsExist, Reference

\* Nobody holds a lock at the start.
LEMMA LockInvInit == ASSUME Init PROVE LockInv
  BY NamesAssumption
  DEF Init, LockInv, LockedRowIsFresh, StatusChecked, RowsExist, Placed, UnderPoolLock

\* The facts about pool locks survive every step and stutter.
LEMMA LockInvStep == ASSUME TypeInv, LockInv, [Next]_vars PROVE LockInv'
  <1>1. CASE Next
    BY <1>1, LockedRowStep, StatusCheckedStep, RowsExistStep DEF LockInv
  <1>2. CASE UNCHANGED vars
    BY <1>2
    DEF vars, LockInv, LockedRowIsFresh, StatusChecked, RowsExist, Placed, UnderPoolLock, PoolOf,
        Reference
  <1>3. QED
    BY <1>1, <1>2

\* No update is lost: whoever is about to write a pool row holds its lock and
\* the committed row.
THEOREM NoLostUpdate == Spec => []LockedRowIsFresh
  <1>1. Init => TypeInv /\ LockInv
    BY TypeInvInit, LockInvInit
  <1>2. TypeInv /\ LockInv /\ [Next]_vars => (TypeInv /\ LockInv)'
    BY TypeInvStep, LockInvStep
  <1>3. TypeInv /\ LockInv => LockedRowIsFresh
    BY DEF LockInv
  <1>4. QED
    BY <1>1, <1>2, <1>3, PTL DEF Spec

-----------------------------------------------------------------------------
(***************************************************************************)
(* Layer 3: what holding an order's row lock means, and why payments and   *)
(* order statuses agree.                                                   *)
(***************************************************************************)

\* The sweep and the webhook: each has locked the order it decided on, and
\* that order is still in the state the decision was made for.
OrderLockHeld ==
    /\ \A w \in Sweepers : pc[w] \in {"expire_pool", "expire_commit"} =>
           order_lock[current[w]] = w /\ orders[current[w]] = "pending"
    /\ \A s \in Sessions : pc[s] = "payment_commit" =>
           order_lock[Reference(s)] = s /\ orders[Reference(s)] \in {"pending", "expired"}

\* An order row appears with the answer to its request.
NotYetPlaced == \A o \in Orders : pc[o] # "done" => orders[o] = "absent"

OrderInv == OrderLockHeld /\ NotYetPlaced

\* While x holds the lock of an order, nobody else changes that order or its lock.
LEMMA OrderLockFrame ==
    ASSUME TypeInv, RowsExist, OrderInv, Next,
           NEW x \in Processes, ~Acts(x),
           NEW o \in Placed, order_lock[o] = x
    PROVE  order_lock'[o] = x /\ orders'[o] = orders[o]
  <1> USE NamesAssumption DEF TypeInv, TypeOK, Placed
  <1>1. ASSUME NEW s \in Sessions, s # x, PoolStep(s) \/ ContributionStep(s) \/ PayoutStep(s)
        PROVE  order_lock' = order_lock /\ orders' = orders
    BY <1>1
    DEF PoolStep, ContributionStep, PayoutStep, CreatePool, LockForClose, CommitClose,
        LockForContribution, CommitContribution, LockForPayout, ComputeShares, CommitPayouts
  <1>2. ASSUME NEW s \in Sessions, s # x, OrderStep(s)
        PROVE  order_lock' = order_lock /\ orders'[o] = orders[o]
    BY <1>2 DEF OrderStep, FindByKey, LockForOrder, FlushOrder, CommitOrder, RereadByKey,
                OrderInv, NotYetPlaced
  <1>3. ASSUME NEW s \in Sessions, s # x, PaymentStep(s)
        PROVE  order_lock'[o] = x /\ orders'[o] = orders[o]
    <2>1. CASE LockPaidOrder(s)
      BY <2>1 DEF LockPaidOrder, OrderIsFree
    <2>2. CASE CommitPayment(s)
      BY <1>3, <2>2 DEF CommitPayment, OrderInv, OrderLockHeld
    <2>3. QED
      BY <1>3, <2>1, <2>2 DEF PaymentStep, InitializePayment, OpenTransaction, RecordEvent, CommitEvent
  <1>4. ASSUME NEW s \in Sessions, s # x, Abort(s)
        PROVE  order_lock'[o] = x /\ orders' = orders
    BY <1>4 DEF Abort
  <1>5. ASSUME NEW w \in Sweepers, w # x, SweepStep(w) \/ AbortSweep(w)
        PROVE  order_lock'[o] = x /\ orders'[o] = orders[o]
    <2>1. CASE CommitExpired(w)
      BY <1>5, <2>1 DEF CommitExpired, OrderInv, OrderLockHeld
    <2>2. CASE AbortSweep(w)
      BY <1>5, <2>2 DEF AbortSweep
    <2>3. QED
      BY <1>5, <2>1, <2>2
      DEF SweepStep, FindExpired, NextCandidate, LockExpired, LockExpiredPool, OrderIsFree
  <1>6. ASSUME Quiet \/ \E a \in Orders : Age(a)
        PROVE  order_lock' = order_lock /\ orders' = orders
    BY <1>6 DEF Quiet, Age, vars
  <1>7. QED
    BY <1>1, <1>2, <1>3, <1>4, <1>5, <1>6, SMTT(30) DEF Next, SessionStep, Acts

\* The holder of an order's lock finds the order as it checked it.
LEMMA OrderLockStep ==
    ASSUME TypeInv, LockInv, OrderInv, Next
    PROVE  OrderLockHeld'
  <1>1. ASSUME NEW w \in Sweepers, pc'[w] \in {"expire_pool", "expire_commit"}
        PROVE  order_lock'[current'[w]] = w /\ orders'[current'[w]] = "pending"
    <2>1. CASE ~Acts(w)
      <3>1. pc'[w] = pc[w] /\ current'[w] = current[w]
        BY <2>1, Bystander
      <3>2. current[w] \in Placed /\ order_lock[current[w]] = w /\ orders[current[w]] = "pending"
        BY <1>1, <3>1 DEF LockInv, RowsExist, OrderInv, OrderLockHeld
      <3>3. QED
        BY <2>1, <3>1, <3>2, OrderLockFrame DEF LockInv
    <2>2. CASE Acts(w)
      <3>1. SweepStep(w) \/ AbortSweep(w)
        BY <2>2, NamesAssumption DEF Acts
      <3>2. QED
        BY <1>1, <3>1
        DEF SweepStep, FindExpired, NextCandidate, LockExpired, LockExpiredPool, CommitExpired,
            AbortSweep, Expirable, OrderInv, OrderLockHeld, TypeInv, TypeOK, LabelsFit, Expiring
    <2>3. QED
      BY <2>1, <2>2
  <1>2. ASSUME NEW s \in Sessions, pc'[s] = "payment_commit"
        PROVE  order_lock'[Reference(s)] = s /\ orders'[Reference(s)] \in {"pending", "expired"}
    <2>1. CASE ~Acts(s)
      <3>1. pc[s] = "payment_commit"
        BY <1>2, <2>1, Bystander
      <3>2. Reference(s) \in Placed /\ order_lock[Reference(s)] = s
        BY <3>1 DEF LockInv, RowsExist, OrderInv, OrderLockHeld
      <3>3. QED
        BY <2>1, <3>1, <3>2, OrderLockFrame DEF LockInv, OrderInv, OrderLockHeld
    <2>2. CASE Acts(s)
      <3>1. LockPaidOrder(s)
        BY <1>2, <2>2, ToPaymentCommit
      <3>2. Reference(s) \in Orders
        BY <3>1, RequestTypes DEF LockPaidOrder, TypeInv
      <3>3. QED
        BY <1>2, <3>1, <3>2 DEF LockPaidOrder, AlreadySettled, TypeInv, TypeOK
    <2>3. QED
      BY <2>1, <2>2
  <1>3. QED
    BY <1>1, <1>2 DEF OrderLockHeld, Reference

\* An order row appears only with the commit that ends its session.
LEMMA NotYetPlacedStep ==
    ASSUME TypeInv, LockInv, OrderInv, Next
    PROVE  NotYetPlaced'
  <1>1. SUFFICES ASSUME NEW o \in Orders, pc'[o] # "done", orders'[o] # "absent"
                 PROVE  FALSE
    BY DEF NotYetPlaced
  <1>2. o \in Sessions
    BY DEF Orders, Carrying
  <1>3. CASE CommitOrder(o)
    BY <1>1, <1>2, <1>3 DEF CommitOrder, TypeInv, TypeOK
  <1>4. CASE o \in Placed
    <2>1. pc[o] = "done"
      BY <1>4 DEF Placed, OrderInv, NotYetPlaced
    <2>2. Acts(o)
      BY <1>1, <1>2, <2>1, Bystander
    <2>3. QED
      BY <1>2, <2>1, <2>2, NamesAssumption
      DEF Acts, SessionStep, PoolStep, ContributionStep, OrderStep, PaymentStep, PayoutStep,
          CreatePool, LockForClose, CommitClose, LockForContribution, CommitContribution,
          FindByKey, LockForOrder, FlushOrder, CommitOrder, RereadByKey, InitializePayment,
          OpenTransaction,
          RecordEvent, CommitEvent, LockPaidOrder, CommitPayment, LockForPayout, ComputeShares,
          CommitPayouts, Abort, InFlight
  <1>5. QED
    BY <1>1, <1>3, <1>4, OrdersStep DEF LockInv, Placed

\* No order is locked or placed at the start.
LEMMA OrderInvInit == ASSUME Init PROVE OrderInv
  BY NamesAssumption DEF Init, OrderInv, OrderLockHeld, NotYetPlaced

\* The facts about order locks survive every step and stutter.
LEMMA OrderInvStep == ASSUME TypeInv, LockInv, OrderInv, [Next]_vars PROVE OrderInv'
  <1>1. CASE Next
    BY <1>1, OrderLockStep, NotYetPlacedStep DEF OrderInv
  <1>2. CASE UNCHANGED vars
    BY <1>2 DEF vars, OrderInv, OrderLockHeld, NotYetPlaced, Reference
  <1>3. QED
    BY <1>1, <1>2

\* A payment row and the status "paid" come and stay together.
LEMMA PaidStep ==
    ASSUME TypeInv, LockInv, OrderInv, PaymentMatches, Next
    PROVE  PaymentMatches'
  <1> USE DEF TypeInv, TypeOK, PaymentMatches, PaymentsOf
  <1>1. ASSUME NEW s \in Sessions, CommitOrder(s) PROVE PaymentMatches'
    <2>1. s \in Orders /\ orders[s] = "absent"
      BY <1>1, RequestTypes DEF CommitOrder, OrderInv, NotYetPlaced
    <2>2. QED
      BY <1>1, <2>1 DEF CommitOrder, Reference
  <1>2. ASSUME NEW s \in Sessions, CommitPayment(s), Request[s].amount <= MaxTotal
        PROVE  PaymentMatches'
    <2>1. s \in Webhooks /\ Reference(s) \in Orders
      BY <1>2, RequestTypes DEF CommitPayment
    <2>2. orders[Reference(s)] # "paid"
      BY <1>2 DEF CommitPayment, OrderInv, OrderLockHeld
    <2>3. PaymentsOf(Reference(s)) = {}
      BY <2>1, <2>2
    <2>4. /\ orders' = [orders EXCEPT ![Reference(s)] = "paid"]
          /\ payments' = payments \cup {s}
          /\ processed_events' = processed_events \cup {Request[s].event}
      BY <1>2, <2>3 DEF CommitPayment
    <2>5. ASSUME NEW o \in Orders PROVE (orders'[o] = "paid") <=> (PaymentsOf(o)' # {})
      <3>1. CASE o = Reference(s)
        BY <2>1, <2>4, <3>1 DEF Reference
      <3>2. CASE o # Reference(s)
        BY <2>1, <2>4, <3>2 DEF Reference
      <3>3. QED
        BY <3>1, <3>2
    <2>6. \A v, w \in payments' : Reference(v) = Reference(w) => v = w
      BY <2>3, <2>4
    <2>7. \A w \in payments' : Request[w].event \in processed_events'
      BY <2>4
    <2>8. QED
      BY <2>5, <2>6, <2>7 DEF Reference
  <1>3. ASSUME NEW s \in Sessions, CommitEvent(s) \/ LockPaidOrder(s) PROVE PaymentMatches'
    BY <1>3 DEF CommitEvent, LockPaidOrder, Reference
  <1>4. ASSUME NEW s \in Sessions,
               CreatePool(s) \/ CommitClose(s) \/ CommitContribution(s) \/ CommitPayouts(s)
        PROVE  PaymentMatches'
    BY <1>4 DEF CreatePool, CommitClose, CommitContribution, CommitPayouts, Reference
  <1>5. ASSUME NEW w \in Sweepers, CommitExpired(w) PROVE PaymentMatches'
    <2>1. current[w] \in Orders /\ orders[current[w]] = "pending"
      BY <1>5 DEF CommitExpired, OrderInv, OrderLockHeld, LockInv, RowsExist, Placed
    <2>2. QED
      BY <1>5, <2>1 DEF CommitExpired, Reference
  <1>6. ASSUME UNCHANGED tables PROVE PaymentMatches'
    BY <1>6 DEF Reference
  <1>7. ASSUME NEW s \in Sessions, CommitPayment(s), ~(Request[s].amount <= MaxTotal)
        PROVE  PaymentMatches'
    BY <1>6, <1>7 DEF CommitPayment
  <1>8. QED
    BY <1>1, <1>2, <1>3, <1>4, <1>5, <1>6, <1>7, TableSteps DEF Committing

\* An order is paid exactly when one payment row says so, and the event behind
\* that row is recorded, for any number of webhooks, sweepers and failures.
THEOREM PaymentsAgree == Spec => []PaymentMatches
  <1> DEFINE Inv == TypeInv /\ LockInv /\ OrderInv /\ PaymentMatches
  <1>1. Init => Inv
    BY TypeInvInit, LockInvInit, OrderInvInit DEF Init, PaymentMatches, PaymentsOf
  <1>2. Inv /\ [Next]_vars => Inv'
    <2>1. ASSUME Inv, UNCHANGED vars PROVE PaymentMatches'
      BY <2>1 DEF vars, PaymentMatches, PaymentsOf, Reference
    <2>2. QED
      BY <2>1, TypeInvStep, LockInvStep, OrderInvStep, PaidStep
  <1>3. Inv => PaymentMatches
    OBVIOUS
  <1>4. QED
    BY <1>1, <1>2, <1>3, PTL DEF Spec

-----------------------------------------------------------------------------
(***************************************************************************)
(* Layer 4: idempotency keys.  What the unique index sees is the committed *)
(* orders and the flushed ones; both are kept apart by key.                *)
(***************************************************************************)

FlushedApart ==
    \A s \in Flushed :
        /\ FoundByKey(s) = {}
        /\ \A t \in Flushed : s # t => ~SameKey(s, t)

KeyInv == OneOrderPerKey /\ FlushedApart

\* Two requests clash on their key in either order.
LEMMA SameKeySymmetric ==
    ASSUME NEW s, NEW t, SameKey(s, t)
    PROVE  SameKey(t, s)
  BY DEF SameKey

\* A session reaches "order_commit" by flushing its order.
LEMMA ToOrderCommit ==
    ASSUME TypeInv, NEW s \in Sessions, Acts(s), pc'[s] = "order_commit"
    PROVE  FlushOrder(s)
  <1> USE NamesAssumption DEF TypeInv, TypeOK
  <1>1. ~PoolStep(s) /\ ~ContributionStep(s) /\ ~PayoutStep(s) /\ ~Abort(s)
    BY DEF PoolStep, ContributionStep, PayoutStep, CreatePool, LockForClose, CommitClose,
           LockForContribution, CommitContribution, LockForPayout, ComputeShares, CommitPayouts, Abort
  <1>2. ~PaymentStep(s)
    BY DEF PaymentStep, InitializePayment, OpenTransaction, RecordEvent, CommitEvent,
           LockPaidOrder, CommitPayment
  <1>3. QED
    BY <1>1, <1>2 DEF Acts, SessionStep, OrderStep, FindByKey, LockForOrder, CommitOrder, RereadByKey

\* The unique index keeps keys unique: an order is flushed only if no placed
\* and no flushed order has its key.
LEMMA KeyInvStep ==
    ASSUME TypeInv, LockInv, KeyInv, Next
    PROVE  KeyInv'
  <1>1. \A o \in Placed' \ Placed : CommitOrder(o) /\ o \in Flushed
    BY OrdersStep DEF LockInv, Placed, Flushed, CommitOrder
  <1>2. OneOrderPerKey'
    <2>1. SUFFICES ASSUME NEW o \in Placed', NEW t \in Placed', o # t
                   PROVE  ~SameKey(o, t)
      BY DEF OneOrderPerKey, SameKey
    <2>2. CASE o \in Placed /\ t \in Placed
      BY <2>1, <2>2 DEF KeyInv, OneOrderPerKey
    <2>3. CASE o \notin Placed /\ t \in Placed
      BY <1>1, <2>3 DEF KeyInv, FlushedApart, FoundByKey
    <2>4. CASE o \in Placed /\ t \notin Placed
      BY <1>1, <2>4, SameKeySymmetric DEF KeyInv, FlushedApart, FoundByKey
    <2>5. CASE o \notin Placed /\ t \notin Placed
      BY <1>1, <2>1, <2>5 DEF KeyInv, FlushedApart
    <2>6. QED
      BY <2>2, <2>3, <2>4, <2>5
  <1>3. ASSUME NEW s \in Flushed', s \in Flushed
        PROVE  \A o \in Placed' : ~SameKey(s, o)
    <2>1. SUFFICES ASSUME NEW o \in Placed' \ Placed PROVE ~SameKey(s, o)
      BY <1>3 DEF KeyInv, FlushedApart, FoundByKey
    <2>2. pc'[o] = "done"
      BY <1>1 DEF CommitOrder, TypeInv, TypeOK, Placed, Orders, Carrying
    <2>3. s # o
      BY <2>2 DEF Flushed
    <2>4. QED
      BY <1>1, <1>3, <2>3 DEF KeyInv, FlushedApart
  <1>4. ASSUME NEW s \in Flushed', s \notin Flushed
        PROVE  /\ FlushOrder(s)
               /\ \A o \in Placed' : ~SameKey(s, o)
               /\ \A t \in Flushed : ~SameKey(s, t)
               /\ \A t \in Flushed' : t = s \/ t \in Flushed
    <2>1. s \in Sessions /\ s \in Orders /\ pc'[s] = "order_commit" /\ pc[s] # "order_commit"
      BY <1>4 DEF Flushed, Orders, Carrying
    <2>2. Acts(s)
      BY <2>1, Bystander
    <2>3. FlushOrder(s)
      BY <2>1, <2>2, ToOrderCommit
    <2>4. FoundByKey(s) = {} /\ \A t \in Flushed : ~SameKey(s, t)
      BY <2>1, <2>3 DEF FlushOrder, TypeInv, TypeOK
    <2>5. orders' = orders /\ \A t \in Flushed' : t = s \/ t \in Flushed
      BY <2>1, <2>3 DEF FlushOrder, Flushed, TypeInv, TypeOK, Orders, Carrying
    <2>6. QED
      BY <2>3, <2>4, <2>5 DEF FoundByKey, Placed
  <1>5. FlushedApart'
    <2>1. ASSUME NEW s \in Flushed' PROVE FoundByKey(s)' = {}
      BY <1>3, <1>4 DEF FoundByKey, SameKey
    <2>2. ASSUME NEW s \in Flushed', NEW t \in Flushed', s # t PROVE ~SameKey(s, t)
      <3>1. CASE s \in Flushed /\ t \in Flushed
        BY <2>2, <3>1 DEF KeyInv, FlushedApart
      <3>2. CASE s \notin Flushed
        BY <1>4, <2>2, <3>2
      <3>3. CASE t \notin Flushed
        BY <1>4, <2>2, <3>3, SameKeySymmetric
      <3>4. QED
        BY <3>1, <3>2, <3>3
    <2>3. QED
      BY <2>1, <2>2 DEF FlushedApart, SameKey
  <1>6. QED
    BY <1>2, <1>5 DEF KeyInv

\* A buyer's idempotency key names at most one order, across all pools, however
\* many requests carry it.
THEOREM KeysAreUnique == Spec => []OneOrderPerKey
  <1> DEFINE Inv == TypeInv /\ LockInv /\ KeyInv
  <1>1. Init => Inv
    BY TypeInvInit, LockInvInit, NamesAssumption
    DEF Init, KeyInv, OneOrderPerKey, FlushedApart, Placed, Flushed, Orders, Carrying
  <1>2. Inv /\ [Next]_vars => Inv'
    <2>1. ASSUME Inv, UNCHANGED vars PROVE KeyInv'
      BY <2>1 DEF vars, KeyInv, OneOrderPerKey, FlushedApart, FoundByKey, Placed, Flushed, SameKey
    <2>2. QED
      BY <2>1, TypeInvStep, LockInvStep, KeyInvStep
  <1>3. Inv => OneOrderPerKey
    BY DEF KeyInv
  <1>4. QED
    BY <1>1, <1>2, <1>3, PTL DEF Spec

-----------------------------------------------------------------------------
(***************************************************************************)
(* Layer 5: events, contributions and payouts.  What a session has checked *)
(* or computed under its locks is still so when it commits.                *)
(***************************************************************************)

EventsApart ==
    \A s \in Recording :
        /\ Request[s].event \notin processed_events
        /\ \A t \in Recording : s # t => Request[s].event # Request[t].event

NotYetContributed == \A c \in contributions : pc[c] = "done"

\* The rows a distribution is about to insert: one for every contributor.
DueRows(s) ==
    LET p == Request[s].pool IN
    /\ \A r \in due[s] : r.pool = p
    /\ {r.farmer : r \in due[s]} = Contributors(p)
    /\ \A r, q \in due[s] : r.farmer = q.farmer => r = q

PayoutsPending ==
    /\ due = [s \in Sessions |-> due[s]]
    /\ \A s \in Sessions :
          /\ pc[s] \in {"payout_shares", "payout_commit"} => ~AlreadyPaid(Request[s].pool)
          /\ pc[s] = "payout_commit" => DueRows(s)

WinnerIsThere == \A s \in Sessions : pc[s] = "order_reread" => FoundByKey(s) # {}

WorkInv == EventsApart /\ NotYetContributed /\ PayoutsPending /\ WinnerIsThere

\* Two sessions cannot both be under the lock of one pool.
LEMMA LockIsExclusive ==
    ASSUME TypeInv, LockInv,
           NEW s \in Sessions, pc[s] \in UnderPoolLock,
           NEW t \in Sessions, pc[t] \in UnderPoolLock,
           Request[s].pool = Request[t].pool
    PROVE  s = t
  BY NamesAssumption DEF LockInv, LockedRowIsFresh, PoolOf

\* A session starts recording an event when no other session is at it and
\* nobody has recorded it; it stops when it commits the record or fails.
LEMMA ToRecording ==
    ASSUME TypeInv, NEW s \in Recording', s \notin Recording, Next
    PROVE  RecordEvent(s)
  <1>1. s \in Sessions /\ pc'[s] \in {"event_commit", "webhook_order",
  "payment_commit"} /\ pc'[s] # pc[s]
    BY DEF Recording, Webhooks, Carrying
  <1>2. Acts(s)
    BY <1>1, Bystander
  <1>3. ~PoolStep(s) /\ ~ContributionStep(s) /\ ~PayoutStep(s) /\ ~Abort(s)
    BY <1>1
    DEF PoolStep, ContributionStep, PayoutStep, CreatePool, LockForClose, CommitClose,
        LockForContribution, CommitContribution, LockForPayout, ComputeShares, CommitPayouts, Abort,
        TypeInv, TypeOK
  <1>4. ~OrderStep(s)
    BY <1>1
    DEF OrderStep, FindByKey, LockForOrder, FlushOrder, CommitOrder, RereadByKey, TypeInv, TypeOK
  <1>5. pc[s] \notin {"event_commit", "webhook_order", "payment_commit"}
    BY SMTT(30) DEF Recording
  <1>6. QED
    BY <1>1, <1>2, <1>3, <1>4, <1>5, NamesAssumption
    DEF Acts, SessionStep, PaymentStep, InitializePayment, OpenTransaction, CommitEvent,
        LockPaidOrder, CommitPayment,
        TypeInv, TypeOK

\* A new event id in the table is that of a session which has just stopped
\* recording it.
LEMMA RecordingDone ==
    ASSUME TypeInv, Next
    PROVE  \/ UNCHANGED processed_events
           \/ \E s \in Recording \ Recording' :
                 processed_events' = processed_events \cup {Request[s].event}
  <1>1. ASSUME NEW s \in Sessions, CommitEvent(s) \/ LockPaidOrder(s) \/ CommitPayment(s)
        PROVE  \/ UNCHANGED processed_events
               \/ /\ s \in Recording \ Recording'
                  /\ processed_events' = processed_events \cup {Request[s].event}
    <2>1. s \in Recording
      BY <1>1, RequestTypes DEF CommitEvent, LockPaidOrder, CommitPayment, Recording, TypeInv
    <2>2. QED
      BY <1>1, <2>1 DEF CommitEvent, LockPaidOrder, CommitPayment, Recording, TypeInv, TypeOK
  <1>2. QED
    BY <1>1, TableSteps
    DEF Committing, CreatePool, CommitClose, CommitContribution, CommitOrder, CommitPayouts,
        CommitExpired

\* Two sessions never record the same event, nor one that is recorded.
LEMMA EventsApartStep ==
    ASSUME TypeInv, EventsApart, Next
    PROVE  EventsApart'
  <1>1. \A s \in Recording' : s \in Recording \/ RecordEvent(s)
    BY ToRecording
  <1>2. ASSUME NEW s \in Recording', RecordEvent(s)
        PROVE  /\ processed_events' = processed_events
               /\ Request[s].event \notin processed_events
               /\ \A t \in Recording : Request[t].event # Request[s].event
               /\ \A t \in Recording' : t = s \/ t \in Recording
    BY <1>2 DEF RecordEvent, EventIsFree, Recording, TypeInv, TypeOK, Webhooks, Carrying
  <1>3. ASSUME NEW s \in Recording', NEW t \in Recording', s # t
        PROVE  Request[s].event # Request[t].event
    BY <1>1, <1>2, <1>3 DEF EventsApart
  <1>4. ASSUME NEW s \in Recording' PROVE Request[s].event \notin processed_events'
    BY <1>1, <1>2, <1>4, RecordingDone DEF EventsApart
  <1>5. QED
    BY <1>3, <1>4 DEF EventsApart

\* A session that is done stays done.
LEMMA DoneStays ==
    ASSUME TypeInv, Next, NEW s \in Sessions, pc[s] = "done"
    PROVE  pc'[s] = "done"
  <1>1. ~SessionStep(s)
    BY DEF SessionStep, PoolStep, ContributionStep, OrderStep, PaymentStep, PayoutStep,
           CreatePool, LockForClose, CommitClose, LockForContribution, CommitContribution,
           FindByKey, LockForOrder, FlushOrder, CommitOrder, RereadByKey, InitializePayment,
           OpenTransaction,
           RecordEvent, CommitEvent, LockPaidOrder, CommitPayment, LockForPayout, ComputeShares,
           CommitPayouts
  <1>2. ~Acts(s)
    BY <1>1, NamesAssumption, SMTT(30) DEF Acts, Abort, InFlight
  <1>3. QED
    BY <1>2, Bystander

\* A contribution row appears only with the commit that ends its session.
LEMMA NotYetContributedStep ==
    ASSUME TypeInv, NotYetContributed, Next
    PROVE  NotYetContributed'
  <1>1. contributions \subseteq Sessions
    BY DEF TypeInv, TypeOK, Contributions, Carrying
  <1>2. ASSUME NEW s \in Sessions, CommitContribution(s) PROVE NotYetContributed'
    BY <1>1, <1>2, DoneStays DEF CommitContribution, NotYetContributed, TypeInv, TypeOK
  <1>3. ASSUME UNCHANGED contributions PROVE NotYetContributed'
    BY <1>1, <1>3, DoneStays DEF NotYetContributed
  <1>4. QED
    BY <1>2, <1>3, TableSteps
    DEF Committing, CreatePool, CommitClose, CommitOrder, CommitEvent, LockPaidOrder, CommitPayment,
        CommitPayouts, CommitExpired

\* A session that lost the race for its key finds the winner's order.
LEMMA WinnerIsThereStep ==
    ASSUME TypeInv, LockInv, WinnerIsThere, Next
    PROVE  WinnerIsThere'
  <1>1. SUFFICES ASSUME NEW s \in Sessions, pc'[s] = "order_reread"
                 PROVE  FoundByKey(s)' # {}
    BY DEF WinnerIsThere
  <1>2. FoundByKey(s) \subseteq FoundByKey(s)'
    BY OrdersStep DEF LockInv, FoundByKey, SameKey
  <1>3. CASE ~Acts(s)
    BY <1>1, <1>2, <1>3, Bystander DEF WinnerIsThere
  <1>4. CASE Acts(s)
    <2>1. ~PoolStep(s) /\ ~ContributionStep(s) /\ ~PayoutStep(s) /\ ~Abort(s)
      BY <1>1
      DEF PoolStep, ContributionStep, PayoutStep, CreatePool, LockForClose, CommitClose,
          LockForContribution, CommitContribution, LockForPayout, ComputeShares, CommitPayouts, Abort,
          TypeInv, TypeOK
    <2>2. ~PaymentStep(s)
      BY <1>1
      DEF PaymentStep, InitializePayment, OpenTransaction, RecordEvent, CommitEvent, LockPaidOrder,
          CommitPayment,
          TypeInv, TypeOK
    <2>3. FlushOrder(s)
      BY <1>1, <1>4, <2>1, <2>2, NamesAssumption
      DEF Acts, SessionStep, OrderStep, FindByKey, LockForOrder, CommitOrder, RereadByKey,
          TypeInv, TypeOK
    <2>4. FoundByKey(s) # {}
      BY <1>1, <2>3, SMTT(30) DEF FlushOrder, TypeInv, TypeOK
    <2>5. QED
      BY <1>2, <2>4
  <1>5. QED
    BY <1>3, <1>4

\* A distribution's lock keeps contributions and other distributions out.
LEMMA PayoutFrame ==
    ASSUME TypeInv, LockInv, PayoutsPending, Next,
           NEW s \in Sessions, pc[s] \in {"payout_shares", "payout_commit"}, ~Acts(s)
    PROVE  LET p == Request[s].pool IN
           /\ Contributors(p)' = Contributors(p)
           /\ AlreadyPaid(p)' = AlreadyPaid(p)
  <1> DEFINE p == Request[s].pool
  <1>1. ASSUME NEW t \in Sessions, CommitContribution(t)
        PROVE  Contributors(p)' = Contributors(p) /\ payouts' = payouts
    <2>1. Request[t].pool # p
      BY <1>1, LockIsExclusive DEF CommitContribution, UnderPoolLock
    <2>2. QED
      BY <1>1, <2>1 DEF CommitContribution, Contributors, ContributionsTo
  <1>2. ASSUME NEW t \in Sessions, CommitPayouts(t)
        PROVE  contributions' = contributions /\ PayoutsOf(p)' = PayoutsOf(p)
    <2>1. t # s
      BY <1>2 DEF Acts, SessionStep, PayoutStep
    <2>2. Request[t].pool # p
      BY <1>2, <2>1, LockIsExclusive DEF CommitPayouts, UnderPoolLock
    <2>3. \A r \in due[t] : r.pool # p
      BY <1>2, <2>2 DEF CommitPayouts, PayoutsPending, DueRows
    <2>4. QED
      BY <1>2, <2>3 DEF CommitPayouts, PayoutsOf
  <1>3. ASSUME contributions' = contributions, payouts' = payouts
        PROVE  Contributors(p)' = Contributors(p) /\ AlreadyPaid(p)' = AlreadyPaid(p)
    BY <1>3 DEF Contributors, ContributionsTo, AlreadyPaid, PayoutsOf
  <1>4. QED
    BY <1>1, <1>2, <1>3, TableSteps
    DEF Committing, CreatePool, CommitClose, CommitOrder, CommitEvent, LockPaidOrder, CommitPayment,
        CommitExpired, Contributors, ContributionsTo, AlreadyPaid, PayoutsOf

\* A step changes the payout rows only of the session that makes it.
LEMMA DueStep ==
    ASSUME TypeInv, PayoutsPending, Next
    PROVE  /\ due' = [s \in Sessions |-> due'[s]]
           /\ \A s \in Sessions : ~Acts(s) => due'[s] = due[s]
  <1> USE NamesAssumption DEF PayoutsPending
  <1>1. ASSUME NEW s \in Sessions, SessionStep(s) \/ Abort(s)
        PROVE  due' = due \/ due' = [due EXCEPT ![s] = due'[s]]
    BY <1>1
    DEF SessionStep, PoolStep, ContributionStep, OrderStep, PaymentStep, PayoutStep, CreatePool,
        LockForClose, CommitClose, LockForContribution, CommitContribution, FindByKey, LockForOrder,
        FlushOrder, CommitOrder, RereadByKey, InitializePayment, OpenTransaction, RecordEvent,
        CommitEvent,
        LockPaidOrder, CommitPayment, LockForPayout, ComputeShares, CommitPayouts, Abort
  <1>2. ASSUME \/ \E w \in Sweepers : SweepStep(w) \/ AbortSweep(w)
               \/ Quiet \/ \E o \in Orders : Age(o)
        PROVE  due' = due
    BY <1>2
    DEF SweepStep, FindExpired, NextCandidate, LockExpired, LockExpiredPool, CommitExpired, AbortSweep,
        Quiet, Age, vars
  <1>3. QED
    BY <1>1, <1>2, SMTT(30) DEF Next, Acts

\* The rows computed for a pool are one for each contributor.
LEMMA SharesRows ==
    ASSUME NEW p, NEW last
    PROVE  /\ \A r \in Shares(p, last) : r.pool = p
           /\ {r.farmer : r \in Shares(p, last)} = Contributors(p)
           /\ \A r, q \in Shares(p, last) : r.farmer = q.farmer => r = q
  <1> DEFINE share(f) == [pool |-> p, farmer |-> f, amount |-> AmountFor(f, p, last)]
  <1>1. Shares(p, last) = {share(f) : f \in Contributors(p)}
    BY DEF Shares
  <1>2. \A f : share(f).pool = p /\ share(f).farmer = f
    OBVIOUS
  <1> HIDE DEF share
  <1>3. {r.farmer : r \in {share(f) : f \in Contributors(p)}} = Contributors(p)
    BY <1>2
  <1>4. QED
    BY <1>1, <1>2, <1>3

\* While a distribution holds the lock of its pool, the pool stays unpaid and
\* the rows computed for it stay the right ones.
LEMMA PayoutsPendingStep ==
    ASSUME TypeInv, LockInv, PayoutsPending, Next
    PROVE  PayoutsPending'
  <1>1. SUFFICES ASSUME NEW s \in Sessions, pc'[s] \in {"payout_shares", "payout_commit"}
                 PROVE  /\ ~AlreadyPaid(Request[s].pool)'
                        /\ pc'[s] = "payout_commit" => DueRows(s)'
    BY DueStep DEF PayoutsPending
  <1>2. CASE ~Acts(s)
    BY <1>1, <1>2, Bystander, PayoutFrame, DueStep DEF PayoutsPending, DueRows
  <1>3. CASE Acts(s)
    <2>1. ~PoolStep(s) /\ ~ContributionStep(s) /\ ~Abort(s)
      BY <1>1
      DEF PoolStep, ContributionStep, CreatePool, LockForClose, CommitClose, LockForContribution,
          CommitContribution, Abort, TypeInv, TypeOK
    <2>2. ~OrderStep(s)
      BY <1>1
      DEF OrderStep, FindByKey, LockForOrder, FlushOrder, CommitOrder, RereadByKey, TypeInv, TypeOK
    <2>3. ~PaymentStep(s)
      BY <1>1
      DEF PaymentStep, InitializePayment, OpenTransaction, RecordEvent, CommitEvent, LockPaidOrder,
          CommitPayment,
          TypeInv, TypeOK
    <2>4. PayoutStep(s)
      BY <1>3, <2>1, <2>2, <2>3, NamesAssumption DEF Acts, SessionStep
    <2>5. CASE LockForPayout(s)
      BY <1>1, <2>5 DEF LockForPayout, AlreadyPaid, PayoutsOf, TypeInv, TypeOK
    <2>6. CASE ComputeShares(s)
      <3>1. pc'[s] = "payout_commit" /\ \E last \in LastInLine(Request[s].pool) :
                due' = [due EXCEPT ![s] = Shares(Request[s].pool, last)]
        BY <1>1, <2>6 DEF ComputeShares, TypeInv, TypeOK
      <3>2. \E last \in LastInLine(Request[s].pool) : due'[s] = Shares(Request[s].pool, last)
        BY <3>1 DEF PayoutsPending
      <3>3. contributions' = contributions /\ payouts' = payouts
        BY <2>6 DEF ComputeShares
      <3>4. Contributors(Request[s].pool)' = Contributors(Request[s].pool)
        BY <3>3 DEF Contributors, ContributionsTo
      <3>5. DueRows(s)'
        BY <3>2, <3>4, SharesRows DEF DueRows
      <3>6. QED
        BY <2>6, <3>3, <3>5 DEF ComputeShares, PayoutsPending, AlreadyPaid, PayoutsOf
    <2>7. ~CommitPayouts(s)
      BY <1>1 DEF CommitPayouts, TypeInv, TypeOK
    <2>8. QED
      BY <2>4, <2>5, <2>6, <2>7 DEF PayoutStep
  <1>4. QED
    BY <1>2, <1>3

\* No work is in progress at the start.
LEMMA WorkInvInit == ASSUME Init PROVE WorkInv
  BY NamesAssumption
  DEF Init, WorkInv, EventsApart, NotYetContributed, PayoutsPending, WinnerIsThere, Recording,
      Webhooks, Carrying

\* The facts about work in progress survive every step and stutter.
LEMMA WorkInvStep == ASSUME TypeInv, LockInv, WorkInv, [Next]_vars PROVE WorkInv'
  <1>1. CASE Next
    BY <1>1, EventsApartStep, NotYetContributedStep, PayoutsPendingStep, WinnerIsThereStep DEF WorkInv
  <1>2. CASE UNCHANGED vars
    <2>1. EventsApart' /\ NotYetContributed' /\ WinnerIsThere'
      BY <1>2
      DEF vars, WorkInv, EventsApart, NotYetContributed, WinnerIsThere, Recording, FoundByKey, Placed
    <2>2. PayoutsPending'
      BY <1>2
      DEF vars, WorkInv, PayoutsPending, DueRows, Contributors, ContributionsTo, AlreadyPaid, PayoutsOf
    <2>3. QED
      BY <2>1, <2>2 DEF WorkInv
  <1>3. QED
    BY <1>1, <1>2

-----------------------------------------------------------------------------
(***************************************************************************)
(* The theorems that need every layer.                                     *)
(***************************************************************************)

FullInv == TypeInv /\ LockInv /\ OrderInv /\ PaymentMatches /\ WorkInv /\ KeyInv

\* All of it holds at the start.
LEMMA FullInvInit == ASSUME Init PROVE FullInv
  <1>1. PaymentMatches /\ KeyInv
    BY NamesAssumption
    DEF Init, PaymentMatches, PaymentsOf, KeyInv, OneOrderPerKey, FlushedApart, Placed, Flushed,
        Orders, Carrying
  <1>2. QED
    BY <1>1, TypeInvInit, LockInvInit, OrderInvInit, WorkInvInit DEF FullInv

\* All of it survives every step and stutter.
LEMMA FullInvStep == ASSUME FullInv, [Next]_vars PROVE FullInv'
  <1>1. CASE Next
    BY <1>1, TypeInvStep, LockInvStep, OrderInvStep, PaidStep, WorkInvStep, KeyInvStep DEF FullInv
  <1>2. CASE UNCHANGED vars
    <2>1. PaymentMatches' /\ KeyInv'
      BY <1>2
      DEF vars, FullInv, PaymentMatches, PaymentsOf, Reference, KeyInv, OneOrderPerKey, FlushedApart,
          FoundByKey, Placed, Flushed, SameKey
    <2>2. QED
      BY <1>2, <2>1, TypeInvStep, LockInvStep, OrderInvStep, WorkInvStep DEF FullInv
  <1>3. QED
    BY <1>1, <1>2

\* All of it holds in every reachable state.
LEMMA FullInvHolds == Spec => []FullInv
  BY FullInvInit, FullInvStep, PTL DEF Spec

\* A distribution that reaches its commit inserts first rows for its pool.
LEMMA NoClash ==
    ASSUME FullInv, NEW s \in Sessions, pc[s] = "payout_commit"
    PROVE  ~Clashes(s) /\ PayoutsOf(Request[s].pool) = {} /\ DueRows(s)
  BY DEF FullInv, WorkInv, PayoutsPending, AlreadyPaid, PayoutsOf, Clashes, DueRows

\* The constraint violations no handler can deal with never happen.
THEOREM NoConflictEscapes == Spec => []NoUnhandledConflict
  <1>1. ASSUME FullInv PROVE NoUnhandledConflict
    <2>1. ASSUME NEW s \in Sessions, pc[s] = "payment_commit" PROVE PaymentsOf(Reference(s)) = {}
      <3>1. Reference(s) \in Orders /\ orders[Reference(s)] # "paid"
        BY <1>1, <2>1, RequestTypes DEF FullInv, TypeInv, OrderInv, OrderLockHeld
      <3>2. QED
        BY <1>1, <3>1 DEF FullInv, PaymentMatches
    <2>2. QED
      BY <1>1, <2>1, NoClash DEF NoUnhandledConflict, FullInv, WorkInv, WinnerIsThere
  <1>2. QED
    BY <1>1, FullInvHolds, PTL

\* Every step of the services is a step of Ledger, or changes no table.
LEMMA LedgerStep ==
    ASSUME FullInv, Next
    PROVE  Promise!Next \/ UNCHANGED Promise!ledger
  <1> USE DEF Promise!Next, Promise!ledger
  <1>0. /\ Promise!Orders = Orders
        /\ Promise!Contributions = Contributions
        /\ Promise!Webhooks = Webhooks
    BY DEF Promise!Orders, Promise!Contributions, Promise!Webhooks, Promise!Carrying, Promise!Sessions,
           Orders, Contributions, Webhooks, Carrying, Sessions
  <1>1. ASSUME NEW s \in Sessions, CreatePool(s) PROVE Promise!Next
    BY <1>1, RequestTypes DEF CreatePool, Promise!CreatePool, FullInv, TypeInv
  <1>2. ASSUME NEW s \in Sessions, pc[s] \in UnderPoolLock
        PROVE  Request[s].pool \in Pools /\ row[s] = pools[Request[s].pool]
    <2>1. pc[s] # "expire_commit"
      BY <1>2, RequestTypes DEF FullInv, TypeInv, Expiring
    <2>2. QED
      BY <1>2, <2>1, RequestTypes, NamesAssumption
      DEF FullInv, TypeInv, LockInv, LockedRowIsFresh, UnderPoolLock, PoolOf
  <1>3. ASSUME NEW s \in Sessions, CommitClose(s) PROVE Promise!Next
    <2>1. /\ Request[s].pool \in Pools
          /\ row[s] = pools[Request[s].pool]
          /\ row[s].status = "open"
      BY <1>2, <1>3 DEF CommitClose, UnderPoolLock, FullInv, LockInv, StatusChecked
    <2>2. Promise!ClosePool(Request[s].pool)
      BY <1>3, <2>1 DEF CommitClose, Promise!ClosePool, Closed, Promise!Closed
    <2>3. QED
      BY <2>1, <2>2
  <1>4. ASSUME NEW s \in Sessions, CommitContribution(s)
        PROVE  Promise!Next \/ UNCHANGED Promise!ledger
    <2>1. /\ s \in Contributions
          /\ row[s] = pools[Request[s].pool]
          /\ row[s].status = "open"
      BY <1>2, <1>4, RequestTypes
      DEF CommitContribution, UnderPoolLock, FullInv, TypeInv, LockInv, StatusChecked
    <2>2. s \notin contributions
      BY <1>4 DEF CommitContribution, FullInv, WorkInv, NotYetContributed
    <2>3. CASE QuantityFits(s)
      <3>1. Promise!Contribute(s)
        BY <1>4, <2>1, <2>2, <2>3
        DEF CommitContribution, QuantityFits, Promise!Contribute, Stocked, Promise!Stocked
      <3>2. QED
        BY <1>0, <2>1, <3>1
    <2>4. CASE ~QuantityFits(s)
      BY <1>4, <2>4 DEF CommitContribution
    <2>5. QED
      BY <2>3, <2>4
  <1>5. ASSUME NEW s \in Sessions, CommitOrder(s) PROVE Promise!Next
    <2>1. /\ s \in Orders
          /\ row[s] = pools[Request[s].pool]
          /\ row[s].status = "open"
          /\ Request[s].qty <= row[s].available_qty
      BY <1>2, <1>5, RequestTypes
      DEF CommitOrder, UnderPoolLock, FullInv, TypeInv, LockInv, StatusChecked, StockReserved, Sellable
    <2>2. orders[s] = "absent"
      BY <1>5, <2>1 DEF CommitOrder, FullInv, OrderInv, NotYetPlaced
    <2>3. \A t \in Orders : orders[t] # "absent" => ~SameKey(s, t)
      BY <1>5, <2>1 DEF CommitOrder, FullInv, KeyInv, FlushedApart, Flushed, FoundByKey, Placed
    <2>4. Promise!PlaceOrder(s)
      BY <1>0, <1>5, <2>1, <2>2, <2>3
      DEF CommitOrder, Promise!PlaceOrder, Sold, Promise!Sold, SameKey, Promise!SameKey
    <2>5. QED
      BY <1>0, <2>1, <2>4
  <1>6. ASSUME NEW s \in Sessions, CommitEvent(s) \/ LockPaidOrder(s) \/ CommitPayment(s)
        PROVE  Promise!Next \/ UNCHANGED Promise!ledger
    <2>1. s \in Webhooks /\ s \in Recording
      BY <1>6, RequestTypes
      DEF CommitEvent, LockPaidOrder, CommitPayment, Recording, FullInv, TypeInv
    <2>2. Request[s].event \notin processed_events
      BY <2>1 DEF FullInv, WorkInv, EventsApart
    <2>3. CASE CommitEvent(s) \/ LockPaidOrder(s)
      <3>1. Promise!RecordEvent(s) \/ UNCHANGED Promise!ledger
        BY <2>2, <2>3 DEF CommitEvent, LockPaidOrder, Promise!RecordEvent
      <3>2. QED
        BY <1>0, <2>1, <3>1
    <2>4. CASE CommitPayment(s)
      <3>1. Reference(s) \in Orders /\ orders[Reference(s)] \in {"pending", "expired"} /\ ActedOn(s)
        BY <2>4, RequestTypes
        DEF CommitPayment, FullInv, TypeInv, LabelsFit, OrderInv, OrderLockHeld
      <3>2. PaymentsOf(Reference(s)) = {}
        BY <3>1 DEF FullInv, PaymentMatches
      <3>3. CASE Request[s].amount <= MaxTotal
        <4>1. Promise!SettleOrder(s)
          BY <2>2, <2>4, <3>1, <3>2, <3>3
          DEF CommitPayment, Promise!SettleOrder, PaymentsOf, Reference, ActedOn
        <4>2. QED
          BY <1>0, <2>1, <4>1
      <3>4. CASE ~(Request[s].amount <= MaxTotal)
        BY <2>4, <3>4 DEF CommitPayment, Promise!ledger
      <3>5. QED
        BY <3>3, <3>4
    <2>5. QED
      BY <1>6, <2>3, <2>4
  <1>7. ASSUME NEW s \in Sessions, CommitPayouts(s)
        PROVE  Promise!Next \/ UNCHANGED Promise!ledger
    <2>1. /\ Request[s].pool \in Pools
          /\ pools[Request[s].pool].status = "closed"
      BY <1>2, <1>7 DEF CommitPayouts, UnderPoolLock, FullInv, LockInv, StatusChecked
    <2>2. ~Clashes(s) /\ PayoutsOf(Request[s].pool) = {} /\ DueRows(s)
      BY <1>7, NoClash DEF CommitPayouts
    <2>3. CASE TooLarge(s)
      BY <1>7, <2>2, <2>3 DEF CommitPayouts, Promise!ledger
    <2>4. CASE ~TooLarge(s)
      <3>1. payouts' = payouts \cup due[s] /\ payouts' \ payouts = due[s]
        BY <1>7, <2>2, <2>4 DEF CommitPayouts, PayoutsOf, DueRows
      <3>2. Promise!ShareOut(Request[s].pool)
        BY <1>7, <2>1, <2>2, <3>1
        DEF CommitPayouts, Promise!ShareOut, PayoutsOf, DueRows, Promise!FarmersOf, Contributors,
            ContributionsTo
      <3>3. QED
        BY <2>1, <3>2
    <2>5. QED
      BY <2>3, <2>4
  <1>8. ASSUME NEW w \in Sweepers, CommitExpired(w) PROVE Promise!Next
    <2>1. /\ current[w] \in Orders
          /\ orders[current[w]] = "pending"
          /\ row[w] = pools[Request[current[w]].pool]
      BY <1>8
      DEF CommitExpired, FullInv, OrderInv, OrderLockHeld, LockInv, LockedRowIsFresh, RowsExist, Placed,
          UnderPoolLock, PoolOf
    <2>2. Promise!ExpireOrder(current[w])
      BY <1>8, <2>1 DEF CommitExpired, Promise!ExpireOrder, Released, Promise!Released
    <2>3. QED
      BY <1>0, <2>1, <2>2
  <1>9. QED
    BY <1>1, <1>3, <1>4, <1>5, <1>6, <1>7, <1>8, TableSteps DEF Committing

\* The services, with their locks, copies and failures, implement the atomic
\* promises of Ledger.
THEOREM Refinement == Spec => ImplementsLedger
  <1>1. Init => Promise!Init
    BY DEF Init, Promise!Init, NoRow, Promise!NoRow, Orders, Promise!Orders, Carrying, Promise!Carrying,
           Sessions, Promise!Sessions
  <1>2. FullInv /\ [Next]_vars => [Promise!Next]_Promise!ledger
    BY LedgerStep DEF vars, Promise!ledger
  <1>3. QED
    BY <1>1, <1>2, FullInvHolds, PTL DEF Spec, ImplementsLedger, Promise!Spec

-----------------------------------------------------------------------------
(***************************************************************************)
(* Layer 6: retries.                                                       *)
(***************************************************************************)

\* What s answers by order o is s's to be told.
IsAnswerTo(o, s) ==
    /\ orders[o] # "absent"
    /\ Request[o].buyer = Request[s].buyer
    /\ o = s \/ (Request[s].key # NoKey /\ Request[o].key = Request[s].key)

\* No other step of an order's session answers with an order.
LEMMA AnsweredByOrder ==
    ASSUME TypeInv, NEW s \in Orders, Acts(s), answer'[s] \in Orders, answer'[s] # answer[s]
    PROVE  FindByKey(s) \/ CommitOrder(s) \/ RereadByKey(s)
  <1> USE NamesAssumption DEF TypeInv, TypeOK
  <1>1. s \in Sessions /\ s \notin Sweepers /\ Request[s].op = "order"
    BY DEF Orders, Carrying
  <1>2. Orders \cap Outcomes = {}
    BY DEF Orders, Carrying
  <1>3. ~PoolStep(s) /\ ~ContributionStep(s) /\ ~PayoutStep(s) /\ ~PaymentStep(s)
    BY <1>1
    DEF PoolStep, ContributionStep, PayoutStep, PaymentStep, CreatePool, LockForClose, CommitClose,
        LockForContribution, CommitContribution, LockForPayout, ComputeShares, CommitPayouts,
        InitializePayment, OpenTransaction, RecordEvent, CommitEvent, LockPaidOrder, CommitPayment,
        LabelsFit, LabelsOf
  <1>4. Abort(s) => answer'[s] = "error"
    BY <1>1 DEF Abort
  <1>5. LockForOrder(s) \/ FlushOrder(s) =>
            answer'[s] \in {answer[s], "error", "not_found", "closed", "insufficient"}
    BY <1>1 DEF LockForOrder, FlushOrder
  <1>6. QED
    BY <1>1, <1>2, <1>3, <1>4, <1>5 DEF Acts, SessionStep, OrderStep, Outcomes

\* A later answer, or a later table, does not make an earlier answer wrong.
LEMMA RetryStep ==
    ASSUME TypeInv, LockInv, RetryReturnsOriginal, Next
    PROVE  RetryReturnsOriginal'
  <1> USE DEF TypeInv, TypeOK
  <1>1. SUFFICES ASSUME NEW s \in Orders, answer'[s] \in Orders
                 PROVE  IsAnswerTo(answer[s], s)' 
    BY DEF RetryReturnsOriginal, IsAnswerTo
  <1>2. s \in Sessions /\ s \notin Sweepers /\ s \in Processes
    BY NamesAssumption DEF Orders, Carrying
  <1>3. \A o \in Orders : orders[o] # "absent" => orders'[o] # "absent"
    BY OrdersStep DEF LockInv, Placed
  <1>4. CASE answer'[s] = answer[s]
    BY <1>1, <1>3, <1>4 DEF RetryReturnsOriginal, IsAnswerTo
  <1>5. CASE answer'[s] # answer[s]
    <2>1. Acts(s)
      BY <1>2, <1>5, Bystander
    <2>2. CASE CommitOrder(s)
      BY <1>1, <1>2, <2>2 DEF CommitOrder, IsAnswerTo
    <2>3. CASE FindByKey(s) \/ RereadByKey(s)
      <3>1. answer'[s] \in FoundByKey(s)
        BY <1>1, <1>2, <1>5, <2>3, NamesAssumption DEF FindByKey, RereadByKey, Outcomes, Orders, Carrying
      <3>2. QED
        BY <1>1, <1>3, <3>1 DEF FoundByKey, SameKey, Placed, IsAnswerTo
    <2>4. QED
      BY <1>1, <1>5, <2>1, <2>2, <2>3, AnsweredByOrder
  <1>6. QED
    BY <1>4, <1>5

\* create_order answers with an order that exists and is the caller's: the one
\* just placed or the one its key already named, for any number of retries.
THEOREM RetriesAgree == Spec => []RetryReturnsOriginal
  <1> DEFINE Inv == TypeInv /\ LockInv /\ RetryReturnsOriginal
  <1>1. Init => Inv
    <2>1. ASSUME Init PROVE RetryReturnsOriginal
      BY <2>1, NamesAssumption DEF Init, RetryReturnsOriginal, Orders, Carrying, Outcomes
    <2>2. QED
      BY <2>1, TypeInvInit, LockInvInit
  <1>2. Inv /\ [Next]_vars => Inv'
    <2>1. ASSUME Inv, UNCHANGED vars PROVE RetryReturnsOriginal'
      BY <2>1 DEF vars, RetryReturnsOriginal
    <2>2. QED
      BY <2>1, TypeInvStep, LockInvStep, RetryStep
  <1>3. QED
    BY <1>1, <1>2, PTL DEF Spec

-----------------------------------------------------------------------------
(***************************************************************************)
(* Layer 7: charges.  What the run SharedId shows to be needed is assumed: *)
(* an event id names one event, which may be delivered any number of times.*)
(***************************************************************************)

IdsNameEvents ==
    \A v, w \in Webhooks :
        Request[v].event = Request[w].event =>
            Request[v].type = Request[w].type /\ Reference(v) = Reference(w)

\* Paystack reports on orders that exist.
Initialized ==
    /\ initialized \subseteq Placed
    /\ \A s \in Sessions : pc[s] = "paystack_open" => Request[s].order \in Placed

\* Where a delivery goes depends on what it reports.
Sorted ==
    \A s \in Sessions :
        /\ pc[s] = "event_commit" => ~ActedOn(s)
        /\ pc[s] = "webhook_order" => Reference(s) \in Placed

\* A recorded event has had its effect.
RecordedIsPaid ==
    \A w \in Webhooks :
        ActedOn(w) /\ Request[w].event \in processed_events => orders[Reference(w)] = "paid"

ChargeInv == Initialized /\ Sorted /\ RecordedIsPaid /\ AcknowledgedChargeIsPaid

\* A paid order stays paid.
LEMMA PaidStays ==
    ASSUME TypeInv, LockInv, OrderInv, Next, NEW o \in Orders, orders[o] = "paid"
    PROVE  orders'[o] = "paid"
  <1> USE DEF TypeInv, TypeOK
  <1>1. ASSUME NEW s \in Sessions, CommitOrder(s) PROVE orders'[o] = "paid"
    <2>1. s \in Orders /\ orders[s] = "absent"
      BY <1>1, RequestTypes DEF CommitOrder, OrderInv, NotYetPlaced
    <2>2. QED
      BY <1>1, <2>1 DEF CommitOrder
  <1>2. ASSUME NEW s \in Sessions, CommitPayment(s) PROVE orders'[o] = "paid"
    BY <1>2 DEF CommitPayment
  <1>3. ASSUME NEW w \in Sweepers, CommitExpired(w) PROVE orders'[o] = "paid"
    BY <1>3 DEF CommitExpired, OrderInv, OrderLockHeld
  <1>4. QED
    BY <1>1, <1>2, <1>3, TableSteps
    DEF Committing, CreatePool, CommitClose, CommitContribution, CommitEvent, LockPaidOrder,
        CommitPayouts

\* A transaction is opened only for an order that was read.
LEMMA InitializedStep ==
    ASSUME TypeInv, LockInv, Initialized, Next
    PROVE  Initialized'
  <1>1. Placed \subseteq Placed'
    BY OrdersStep DEF LockInv
  <1>2. ASSUME NEW s \in Sessions, pc'[s] = "paystack_open", pc[s] # "paystack_open"
        PROVE  Request[s].order \in Placed
    <2>1. Acts(s) /\ s \notin Sweepers
      BY <1>2, Bystander, NamesAssumption, SMTT(30)
    <2>2. InitializePayment(s)
      BY <1>2, <2>1
      DEF TypeInv, TypeOK, Acts, SessionStep, PoolStep, ContributionStep, OrderStep, PaymentStep, PayoutStep,
          CreatePool, LockForClose, CommitClose, LockForContribution, CommitContribution,
          FindByKey, LockForOrder, FlushOrder, CommitOrder, RereadByKey, OpenTransaction,
          RecordEvent, CommitEvent, LockPaidOrder, CommitPayment, LockForPayout, ComputeShares,
          CommitPayouts, Abort
    <2>3. Request[s].order \in Orders
      BY <2>2, RequestsAssumption DEF InitializePayment, Carrying
    <2>4. orders[Request[s].order] # "absent"
      BY <1>2, <2>2 DEF InitializePayment, Reply, TypeInv, TypeOK
    <2>5. QED
      BY <2>3, <2>4 DEF Placed
  <1>3. initialized' \subseteq Placed
    <2>1. ASSUME NEW s \in Sessions, OpenTransaction(s) PROVE initialized' \subseteq Placed
      <3>1. initialized' \subseteq initialized \cup {Request[s].order}
        BY <2>1 DEF OpenTransaction
      <3>2. initialized \subseteq Placed /\ Request[s].order \in Placed
        BY <2>1, SMTT(30) DEF OpenTransaction, Initialized
      <3> QED
        BY <3>1, <3>2
    <2>2. ASSUME NEW s \in Sessions, SessionStep(s), ~OpenTransaction(s) PROVE initialized' = initialized
      BY <2>2
      DEF SessionStep, PoolStep, ContributionStep, OrderStep, PaymentStep, PayoutStep,
          CreatePool, LockForClose, CommitClose, LockForContribution, CommitContribution,
          FindByKey, LockForOrder, FlushOrder, CommitOrder, RereadByKey, InitializePayment,
          RecordEvent, CommitEvent, LockPaidOrder, CommitPayment, LockForPayout, ComputeShares,
          CommitPayouts
    <2>3. ASSUME NEW w \in Sweepers, SweepStep(w) PROVE initialized' = initialized
      BY <2>3 DEF SweepStep, FindExpired, NextCandidate, LockExpired, LockExpiredPool, CommitExpired
    <2>4. ASSUME \/ \E s \in Sessions : Abort(s)
                 \/ \E w \in Sweepers : AbortSweep(w)
                 \/ \E o \in Orders : Age(o)
                 \/ Quiet
          PROVE  initialized' = initialized
      BY <2>4 DEF Abort, AbortSweep, Age, Quiet, vars
    <2>5. QED
      BY <2>1, <2>2, <2>3, <2>4 DEF Next, Initialized
  <1>4. QED
    BY <1>1, <1>2, <1>3 DEF Initialized

\* A delivery is sorted by what it says when its event is recorded.
LEMMA SortedStep ==
    ASSUME TypeInv, LockInv, Initialized, Sorted, Next
    PROVE  Sorted'
  <1>1. SUFFICES ASSUME NEW s \in Sessions, pc'[s] \in {"event_commit", "webhook_order"}
                 PROVE  /\ pc'[s] = "event_commit" => ~ActedOn(s)
                        /\ pc'[s] = "webhook_order" => Reference(s) \in Placed
    BY OrdersStep DEF Sorted, LockInv, ActedOn, Reference
  <1>2. CASE pc'[s] = pc[s]
    BY <1>2 DEF Sorted
  <1>3. CASE pc'[s] # pc[s]
    <2>1. Acts(s) /\ s \notin Sweepers
      BY <1>3, Bystander, NamesAssumption, SMTT(30)
    <2>2. RecordEvent(s)
      BY <1>1, <1>3, <2>1
      DEF TypeInv, TypeOK, Acts, SessionStep, PoolStep, ContributionStep, OrderStep, PaymentStep, PayoutStep,
          CreatePool, LockForClose, CommitClose, LockForContribution, CommitContribution,
          FindByKey, LockForOrder, FlushOrder, CommitOrder, RereadByKey, InitializePayment,
          OpenTransaction, CommitEvent, LockPaidOrder, CommitPayment, LockForPayout, ComputeShares,
          CommitPayouts, Abort
    <2>3. pc'[s] = IF ActedOn(s) THEN "webhook_order" ELSE "event_commit"
      BY <1>1, <2>2 DEF RecordEvent, TypeInv, TypeOK
    <2>4. ActedOn(s) => Reference(s) \in Placed
      BY <2>2 DEF RecordEvent, Deliverable, ActedOn, Initialized
    <2>5. QED
      BY <2>3, <2>4
  <1>4. QED
    BY <1>2, <1>3

\* Whoever records an event, or acknowledges it, leaves its order paid.
LEMMA PaidOnceRecorded ==
    ASSUME TypeInv, LockInv, OrderInv, PaymentMatches, Sorted,
           NEW s \in Sessions, ActedOn(s),
           CommitEvent(s) \/ LockPaidOrder(s) \/ CommitPayment(s),
           processed_events' # processed_events \/ (answer'[s] = "ok" /\ answer[s] # "ok")
    PROVE  orders'[Reference(s)] = "paid"
  <1> USE DEF TypeInv, TypeOK
  <1>1. ~CommitEvent(s)
    BY DEF CommitEvent, Sorted
  <1>2. Reference(s) \in Orders
    BY <1>1, RequestTypes DEF LockPaidOrder, CommitPayment
  <1>3. CASE LockPaidOrder(s)
    BY <1>2, <1>3 DEF LockPaidOrder, AlreadySettled, Sorted, Placed
  <1>4. CASE CommitPayment(s)
    BY <1>2, <1>4 DEF CommitPayment
  <1>5. QED
    BY <1>1, <1>3, <1>4

\* A new event id comes with its effect.
LEMMA RecordedStep ==
    ASSUME IdsNameEvents, TypeInv, LockInv, OrderInv, PaymentMatches, Sorted, RecordedIsPaid, Next
    PROVE  RecordedIsPaid'
  <1>1. SUFFICES ASSUME NEW w \in Webhooks, ActedOn(w), Request[w].event \in processed_events'
                 PROVE  orders'[Reference(w)] = "paid"
    BY DEF RecordedIsPaid, ActedOn, Reference
  <1>2. Reference(w) \in Orders
    BY <1>1, RequestsAssumption DEF ActedOn, Reference
  <1>3. CASE Request[w].event \in processed_events
    BY <1>1, <1>2, <1>3, PaidStays DEF RecordedIsPaid
  <1>4. CASE Request[w].event \notin processed_events
    <2>1. PICK s \in Sessions : CommitEvent(s) \/ LockPaidOrder(s) \/ CommitPayment(s)
      BY <1>1, <1>4, TableSteps
      DEF Committing, CreatePool, CommitClose, CommitContribution, CommitOrder, CommitPayouts,
          CommitExpired
    <2>2. Request[s].event = Request[w].event
      BY <1>1, <1>4, <2>1 DEF CommitEvent, LockPaidOrder, CommitPayment
    <2>3. s \in Webhooks
      BY <2>1, RequestTypes DEF TypeInv, CommitEvent, LockPaidOrder, CommitPayment
    <2>4. ActedOn(s) /\ Reference(s) = Reference(w)
      BY <1>1, <2>2, <2>3 DEF IdsNameEvents, ActedOn
    <2>5. QED
      BY <1>1, <1>4, <2>1, <2>4, PaidOnceRecorded, SMTT(30)
  <1>5. QED
    BY <1>3, <1>4

\* An acknowledgement comes with the effect of what it acknowledges, or after it.
LEMMA AcknowledgedStep ==
    ASSUME TypeInv, LockInv, OrderInv, PaymentMatches, Sorted, RecordedIsPaid,
           AcknowledgedChargeIsPaid, Next
    PROVE  AcknowledgedChargeIsPaid'
  <1> USE DEF TypeInv, TypeOK
  <1>1. SUFFICES ASSUME NEW w \in Webhooks, ActedOn(w), answer'[w] = "ok"
                 PROVE  orders'[Reference(w)] = "paid"
    BY DEF AcknowledgedChargeIsPaid, ActedOn, Reference
  <1>2. Reference(w) \in Orders /\ w \in Sessions /\ w \notin Sweepers /\ Request[w].op = "webhook"
    BY <1>1, RequestsAssumption, NamesAssumption DEF ActedOn, Reference, Webhooks, Carrying
  <1>3. CASE answer[w] = "ok"
    BY <1>1, <1>2, <1>3, PaidStays DEF AcknowledgedChargeIsPaid, ActedOn
  <1>4. CASE answer[w] # "ok"
    <2>1. Acts(w)
      BY <1>1, <1>2, <1>4, Bystander
    <2>2. ~PoolStep(w) /\ ~ContributionStep(w) /\ ~OrderStep(w) /\ ~PayoutStep(w) /\ ~Abort(w)
      BY <1>1, <1>2
      DEF PoolStep, ContributionStep, OrderStep, PayoutStep, CreatePool, LockForClose, CommitClose,
          LockForContribution, CommitContribution, FindByKey, LockForOrder, FlushOrder, CommitOrder,
          RereadByKey, LockForPayout, ComputeShares, CommitPayouts, Abort, LabelsFit, LabelsOf
    <2>3. CASE RecordEvent(w)
      <3>1. Request[w].event \in processed_events /\ orders' = orders
        BY <1>1, <1>2, <1>4, <2>3 DEF RecordEvent
      <3>2. QED
        BY <1>1, <3>1 DEF RecordedIsPaid
    <2>4. CASE CommitEvent(w) \/ LockPaidOrder(w) \/ CommitPayment(w)
      BY <1>1, <1>2, <1>4, <2>4, PaidOnceRecorded
    <2>5. ~InitializePayment(w) /\ ~OpenTransaction(w)
      BY <1>2 DEF InitializePayment, OpenTransaction, LabelsFit, LabelsOf
    <2>6. QED
      BY <1>2, <2>1, <2>2, <2>3, <2>4, <2>5 DEF Acts, SessionStep, PaymentStep
  <1>5. QED
    BY <1>3, <1>4

\* A successful charge that the webhook acknowledged has paid its order, if an
\* event id names one event: whatever fails, is delivered again or comes while
\* the sweep is at the same order.
THEOREM ChargesAreKept ==
    ASSUME IdsNameEvents
    PROVE  Spec => []AcknowledgedChargeIsPaid
  <1>1. Init => ChargeInv
    BY NamesAssumption
    DEF Init, ChargeInv, Initialized, Sorted, RecordedIsPaid, AcknowledgedChargeIsPaid, Webhooks, Carrying
  <1>2. FullInv /\ ChargeInv /\ [Next]_vars => ChargeInv'
    <2>1. ASSUME FullInv, ChargeInv, Next PROVE ChargeInv'
      BY <2>1, InitializedStep, SortedStep, RecordedStep, AcknowledgedStep DEF FullInv, ChargeInv
    <2>2. ASSUME ChargeInv, UNCHANGED vars PROVE ChargeInv'
      BY <2>2
      DEF vars, ChargeInv, Initialized, Sorted, RecordedIsPaid, AcknowledgedChargeIsPaid, Placed, ActedOn,
          Reference
    <2>3. QED
      BY <2>1, <2>2
  <1>3. ChargeInv => AcknowledgedChargeIsPaid
    BY DEF ChargeInv
  <1>4. QED
    BY <1>1, <1>2, <1>3, FullInvHolds, PTL DEF Spec
===============================================================================
