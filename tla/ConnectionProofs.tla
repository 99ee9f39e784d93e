--------------------------- MODULE ConnectionProofs ---------------------------
(***************************************************************************)
(* Theorems about Connections for every workload, any number of sweepers,  *)
(* connections and failures: nobody waits in a circle, whoever is waited   *)
(* for is at work, and what the services promise of their tables stands    *)
(* although requests are given up for want of a connection.                *)
(***************************************************************************)
EXTENDS Connections, BalanceProofs

USE DEF Goto, Reply, Refuse, LockPool, UnlockPool, LockOrder, UnlockOrder, ReleaseAll,
        tables, locks, sweep, outside, background, Processes

-----------------------------------------------------------------------------
(***************************************************************************)
(* Who holds a row lock.  FarmLinkProofs has it that a process at certain  *)
(* points holds certain locks; here, that nobody else holds any.           *)
(***************************************************************************)

\* The points between the lock on an order and the end of the transaction.
UnderOrderLock == {"payment_commit", "expire_pool", "expire_commit"}

OrderOf(x) == IF x \in Sweepers THEN current[x] ELSE Reference(x)

HeldLocks ==
    \A x \in Processes :
        /\ \A p \in Pools : pool_lock[p] = x => pc[x] \in UnderPoolLock /\ PoolOf(x) = p
        /\ \A o \in Orders : order_lock[o] = x => pc[x] \in UnderOrderLock /\ OrderOf(x) = o

\* Locks that go to nobody but x, which then holds those its label says.
PoolLocksFit(x) ==
    \A p \in Pools :
        /\ pool_lock'[p] \in {pool_lock[p], x, Free}
        /\ pool_lock'[p] = x => pc'[x] \in UnderPoolLock /\ PoolOf(x)' = p

OrderLocksFit(x) ==
    \A o \in Orders :
        /\ order_lock'[o] \in {order_lock[o], x, Free}
        /\ order_lock'[o] = x => pc'[x] \in UnderOrderLock /\ OrderOf(x)' = o

\* A session's step leaves it with the pool locks its new label says, and gives
\* nobody else one.
LEMMA SessionPoolLocks ==
    ASSUME TypeInv, HeldLocks, NEW s \in Sessions, SessionStep(s) \/ Abort(s)
    PROVE  PoolLocksFit(s)
  <1> USE DEF TypeInv, TypeOK, UnderPoolLock
  <1>1. s \notin Sweepers /\ s # Free /\ s \in Processes
    BY NamesAssumption
  <1>2. PoolOf(s) = Request[s].pool /\ PoolOf(s)' = Request[s].pool
    BY <1>1 DEF PoolOf
  <1>3. \A p \in Pools : pool_lock[p] = s => pc[s] \in UnderPoolLock /\ Request[s].pool = p
    BY <1>1, <1>2 DEF HeldLocks
  <1>4. CASE LockForClose(s)
    BY <1>1, <1>2, <1>3, <1>4 DEF LockForClose, PoolLocksFit
  <1>5. CASE LockForContribution(s)
    BY <1>1, <1>2, <1>3, <1>5 DEF LockForContribution, PoolLocksFit
  <1>6. CASE LockForOrder(s)
    BY <1>1, <1>2, <1>3, <1>6 DEF LockForOrder, PoolLocksFit
  <1>7. CASE LockForPayout(s)
    BY <1>1, <1>2, <1>3, <1>7 DEF LockForPayout, PoolLocksFit
  <1>8. CASE CommitClose(s) \/ CommitContribution(s) \/ CommitOrder(s) \/ CommitPayouts(s)
    <2>1. pool_lock' = [pool_lock EXCEPT ![Request[s].pool] = Free]
      BY <1>8 DEF CommitClose, CommitContribution, CommitOrder, CommitPayouts
    <2>2. QED
      BY <1>1, <1>3, <2>1 DEF PoolLocksFit
  <1>9. CASE FlushOrder(s)
    <2>1. \/ pool_lock' = [pool_lock EXCEPT ![Request[s].pool] = Free]
          \/ pool_lock' = pool_lock /\ pc'[s] = "order_commit"
      BY <1>1, <1>9 DEF FlushOrder
    <2>2. QED
      BY <1>1, <1>2, <1>3, <2>1 DEF PoolLocksFit
  <1>10. CASE ComputeShares(s)
    <2>1. \/ pool_lock' = [pool_lock EXCEPT ![Request[s].pool] = Free]
          \/ pool_lock' = pool_lock /\ pc'[s] = "payout_commit"
      BY <1>1, <1>10 DEF ComputeShares
    <2>2. QED
      BY <1>1, <1>2, <1>3, <2>1 DEF PoolLocksFit
  <1>11. CASE Abort(s)
    BY <1>1, <1>3, <1>11 DEF Abort, PoolLocksFit
  <1>12. CASE CreatePool(s) \/ FindByKey(s) \/ RereadByKey(s) \/ PaymentStep(s)
    <2>1. pool_lock' = pool_lock /\ pc[s] \notin UnderPoolLock
      BY <1>12
      DEF CreatePool, FindByKey, RereadByKey, PaymentStep, InitializePayment, OpenTransaction,
          RecordEvent, CommitEvent, LockPaidOrder, CommitPayment
    <2>2. QED
      BY <1>1, <1>3, <2>1 DEF PoolLocksFit
  <1>13. QED
    BY <1>4, <1>5, <1>6, <1>7, <1>8, <1>9, <1>10, <1>11, <1>12
    DEF SessionStep, PoolStep, ContributionStep, OrderStep, PayoutStep

\* The same of order locks, which only a payment takes.
LEMMA SessionOrderLocks ==
    ASSUME TypeInv, HeldLocks, NEW s \in Sessions, SessionStep(s) \/ Abort(s)
    PROVE  OrderLocksFit(s)
  <1> USE DEF TypeInv, TypeOK, UnderOrderLock
  <1>1. s \notin Sweepers /\ s # Free /\ s \in Processes
    BY NamesAssumption
  <1>2. OrderOf(s) = Reference(s) /\ OrderOf(s)' = Reference(s)
    BY <1>1 DEF OrderOf, Reference
  <1>3. \A o \in Orders : order_lock[o] = s => pc[s] \in UnderOrderLock /\ Reference(s) = o
    BY <1>1, <1>2 DEF HeldLocks
  <1>4. CASE LockPaidOrder(s)
    BY <1>1, <1>2, <1>3, <1>4 DEF LockPaidOrder, OrderLocksFit
  <1>5. CASE CommitPayment(s)
    <2>1. order_lock' = [order_lock EXCEPT ![Reference(s)] = Free]
      BY <1>5 DEF CommitPayment
    <2>2. QED
      BY <1>1, <1>3, <2>1 DEF OrderLocksFit
  <1>6. CASE Abort(s)
    BY <1>1, <1>3, <1>6 DEF Abort, OrderLocksFit
  <1>7. CASE \/ InitializePayment(s) \/ OpenTransaction(s) \/ RecordEvent(s) \/ CommitEvent(s)
             \/ PoolStep(s) \/ ContributionStep(s) \/ OrderStep(s) \/ PayoutStep(s)
    <2>1. order_lock' = order_lock /\ pc[s] \notin UnderOrderLock
      BY <1>7
      DEF InitializePayment, OpenTransaction, RecordEvent, CommitEvent, PoolStep, ContributionStep,
          OrderStep, PayoutStep, CreatePool, LockForClose, CommitClose, LockForContribution,
          CommitContribution, FindByKey, LockForOrder, FlushOrder, CommitOrder, RereadByKey,
          LockForPayout, ComputeShares, CommitPayouts
    <2>2. QED
      BY <1>1, <1>3, <2>1, SMTT(30) DEF OrderLocksFit
  <1>8. QED
    BY <1>4, <1>5, <1>6, <1>7 DEF SessionStep, PaymentStep

\* A sweep's step leaves it with the locks its new label says.
LEMMA SweepLocks ==
    ASSUME TypeInv, HeldLocks, NEW w \in Sweepers, SweepStep(w) \/ AbortSweep(w)
    PROVE  PoolLocksFit(w) /\ OrderLocksFit(w)
  <1> USE DEF TypeInv, TypeOK, UnderPoolLock, UnderOrderLock
  <1>1. w # Free /\ w \in Processes
    BY NamesAssumption
  <1>2. /\ PoolOf(w) = Request[current[w]].pool /\ PoolOf(w)' = Request[current'[w]].pool
        /\ OrderOf(w) = current[w] /\ OrderOf(w)' = current'[w]
    BY DEF PoolOf, OrderOf
  <1>3. /\ \A p \in Pools : pool_lock[p] = w => pc[w] \in UnderPoolLock /\ Request[current[w]].pool = p
        /\ \A o \in Orders : order_lock[o] = w => pc[w] \in UnderOrderLock /\ current[w] = o
    BY <1>1, <1>2 DEF HeldLocks
  <1>4. CASE FindExpired(w) \/ NextCandidate(w)
    <2>1. locks' = locks /\ pc[w] \notin UnderPoolLock \cup UnderOrderLock
      BY <1>4 DEF FindExpired, NextCandidate
    <2>2. QED
      BY <1>1, <1>3, <2>1 DEF PoolLocksFit, OrderLocksFit
  <1>5. CASE LockExpired(w)
    BY <1>1, <1>2, <1>3, <1>5 DEF LockExpired, PoolLocksFit, OrderLocksFit
  <1>6. CASE LockExpiredPool(w)
    BY <1>1, <1>2, <1>3, <1>6 DEF LockExpiredPool, PoolLocksFit, OrderLocksFit
  <1>7. CASE CommitExpired(w)
    <2>1. /\ pool_lock' = [pool_lock EXCEPT ![Request[current[w]].pool] = Free]
          /\ order_lock' = [order_lock EXCEPT ![current[w]] = Free]
      BY <1>7 DEF CommitExpired
    <2>2. QED
      BY <1>1, <1>3, <2>1 DEF PoolLocksFit, OrderLocksFit
  <1>8. CASE AbortSweep(w)
    BY <1>1, <1>3, <1>8 DEF AbortSweep, PoolLocksFit, OrderLocksFit
  <1>9. QED
    BY <1>4, <1>5, <1>6, <1>7, <1>8 DEF SweepStep

\* Every lock stays accounted for, whoever takes a step.
LEMMA HeldLocksStep ==
    ASSUME TypeInv, HeldLocks, Next
    PROVE  HeldLocks'
  <1>1. SUFFICES ASSUME NEW x \in Processes
                 PROVE  /\ \A p \in Pools : pool_lock'[p] = x =>
                               pc'[x] \in UnderPoolLock /\ PoolOf(x)' = p
                        /\ \A o \in Orders : order_lock'[o] = x =>
                               pc'[x] \in UnderOrderLock /\ OrderOf(x)' = o
    BY DEF HeldLocks, UnderPoolLock, UnderOrderLock
  <1>2. CASE Acts(x)
    BY <1>2, SessionPoolLocks, SessionOrderLocks, SweepLocks DEF Acts, PoolLocksFit, OrderLocksFit
  <1>3. CASE ~Acts(x)
    <2>1. pc'[x] = pc[x] /\ (x \in Sweepers => current'[x] = current[x])
      BY <1>3, Bystander
    <2>2. PoolOf(x)' = PoolOf(x) /\ OrderOf(x)' = OrderOf(x)
      BY <2>1 DEF PoolOf, OrderOf, Reference
    <2>3. /\ \A p \in Pools : pool_lock'[p] = x => pool_lock[p] = x
          /\ \A o \in Orders : order_lock'[o] = x => order_lock[o] = x
      <3>1. CASE \E y \in Processes : Acts(y)
        <4>1. PICK y \in Processes : Acts(y)
          BY <3>1
        <4>2. x # y /\ x # Free
          BY <1>3, <4>1, NamesAssumption
        <4>3. PoolLocksFit(y) /\ OrderLocksFit(y)
          BY <4>1, SessionPoolLocks, SessionOrderLocks, SweepLocks DEF Acts
        <4>4. QED
          BY <4>2, <4>3 DEF PoolLocksFit, OrderLocksFit
      <3>2. CASE \A y \in Processes : ~Acts(y)
        BY <3>2 DEF Acts, Next, Age, Quiet, vars
      <3>3. QED
        BY <3>1, <3>2
    <2>4. QED
      BY <2>1, <2>2, <2>3 DEF HeldLocks
  <1>4. QED
    BY <1>2, <1>3

-----------------------------------------------------------------------------
(***************************************************************************)
(* A request that is given up.  The core's invariants do not know of it,   *)
(* for the core has no request that ends without a statement.              *)
(***************************************************************************)

\* What giving up changes of the core's state: where the process is, and what
\* the client is told.
LEMMA GivesUp ==
    ASSUME TypeInv, NEW x \in Processes, TimeOut(x)
    PROVE  /\ UNCHANGED <<tables, locks, row, due, sweep, aged, initialized, released>>
           /\ faults' \in Nat
           /\ pc' \in [Processes -> Labels]
           /\ \A y \in Processes : \/ pc'[y] = pc[y]
                                   \/ /\ y \in Sessions
                                      /\ pc[y] \in {"start", "order_reread"}
                                      /\ pc'[y] = "done"
                                   \/ y \in Sweepers /\ pc[y] = "expire_order" /\ pc'[y] = "sweep_next"
           /\ answer' \in [Sessions -> Outcomes \cup Orders]
           /\ \A s \in Sessions : answer'[s] \in {answer[s], "error"}
  <1> USE DEF TypeInv, TypeOK
  <1>1. /\ pc[x] \in {"start", "order_reread"} => x \in Sessions
        /\ pc[x] = "expire_order" => x \in Sweepers
    BY NamesAssumption, RequestTypes DEF LabelsFit, Expiring
  <1>2. faults' = faults + 1 /\ UNCHANGED <<tables, locks, row, due, sweep, aged, initialized, released>>
    BY DEF TimeOut
  <1>3. CASE pc[x] \in {"start", "order_reread"} /\ Reply(x, "error")
    BY <1>1, <1>2, <1>3 DEF Labels, Outcomes
  <1>4. CASE answer' = [answer EXCEPT ![x] = "error"] /\ UNCHANGED pc
    <2>1. answer' \in [Sessions -> Outcomes \cup Orders]
      BY <1>4 DEF Outcomes
    <2>2. \A s \in Sessions : answer'[s] \in {answer[s], "error"}
      BY <1>4
    <2>3. pc' \in [Processes -> Labels] /\ \A y \in Processes : pc'[y] = pc[y]
      BY <1>4
    <2>4. QED
      BY <1>2, <2>1, <2>2, <2>3
  <1>5. CASE pc[x] = "expire_order" /\ Goto(x, "sweep_next")
    BY <1>1, <1>2, <1>5 DEF Labels
  <1>6. QED
    BY <1>3, <1>4, <1>5 DEF TimeOut

\* Giving up leaves the core's invariants and the locks as they were.
LEMMA GivingUp ==
    ASSUME FullInv, HeldLocks, NEW x \in Processes, TimeOut(x)
    PROVE  FullInv' /\ HeldLocks'
  <1> USE NamesAssumption DEF FullInv, TypeInv
  <1>1. /\ UNCHANGED <<tables, locks, row, due, sweep, aged, initialized, released>>
        /\ \A y \in Processes : \/ pc'[y] = pc[y]
                                \/ /\ y \in Sessions
                                   /\ pc[y] \in {"start", "order_reread"}
                                   /\ pc'[y] = "done"
                                \/ y \in Sweepers /\ pc[y] = "expire_order" /\ pc'[y] = "sweep_next"
    BY GivesUp
  <1>2. TypeOK'
    BY <1>1, GivesUp DEF TypeOK
  <1>3. LabelsFit'
    <2>1. \A s \in Sessions : "done" \in LabelsOf(Request[s].op)
      BY RequestsAssumption DEF LabelsOf, Ops
    <2>2. QED
      BY <1>1, <2>1 DEF LabelsFit, Expiring, ActedOn, Reference
  <1>4. StockReserved'
    BY <1>1 DEF StockReserved, Sellable, Orders, Carrying
  <1>5. \A y \in Processes : pc'[y] \in UnderPoolLock \cup UnderOrderLock => pc'[y] = pc[y]
    BY <1>1 DEF UnderPoolLock, UnderOrderLock
  <1>6. \A y \in Processes : PoolOf(y)' = PoolOf(y) /\ OrderOf(y)' = OrderOf(y)
    BY <1>1 DEF PoolOf, OrderOf, Reference
  <1>7. LockedRowIsFresh'
    BY <1>1, <1>5, <1>6, LockIdle DEF LockInv
  <1>8. StatusChecked'
    BY <1>1 DEF LockInv, StatusChecked
  <1>9. RowsExist'
    BY <1>1 DEF LockInv, RowsExist, Placed, Reference
  <1>10. OrderInv'
    BY <1>1 DEF OrderInv, OrderLockHeld, NotYetPlaced, Reference, Orders, Carrying
  <1>11. PaymentMatches'
    BY <1>1 DEF PaymentMatches, PaymentsOf, Reference
  <1>12. WorkInv'
    <2>1. EventsApart'
      BY <1>1 DEF WorkInv, EventsApart, Recording, Webhooks, Carrying
    <2>2. NotYetContributed'
      BY <1>1 DEF WorkInv, NotYetContributed, TypeOK, Contributions, Carrying
    <2>3. PayoutsPending'
      BY <1>1 DEF WorkInv, PayoutsPending, AlreadyPaid, PayoutsOf, DueRows, Contributors, ContributionsTo
    <2>4. WinnerIsThere'
      BY <1>1 DEF WorkInv, WinnerIsThere, FoundByKey, Placed
    <2>5. QED
      BY <2>1, <2>2, <2>3, <2>4 DEF WorkInv
  <1>13. KeyInv'
    BY <1>1 DEF KeyInv, OneOrderPerKey, FlushedApart, FoundByKey, Placed, Flushed, SameKey, Orders,
                Carrying
  <1>14. HeldLocks'
    <2>1. \A y \in Processes : pc[y] \in UnderPoolLock \cup UnderOrderLock => pc'[y] = pc[y]
      BY <1>1 DEF UnderPoolLock, UnderOrderLock
    <2>2. QED
      BY <1>1, <1>6, <2>1 DEF HeldLocks
  <1>15. QED
    BY <1>2, <1>3, <1>4, <1>7, <1>8, <1>9, <1>10, <1>11, <1>12, <1>13, <1>14 DEF LockInv

-----------------------------------------------------------------------------
(***************************************************************************)
(* Who has a connection.                                                   *)
(***************************************************************************)

\* The points at which nothing has been asked of the database, or the last
\* transaction is over.
BetweenTransactions == {"start", "done", "order_reread", "idle", "sweep_next", "expire_order"}

\* In a transaction one has a connection.
PoolingInv ==
    /\ connected \subseteq Processes
    /\ \A x \in Processes : pc[x] \notin BetweenTransactions => x \in connected

PooledInv == FullInv /\ HeldLocks /\ PoolingInv

\* A step of x in which only x's label and connection change, the connection
\* fitting the label afterwards.
LEMMA PoolingFrame ==
    ASSUME PoolingInv, NEW x \in Processes,
           \A y \in Processes \ {x} : pc'[y] = pc[y],
           connected' \in {connected, connected \cup {x}, connected \ {x}},
           pc'[x] \notin BetweenTransactions => x \in connected'
    PROVE  PoolingInv'
  BY DEF PoolingInv

\* Whoever acts moves nobody else.
LEMMA MovesAlone ==
    ASSUME TypeInv, NEW x \in Processes, Acts(x)
    PROVE  \A y \in Processes \ {x} : pc'[y] = pc[y]
  <1> USE DEF TypeInv, TypeOK
  <1>1. CASE x \in Sessions /\ SessionStep(x)
    <2>1. CASE PoolStep(x) \/ ContributionStep(x) \/ PayoutStep(x)
      BY <2>1
      DEF PoolStep, ContributionStep, PayoutStep, CreatePool, LockForClose, CommitClose,
          LockForContribution, CommitContribution, LockForPayout, ComputeShares, CommitPayouts
    <2>2. CASE OrderStep(x)
      BY <2>2 DEF OrderStep, FindByKey, LockForOrder, FlushOrder, CommitOrder, RereadByKey
    <2>3. CASE PaymentStep(x)
      BY <2>3
      DEF PaymentStep, InitializePayment, OpenTransaction, RecordEvent, CommitEvent, LockPaidOrder,
          CommitPayment
    <2>4. QED
      BY <1>1, <2>1, <2>2, <2>3, SMTT(30) DEF SessionStep
  <1>2. CASE x \in Sessions /\ Abort(x)
    BY <1>2 DEF Abort
  <1>3. CASE x \in Sweepers /\ (SweepStep(x) \/ AbortSweep(x))
    BY <1>3 DEF SweepStep, AbortSweep, FindExpired, NextCandidate, LockExpired, LockExpiredPool,
                CommitExpired
  <1>4. QED
    BY <1>1, <1>2, <1>3 DEF Acts

\* Connections are taken and given back as the labels ask for it.
LEMMA PoolingStep ==
    ASSUME FullInv, PoolingInv, PooledNext
    PROVE  PoolingInv'
  <1> USE DEF FullInv, TypeInv
  <1>1. ASSUME NEW s \in Sessions, Execute(s) PROVE PoolingInv'
    <2>1. s \in Processes /\ s \in connected /\ Acts(s) /\ Next
      BY <1>1 DEF Execute, Acts, Next
    <2>2. \A y \in Processes \ {s} : pc'[y] = pc[y]
      BY <2>1, MovesAlone
    <2>3. connected' = IF GivesBack(s) THEN connected \ {s} ELSE connected
      BY <1>1 DEF Execute
    <2>4. QED
      BY <2>1, <2>2, <2>3, PoolingFrame DEF GivesBack, BetweenTransactions
  <1>2. ASSUME NEW w \in Sweepers, ExecuteSweep(w) PROVE PoolingInv'
    <2>1. w \in Processes /\ Acts(w) /\ Next
      BY <1>2 DEF ExecuteSweep, Acts, Next
    <2>2. \A y \in Processes \ {w} : pc'[y] = pc[y]
      BY <2>1, MovesAlone
    <2>3. connected' = IF pc'[w] \in {"sweep_next", "idle"} THEN connected \ {w} ELSE connected
      BY <1>2 DEF ExecuteSweep
    <2>4. pc'[w] \in BetweenTransactions \/ NeedsConnection(w)
      BY <1>2
      DEF ExecuteSweep, SweepStep, FindExpired, NextCandidate, LockExpired, LockExpiredPool,
          CommitExpired, NeedsConnection, BetweenTransactions, TypeOK
    <2>5. NeedsConnection(w) => w \in connected
      BY <1>2 DEF ExecuteSweep
    <2>6. QED
      BY <2>1, <2>2, <2>3, <2>4, <2>5, PoolingFrame DEF BetweenTransactions
  <1>3. ASSUME NEW x \in Processes, CheckOut(x) PROVE PoolingInv'
    BY <1>3 DEF CheckOut, PoolingInv, vars
  <1>4. ASSUME NEW x \in Processes, TimeOut(x) PROVE PoolingInv'
    <2>1. connected' = connected
      BY <1>4 DEF TimeOut
    <2>2. \A y \in Processes : \/ pc'[y] = pc[y]
                               \/ pc'[y] \in {"done", "sweep_next"}
      BY <1>4 DEF TimeOut, TypeOK
    <2>3. QED
      BY <2>1, <2>2 DEF PoolingInv, BetweenTransactions
  <1>5. ASSUME NEW x \in Processes, Break(x) PROVE PoolingInv'
    <2>1. Acts(x) /\ connected' = connected \ {x}
      BY <1>5 DEF Break, Acts
    <2>2. pc'[x] \in {"done", "sweep_next", "idle"}
      <3>1. \E l \in {"done", "sweep_next", "idle"} : pc' = [pc EXCEPT ![x] = l]
        BY <1>5 DEF Break, Abort, AbortSweep, Reply, Goto
      <3>2. x \in DOMAIN pc
        BY DEF TypeOK
      <3>3. QED
        BY <3>1, <3>2
    <2>3. \A y \in Processes \ {x} : pc'[y] = pc[y]
      BY <2>1, MovesAlone
    <2>4. QED
      BY <2>1, <2>2, <2>3, PoolingFrame DEF BetweenTransactions
  <1>6. ASSUME NEW s \in Sessions, Refresh(s) \/ Close(s) PROVE PoolingInv'
    <2>1. pc' = pc /\ s \in Processes
      BY <1>6 DEF Refresh, Close, vars
    <2>2. \/ connected' = connected \cup {s}
          \/ connected' = connected \ {s} /\ pc[s] = "done"
      BY <1>6 DEF Refresh, Close
    <2>3. QED
      BY <2>1, <2>2 DEF PoolingInv, BetweenTransactions
  <1>7. ASSUME UNCHANGED <<pc, connected>> PROVE PoolingInv'
    BY <1>7 DEF PoolingInv
  <1>8. QED
    BY <1>1, <1>2, <1>3, <1>4, <1>5, <1>6, <1>7 DEF PooledNext, Age, Idle, Quiet, vars, pooling

\* A step with connections is a step of the services, one that leaves them
\* alone, or a request given up.
LEMMA PooledStep ==
    ASSUME PooledNext
    PROVE  Next \/ UNCHANGED vars \/ \E x \in Processes : TimeOut(x)
  BY DEF PooledNext, Execute, Refresh, Close, ExecuteSweep, CheckOut, Break, Idle, Next

\* All of it holds at the start.
LEMMA PooledInvInit == ASSUME PooledInit PROVE PooledInv
  <1>1. HeldLocks
    BY NamesAssumption DEF PooledInit, Init, HeldLocks
  <1>2. PoolingInv
    BY DEF PooledInit, Init, PoolingInv, BetweenTransactions
  <1>3. QED
    BY <1>1, <1>2, FullInvInit DEF PooledInit, PooledInv

\* All of it survives every step and stutter.
LEMMA PooledInvStep == ASSUME PooledInv, [PooledNext]_pooledVars PROVE PooledInv'
  <1> USE DEF PooledInv
  <1>1. ASSUME UNCHANGED vars PROVE FullInv' /\ HeldLocks'
    <2>1. FullInv'
      BY <1>1, FullInvStep
    <2>2. HeldLocks'
      BY <1>1 DEF vars, HeldLocks, PoolOf, OrderOf, Reference
    <2>3. QED
      BY <2>1, <2>2
  <1>2. CASE PooledNext
    <2>1. FullInv' /\ HeldLocks'
      BY <1>1, <1>2, PooledStep, FullInvStep, HeldLocksStep, GivingUp DEF FullInv
    <2>2. QED
      BY <1>2, <2>1, PoolingStep
  <1>3. CASE UNCHANGED pooledVars
    BY <1>1, <1>3 DEF pooledVars, pooling, vars, PoolingInv
  <1>4. QED
    BY <1>2, <1>3

\* All of it holds in every state of the services with connections.
LEMMA PooledInvHolds == PooledSpec => []PooledInv
  BY PooledInvInit, PooledInvStep, PTL DEF PooledSpec

-----------------------------------------------------------------------------
(***************************************************************************)
(* Waiting.                                                                *)
(***************************************************************************)

\* How far x has come in the order in which things are asked for: a connection,
\* an event, an order, a pool, a key.  A process holds only what it has passed,
\* so it waits for nobody but those further down.
Stage(x) ==
    IF x \notin connected THEN 5
    ELSE IF pc[x] = "start" /\ x \in Webhooks THEN 4
    ELSE IF pc[x] \in {"webhook_order", "expire_order"} THEN 3
    ELSE IF pc[x] \in {"start", "order_lock", "expire_pool"} THEN 2
    ELSE IF pc[x] = "order_flush" THEN 1
    ELSE 0

\* Whoever has a row another needs, or has inserted one, is in its transaction.
LEMMA RowHolders ==
    ASSUME PooledInv, NEW x \in Processes, NEW y \in Processes, WaitsForRow(x, y)
    PROVE  /\ y \in connected
           /\ pc[y] \in UnderPoolLock \cup UnderOrderLock \cup
                         {"event_commit", "webhook_order", "payment_commit"}
  <1> USE DEF PooledInv
  <1>1. pc[y] \in UnderPoolLock \cup UnderOrderLock \cup
                  {"event_commit", "webhook_order", "payment_commit"}
    BY DEF WaitsForRow, HeldLocks, Flushed, Recording, UnderPoolLock
  <1>2. pc[y] \notin BetweenTransactions
    BY <1>1 DEF UnderPoolLock, UnderOrderLock, BetweenTransactions
  <1>3. QED
    BY <1>1, <1>2 DEF PoolingInv

\* Whoever is waited for has come further.
LEMMA WaitsDown ==
    ASSUME PooledInv, NEW x \in Processes, NEW y \in Processes, WaitsFor(x, y)
    PROVE  Stage(y) < Stage(x)
  <1> USE DEF PooledInv
  <1>1. \A z \in Processes : pc[z] \notin BetweenTransactions => z \in connected
    BY DEF PoolingInv
  <1>2. CASE WantsConnection(x) /\ ~ConnectionIsFree /\ y \in connected
    BY <1>2 DEF WantsConnection, Stage
  <1>3. CASE \E p \in Pools : WantsPool(x, p) /\ pool_lock[p] = y
    <2>1. pc[y] \in UnderPoolLock
      BY <1>3 DEF HeldLocks
    <2>2. y \in connected /\ Stage(y) \in {0, 1}
      BY <1>1, <2>1 DEF UnderPoolLock, BetweenTransactions, Stage
    <2>3. /\ pc[x] \in {"order_lock", "expire_pool", "start"}
          /\ pc[x] = "start" => x \notin Webhooks
      BY <1>3 DEF WantsPool, Webhooks, Carrying
    <2>4. Stage(x) \in {2, 5}
      BY <2>3 DEF Stage
    <2>5. QED
      BY <2>2, <2>4
  <1>4. CASE \E o \in Orders : WantsOrder(x, o) /\ order_lock[o] = y
    <2>1. pc[y] \in UnderOrderLock
      BY <1>4 DEF HeldLocks
    <2>2. y \in connected /\ Stage(y) \in {0, 2}
      BY <1>1, <2>1 DEF UnderOrderLock, BetweenTransactions, Stage
    <2>3. Stage(x) \in {3, 5}
      BY <1>4 DEF WantsOrder, Stage
    <2>4. QED
      BY <2>2, <2>3
  <1>5. CASE pc[x] = "order_flush" /\ y \in Flushed /\ SameKey(x, y)
    <2>1. x \in connected /\ y \in connected /\ pc[y] = "order_commit"
      BY <1>1, <1>5 DEF Flushed, BetweenTransactions
    <2>2. QED
      BY <1>5, <2>1 DEF Stage
  <1>6. CASE x \in Webhooks /\ pc[x] = "start" /\ y \in Recording
    <2>1. y \in connected /\ Stage(y) \in {0, 3}
      BY <1>1, <1>6 DEF Recording, BetweenTransactions, Stage
    <2>2. Stage(x) \in {4, 5}
      BY <1>6 DEF Stage
    <2>3. QED
      BY <2>1, <2>2
  <1>7. QED
    BY <1>2, <1>3, <1>4, <1>5, <1>6 DEF WaitsFor, WaitsForRow

\* Whoever keeps another from a row has a connection and a statement to make with
\* it, in every workload and with any number of connections: no lock is held
\* over a call to Redis or Paystack, or in the queue for a connection.
THEOREM HoldersWork == PooledSpec => []HoldersAreAtWork
  <1>1. PooledInv => HoldersAreAtWork
    <2>1. SUFFICES ASSUME PooledInv, NEW x \in Processes, NEW y \in Processes, WaitsForRow(x, y)
                   PROVE  y \in connected /\ pc[y] \notin NoStatementNext
      BY DEF HoldersAreAtWork
    <2>2. QED
      BY <2>1, RowHolders DEF UnderPoolLock, UnderOrderLock, NoStatementNext
  <1>2. QED
    BY <1>1, PooledInvHolds, PTL

\* Sessions, sweeps and the pool of connections never wait for each other in a
\* circle, whatever the requests, keys, pools and limits.
THEOREM NobodyDeadlocks == PooledSpec => []NoCircularWait
  <1>1. ASSUME PooledInv, NEW S \in SUBSET Processes, S # {}
        PROVE  \E x \in S : \A y \in S : ~WaitsFor(x, y)
    <2> DEFINE T == {Stage(x) : x \in S}
    <2>1. \A x \in Processes : Stage(x) \in Nat
      BY DEF Stage
    <2>2. T \in SUBSET Nat /\ T # {}
      BY <1>1, <2>1
    <2>3. PICK m \in T : \A k \in T : m <= k
      BY <2>2, LeastNatural
    <2>4. PICK x \in S : Stage(x) = m
      BY <2>3
    <2>5. ASSUME NEW y \in S, WaitsFor(x, y) PROVE FALSE
      <3>1. Stage(y) < Stage(x)
        BY <1>1, <2>5, WaitsDown
      <3>2. Stage(x) <= Stage(y)
        BY <2>3, <2>4
      <3>3. QED
        BY <2>1, <3>1, <3>2
    <2>6. QED
      BY <2>5
  <1>2. PooledInv => NoCircularWait
    BY <1>1 DEF NoCircularWait
  <1>3. QED
    BY <1>2, PooledInvHolds, PTL

-----------------------------------------------------------------------------
(***************************************************************************)
(* What the services promise, with connections and time-outs.              *)
(***************************************************************************)

\* A key names one order also when requests are given up and connections break.
THEOREM KeysStayUnique == PooledSpec => []OneOrderPerKey
  <1>1. PooledInv => OneOrderPerKey
    BY DEF PooledInv, FullInv, KeyInv
  <1>2. QED
    BY <1>1, PooledInvHolds, PTL

\* A request that is given up, at any point, takes no stock with it: the counters
\* of every pool agree with the rows behind them.
THEOREM CountersStayInAgreement == PooledSpec => []StockConserved
  <1>1. PooledInit => GoodsInv
    BY GoodsInvInit DEF PooledInit
  <1>2. ASSUME PooledInv, GoodsInv, [PooledNext]_pooledVars PROVE GoodsInv'
    <2>1. CASE Next \/ UNCHANGED vars
      BY <1>2, <2>1, GoodsInvStep DEF PooledInv
    <2>2. CASE \E x \in Processes : TimeOut(x)
      BY <1>2, <2>2, SameGoods DEF TimeOut, GoodsInv, ReleasedOnce, Placed
    <2>3. QED
      BY <1>2, <2>1, <2>2, PooledStep DEF pooledVars
  <1>3. GoodsInv => StockConserved
    BY DEF GoodsInv
  <1>4. QED
    BY <1>1, <1>2, <1>3, PooledInvHolds, PTL DEF PooledSpec

\* The services keep the ledger's promises also when requests are given up for
\* want of a connection.
THEOREM PooledRefinement == PooledSpec => ImplementsLedger
  <1>1. PooledInit => Promise!Init
    BY DEF PooledInit, Init, Promise!Init, NoRow, Promise!NoRow, Orders, Promise!Orders, Carrying,
           Promise!Carrying, Sessions, Promise!Sessions
  <1>2. PooledInv /\ [PooledNext]_pooledVars => [Promise!Next]_Promise!ledger
    <2>1. ASSUME PooledInv, PooledNext PROVE Promise!Next \/ UNCHANGED Promise!ledger
      <3>1. CASE Next
        BY <2>1, <3>1, LedgerStep DEF PooledInv
      <3>2. CASE UNCHANGED vars
        BY <3>2 DEF vars, Promise!ledger
      <3>3. CASE \E x \in Processes : TimeOut(x)
        BY <3>3 DEF TimeOut, Promise!ledger
      <3>4. QED
        BY <2>1, <3>1, <3>2, <3>3, PooledStep
    <2>2. QED
      BY <2>1 DEF pooledVars, vars, Promise!ledger
  <1>3. QED
    BY <1>1, <1>2, PooledInvHolds, PTL DEF PooledSpec, ImplementsLedger, Promise!Spec
===============================================================================
