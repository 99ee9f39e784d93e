----------------------------- MODULE Connections -----------------------------
(***************************************************************************)
(* The engine's connection pool under the services: pool_size plus         *)
(* max_overflow connections for all requests and sweeps of one process,    *)
(* and requests that wait while none is free.                              *)
(*                                                                         *)
(* A session takes a connection with its first statement and keeps it      *)
(* until its transaction ends, also while it waits for a row lock or for   *)
(* Paystack.  What it reads after a commit or rollback starts another      *)
(* transaction, without a lock: after a rollback it ends with the request, *)
(* after a commit it lasts through the calls to Redis that follow, until   *)
(* get_db closes the session.                                              *)
(***************************************************************************)
EXTENDS FarmLink

CONSTANT MaxConnections  \* pool_size + max_overflow

ASSUME ConnectionsAssumption == MaxConnections \in Nat \ {0}

VARIABLES
    connected,   \* the processes that have a connection checked out
    refreshing   \* sessions that have committed and read once more to answer

pooling == <<connected, refreshing>>

pooledVars == <<vars, pooling>>

-----------------------------------------------------------------------------

ConnectionIsFree == Cardinality(connected) < MaxConnections

\* The points at which the next statement needs a connection that the last
\* transaction gave back, or that the request never had.
AtFirstStatement == {"start", "order_reread", "expire_order"}

\* A webhook comes when Paystack has something to report.
Arrives(x) == x \in Webhooks => Deliverable(x)

CheckOut(x) ==
    /\ x \notin connected
    /\ pc[x] \in AtFirstStatement
    /\ Arrives(x)
    /\ ConnectionIsFree
    /\ connected' = connected \cup {x}
    /\ UNCHANGED <<vars, refreshing>>

\* Handlers that read after their commit: db.refresh of the row they made, or
\* the buyer's address for the receipt.
ReadsAgain(s) ==
    \/ pc[s] \in {"start", "order_commit", "contribution_commit", "close_commit", "payment_commit"}
          /\ answer'[s] \in {"ok", s}
          /\ tables' # tables
    \/ pc[s] = "payout_commit" /\ answer'[s] = "ok" /\ due[s] # {}

\* Slip: the row is read back in a second session, with the first still open.
GivesBack_after_reading(s) == pc'[s] \in {"done", "order_reread"} /\ ~ReadsAgain(s)

\* Commit, rollback and the end of the request give the connection back.
GivesBack(s) == pc'[s] \in {"done", "order_reread"}

Execute(s) ==
    /\ s \in connected
    /\ SessionStep(s)
    /\ connected' = IF GivesBack(s) THEN connected \ {s} ELSE connected
    /\ refreshing' = IF ReadsAgain(s) THEN refreshing \cup {s} ELSE refreshing

\* The read starts a transaction that nobody commits.
Refresh(s) ==
    /\ s \in refreshing
    /\ ConnectionIsFree
    /\ refreshing' = refreshing \ {s}
    /\ connected' = connected \cup {s}
    /\ UNCHANGED vars

\* The cache, the queue and the channel have been told, or one of them failed
\* (Notifications), and get_db closes the session.
Close(s) ==
    /\ pc[s] = "done"
    /\ s \in connected \ refreshing
    /\ connected' = connected \ {s}
    /\ UNCHANGED <<vars, refreshing>>

\* The sweep opens a session per candidate; the one that found the candidates
\* was closed before, and choosing the next candidate needs none.
NeedsConnection(w) == pc[w] \in {"expire_order", "expire_pool", "expire_commit"}

ExecuteSweep(w) ==
    /\ IF NeedsConnection(w) THEN w \in connected
                             ELSE pc[w] = "idle" => ConnectionIsFree
    /\ SweepStep(w)
    /\ connected' = IF pc'[w] \in {"sweep_next", "idle"} THEN connected \ {w} ELSE connected
    /\ UNCHANGED refreshing

\* Waiting for a connection longer than pool_timeout raises: the request ends as
\* a 500, also when its transaction has been committed; the sweep goes on with
\* its next candidate.
TimeOut(x) ==
    /\ ~ConnectionIsFree
    /\ x \notin connected
    /\ faults < MaxFaults
    /\ faults' = faults + 1
    /\ \/ pc[x] \in {"start", "order_reread"} /\ Arrives(x) /\ Reply(x, "error") /\ UNCHANGED refreshing
       \/ /\ x \in refreshing
          /\ answer' = [answer EXCEPT ![x] = "error"]
          /\ refreshing' = refreshing \ {x}
          /\ UNCHANGED pc
       \/ pc[x] = "expire_order" /\ Goto(x, "sweep_next") /\ UNCHANGED refreshing
    /\ UNCHANGED <<tables, locks, row, due, sweep, aged, initialized, released, connected>>

\* A connection that breaks is replaced (pool_pre_ping).
Break(x) ==
    /\ x \in connected
    /\ \/ x \in Sessions /\ Abort(x)
       \/ x \in Sweepers /\ AbortSweep(x)
    /\ connected' = connected \ {x}
    /\ UNCHANGED refreshing

-----------------------------------------------------------------------------

PooledInit == Init /\ connected = {} /\ refreshing = {}

Idle ==
    /\ Quiet
    /\ connected \cup refreshing = {}
    /\ UNCHANGED pooling

PooledNext ==
    \/ \E s \in Sessions : Execute(s) \/ Refresh(s) \/ Close(s)
    \/ \E w \in Sweepers : ExecuteSweep(w)
    \/ \E x \in Processes : CheckOut(x) \/ TimeOut(x) \/ Break(x)
    \/ \E o \in Orders : Age(o) /\ UNCHANGED pooling
    \/ Idle

PooledSpec == PooledInit /\ [][PooledNext]_pooledVars

\* What the event loop, the database or the pool of connections has to do next
\* for a request; it is never more than one of these.
Proceed(s) == Execute(s) \/ Refresh(s) \/ Close(s) \/ (InFlight(s) /\ CheckOut(s))

\* As FarmLink's fairness, a connection that is free is given to somebody who
\* waits for it, and the calls to Redis before Close come back or fail.
PooledFairness ==
    /\ \A s \in Sessions :
          /\ WF_pooledVars(Execute(s))
          /\ WF_pooledVars(InFlight(s) /\ CheckOut(s))
          /\ WF_pooledVars(Refresh(s))
          /\ WF_pooledVars(Close(s))
    /\ \A w \in Sweepers : WF_pooledVars(CheckOut(w)) /\ WF_pooledVars(ExecuteSweep(w))

FairPooledSpec == PooledSpec /\ PooledFairness

-----------------------------------------------------------------------------
(***************************************************************************)
(*                               Properties                                *)
(***************************************************************************)

\* What the next statement of x needs.
WantsConnection(x) ==
    /\ x \notin connected
    /\ pc[x] \in AtFirstStatement \cup {"idle"} \/ x \in refreshing

WantsPool(x, p) ==
    /\ \/ pc[x] \in {"order_lock", "expire_pool"}
       \/ pc[x] = "start" /\ Request[x].op \in {"close_pool", "contribute", "distribute"}
    /\ p = PoolOf(x)

WantsOrder(x, o) ==
    \/ pc[x] = "webhook_order" /\ o = Reference(x)
    \/ pc[x] = "expire_order" /\ o = current[x]

\* y has locked the row x needs, or inserted the one x's INSERT has to wait for.
WaitsForRow(x, y) ==
    \/ \E p \in Pools : WantsPool(x, p) /\ pool_lock[p] = y
    \/ \E o \in Orders : WantsOrder(x, o) /\ order_lock[o] = y
    \/ pc[x] = "order_flush" /\ y \in Flushed /\ SameKey(x, y)
    \/ /\ x \in Webhooks /\ pc[x] = "start"
       /\ y \in Recording /\ Request[y].event = Request[x].event

WaitsFor(x, y) ==
    \/ WantsConnection(x) /\ ~ConnectionIsFree /\ y \in connected
    \/ WaitsForRow(x, y)

\* Nobody waits in a circle: connections, pool rows, order rows and uncommitted
\* keys and events are asked for in an order that all handlers and the sweep
\* keep, though each of them only knows its own (core/database.py:26-44 bounds
\* the connections, orders/service.py:183-201 takes two row locks).
NoCircularWait ==
    LET waiting == {x \in Processes : \E y \in Processes : WaitsFor(x, y)} IN
    \A S \in SUBSET waiting : S # {} => \E x \in S : \A y \in S : ~WaitsFor(x, y)

\* The points at which no transaction is open, or one whose next step is not a
\* statement: the request is over or telling Redis, asks Paystack, or has to get
\* a connection first.
NoStatementNext ==
    {"start", "done", "order_reread", "paystack_open", "idle", "sweep_next", "expire_order"}

\* Whoever keeps another from a row, or from inserting one, has a connection and
\* a statement to make with it.  Nobody takes a lock along to Paystack, to Redis,
\* past a rollback or into the queue for a connection, where the time it is kept
\* would be somebody else's (orders/service.py:113-121 reads again after a
\* rollback, payments/service.py:60-78 asks Paystack in an open transaction).
HoldersAreAtWork ==
    \A x, y \in Processes :
        WaitsForRow(x, y) => y \in connected /\ pc[y] \notin NoStatementNext

Served(s) == pc[s] \in {"start", "done"} /\ s \notin connected \cup refreshing

\* Every request that has had a connection is answered, once its last read is
\* made: requests waiting for row locks, for an uncommitted key and for
\* connections never wait for each other in a circle, however few connections
\* there are (core/database.py:26-44 sizes the pool for production only).
\* Requests come once, so the answers are there for good.
AnsweredWithFew == <>[](\A s \in Sessions : Served(s))
===============================================================================
