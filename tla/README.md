# FarmLink in TLA+

FarmLink (`src/app`) is a FastAPI service in which farmers pool produce, buyers
order from the pools and pay through Paystack, and a closed pool's revenue is
shared among its farmers. PostgreSQL holds the state; Redis holds a read cache,
the rate limiter's buckets and the job queue. Several API processes may run, each
with many requests in flight. This directory models the parts of it whose
correctness depends on how those requests interleave, fail and repeat; TLC checks
the models on small instances, and TLAPS proves the central results for every
value of the constants.

`PROJECT.json` maps every definition to the source lines it stands for, and lists
the runs, the hazards with the properties that watch them, the mutants (for each
property a slip in the code that it catches) and the theorems.

## 1. The system

| component | state | operations | what makes it correct |
|---|---|---|---|
| pools (`features/pools`) | `pools` rows: status, total and available quantity | create, close, cached reads | quantities agree with the rows behind them; a closed pool stays frozen |
| contributions (`features/contributions`) | `contributions` rows | add stock to an open pool | row and counters change together |
| orders (`features/orders`) | `orders` and `allocations` rows, idempotency keys | place an order; the sweep that expires unpaid orders | stock is never sold twice; one order per key; a retry gets its original; unpaid stock comes back once |
| payments (`features/payments`) | `payments`, `processed_events` | open a Paystack transaction; webhook | an order is paid exactly once; an acknowledged charge has its effect |
| payouts (`features/payouts`) | `payouts` | share out a closed pool's revenue | once per pool, backed by what was collected, to contributors only |
| database sessions (`core/database.py`) | transactions, row locks, unique indexes, a bounded pool of connections | check out, commit, rollback | a handler's effects are all or nothing; nobody waits for ever |
| pool cache (`core/cache.py`, `pools/service.py`) | Redis copies of listings and pools | look, fill, invalidate, expire | a copy is out of date only briefly |
| rate limiting (`middleware/rate_limit.py`) | one bucket per client and kind | one Lua script per request | the budget holds; Retry-After suffices |
| accounts (`features/auth`, `core/security.py`) | `users`: role, approved | register, approve, change role, bootstrap, `require_role` | approvals are not lost; admins come from admins; there stays an admin |
| lifespan and timer (`main.py`) | the scheduler | bootstrap, start the sweep timer | an aged order is found again |
| feed (`features/feed`, `core/realtime.py`) | Redis pub/sub, Firestore copies | publish an event, enqueue its copy | an event tells of a commit, once, with the stock it left; no copy without its event |
| background jobs (`core/jobs.py`, `worker.py`, `*/tasks.py`) | the RQ queue, its registry of failed jobs | enqueue after a commit, run, fail | an e-mail is sent once and only for what was committed; whoever is told of success has sent what he had to |
| request context, settings, logging, migrations | none that changes | | not modelled |

How they interact. Every service of the first five rows is called by a router with
a database session of its own; they meet only in the tables and their row locks.
Orders, contributions, closings, distributions and the sweep all lock the pool
row; the sweep and the webhook both lock the order row. After its commit a handler
deletes cache keys, enqueues jobs and publishes a feed event. Paystack calls the
webhook, and may call it again. The sweep runs on a timer in every process whose
scheduler is not disabled.

What is hard, and hard to test: two of these transactions in any order; a retry in
flight together with its first attempt; a payment arriving while the sweep expires
its order, or after; an event delivered again, or two events with one id; a failure
between any two statements; two locks taken by the sweep, and a unique index that
makes one transaction wait for another; a cache filled late; time read before it is
used; account rows read and written under no lock. The full list, line by line, is
under `hazards` in `PROJECT.json`.

## 2. Modules

```
Requests            the workload, column limits, pure helpers on rows
  Store             tables, row locks, what a session holds in memory
    PoolService  ContributionService  OrderService  PaymentService
                   PayoutService
      FarmLink      all of them composed, failures, the properties
        MCFarmLink       workloads for TLC
        FarmLinkProofs   theorems about locks, payments, keys, answers
        BalanceProofs    theorems about sums: stock and money
          SumTheorems      sums over finite sets, for every set
        Connections      FarmLink with a bounded connection pool
          MCConnections
          ConnectionProofs
        Notifications    FarmLink with what follows each commit
          MCNotifications
          NotificationProofs
  Ledger            the abstract specification FarmLink implements
Announcements       the abstract specification Notifications implements
PoolCache           the Redis copies of pools        PoolCacheProofs
RateLimit           the token bucket    MCRateLimit  RateLimitProofs
Accounts            users and roles     MCAccounts   AccountsProofs
```

### The core: `Requests`, `Store`, the services, `FarmLink`

A *session* is one request handled by one `AsyncSession`. The constant `Request`
says what each session carries (`op`, pool, quantity, key, event, ...). A row a
session inserts is named by that session, so an order id is the session that placed
it and an order's immutable columns are the fields of its request. Ids are unique
in the code (UUIDs), which is all this uses.

`Store` is PostgreSQL as the code uses it, under READ COMMITTED:

* the tables (`pools`, `contributions`, `orders`, `payments`, `processed_events`,
  `payouts`) change in commit actions only;
* `pool_lock` and `order_lock` are the locks of `SELECT ... FOR UPDATE`. An action
  that takes one is enabled only when it is free, which is how a session waits;
* `row[s]` is the ORM object filled under the lock. A commit writes values computed
  from `row[s]`, not from the table, so an overwritten update would show;
* an INSERT that meets an uncommitted duplicate waits for it (`Flushed` for the
  idempotency index, `Recording` for event ids), one that meets a committed
  duplicate is refused.

One action stands for the stretch of code between two points where another
transaction can get in: up to the lock, up to the flush, up to the commit. `pc[s]`
names the stretch that comes next.

| module | code | actions |
|---|---|---|
| `PoolService` | `pools/service.py` | `CreatePool`, `LockForClose`, `CommitClose` |
| `ContributionService` | `contributions/service.py` | `LockForContribution`, `CommitContribution` (also the overflow of the Integer column) |
| `OrderService` | `orders/service.py` | `FindByKey`, `LockForOrder`, `FlushOrder` (index, Numeric overflow), `CommitOrder`, `RereadByKey`; sweep: `FindExpired`, `NextCandidate`, `LockExpired`, `LockExpiredPool`, `CommitExpired` |
| `PaymentService` | `payments/service.py` | `InitializePayment`, `OpenTransaction`; webhook: `RecordEvent`, `CommitEvent`, `LockPaidOrder`, `CommitPayment` |
| `PayoutService` | `payouts/service.py` | `LockForPayout`, `ComputeShares`, `CommitPayouts` |
| `FarmLink` | | `Abort` and `AbortSweep` (a connection, process or statement fails before COMMIT), `Age` (an unpaid order passes the limit), `Quiet` (everything is answered) |

An operation that fails *after* its commit has had its effect; what the client sees
is an error, and the client's retry is another session with the same key or event.
The workloads of `FarmLink` contain such retries; the failure itself, and what it
leaves unsent, is in `Notifications`.

The amount of a payment is what the webhook's event carries (`amount` of its request),
which the code stores as it is and compares with nothing.

`released` and `faults` are history variables, `aged` and `initialized` stand for
the clock and for Paystack.

### `Ledger`: what the services promise

`Ledger` has the six tables and nothing else: each request takes effect at once, on
the rows as they are. `FarmLink!ImplementsLedger` is that specification with the
tables mapped to themselves. It is where a lost update, a double release, an event
handled twice or a second distribution would appear as a step no ledger could take.
Late payment of an expired order *is* a step of the ledger, because it is what the
code means to do; section 5 has what follows from it.

### `Notifications`: what follows a commit

Every service ends a handler with calls that come after its commit and outside its
locks: `enqueue` for e-mails and the admin's notice, `publish_pool_event` for the
pool's feed, which publishes and then enqueues the Firestore copy. `Notifications`
extends `FarmLink` with a list of such calls per process (`todo`), made one per step
(`Send`) while everybody else goes on; with RQ's queue (`queued`), its failed jobs
(`failed`), and what has been done or published (`told`, and `shown` for the stock
figures in the events).

| action | code |
|---|---|
| `Serve(s)` | a step of `FarmLink`; the commit of an order, a contribution, a closing or a payment leaves its list (`Following`) |
| `RunSweep(w)` | a step of the sweep; a release is followed by its event before the next candidate |
| `Send(x)` | `publish_event` or `enqueue`, whichever is next |
| `RunJob(n)`, `FailJob(n)` | the worker; a job that raises goes to the failed ones and is not retried |
| `FailRequest(s)` | Redis or the process fails after the commit: a 500, nothing rolled back, the rest of the list forgotten |
| `FailSweep(w)` | the same in a sweep, where it is logged as a failed release and the batch goes on, or where the process dies |
| `RollBack(x)` | `FarmLink`'s failures before the commit |

A notice is a kind and the row it is about; its text is left out. The number of the
change of stock in a figure (`at`) is history: it is how the model tells two equal
quantities apart. That an event shows the quantity of its commit although the lock
is gone rests on `expire_on_commit=False`, which leaves the committed values on the
ORM object. The worker takes jobs in any order, which covers several workers.

### `Announcements`: what the messages promise

What has happened, what is owed, what has been told, and how often something failed.
A commit makes its notices due; one that is due is told once; a failure is counted
and takes with it notices due of one thing only (one order, contribution or pool);
and there is no other step, so that nothing due is forgotten unless something failed.
`Notifications!AnnouncedOnce` is this specification with `happened` read off the
tables, `due` the lists and the queue together, `told` the notices done exactly once,
and `failures` the model's count of its failures after a commit. An order found by its
key that is announced again, an event ahead of its commit, a job in two places, a list
dropped by anything but a failure, or a notice that is told although a failure took
it, would be a step that is none of the three.

### `Connections`: few connections

`Connections` extends `FarmLink` with the engine's pool: a session checks a
connection out before its first statement, keeps it while it waits for locks, gives
it back with its transaction, and takes one again for what it reads after a commit
or a rollback (`order_reread`, and `Refresh` for `db.refresh` and the receipt's
address). What `Refresh` takes is kept, in a transaction that is only read in, while
the handler talks to Redis, until `get_db` closes the session (`Close`); so is the one
with which a request asks Paystack. Whoever finds none waits, and may time out; a connection may break. A
webhook asks for a connection only when Paystack has something to send (`Arrives`).

`WaitsFor(x, y)` puts together all that one process can wait for: a connection while
none is free, and, as `WaitsForRow`, a pool's or an order's row lock and the
uncommitted INSERT of a key or of an event id.

### `PoolCache`

A reader looks, queries and fills in three steps; a writer commits and invalidates
in two; nothing locks across them. A row is its status and a version that stands
for its quantities. `damaged` records the keys that a late fill or a failed DEL left
with a superseded copy.

### `RateLimit`

`Arrive` picks the bucket and reads the process's clock; `Script` is the Lua script,
atomic in Redis, with refill, spending, `EXPIRE` by Redis's own clock and the
Retry-After computed from its answer. `Tick` lets time pass. Tokens are integers
(`Cost` units to a token), chosen so that the refill per tick is whole: the code's
floats and their rounding are left out. `promised` is history: for each bucket, the
times until which clients were told to wait since a request was last let through.

### `Accounts`

`require_role` reads the caller's row (`Authorise`), the handler reads the target's
(`Load`) and commits (`Save`), under no lock. `Save` writes only the columns whose
attribute changed, as SQLAlchemy's unit of work does, and a target that is the
caller is not read again (identity map). Instances start, bootstrap and stop.

## 3. Runs

The core runs share one module and differ in the workload. In each of them every
session may arrive at any moment or not at all.

| run | workload | properties |
|---|---|---|
| `Ordering` | one key twice, another buyer with the same key, more demand than stock, closing, two sweepers, one failure | `TypeOK`, `LockedRowIsFresh`, `StockConserved`, `OneOrderPerKey`, `RetryReturnsOriginal`, `ImplementsLedger` |
| `Connections` | one key on two pools, a sweeper, two connections for all of them, kept after a refresh until the session is closed, one failure or time-out; with fairness | `OneOrderPerKey`, `NoCircularWait`, `HoldersAreAtWork`, `AnsweredWithFew`, `StaleReleased` |
| `Payments` | two deliveries of one charge, a second charge, one of an amount the column does not hold, a failed attempt, another buyer trying to pay, two contributions, the larger of which fits no column, a sweeper, one failure | `StockConserved`, `PaymentMatches`, `NoUnhandledConflict`, `AcknowledgedChargeIsPaid`, `ImplementsLedger` |
| `Payouts` | two farmers, two orders of 5 kobo, a payment for each, one of them short, closing, two distributions, a share that may outgrow its column | `ImplementsLedger`, `RevenueIsSharedOut`, `PayoutsAreBacked`, `NoUnhandledConflict` |
| `Notices` | a contribution, an order, its key sent again, its expiry and the closing of the pool, with what follows each; one failure before or after a commit or in the worker; with fairness | `FeedTellsStock`, `CopiesFollowTheFeed`, `SuccessMeansSent`, `AnnouncedOnce`, `OwedIsSettled` |
| `Cache` | one reader, two writers, one pool and the three listings | `TypeOK`, `StaleOnlyIfDamaged`, `StaleGoesAway` |
| `Rate` | two processes whose clocks differ by half a second, one auth bucket of two requests | `TypeOK`, `BudgetUpToSetback`, `RetryAfterSuffices` |
| `Roles` | three accounts, two admin requests in flight, one restarting instance | `TypeOK`, `ApprovalSticks`, `AdminsComeFromAdmins`, `LastAdminLostOnlyToStaleAuthority` |

What they show, beyond the comments at the properties:

* `LockedRowIsFresh` is the reason the services may compute on an ORM object: the
  holder of the lock has the committed row. `StockConserved` is what the counters
  mean: contributed = left to sell + held by orders not released.
* `OneOrderPerKey` needs the unique index across pools, where no common row is
  locked; `Connections` has the second INSERT waiting for the first, each request
  holding the lock of its own pool and one of the two connections.
* `NoCircularWait` is freedom from deadlock: no set of requests and sweeps wait for
  one another, for rows, keys, events or connections. `HoldersAreAtWork` says why a
  small pool is enough. It is about rows, keys and events, not about connections:
  whoever holds one that another needs has a connection and a statement to make with
  it, so a request that talks to Redis or Paystack, is rolled back or queues for a
  connection keeps nobody from a row. (It may well keep a *connection* meanwhile: after
  a refresh, and while Paystack answers. That wait ends without the database, so
  `AnsweredWithFew` survives it.) The instance has no payments; the theorems of
  section 4 have every workload.
* `AnsweredWithFew` adds the absence of starvation: every request that has had a
  connection is answered, however they queue. TLC checks deadlock
  as well in every run but `Rate`, which stops at its time horizon
  (`CHECK_DEADLOCK FALSE`).
* `RevenueIsSharedOut` is the docstring's promise at the moment shares are computed:
  they add up to the revenue exactly, and nobody's share is further from the exact
  proportion than rounding explains. Revenue is the totals of the paid orders.
  `PayoutsAreBacked` is what remains true ever after, when later payments have made
  the revenue larger (section 5), and it is about the amounts in the payments table:
  they cover the payouts, except for what payments fall short of their orders, because
  the webhook makes an order paid whatever amount its event carries
  (`payments/service.py:141-146`).
* `AnnouncedOnce` says what the calls after a commit amount to. They are sent at most
  once and never for what was not committed, also when the key comes again; only a
  failure after the commit loses them, those of one thing, and for good, because
  nothing keeps them but the process.
* `SuccessMeansSent` bounds that loss: when the client was told of success, only a
  job that failed in the worker is missing.
* `FeedTellsStock` is what a watcher of the feed may rely on. Events are published
  after the lock is released, so they may arrive in another order than their commits
  and the last one to arrive need not show what is left; but once all have come out,
  the current figure is among them. In the run the events of the contribution, the
  order, its expiry and the closing are on their way together and overtake one another. `CopiesFollowTheFeed` says the durable copies
  are copies of events that went out.
* `OwedIsSettled` says that no list and no job stays where it is.
* `NoUnhandledConflict` says that three constraint violations cannot occur. Two would
  be errors no handler turns into an answer; the third, a pool's second distribution,
  has a handler (`payouts/service.py:117-120`), which is a backstop never needed.
* `StaleOnlyIfDamaged` holds *because* it allows for the late fill: a reader that
  queried before a write may store its answer after the write's invalidation. The
  next reader then sees the old value until the time to live is over, although
  `tests/test_pool_cache.py:5-6` says the next call after a write shows the new one.
* `BudgetUpToSetback` holds up to the setback: two scripts that run in another order
  than their clocks were read (`rate_limit.py:58` stores whatever time it is given)
  refill the same stretch twice. Without reordering and skew it is the exact budget.
* `RetryAfterSuffices` is about the request that comes back: one that reads a clock at
  or after a time its client was told to wait for is not refused, unless another request
  of that client was let through in between. It says nothing of a process whose clock
  is behind the refuser's and has not reached that time: there the client may be
  refused once more.
* `AdminsComeFromAdmins` names the request whose save makes the admin: its own caller
  was one when it was authorised. `LastAdminLostOnlyToStaleAuthority` says that the
  check against demoting oneself leaves one way to lose the last admin: the request
  that saves is that of an admin demoted since it was authorised, as when two admins
  demote each other at once.

### Bounds, and why they are enough

| bound | value | why |
|---|---|---|
| sessions per workload | 4 to 12 | each hazard involves two or three actors; a workload holds all of them and one bystander |
| sweepers | 2 in `Ordering`, none in `Payouts`, else 1 | two instances that both have their scheduler enabled; a third adds no new pair. A distribution meets only paid orders, which a sweep does not touch |
| quantities | 1 and 2 | enough for "fits", "does not fit", and a share that rounds down |
| price | 5 kobo in `Payouts`, else 1 | 5 or 10 kobo among 2 and 1 units: every rounding shows |
| `MaxQty` | 1 in `Payments`, else 10 | a contribution of 1 fits, one of 2 does not, though its row is written first |
| `MaxTotal` | 10, 1 in `Notices`, 5 in `Payouts` | the column's limit for orders, payments and payouts: a charge of 11, an order of 2 and a share of 7 are above it |
| `MaxFaults` | 1 in `Ordering`, `Connections`, `Payments` and `Notices`; 0 in `Payouts`, where a distribution that failed leaves what one that never arrived leaves, and in the runs of section 5, whose counterexamples need none | a fault undoes one transaction, and its effects do not accumulate; the proofs have no bound |
| `MaxFailures` | 1 | before or after a commit, in `Notices`: a failure loses one list or one job, the proofs have no bound |
| `MaxConnections` | 2 | two requests hold both while a third, and the sweep, wait |
| `MaxVersion` | 3 | a fill two changes late, and one more after it |
| `MaxLost` | 1 | one failed DEL, next to another writer's successful one |
| `Horizon`, `MaxDelay` | 8 ticks, 1 tick | a bucket is refilled completely (6 ticks), expires and is started again |
| `MaxSetback` | 2 | a bucket is set back by a delay and by the skew, once each |
| accounts, clients | 3, 2 | the bootstrap account and two others, who can demote each other |

`Roles` permutes the accounts other than the bootstrap account, and the clients; no
definition tells them apart, and the run checks no liveness property.

### Fairness

`Connections!PooledFairness` is weak fairness of every handler that has a
connection, of the connection that a request *in flight* or the sweep waits for, of
the last read, and of the sweep. A request need not arrive, an order need not age, a
fault need not happen. The event loop does schedule a started handler again when the
database answers, PostgreSQL grants a lock that is free, and the pool hands a
connection that comes back to somebody who waits; a session kept over calls to Redis is
closed (`Close`) because those calls are taken to answer or to fail, which
`core/redis_client.py`, setting no time-out, leaves to Redis; weak fairness is enough because the
finite workload cannot take a lock or all connections away for ever. The sweep's
fairness is its interval timer (`main.py:63-72`), which starts it again after a run
that failed. For `StaleReleased` this assumes that some instance has the scheduler
enabled.

`Notifications!FairNotifySpec` assumes that some handler goes on as long as one has
calls to make, and that a worker runs (`restart: unless-stopped` in
`docker-compose.yml`). It says nothing of which handler or which job comes first.
`PoolCache` assumes that Redis drops a key whose time to live is over, and nothing
of readers and writers. `RateLimit` and `Accounts` have no liveness properties.

## 4. What is proved

For every workload, every set of pools, prices, sweepers, column limits and any
number of faults:

| module | theorem | statement |
|---|---|---|
| `FarmLinkProofs` | `TypeCorrect` | `Spec => []TypeOK`: in particular no quantity goes below zero |
| | `NoLostUpdate` | `Spec => []LockedRowIsFresh` |
| | `PaymentsAgree` | `Spec => []PaymentMatches` |
| | `KeysAreUnique` | `Spec => []OneOrderPerKey` |
| | `NoConflictEscapes` | `Spec => []NoUnhandledConflict` |
| | `Refinement` | `Spec => ImplementsLedger` |
| | `RetriesAgree` | `Spec => []RetryReturnsOriginal` |
| | `ChargesAreKept` | `IdsNameEvents => (Spec => []AcknowledgedChargeIsPaid)` |
| `BalanceProofs` | `CountersAgree` | `Spec => []StockConserved` |
| | `PayoutsBacked` | `Spec => []PayoutsAreBacked` |
| | `SharedOut` | `Spec => RevenueIsSharedOut` |
| `ConnectionProofs` | `NobodyDeadlocks` | `PooledSpec => []NoCircularWait` |
| | `HoldersWork` | `PooledSpec => []HoldersAreAtWork` |
| | `KeysStayUnique`, `CountersStayInAgreement`, `PooledRefinement` | `PooledSpec` implies `[]OneOrderPerKey`, `[]StockConserved`, `ImplementsLedger` |
| `NotificationProofs` | `Announced` | `NotifySpec => AnnouncedOnce` |
| | `CopiesHaveEvents` | `NotifySpec => []CopiesFollowTheFeed` |
| | `SuccessIsComplete` | `NotifySpec => []SuccessMeansSent` |
| | `FeedIsUpToDate` | `NotifySpec => []FeedTellsStock` |
| `PoolCacheProofs` | `TypeCorrect`, `StaleCopiesAreExplained` | `TypeOK` and `StaleOnlyIfDamaged`, for any readers and writers |
| `RateLimitProofs` | `TypeCorrect`, `WaitingIsEnough` | `TypeOK`, and `RetryAfterSuffices`, for any clocks and delays |
| | `BudgetHolds` | `SkewIsCovered => (Spec => []BudgetUpToSetback)` |
| `AccountsProofs` | `TypeCorrect`, `ApprovalsSurvive`, `AdminsAreMade`, `AdminsRemain` | the four properties of the run `Roles` |

`IdsNameEvents` says that webhooks with one event id carry one event. It is a premise
and no assumption of the model: the run `SharedId` is what happens without it. `SkewIsCovered`
says that how late a script may be and how far two clocks may be apart come, together,
to no more than a second: the second that the time to live has on top of the time a
bucket takes to fill. The run `Rate` meets it with equality; with a longer delay TLC
finds a bucket that Redis drops before it would have been full, and the budget exceeded.

The assumptions are the named ASSUMEs of the modules that declare the constants:
requests are well formed (the schemas see to it), names of processes, outcomes and
markers do not coincide (no bucket is the mark for "no bucket"), limits are numbers, no
request costs more than a full bucket (the limits in `core/config.py` are above zero).
TLC evaluates them in the runs.

The argument. None of these properties is inductive by itself. For the core the
strengthening is `FullInv`, the conjunction of

* `TypeInv`: types; `LabelsFit`, that a session is only at labels of its own
  operation and a sweeper has a candidate while it is expiring one; and
  `StockReserved`, that the row an order holds has the stock it is about to sell.
  Without the last, `available_qty` is not shown to stay a natural number;
* `LockInv`: `LockedRowIsFresh`, `StatusChecked` (the status seen under the lock),
  `RowsExist` (an order's pool exists, and so does an order whose row is locked).
  It gives the step from "computed from `row[s]`" to "computed from the table",
  which is the heart of `Refinement`;
* `OrderInv`: whoever is going to change an order's status holds its lock and has
  seen its status; an order appears only at the end of its session;
* `PaymentMatches`, which is used for and preserved by the two holders of an order
  lock, webhook and sweep;
* `WorkInv`: what a session is about to commit is still news to the tables (its event
  and its contribution are not recorded, its pool has no payouts), and the loser of a
  key has a winner to find;
* `KeyInv`: one order per key, also counting the INSERT that is flushed but not yet
  committed.

Each part has an `...Init` and an `...Step` lemma; the step lemmas go by the actions
of `Next`, with frame lemmas for the processes that do not act. `Refinement` maps
each commit action to a ledger step and every other action to a stutter.

The end of `FarmLinkProofs` adds what an answer says of the tables. `RetriesAgree` needs `TypeInv`
and `LockInv`: an order never disappears, and an answer is given by the commit or by a
look at the keys. `ChargesAreKept` adds to `FullInv` that a delivery goes where its
event belongs and that a recorded charge has paid its order, which is where the
premise on ids is needed: a duplicate is acknowledged because of another webhook's
record, and that one has paid the same order.

`NotificationProofs` goes in layers. `CommitInv` is the part of `FullInv` the
commits rest on; it is shown to survive the failures that come after a commit.
`SessionTells` and `SweepTells` say that the list a commit leaves is exactly its news:
each notice of it once, none of which had happened before. `NoticeInv` then says that
a notice is in one place at a time (one list, or the queue, or told), that wherever it
is its commit stands, and that a list is left only where a commit left it. Each action
becomes a step of `Announcements` by one of five lemmas about moving a notice
(`CommitMoves`, `SendMoves`, `TakeMoves`, `LossMoves`, `NothingMoves`).
`CopiesHaveEvents` adds `CopyInv`, which is about the order of the calls: every list
a commit leaves has the event of a copy before the copy (`ListsArePaired`), and what
is left of a list has it there still or it is out, so that a failure between the two
loses the copy and never the event.

`SuccessIsComplete` rests on `SentInv`: each notice that a successfully answered
session owes is on that session's own list, queued, told or failed. The answer is given
with the list by the commit, or later to a retry, which owes nothing; a notice leaves
the list only to be queued, told or failed. `FeedIsUpToDate` rests on `FigureInv`: the
figure a pool has now is shown, or the event of the pool's latest change carries it and
still waits or was lost. That a new change has a number no earlier one had needs
`RowsFinite`, because the changes are counted.

Sums. `StockConserved` and `PayoutsAreBacked` add up rows with `MapThenSumSet`, which
takes the elements in the order `CHOOSE` gives them. `SumTheorems` shows that the order
does not matter, and from that what the proofs need: the sum over a set with one more
element, with one summand changed, multiplied, shifted, of a part, of an image. The
induction over finite sets is stated about a set of sets and not about a predicate, so
that it takes no operator as a parameter. On top of it, in `BalanceProofs`:

* `GoodsInv` is `StockConserved` with `RowsFinite` and `ReleasedOnce` (an order gives
  its stock back once, and is pending no more). Each commit changes the counters by
  the quantity of the one row it adds or changes, which is where `LockInv` is used: the
  counter is computed from the row as read under the lock.
* `MoneyInv` says that the rows of a distribution are backed when they are computed and
  stay so until and after their commit. They add up to the revenue because the last
  farmer takes the rest, which is never negative because the others' shares are rounded
  down (`SharesAddUp`); the revenue is the totals of the orders the payment rows name,
  each once, by `PaymentMatches`, and so no more than the amounts in those rows and what
  they fall short of the totals; and both only grow.
* `SharedOut` needs that only `ComputeShares` makes rows due, that a pool has finitely
  many contributions, and that its revenue is a number, by `MoneyInv`. That each amount is within
  a kobo of the proportion, and the last within one for each farmer, is
  `RoundingIsSmall`.

Waiting. `HeldLocks` says that a lock is held only by a process at a label where its
code holds it, `PoolingInv` that a process inside a transaction has a connection and
one with a connection is inside its request. A time-out for a connection is not a step
of the core, but keeps its invariants (`GivingUp`), so those of the core hold with
connections too. `NobodyDeadlocks` then gives each process a `Stage`: connection, event,
order, pool, key, in the order the code asks for them. Whoever is waited for is at a
later stage (`WaitsDown`), so among processes that all wait for one another the one at
the latest stage waits for nobody.

`HoldersWork` combines the two: `RowHolders` shows from `HeldLocks` at
which labels somebody holds what another needs, and from `PoolingInv` that a process
there has its connection.

In `PoolCache` types go by key (`ViewFits`: the copy of a listing is a listing); the
rest of the invariant is `StaleOnlyIfDamaged` with `AbsentIsUnknown` (a pool
that does not exist has no copy, and no reader is about to make one) and the keys a
writer remembers. In `RateLimit` `WaitingIsEnough` needs `InTime` (how old the time a
script carries may be) and `PromisesBacked`: until a request is let through, the bucket
has, at every time somebody was told to wait for, enough for one request, whatever
scripts run in between and in whatever order. `BudgetHolds` needs `InTime`,
`OutlivesRefill` (a bucket is kept as long as it would take to fill) and
`TokensAccounted`: what was let through since `t` and what is left came from one full
bucket and the refill since, counted twice for every tick a script ran behind. In
`Accounts` it is `TypeOK`, `Loaded` (a loaded row is still there) and `Authority` (the
caller of a request in flight has been an admin and is not demoting themselves).

Only model-checked: liveness (`AnsweredWithFew`, `StaleReleased`, `OwedIsSettled`,
`StaleGoesAway`), and deadlock in TLC's sense, which is about `ENABLED`;
`NobodyDeadlocks` is what of it can be proved. Every safety invariant and every action
property of the passing runs is proved.

## 5. Where the repository says one thing and the code does another

Each is a run that finds a counterexample to what a comment or test says.

| run | what happens |
|---|---|
| `LatePayment` | The order expires, its stock is sold to another buyer, then its charge succeeds. The webhook stops only for a paid order (`payments/service.py:133`), so the pool owes more than it was given. `orders/service.py:5-6`: "the pool must never be sold below zero"; `tests/test_orders.py:5-6`: "total allocated never exceeds total contributed", which stops being true at the resale. |
| `Retry` | A retry in flight with its first attempt waits for the lock and is refused for the stock the first attempt took; the key is not looked at again before that refusal (`orders/service.py:86`). `orders/service.py:117-118`: "return the order the winner created". |
| `LateRevenue` | An order of a closed pool is paid after the distribution; no payout contains it and a second distribution is refused. `payouts/service.py:20-21`: amounts "sum to EXACTLY the pool's revenue". |
| `SharedId` | The event id recorded is the transaction's (`payments/service.py:93`), so a failed attempt and the success of one transaction share it and the success is acknowledged and ignored. `payments/service.py:100-103` calls an id already recorded "this exact webhook delivery". |

`AcknowledgedChargeIsPaid` therefore holds in `Payments`, where different events
have different ids, and fails in `SharedId`, where they do not.

## 6. Not modelled, and why

* The order in which a feed's events arrive: it is not the order of their commits, and
  nothing in the code says it is. Subscribers of the stream change nothing.
* A Firestore client that was never set up: its write returns at once, which is a job
  done. What a job does to the outside world is its being done.
* `allocations` rows: nothing reads them. They are written with their order and are
  not removed when it expires (`orders/service.py:201-205`), so they do not say what a
  pool's stock is held by: after an expiry and a resale they add up to more than was
  contributed, which `tests/test_orders.py:5-6` says they never do. `NeverOversold` in
  `LatePayment` counts the orders that are still due their goods.
* The cache's DEL after a commit is in `PoolCache`, not composed with the rest: its
  failure after a commit is `FailRequest`.
* Receipts are in `Notifications` and in its proofs; the instance of `Notices` has no
  payments, which with the retry would be more states than TLC gets through.
* Signatures of webhooks and tokens, passwords, login, token expiry: cryptography.
  A delivery with a bad signature is refused before the database is reached, and a
  permission is decided on the row, not on the token.
* CORS, request ids, logs, settings, migrations: no state that changes. The order
  of the middlewares matters for one answer (a limited request gets no request id),
  which is planned.
* Read-only listings without a cache: they neither change nor hold anything.
* The rounding of floats in the bucket, and SERIALIZABLE anomalies: the code runs
  under READ COMMITTED.

## 7. Reproducing

    tlc -workers 2 -config Ordering.cfg MCFarmLink.tla     (likewise the others;
    tlc -workers 2 -config Cache.cfg PoolCache.tla          Rate: MCRateLimit,
    tlapm FarmLinkProofs.tla                                Roles: MCAccounts,
    tlapm NotificationProofs.tla                            Connections: MCConnections,
    (and the other six)                                     Notices: MCNotifications)

The slowest runs are `Notices` (240 thousand states, but two temporal properties;
three minutes), `Connections` (230 thousand, three minutes), `Rate` (a million, two and
a half minutes), `Payments` (two minutes) and `Roles` (1.2 million, a minute and a
half). `NotificationProofs` takes about six minutes, the other proofs less.
Definitions with a suffix and a comment beginning "Slip:" are not used by the
specifications: each is the plausible bug some property is shown to catch.

## 8. Plan

Done, in this order: the locking core and `Ledger`; composition with failures;
proofs of the core; cache, limiter, accounts and proofs about accounts; what follows
a commit, with `Announcements` and its proof; the connection pool; proofs about
answers, cache and limiter; sums and the proofs about stock, money and shares; the
rate budget; complete notices and the feed's figures; freedom from circular waiting;
the amounts of payments; connections kept after a commit; clients that come back.

1. Payments in the instances of `Connections` and `Notices`; two instances in `Roles`.
   Each needs fewer interleavings elsewhere, not a change of a module.
2. `Middleware`: the order of limiter, request context and handler, and what an
   error inside each leaves behind.
3. Proofs: the core's promises under `NotifySpec`, whose failures after a commit are
   not steps of the core; an abstract specification of the bucket, implemented by the
   script.
