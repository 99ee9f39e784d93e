---------------------------- MODULE Notifications ----------------------------
(***************************************************************************)
(* What follows a commit: the jobs put into the Redis queue for the        *)
(* worker process and the events published on a pool's feed.               *)
(*                                                                         *)
(* FarmLink ends a handler with its commit.  Here the commit also leaves   *)
(* the handler with a list of calls to make (`todo`), one of which is made *)
(* per step, with no lock held, while everybody else goes on.  Any of them *)
(* can fail, and takes the rest of the list with it.                       *)
(***************************************************************************)
EXTENDS FarmLink, Sequences

CONSTANT MaxFailures  \* bound: failures before a commit (faults) or after one (losses)

ASSUME FailuresAssumption == MaxFailures \in Nat

\* An id is of a pool or of a row of a session.
ASSUME SubjectsAssumption == Pools \cap Sessions = {}

VARIABLES
    todo,       \* [Processes -> the sequence of messages each has still to send]
    queued,     \* [Jobs -> Nat]: RQ's queue in Redis
    told,       \* [AllNotices -> Nat]: how often the job was done, the event published
    shown,      \* [Pools -> the stock figures published on its feed]
    failed,     \* the jobs in RQ's registry of failed ones
    losses      \* history: failures after a commit so far

sending == <<todo, queued, told, shown, failed, losses>>

-----------------------------------------------------------------------------

\* The events of a pool's feed and what each is about.
PoolEvents ==
    ({"order.placed", "order.expired"} \X Orders)
        \cup ({"contribution.added"} \X Contributions)
        \cup ({"pool.closed"} \X Pools)

Job(what, x)  == [via |-> "job", what |-> what, about |-> x]
Live(what, x) == [via |-> "feed", what |-> what, about |-> x]
Copy(what, x) == [via |-> "copy", what |-> what, about |-> x]

\* E-mails to the buyer and the notice to the admin.
Errands == {"order confirmation", "new order", "payment confirmation"} \X Orders

Jobs == {Job(e[1], e[2]) : e \in Errands} \cup {Copy(e[1], e[2]) : e \in PoolEvents}

AllNotices == Jobs \cup {Live(e[1], e[2]) : e \in PoolEvents}

Subject(n) == IF n.about \in Pools THEN n.about ELSE Request[n.about].pool

\* The available_qty in an event; `at` is history, the number of the change of
\* stock behind it.  Messages that show no quantity have none (a set of them).
Figure(q, k) == [available |-> q, at |-> k]

Say(n) == [notice |-> n, shows |-> {}]

\* Changes of a pool's stock so far, counted from the rows they left.
StockChanges(p) ==
    Cardinality(ContributionsTo(p))
        + Cardinality({o \in Placed : Request[o].pool = p})
        + Cardinality({o \in released : Request[o].pool = p})

\* Slip: the copy is put into the queue before the event is published.
PublishPoolEvent_copy_first(what, x, shows) ==
    <<Say(Copy(what, x)), [notice |-> Live(what, x), shows |-> shows]>>

\* publish_pool_event: PUBLISH first, then the job that writes to Firestore.
PublishPoolEvent(what, x, shows) ==
    <<[notice |-> Live(what, x), shows |-> shows], Say(Copy(what, x))>>

\* Slip: the quantity the handler found, not the one it left.
StockEvent_as_found(what, x, p, r) ==
    PublishPoolEvent(what, x, {Figure(r.available_qty, StockChanges(p) + 1)})

\* The event of a change of stock shows the quantity the commit wrote, which is
\* still on the handler's ORM object r (expire_on_commit=False).
StockEvent(what, x, p, r) ==
    PublishPoolEvent(what, x, {Figure(pools'[p].available_qty, StockChanges(p) + 1)})

AfterOrder(o) ==
    <<Say(Job("order confirmation", o)), Say(Job("new order", o))>>
        \o StockEvent("order.placed", o, Request[o].pool, row[o])

AfterContribution(c) == StockEvent("contribution.added", c, Request[c].pool, row[c])

AfterClose(s) == PublishPoolEvent("pool.closed", Request[s].pool, {})

AfterPayment(s) == <<Say(Job("payment confirmation", Reference(s)))>>

AfterExpiry(w) ==
    StockEvent("order.expired", current[w], Request[current[w]].pool, row[w])

\* Slip: an order found by its key is announced like a new one.
Following_found_by_key(s) ==
    CASE pc[s] \in {"order_commit", "start", "order_reread"} /\ answer'[s] \in Orders ->
            <<Say(Job("order confirmation", answer'[s])), Say(Job("new order", answer'[s]))>>
      [] pc[s] = "contribution_commit" /\ answer'[s] = "ok" -> AfterContribution(s)
      [] pc[s] = "close_commit" -> AfterClose(s)
      [] pc[s] = "payment_commit" /\ answer'[s] = "ok" -> AfterPayment(s)
      [] OTHER -> <<>>

\* What the step a session is about to take leaves it to send.
Following(s) ==
    CASE pc[s] = "order_commit" -> AfterOrder(s)
      [] pc[s] = "contribution_commit" /\ answer'[s] = "ok" -> AfterContribution(s)
      [] pc[s] = "close_commit" -> AfterClose(s)
      [] pc[s] = "payment_commit" /\ answer'[s] = "ok" -> AfterPayment(s)
      [] OTHER -> <<>>

-----------------------------------------------------------------------------

NoticesIn(q) == {q[i].notice : i \in DOMAIN q}

\* On its way: still to be sent, or in the queue.
Owed == {n \in Jobs : queued[n] > 0} \cup UNION {NoticesIn(todo[x]) : x \in Processes}

Serve(s) ==
    /\ SessionStep(s)
    /\ todo' = [todo EXCEPT ![s] = Following(s)]
    /\ UNCHANGED <<queued, told, shown, failed, losses>>

\* The sweep sends what one release leaves it to send before its next candidate.
RunSweep(w) ==
    /\ todo[w] = <<>>
    /\ SweepStep(w)
    /\ todo' = [todo EXCEPT ![w] = IF pc[w] = "expire_commit" THEN AfterExpiry(w) ELSE <<>>]
    /\ UNCHANGED <<queued, told, shown, failed, losses>>

\* The next call of the list: PUBLISH, or RQ's enqueue.
Send(x) ==
    /\ todo[x] # <<>>
    /\ LET m == Head(todo[x]) IN
       \/ /\ m.notice.via = "feed"
          /\ told' = [told EXCEPT ![m.notice] = @ + 1]
          /\ shown' = [shown EXCEPT ![Subject(m.notice)] = @ \cup m.shows]
          /\ UNCHANGED queued
       \/ /\ m.notice.via # "feed"
          /\ queued' = [queued EXCEPT ![m.notice] = @ + 1]
          /\ UNCHANGED <<told, shown>>
    /\ todo' = [todo EXCEPT ![x] = Tail(@)]
    /\ UNCHANGED <<vars, failed, losses>>

MayFail == faults + losses < MaxFailures

\* Slip: the failure is swallowed and the client told that all went well.
FailRequest_swallowed(s) ==
    /\ todo[s] # <<>>
    /\ MayFail
    /\ losses' = losses + 1
    /\ todo' = [todo EXCEPT ![s] = <<>>]
    /\ UNCHANGED <<vars, queued, told, shown, failed>>

\* Redis or the API process fails after the commit.  Nothing is rolled back, the
\* rest of the list is forgotten, and the client sees an error.
FailRequest(s) ==
    /\ todo[s] # <<>>
    /\ MayFail
    /\ losses' = losses + 1
    /\ todo' = [todo EXCEPT ![s] = <<>>]
    /\ answer' = [answer EXCEPT ![s] = "error"]
    /\ UNCHANGED <<tables, locks, pc, row, due, background, queued, told, shown, failed>>

\* In a sweep the exception is logged as a failed release and the batch goes on;
\* a process that dies leaves the rest of its batch to the next run.
FailSweep(w) ==
    /\ todo[w] # <<>>
    /\ MayFail
    /\ losses' = losses + 1
    /\ todo' = [todo EXCEPT ![w] = <<>>]
    /\ \/ UNCHANGED <<pc, sweep>>
       \/ /\ pc' = [pc EXCEPT ![w] = "idle"]
          /\ batch' = [batch EXCEPT ![w] = {}]
          /\ current' = [current EXCEPT ![w] = NoOrder]
    /\ UNCHANGED <<tables, locks, answer, row, due, outside, queued, told, shown, failed>>

\* A worker takes a job off the queue, once: one worker in docker-compose.yml,
\* which takes the oldest, any number in general, which finish in any order.
TakeJob(n) ==
    /\ queued[n] > 0
    /\ queued' = [queued EXCEPT ![n] = @ - 1]

\* Slip: the copies go to a queue of their own, which the worker is not given.
RunJob_one_queue(n) ==
    /\ n.via = "job"
    /\ TakeJob(n)
    /\ told' = [told EXCEPT ![n] = @ + 1]
    /\ UNCHANGED <<vars, todo, shown, failed, losses>>

RunJob(n) ==
    /\ TakeJob(n)
    /\ told' = [told EXCEPT ![n] = @ + 1]
    /\ UNCHANGED <<vars, todo, shown, failed, losses>>

\* The job raises, or the worker dies with it: nobody asked RQ for a retry.
FailJob(n) ==
    /\ MayFail
    /\ losses' = losses + 1
    /\ TakeJob(n)
    /\ failed' = failed \cup {n}
    /\ UNCHANGED <<vars, todo, told, shown>>

-----------------------------------------------------------------------------

NotifyInit ==
    /\ Init
    /\ todo = [x \in Processes |-> <<>>]
    /\ queued = [n \in Jobs |-> 0]
    /\ told = [n \in AllNotices |-> 0]
    /\ shown = [p \in Pools |-> {}]
    /\ failed = {}
    /\ losses = 0

AllQuiet ==
    /\ Quiet
    /\ \A n \in Jobs : queued[n] = 0
    /\ \A x \in Processes : todo[x] = <<>>
    /\ UNCHANGED sending

\* A failure before the commit: there is nothing to send.
RollBack(x) ==
    /\ MayFail
    /\ \/ x \in Sessions /\ Abort(x)
       \/ x \in Sweepers /\ AbortSweep(x)
    /\ UNCHANGED sending

NotifyNext ==
    \/ \E s \in Sessions : Serve(s) \/ FailRequest(s)
    \/ \E w \in Sweepers : RunSweep(w) \/ FailSweep(w)
    \/ \E x \in Processes : RollBack(x)
    \/ \E o \in Orders : Age(o) /\ UNCHANGED sending
    \/ \E x \in Processes : Send(x)
    \/ \E n \in Jobs : RunJob(n) \/ FailJob(n)
    \/ AllQuiet

NotifySpec == NotifyInit /\ [][NotifyNext]_<<vars, sending>>

\* Some handler goes on after its commit as long as one has calls to make, and
\* the worker is always running (restart: unless-stopped).
FairNotifySpec ==
    /\ NotifySpec
    /\ WF_<<vars, sending>>(\E x \in Processes : Send(x))
    /\ WF_<<vars, sending>>(\E n \in Jobs : RunJob(n))

-----------------------------------------------------------------------------
(***************************************************************************)
(*                               Properties                                *)
(***************************************************************************)

\* What the tables say has happened.
Happened(n) ==
    CASE n.what \in {"order confirmation", "new order", "order.placed"} -> n.about \in Placed
      [] n.what = "order.expired" -> n.about \in released
      [] n.what = "payment confirmation" -> PaymentsOf(n.about) # {}
      [] n.what = "contribution.added" -> n.about \in contributions
      [] n.what = "pool.closed" -> pools[n.about].status = "closed"

ToldOnce == {n \in AllNotices : told[n] = 1}

Lost == {n \in AllNotices : Happened(n)} \ (Owed \cup ToldOnce)

\* Every e-mail, admin notice, feed event and durable copy is an Announcement:
\* owed from the commit on, told at most once, never before or without that
\* commit, dropped only in a step that fails after a commit, which takes no more
\* than what is owed of one thing, and not told after all once lost
\* (tests/test_jobs.py, "a flaky-connection retry would email the buyer twice").
Promised == INSTANCE Announcements WITH
                Notices <- AllNotices,
                happened <- {n \in AllNotices : Happened(n)},
                due <- Owed,
                told <- ToldOnce,
                failures <- losses

AnnouncedOnce == Promised!Spec

\* Whenever something is owed, a time comes when nothing is: no list of calls
\* and no job stays where it is (core/jobs.py:10-13, a job "sits in the queue
\* until a worker [...] picks it up").
OwedIsSettled == []<>(Owed = {})

\* A pool whose events have all come out, none lost, has told its watchers what
\* it has left: the event of its latest change of stock shows the available_qty
\* of the table, in whatever order the events were published.
FeedTellsStock ==
    \A p \in Pools :
        LET events == {Live(e[1], e[2]) : e \in PoolEvents} IN
        StockChanges(p) > 0 /\ (\A n \in events : Subject(n) = p /\ Happened(n) => told[n] = 1)
            => Figure(pools[p].available_qty, StockChanges(p)) \in shown[p]

\* Firestore holds "the durable copy of the same events" (core/realtime.py:10):
\* a copy is queued, written or failed only of an event that went out live.
CopiesFollowTheFeed ==
    \A n \in Jobs :
        n.via = "copy" /\ (queued[n] > 0 \/ told[n] > 0 \/ n \in failed) =>
            told[Live(n.what, n.about)] = 1

\* What a session committed and must tell.
NoticesOf(s) ==
    {n \in AllNotices :
        /\ n.what # "order.expired"
        /\ \/ n.about = s /\ s \in Orders \cup Contributions /\ n.what # "payment confirmation"
           \/ n.what = "pool.closed" /\ Request[s].op = "close_pool" /\ n.about = Request[s].pool
           \/ n.what = "payment confirmation" /\ s \in payments /\ n.about = Reference(s)}

\* A request that is answered with success has sent all it had to: only a job
\* that fails in the worker is lost without a client seeing an error.
SuccessMeansSent ==
    \A s \in Sessions :
        answer[s] \in {"ok", s} /\ todo[s] = <<>> => NoticesOf(s) \cap Lost \subseteq failed
===============================================================================
