-------------------------- MODULE NotificationProofs --------------------------
(***************************************************************************)
(* Theorems about Notifications for every workload, any number of pools,   *)
(* sweepers and failures.  What the services guarantee of their tables     *)
(* comes from FarmLinkProofs; here it is shown to survive the steps that   *)
(* follow a commit, and each notice to be in one place at a time.          *)
(***************************************************************************)
EXTENDS Notifications, BalanceProofs, SequenceTheorems

USE DEF Goto, Reply, Refuse, LockPool, UnlockPool, LockOrder, UnlockOrder, ReleaseAll,
        tables, locks, sweep, outside, background, Processes

-----------------------------------------------------------------------------
(***************************************************************************)
(* Lists of messages.                                                      *)
(***************************************************************************)

IsSeq(q) == \E S : q \in Seq(S)

NoRepeats(q) == \A i, j \in DOMAIN q : q[i].notice = q[j].notice => i = j

\* A list of calls: each notice of it once, all about one thing.
WellFormed(q) ==
    /\ IsSeq(q)
    /\ NoRepeats(q)
    /\ NoticesIn(q) \subseteq AllNotices
    /\ \A n, m \in NoticesIn(q) : n.about = m.about

\* Nothing to send.
LEMMA NoneToSend == WellFormed(<<>>) /\ NoticesIn(<<>>) = {}
  BY EmptySeq DEF WellFormed, IsSeq, NoRepeats, NoticesIn

\* One message.
LEMMA OneToSend ==
    ASSUME NEW a, a.notice \in AllNotices
    PROVE  WellFormed(<<a>>) /\ NoticesIn(<<a>>) = {a.notice} /\ <<a>> # <<>>
  <1> DEFINE q == <<a>>
  <1>1. q \in Seq({a})
    OBVIOUS
  <1>2. DOMAIN q = 1..1 /\ q[1] = a
    OBVIOUS
  <1>3. IsSeq(q)
    BY <1>1 DEF IsSeq
  <1>4. NoRepeats(q) /\ NoticesIn(q) = {a.notice}
    BY <1>2 DEF NoRepeats, NoticesIn
  <1>5. QED
    BY <1>2, <1>3, <1>4 DEF WellFormed

\* Two different ones about one thing.
LEMMA TwoToSend ==
    ASSUME NEW a, NEW b, {a.notice, b.notice} \subseteq AllNotices, a.notice # b.notice,
           a.notice.about = b.notice.about
    PROVE  WellFormed(<<a, b>>) /\ NoticesIn(<<a, b>>) = {a.notice, b.notice} /\ <<a, b>> # <<>>
  <1> DEFINE q == <<a, b>>
  <1>1. q \in Seq({a, b})
    OBVIOUS
  <1>2. DOMAIN q = 1..2 /\ q[1] = a /\ q[2] = b
    OBVIOUS
  <1>3. IsSeq(q)
    BY <1>1 DEF IsSeq
  <1>4. QED
    BY <1>2, <1>3 DEF WellFormed, NoRepeats, NoticesIn

\* Two and two.
LEMMA FourToSend ==
    ASSUME NEW a, NEW b, NEW c, NEW d,
           {a.notice, b.notice, c.notice, d.notice} \subseteq AllNotices,
           a.notice # b.notice, a.notice # c.notice, a.notice # d.notice,
           b.notice # c.notice, b.notice # d.notice, c.notice # d.notice,
           NEW x, \A n \in {a.notice, b.notice, c.notice, d.notice} : n.about = x
    PROVE  /\ WellFormed(<<a, b>> \o <<c, d>>)
           /\ NoticesIn(<<a, b>> \o <<c, d>>) = {a.notice, b.notice, c.notice, d.notice}
  <1> DEFINE q == <<a, b>> \o <<c, d>>
  <1>1. <<a, b>> \in Seq({a, b, c, d}) /\ <<c, d>> \in Seq({a, b, c, d})
    OBVIOUS
  <1>2. Len(<<a, b>>) = 2 /\ Len(<<c, d>>) = 2
    OBVIOUS
  <1>3. q \in Seq({a, b, c, d}) /\ Len(q) = 4
    BY <1>1, <1>2, ConcatProperties
  <1>4. q[1] = a /\ q[2] = b /\ q[3] = c /\ q[4] = d
    BY <1>1, <1>2, ConcatProperties
  <1>5. DOMAIN q = 1..4
    BY <1>3, LenProperties
  <1>6. IsSeq(q)
    BY <1>3 DEF IsSeq
  <1> HIDE DEF q
  <1>7. NoticesIn(q) = {a.notice, b.notice, c.notice, d.notice}
    BY <1>4, <1>5 DEF NoticesIn
  <1>8. NoRepeats(q)
    BY <1>4, <1>5 DEF NoRepeats
  <1>9. WellFormed(q)
    BY <1>6, <1>7, <1>8 DEF WellFormed
  <1>10. QED
    BY <1>7, <1>9 DEF q

\* The first message and the others.
LEMMA HeadAndTail ==
    ASSUME NEW q, WellFormed(q), q # <<>>
    PROVE  /\ NoticesIn(q) = {Head(q).notice} \cup NoticesIn(Tail(q))
           /\ Head(q).notice \in AllNotices \ NoticesIn(Tail(q))
           /\ WellFormed(Tail(q))
  <1>1. PICK S : q \in Seq(S)
    BY DEF WellFormed, IsSeq
  <1>2. /\ Tail(q) \in Seq(S)
        /\ Len(q) \in Nat \ {0}
        /\ Len(Tail(q)) = Len(q) - 1
        /\ DOMAIN q = 1..Len(q)
        /\ DOMAIN Tail(q) = 1..(Len(q) - 1)
        /\ \A i \in 1..(Len(q) - 1) : Tail(q)[i] = q[i + 1]
    BY <1>1, HeadTailProperties, LenProperties, EmptySeq
  <1>3. Head(q) = q[1]
    BY <1>1
  <1>4. \A i \in DOMAIN q : i = 1 \/ (i - 1 \in DOMAIN Tail(q) /\ q[i] = Tail(q)[i - 1])
    BY <1>2
  <1>5. \A i \in DOMAIN Tail(q) : i + 1 \in DOMAIN q /\ i + 1 # 1 /\ Tail(q)[i] = q[i + 1]
    BY <1>2
  <1>6. 1 \in DOMAIN q
    BY <1>2
  <1>7. NoticesIn(q) = {Head(q).notice} \cup NoticesIn(Tail(q))
    <2>1. ASSUME NEW i \in DOMAIN q
          PROVE  q[i].notice \in {Head(q).notice} \cup NoticesIn(Tail(q))
      BY <1>3, <1>4 DEF NoticesIn
    <2>2. ASSUME NEW i \in DOMAIN Tail(q)
          PROVE  Tail(q)[i].notice \in NoticesIn(q)
      BY <1>5 DEF NoticesIn
    <2>3. Head(q).notice \in NoticesIn(q)
      BY <1>3, <1>6 DEF NoticesIn
    <2>4. QED
      BY <2>1, <2>2, <2>3 DEF NoticesIn
  <1>8. Head(q).notice \notin NoticesIn(Tail(q))
    BY <1>3, <1>5, <1>6 DEF NoticesIn, WellFormed, NoRepeats
  <1>9. NoRepeats(Tail(q))
    <2>1. SUFFICES ASSUME NEW i \in DOMAIN Tail(q), NEW j \in DOMAIN Tail(q),
                          Tail(q)[i].notice = Tail(q)[j].notice
                   PROVE  i = j
      BY DEF NoRepeats
    <2>2. i + 1 = j + 1
      BY <1>5, <2>1 DEF WellFormed, NoRepeats
    <2>3. i \in Int /\ j \in Int
      BY <1>2
    <2>4. QED
      BY <2>2, <2>3
  <1>10. IsSeq(Tail(q))
    BY <1>2 DEF IsSeq
  <1>11. Head(q).notice \in AllNotices /\ NoticesIn(Tail(q)) \subseteq AllNotices
    BY <1>7 DEF WellFormed
  <1>12. QED
    BY <1>7, <1>8, <1>9, <1>10, <1>11 DEF WellFormed

-----------------------------------------------------------------------------
(***************************************************************************)
(* Which notices there are, and which tables they tell of.                 *)
(***************************************************************************)

About(what, X) == {n \in AllNotices : n.what \in what /\ n.about \in X}

OfAnOrder == {"order confirmation", "new order", "order.placed"}

PaidFor == {o \in Orders : PaymentsOf(o) # {}}

ClosedPools == {p \in Pools : pools[p].status = "closed"}

Committed == {n \in AllNotices : Happened(n)}

\* Every pool event has its live notice and its copy.
LEMMA EventNotices ==
    ASSUME NEW what, NEW x, <<what, x>> \in PoolEvents
    PROVE  Live(what, x) \in AllNotices \ Jobs /\ Copy(what, x) \in Jobs
  <1>1. <<what, x>>[1] = what /\ <<what, x>>[2] = x
    OBVIOUS
  <1>2. Copy(what, x) \in Jobs
    BY <1>1 DEF Jobs
  <1>3. Live(what, x) \in AllNotices
    BY <1>1 DEF AllNotices
  <1>4. \A n \in Jobs : n.via \in {"job", "copy"}
    BY DEF Jobs, Job, Copy
  <1>5. QED
    BY <1>2, <1>3, <1>4 DEF Live

\* A notice is an event's, live or copied, or one of three jobs about an order.
LEMMA Kinds ==
    ASSUME NEW n \in AllNotices
    PROVE  \/ /\ n \in Jobs
              /\ n.via = "job"
              /\ n.what \in {"order confirmation", "new order", "payment confirmation"}
              /\ n.about \in Orders
              /\ n = Job(n.what, n.about)
           \/ /\ <<n.what, n.about>> \in PoolEvents
              /\ \/ n = Live(n.what, n.about) /\ n.via = "feed"
                 \/ n = Copy(n.what, n.about) /\ n.via = "copy" /\ n \in Jobs
  <1>1. \A e \in PoolEvents : e = <<e[1], e[2]>>
    BY DEF PoolEvents
  <1>2. CASE \E e \in Errands : n = Job(e[1], e[2])
    <2>1. PICK e \in Errands : n = Job(e[1], e[2])
      BY <1>2
    <2>2. n.what = e[1] /\ n.about = e[2] /\ n.via = "job"
      BY <2>1 DEF Job
    <2>3. n \in Jobs
      BY <2>1 DEF Jobs
    <2>4. e[1] \in {"order confirmation", "new order", "payment confirmation"} /\ e[2] \in Orders
      BY DEF Errands
    <2>5. QED
      BY <2>1, <2>2, <2>3, <2>4
  <1>3. CASE \E e \in PoolEvents : n = Copy(e[1], e[2])
    <2>1. PICK e \in PoolEvents : n = Copy(e[1], e[2])
      BY <1>3
    <2>2. n.what = e[1] /\ n.about = e[2] /\ n.via = "copy"
      BY <2>1 DEF Copy
    <2>3. n \in Jobs
      BY <2>1 DEF Jobs
    <2>4. QED
      BY <1>1, <2>1, <2>2, <2>3
  <1>4. CASE \E e \in PoolEvents : n = Live(e[1], e[2])
    <2>1. PICK e \in PoolEvents : n = Live(e[1], e[2])
      BY <1>4
    <2>2. n.what = e[1] /\ n.about = e[2] /\ n.via = "feed"
      BY <2>1 DEF Live
    <2>3. QED
      BY <1>1, <2>1, <2>2
  <1>5. QED
    BY <1>2, <1>3, <1>4 DEF AllNotices, Jobs

\* Jobs are what goes into the queue, the others onto the feed.
LEMMA ByQueue == \A n \in AllNotices : n.via # "feed" <=> n \in Jobs
  <1>1. \A n \in Jobs : n.via # "feed"
    BY DEF Jobs, Job, Copy
  <1>2. QED
    BY <1>1, Kinds

\* What has happened, table by table.
LEMMA CommittedByTable ==
    Committed = UNION {About(OfAnOrder, Placed),
                       About({"order.expired"}, released),
                       About({"payment confirmation"}, PaidFor),
                       About({"contribution.added"}, contributions),
                       About({"pool.closed"}, ClosedPools)}
  <1>1. SUFFICES ASSUME NEW n \in AllNotices
                 PROVE  Happened(n) <=> \/ n.what \in OfAnOrder /\ n.about \in Placed
                                        \/ n.what = "order.expired" /\ n.about \in released
                                        \/ n.what = "payment confirmation" /\ n.about \in PaidFor
                                        \/ n.what = "contribution.added" /\ n.about \in contributions
                                        \/ n.what = "pool.closed" /\ n.about \in ClosedPools
    BY DEF Committed, About
  <1>2. \/ n.what \in OfAnOrder \cup {"payment confirmation", "order.expired"} /\ n.about \in Orders
        \/ n.what = "contribution.added" /\ n.about \in Contributions
        \/ n.what = "pool.closed" /\ n.about \in Pools
    BY Kinds DEF PoolEvents, OfAnOrder
  <1>3. CASE n.what \in OfAnOrder
    BY <1>3 DEF Happened, OfAnOrder
  <1>4. CASE n.what = "order.expired"
    BY <1>4 DEF Happened, OfAnOrder
  <1>5. CASE n.what = "payment confirmation" /\ n.about \in Orders
    BY <1>5 DEF Happened, OfAnOrder, PaidFor
  <1>6. CASE n.what = "contribution.added"
    BY <1>6 DEF Happened, OfAnOrder
  <1>7. CASE n.what = "pool.closed" /\ n.about \in Pools
    BY <1>7 DEF Happened, OfAnOrder, ClosedPools
  <1>8. QED
    BY <1>2, <1>3, <1>4, <1>5, <1>6, <1>7 DEF OfAnOrder

-----------------------------------------------------------------------------
(***************************************************************************)
(* What each list of calls tells.                                          *)
(***************************************************************************)

\* The notices of an event, apart from errands about the same row.
LEMMA OfAnEvent ==
    ASSUME NEW what, NEW x, <<what, x>> \in PoolEvents
    PROVE  About({what}, {x}) = {Live(what, x), Copy(what, x)}
  <1>1. {Live(what, x), Copy(what, x)} \subseteq About({what}, {x})
    BY EventNotices DEF About, Live, Copy, AllNotices
  <1>2. what \notin {"order confirmation", "new order", "payment confirmation"}
    BY DEF PoolEvents
  <1>3. ASSUME NEW n \in AllNotices, n.what = what, n.about = x
        PROVE  n \in {Live(what, x), Copy(what, x)}
    BY <1>2, <1>3, Kinds
  <1>4. QED
    BY <1>1, <1>3 DEF About

\* The notices of an order that is placed.
LEMMA OfAnOrderPlaced ==
    ASSUME NEW o \in Orders
    PROVE  /\ About(OfAnOrder, {o}) = {Job("order confirmation", o), Job("new order", o),
                                       Live("order.placed", o), Copy("order.placed", o)}
           /\ <<"order.placed", o>> \in PoolEvents
  <1>1. <<"order.placed", o>> \in PoolEvents
    BY DEF PoolEvents
  <1>2. <<"order confirmation", o>> \in Errands /\ <<"new order", o>> \in Errands
    BY DEF Errands
  <1>3. /\ <<"order confirmation", o>>[1] = "order confirmation"
        /\ <<"order confirmation", o>>[2] = o
        /\ <<"new order", o>>[1] = "new order"
        /\ <<"new order", o>>[2] = o
    OBVIOUS
  <1>4. Job("order confirmation", o) \in AllNotices /\ Job("new order", o) \in AllNotices
    BY <1>2, <1>3 DEF AllNotices, Jobs
  <1>5. /\ Job("order confirmation", o) \in About(OfAnOrder, {o})
        /\ Job("new order", o) \in About(OfAnOrder, {o})
    BY <1>4 DEF About, OfAnOrder, Job
  <1>6. Live("order.placed", o) \in About(OfAnOrder, {o}) /\ Copy("order.placed", o) \in About(OfAnOrder, {o})
    BY <1>1, EventNotices DEF About, OfAnOrder, Live, Copy, AllNotices
  <1>7. ASSUME NEW n \in About(OfAnOrder, {o})
        PROVE  n \in {Job("order confirmation", o), Job("new order", o),
                      Live("order.placed", o), Copy("order.placed", o)}
    <2>1. n \in AllNotices /\ n.what \in OfAnOrder /\ n.about = o
      BY DEF About
    <2>2. CASE n = Job(n.what, n.about) /\ n.what \in {"order confirmation", "new order", "payment confirmation"}
      BY <2>1, <2>2 DEF OfAnOrder
    <2>3. CASE <<n.what, n.about>> \in PoolEvents /\ n \in {Live(n.what, n.about), Copy(n.what, n.about)}
      <3>1. n.what = "order.placed"
        BY <2>1, <2>3 DEF PoolEvents, OfAnOrder
      <3>2. QED
        BY <2>1, <2>3, <3>1
    <2>4. QED
      BY <2>1, <2>2, <2>3, Kinds
  <1>8. QED
    BY <1>1, <1>5, <1>6, <1>7

\* An event and its copy make a list of two.
LEMMA PublishingList ==
    ASSUME NEW what, NEW x, NEW shows, <<what, x>> \in PoolEvents
    PROVE  /\ WellFormed(PublishPoolEvent(what, x, shows))
           /\ NoticesIn(PublishPoolEvent(what, x, shows)) = About({what}, {x})
  <1> DEFINE a == [notice |-> Live(what, x), shows |-> shows]
             b == Say(Copy(what, x))
  <1>1. a.notice = Live(what, x) /\ b.notice = Copy(what, x)
    BY DEF Say
  <1>2. /\ a.notice \in AllNotices /\ b.notice \in AllNotices /\ a.notice # b.notice
        /\ a.notice.about = b.notice.about
    <2>1. Live(what, x).about = Copy(what, x).about
      BY DEF Live, Copy
    <2>2. QED
      BY <1>1, <2>1, EventNotices DEF AllNotices
  <1> HIDE DEF a, b
  <1>3. WellFormed(<<a, b>>) /\ NoticesIn(<<a, b>>) = {a.notice, b.notice}
    BY <1>2, TwoToSend
  <1>4. QED
    BY <1>1, <1>3, OfAnEvent DEF a, b, PublishPoolEvent

\* The list after an order.
LEMMA OrderList ==
    ASSUME NEW o \in Orders
    PROVE  WellFormed(AfterOrder(o)) /\ NoticesIn(AfterOrder(o)) = About(OfAnOrder, {o})
  <1> DEFINE shows == {Figure(pools'[Request[o].pool].available_qty, StockChanges(Request[o].pool) + 1)}
             a == Say(Job("order confirmation", o))
             b == Say(Job("new order", o))
             c == [notice |-> Live("order.placed", o), shows |-> shows]
             d == Say(Copy("order.placed", o))
  <1>1. AfterOrder(o) = <<a, b>> \o <<c, d>>
    BY DEF AfterOrder, StockEvent, PublishPoolEvent
  <1>2. /\ a.notice = Job("order confirmation", o)
        /\ b.notice = Job("new order", o)
        /\ c.notice = Live("order.placed", o)
        /\ d.notice = Copy("order.placed", o)
    BY DEF Say
  <1> HIDE DEF a, b, c, d
  <1>3. /\ a.notice.via = "job" /\ a.notice.what = "order confirmation"
        /\ b.notice.via = "job" /\ b.notice.what = "new order"
        /\ c.notice.via = "feed" /\ d.notice.via = "copy"
    <2>1. /\ Job("order confirmation", o).via = "job"
          /\ Job("order confirmation", o).what = "order confirmation"
          /\ Job("new order", o).via = "job"
          /\ Job("new order", o).what = "new order"
          /\ Live("order.placed", o).via = "feed"
          /\ Copy("order.placed", o).via = "copy"
      BY DEF Job, Live, Copy
    <2>2. QED
      BY <1>2, <2>1
  <1>4. {a.notice, b.notice, c.notice, d.notice} = About(OfAnOrder, {o})
    BY <1>2, OfAnOrderPlaced
  <1>5. {a.notice, b.notice, c.notice, d.notice} \subseteq AllNotices
    BY <1>4 DEF About
  <1>6. /\ a.notice # b.notice /\ a.notice # c.notice /\ a.notice # d.notice
        /\ b.notice # c.notice /\ b.notice # d.notice /\ c.notice # d.notice
    BY <1>3
  <1>7. /\ WellFormed(<<a, b>> \o <<c, d>>)
        /\ NoticesIn(<<a, b>> \o <<c, d>>) = {a.notice, b.notice, c.notice, d.notice}
    <2>1. \A n \in {a.notice, b.notice, c.notice, d.notice} : n.about = o
      BY <1>4 DEF About
    <2>2. QED
      BY <1>5, <1>6, <2>1, FourToSend
  <1>8. QED
    BY <1>1, <1>4, <1>7

\* After a contribution.
LEMMA ContributionList ==
    ASSUME NEW c \in Contributions
    PROVE  /\ WellFormed(AfterContribution(c))
           /\ NoticesIn(AfterContribution(c)) = About({"contribution.added"}, {c})
  <1>1. <<"contribution.added", c>> \in PoolEvents
    BY DEF PoolEvents
  <1>2. QED
    BY <1>1, PublishingList DEF AfterContribution, StockEvent

\* After a closing.
LEMMA ClosingList ==
    ASSUME NEW s \in Sessions, Request[s].pool \in Pools
    PROVE  /\ WellFormed(AfterClose(s))
           /\ NoticesIn(AfterClose(s)) = About({"pool.closed"}, {Request[s].pool})
  <1>1. <<"pool.closed", Request[s].pool>> \in PoolEvents
    BY DEF PoolEvents
  <1>2. QED
    BY <1>1, PublishingList DEF AfterClose

\* After a release.
LEMMA ExpiryList ==
    ASSUME NEW w \in Sweepers, current[w] \in Orders
    PROVE  /\ WellFormed(AfterExpiry(w))
           /\ NoticesIn(AfterExpiry(w)) = About({"order.expired"}, {current[w]})
  <1>1. <<"order.expired", current[w]>> \in PoolEvents
    BY DEF PoolEvents
  <1>2. QED
    BY <1>1, PublishingList DEF AfterExpiry, StockEvent

\* After a payment.
LEMMA PaymentList ==
    ASSUME NEW s \in Sessions, Reference(s) \in Orders
    PROVE  /\ WellFormed(AfterPayment(s))
           /\ NoticesIn(AfterPayment(s)) = About({"payment confirmation"}, {Reference(s)})
  <1> DEFINE o == Reference(s)
             n == Job("payment confirmation", o)
             a == Say(n)
  <1>1. <<"payment confirmation", o>> \in Errands
    BY DEF Errands
  <1>2. <<"payment confirmation", o>>[1] = "payment confirmation" /\ <<"payment confirmation", o>>[2] = o
    OBVIOUS
  <1>3. n \in AllNotices
    BY <1>1, <1>2 DEF AllNotices, Jobs
  <1>4. a.notice = n
    BY DEF Say
  <1>5. AfterPayment(s) = <<a>>
    BY DEF AfterPayment
  <1>6. WellFormed(<<a>>) /\ NoticesIn(<<a>>) = {a.notice}
    BY <1>3, <1>4, OneToSend
  <1>7. ASSUME NEW m \in AllNotices, m.what = "payment confirmation", m.about = o
        PROVE  m = n
    BY <1>7, Kinds DEF PoolEvents
  <1>8. About({"payment confirmation"}, {o}) = {n}
    <2>1. n.what = "payment confirmation" /\ n.about = o
      BY DEF Job
    <2> HIDE DEF n, o
    <2>2. QED
      BY <1>3, <1>7, <2>1 DEF About
  <1>9. QED
    BY <1>4, <1>5, <1>6, <1>8

-----------------------------------------------------------------------------
(***************************************************************************)
(* What a step of a handler commits is what it then has to tell.           *)
(***************************************************************************)

\* What has happened, from the tables behind it.
Telling(placed, expired, paid, contributed, closed) ==
    UNION {About(OfAnOrder, placed),
           About({"order.expired"}, expired),
           About({"payment confirmation"}, paid),
           About({"contribution.added"}, contributed),
           About({"pool.closed"}, closed)}

\* CommittedByTable in this state and in the next.
LEMMA CommittedNext ==
    /\ Committed = Telling(Placed, released, PaidFor, contributions, ClosedPools)
    /\ Committed' = Telling(Placed', released', PaidFor', contributions', ClosedPools')
  <1>1. Committed = Telling(Placed, released, PaidFor, contributions, ClosedPools)
    BY CommittedByTable DEF Telling
  <1>2. (Committed = Telling(Placed, released, PaidFor, contributions, ClosedPools))'
    BY <1>1, PTL
  <1>3. QED
    BY <1>1, <1>2 DEF Telling, About

\* One more row is one more thing to tell of, and it is news.
LEMMA OnePlaced ==
    ASSUME NEW P, NEW E, NEW M, NEW C, NEW Z, NEW x, x \notin P
    PROVE  /\ Telling(P \cup {x}, E, M, C, Z) = Telling(P, E, M, C, Z) \cup About(OfAnOrder, {x})
           /\ About(OfAnOrder, {x}) \cap Telling(P, E, M, C, Z) = {}
  <1>1. Telling(P \cup {x}, E, M, C, Z) = Telling(P, E, M, C, Z) \cup About(OfAnOrder, {x})
    BY DEF Telling, About
  <1>2. \A n \in Telling(P, E, M, C, Z) : n.what \in OfAnOrder => n.about \in P
    BY DEF Telling, About, OfAnOrder
  <1>3. QED
    BY <1>1, <1>2 DEF About

\* A sweep releases one order.
LEMMA OneExpired ==
    ASSUME NEW P, NEW E, NEW M, NEW C, NEW Z, NEW x, x \notin E
    PROVE  /\ Telling(P, E \cup {x}, M, C, Z) = Telling(P, E, M, C, Z) \cup About({"order.expired"}, {x})
           /\ About({"order.expired"}, {x}) \cap Telling(P, E, M, C, Z) = {}
  <1>1. Telling(P, E \cup {x}, M, C, Z) = Telling(P, E, M, C, Z) \cup About({"order.expired"}, {x})
    BY DEF Telling, About
  <1>2. \A n \in Telling(P, E, M, C, Z) : n.what \in {"order.expired"} => n.about \in E
    BY DEF Telling, About, OfAnOrder
  <1>3. QED
    BY <1>1, <1>2 DEF About

\* A webhook records one payment.
LEMMA OnePaid ==
    ASSUME NEW P, NEW E, NEW M, NEW C, NEW Z, NEW x, x \notin M
    PROVE  /\ Telling(P, E, M \cup {x}, C, Z) = Telling(P, E, M, C, Z) \cup About({"payment confirmation"}, {x})
           /\ About({"payment confirmation"}, {x}) \cap Telling(P, E, M, C, Z) = {}
  <1>1. Telling(P, E, M \cup {x}, C, Z) = Telling(P, E, M, C, Z) \cup About({"payment confirmation"}, {x})
    BY DEF Telling, About
  <1>2. \A n \in Telling(P, E, M, C, Z) : n.what \in {"payment confirmation"} => n.about \in M
    BY DEF Telling, About, OfAnOrder
  <1>3. QED
    BY <1>1, <1>2 DEF About

\* A farmer adds one contribution.
LEMMA OneContributed ==
    ASSUME NEW P, NEW E, NEW M, NEW C, NEW Z, NEW x, x \notin C
    PROVE  /\ Telling(P, E, M, C \cup {x}, Z) = Telling(P, E, M, C, Z) \cup About({"contribution.added"}, {x})
           /\ About({"contribution.added"}, {x}) \cap Telling(P, E, M, C, Z) = {}
  <1>1. Telling(P, E, M, C \cup {x}, Z) = Telling(P, E, M, C, Z) \cup About({"contribution.added"}, {x})
    BY DEF Telling, About
  <1>2. \A n \in Telling(P, E, M, C, Z) : n.what \in {"contribution.added"} => n.about \in C
    BY DEF Telling, About, OfAnOrder
  <1>3. QED
    BY <1>1, <1>2 DEF About

\* A closing closes one pool.
LEMMA OneClosed ==
    ASSUME NEW P, NEW E, NEW M, NEW C, NEW Z, NEW x, x \notin Z
    PROVE  /\ Telling(P, E, M, C, Z \cup {x}) = Telling(P, E, M, C, Z) \cup About({"pool.closed"}, {x})
           /\ About({"pool.closed"}, {x}) \cap Telling(P, E, M, C, Z) = {}
  <1>1. Telling(P, E, M, C, Z \cup {x}) = Telling(P, E, M, C, Z) \cup About({"pool.closed"}, {x})
    BY DEF Telling, About
  <1>2. \A n \in Telling(P, E, M, C, Z) : n.what \in {"pool.closed"} => n.about \in Z
    BY DEF Telling, About, OfAnOrder
  <1>3. QED
    BY <1>1, <1>2 DEF About

-----------------------------------------------------------------------------

\* An order whose stock was given back is settled.
GivenBack == \A o \in released : orders[o] \notin {"absent", "pending"}

\* What the commits rest on, all of it also true after a failure that follows one.
CommitInv == TypeInv /\ LockInv /\ OrderInv /\ NotYetContributed /\ GivenBack

\* A pool's lock holder writes a row made from the one in the table.
LEMMA RowInHand ==
    ASSUME CommitInv, NEW x \in Processes, pc[x] \in UnderPoolLock
    PROVE  PoolOf(x) \in Pools /\ row[x] = pools[PoolOf(x)]
  BY PoolOfTypes DEF CommitInv, LockInv, LockedRowIsFresh

\* The same for a session, whose pool its request names.
LEMMA SessionsRow ==
    ASSUME CommitInv, NEW s \in Sessions, pc[s] \in UnderPoolLock
    PROVE  Request[s].pool \in Pools /\ row[s] = pools[Request[s].pool]
  BY RowInHand, NamesAssumption DEF PoolOf, Processes

\* A commit and the list it leaves behind: each news exactly once.
TellsAll(news) ==
    /\ WellFormed(news)
    /\ Committed' = Committed \cup NoticesIn(news)
    /\ NoticesIn(news) \cap Committed = {}

\* The news of an order's commit is its list.
LEMMA OrderIsTold ==
    ASSUME CommitInv, NEW s \in Sessions, CommitOrder(s)
    PROVE  TellsAll(AfterOrder(s)) /\ pc'[s] = "done"
  <1> USE DEF CommitInv, TypeInv, TypeOK
  <1>1. s \in Orders /\ orders[s] = "absent"
    BY RequestTypes DEF CommitOrder, OrderInv, NotYetPlaced
  <1>2. Request[s].pool \in Pools /\ row[s] = pools[Request[s].pool]
    BY SessionsRow DEF CommitOrder, UnderPoolLock
  <1>3. Sold(row[s], Request[s].qty).status = pools[Request[s].pool].status
    BY <1>2 DEF Sold, PoolRow
  <1>4. ClosedPools' = ClosedPools
    BY <1>2, <1>3 DEF CommitOrder, ClosedPools
  <1>5. Placed' = Placed \cup {s}
    BY <1>1 DEF CommitOrder, Placed
  <1>6. UNCHANGED <<released, PaidFor, contributions>>
    BY DEF CommitOrder, PaidFor, PaymentsOf, Reference
  <1>7. s \notin Placed
    BY <1>1 DEF Placed
  <1>8. Committed' = Committed \cup About(OfAnOrder, {s}) /\ About(OfAnOrder, {s}) \cap Committed = {}
    <2>1. Committed' = Telling(Placed \cup {s}, released, PaidFor, contributions, ClosedPools)
      BY <1>4, <1>5, <1>6, CommittedNext
    <2>2. /\ Telling(Placed \cup {s}, released, PaidFor, contributions, ClosedPools)
                 = Telling(Placed, released, PaidFor, contributions, ClosedPools) \cup About(OfAnOrder, {s})
          /\ About(OfAnOrder, {s}) \cap Telling(Placed, released, PaidFor, contributions, ClosedPools) = {}
      BY <1>7, OnePlaced
    <2>3. QED
      BY <2>1, <2>2, CommittedNext
  <1>9. QED
    BY <1>1, <1>8, OrderList DEF TellsAll, CommitOrder

\* Of a contribution's.
LEMMA ContributionIsTold ==
    ASSUME CommitInv, NEW s \in Sessions, CommitContribution(s), QuantityFits(s)
    PROVE  TellsAll(AfterContribution(s)) /\ pc'[s] = "done"
  <1> USE DEF CommitInv, TypeInv, TypeOK
  <1>1. s \in Contributions /\ s \notin contributions
    BY RequestTypes DEF CommitContribution, NotYetContributed
  <1>2. Request[s].pool \in Pools /\ row[s] = pools[Request[s].pool]
    BY SessionsRow DEF CommitContribution, UnderPoolLock
  <1>3. Stocked(row[s], Request[s].qty).status = pools[Request[s].pool].status
    BY <1>2 DEF Stocked
  <1>4. ClosedPools' = ClosedPools
    BY <1>2, <1>3 DEF CommitContribution, ClosedPools
  <1>5. contributions' = contributions \cup {s}
    BY DEF CommitContribution
  <1>6. Placed' = Placed /\ released' = released /\ PaidFor' = PaidFor
    BY DEF CommitContribution, Placed, PaidFor, PaymentsOf, Reference
  <1>7. /\ Committed' = Committed \cup About({"contribution.added"}, {s})
        /\ About({"contribution.added"}, {s}) \cap Committed = {}
    <2>1. Committed' = Telling(Placed, released, PaidFor, contributions \cup {s}, ClosedPools)
      BY <1>4, <1>5, <1>6, CommittedNext
    <2>2. /\ Telling(Placed, released, PaidFor, contributions \cup {s}, ClosedPools)
                 = Telling(Placed, released, PaidFor, contributions, ClosedPools)
                       \cup About({"contribution.added"}, {s})
          /\ About({"contribution.added"}, {s})
                 \cap Telling(Placed, released, PaidFor, contributions, ClosedPools) = {}
      BY <1>1, OneContributed
    <2>3. QED
      BY <2>1, <2>2, CommittedNext
  <1>8. QED
    BY <1>1, <1>7, ContributionList DEF TellsAll, CommitContribution

\* Of a closing's.
LEMMA ClosingIsTold ==
    ASSUME CommitInv, NEW s \in Sessions, CommitClose(s)
    PROVE  TellsAll(AfterClose(s)) /\ pc'[s] = "done"
  <1> DEFINE p == Request[s].pool
  <1> USE DEF CommitInv, TypeInv, TypeOK
  <1>1. p \in Pools /\ row[s] = pools[p]
    BY SessionsRow DEF CommitClose, UnderPoolLock
  <1>2. p \notin ClosedPools
    BY <1>1 DEF CommitClose, LockInv, StatusChecked, ClosedPools
  <1>3. Closed(row[s]).status = "closed"
    BY <1>1 DEF Closed, PoolRow
  <1>4. ClosedPools' = ClosedPools \cup {p}
    BY <1>1, <1>3 DEF CommitClose, ClosedPools
  <1>5. Placed' = Placed /\ released' = released /\ PaidFor' = PaidFor /\ contributions' = contributions
    BY DEF CommitClose, Placed, PaidFor, PaymentsOf, Reference
  <1>6. /\ Committed' = Committed \cup About({"pool.closed"}, {p})
        /\ About({"pool.closed"}, {p}) \cap Committed = {}
    <2>1. Committed' = Telling(Placed, released, PaidFor, contributions, ClosedPools \cup {p})
      BY <1>4, <1>5, CommittedNext
    <2>2. /\ Telling(Placed, released, PaidFor, contributions, ClosedPools \cup {p})
                 = Telling(Placed, released, PaidFor, contributions, ClosedPools)
                       \cup About({"pool.closed"}, {p})
          /\ About({"pool.closed"}, {p})
                 \cap Telling(Placed, released, PaidFor, contributions, ClosedPools) = {}
      BY <1>2, OneClosed
    <2>3. QED
      BY <2>1, <2>2, CommittedNext
  <1>7. QED
    BY <1>1, <1>6, ClosingList DEF TellsAll, CommitClose

\* Of a payment's.
LEMMA PaymentIsTold ==
    ASSUME CommitInv, NEW s \in Sessions, CommitPayment(s), PaymentsOf(Reference(s)) = {},
           Request[s].amount <= MaxTotal
    PROVE  TellsAll(AfterPayment(s)) /\ pc'[s] = "done"
  <1> DEFINE o == Reference(s)
  <1> USE DEF CommitInv, TypeInv, TypeOK
  <1>1. o \in Orders
    BY RequestTypes DEF CommitPayment
  <1>2. orders[o] # "absent"
    BY DEF CommitPayment, OrderInv, OrderLockHeld
  <1>3. orders' = [orders EXCEPT ![o] = "paid"] /\ payments' = payments \cup {s}
    BY DEF CommitPayment
  <1>4. Placed' = Placed
    BY <1>1, <1>2, <1>3 DEF Placed
  <1>5. PaidFor' = PaidFor \cup {o}
    BY <1>1, <1>3 DEF PaidFor, PaymentsOf, Reference
  <1>6. o \notin PaidFor
    BY DEF PaidFor
  <1>7. UNCHANGED <<released, contributions, ClosedPools>>
    BY DEF CommitPayment, ClosedPools
  <1>8. /\ Committed' = Committed \cup About({"payment confirmation"}, {o})
        /\ About({"payment confirmation"}, {o}) \cap Committed = {}
    <2>1. Committed' = Telling(Placed, released, PaidFor \cup {o}, contributions, ClosedPools)
      BY <1>4, <1>5, <1>7, CommittedNext
    <2>2. /\ Telling(Placed, released, PaidFor \cup {o}, contributions, ClosedPools)
                 = Telling(Placed, released, PaidFor, contributions, ClosedPools)
                       \cup About({"payment confirmation"}, {o})
          /\ About({"payment confirmation"}, {o})
                 \cap Telling(Placed, released, PaidFor, contributions, ClosedPools) = {}
      BY <1>6, OnePaid
    <2>3. QED
      BY <2>1, <2>2, CommittedNext
  <1>9. QED
    BY <1>1, <1>8, PaymentList DEF TellsAll, CommitPayment

\* Of a release's.
LEMMA ExpiryIsTold ==
    ASSUME CommitInv, NEW w \in Sweepers, CommitExpired(w)
    PROVE  TellsAll(AfterExpiry(w)) /\ pc'[w] = "sweep_next"
  <1> DEFINE o == current[w]
             p == Request[o].pool
  <1> USE DEF CommitInv, TypeInv, TypeOK
  <1>1. o \in Orders /\ p \in Pools /\ row[w] = pools[p]
    BY RowInHand, RequestTypes DEF CommitExpired, UnderPoolLock, PoolOf, LabelsFit, Expiring
  <1>2. orders[o] = "pending"
    BY DEF CommitExpired, OrderInv, OrderLockHeld
  <1>3. o \notin released
    BY <1>2 DEF GivenBack
  <1>4. Released(row[w], Request[o].qty).status = pools[p].status
    BY <1>1, SMTT(30) DEF Released, PoolRow
  <1>5. ClosedPools' = ClosedPools
    BY <1>1, <1>4 DEF CommitExpired, ClosedPools
  <1>6. Placed' = Placed
    BY <1>1, <1>2 DEF CommitExpired, Placed
  <1>7. released' = released \cup {o} /\ PaidFor' = PaidFor /\ contributions' = contributions
    BY DEF CommitExpired, PaidFor, PaymentsOf, Reference
  <1>8. /\ Committed' = Committed \cup About({"order.expired"}, {o})
        /\ About({"order.expired"}, {o}) \cap Committed = {}
    <2>1. Committed' = Telling(Placed, released \cup {o}, PaidFor, contributions, ClosedPools)
      BY <1>5, <1>6, <1>7, CommittedNext
    <2>2. /\ Telling(Placed, released \cup {o}, PaidFor, contributions, ClosedPools)
                 = Telling(Placed, released, PaidFor, contributions, ClosedPools)
                       \cup About({"order.expired"}, {o})
          /\ About({"order.expired"}, {o})
                 \cap Telling(Placed, released, PaidFor, contributions, ClosedPools) = {}
      BY <1>3, OneExpired
    <2>3. QED
      BY <2>1, <2>2, CommittedNext
  <1>9. QED
    BY <1>1, <1>8, ExpiryList DEF TellsAll, CommitExpired

\* Steps that commit nothing anybody is told of.
LEMMA NothingNew ==
    ASSUME UNCHANGED <<contributions, orders, payments, released>>, ClosedPools' = ClosedPools
    PROVE  Committed' = Committed /\ TellsAll(<<>>)
  <1>1. Placed' = Placed /\ PaidFor' = PaidFor /\ released' = released /\ contributions' = contributions
    BY DEF Placed, PaidFor, PaymentsOf, Reference
  <1>2. Committed' = Committed
    BY <1>1, CommittedNext
  <1>3. QED
    BY <1>2, NoneToSend DEF TellsAll

\* The last statement of a handler, and what it leaves to send.
LEMMA SessionTells ==
    ASSUME CommitInv, NEW s \in Sessions, SessionStep(s)
    PROVE  TellsAll(Following(s)) /\ (Following(s) # <<>> => pc'[s] = "done")
  <1> DEFINE Telling4 == {"order_commit", "contribution_commit", "close_commit", "payment_commit"}
  <1> USE DEF CommitInv, TypeInv, TypeOK
  <1>1. CASE CommitOrder(s)
    <2>1. Following(s) = AfterOrder(s)
      BY <1>1 DEF CommitOrder, Following
    <2>2. QED
      BY <1>1, <2>1, OrderIsTold
  <1>2. CASE CommitClose(s)
    <2>1. Following(s) = AfterClose(s)
      BY <1>2 DEF CommitClose, Following
    <2>2. QED
      BY <1>2, <2>1, ClosingIsTold
  <1>3. CASE CommitContribution(s)
    <2>1. CASE QuantityFits(s)
      <3>1. answer'[s] = "ok"
        BY <1>3, <2>1 DEF CommitContribution
      <3>2. Following(s) = AfterContribution(s)
        BY <1>3, <3>1 DEF CommitContribution, Following
      <3>3. QED
        BY <1>3, <2>1, <3>2, ContributionIsTold
    <2>2. CASE ~QuantityFits(s)
      <3>1. answer'[s] = "error"
        BY <1>3, <2>2 DEF CommitContribution
      <3>2. Following(s) = <<>>
        BY <1>3, <3>1 DEF CommitContribution, Following
      <3>3. UNCHANGED <<contributions, orders, payments, released>> /\ ClosedPools' = ClosedPools
        BY <1>3, <2>2 DEF CommitContribution, ClosedPools
      <3>4. QED
        BY <3>2, <3>3, NothingNew
    <2>3. QED
      BY <2>1, <2>2
  <1>4. CASE CommitPayment(s)
    <2>1. CASE PaymentsOf(Reference(s)) = {} /\ Request[s].amount <= MaxTotal
      <3>1. answer'[s] = "ok"
        BY <1>4, <2>1 DEF CommitPayment
      <3>2. Following(s) = AfterPayment(s)
        BY <1>4, <3>1 DEF CommitPayment, Following
      <3>3. QED
        BY <1>4, <2>1, <3>2, PaymentIsTold
    <2>2. CASE ~(PaymentsOf(Reference(s)) = {} /\ Request[s].amount <= MaxTotal)
      <3>1. answer'[s] = "error"
        BY <1>4, <2>2 DEF CommitPayment
      <3>2. Following(s) = <<>>
        BY <1>4, <3>1 DEF CommitPayment, Following
      <3>3. UNCHANGED <<contributions, orders, payments, released>> /\ ClosedPools' = ClosedPools
        BY <1>4, <2>2, SMTT(30) DEF CommitPayment, ClosedPools
      <3>4. QED
        BY <3>2, <3>3, NothingNew
    <2>3. QED
      BY <2>1, <2>2
  <1>5. CASE ~(CommitOrder(s) \/ CommitClose(s) \/ CommitContribution(s) \/ CommitPayment(s))
    <2>1. pc[s] \notin Telling4
      BY <1>5
      DEF SessionStep, PoolStep, ContributionStep, OrderStep, PaymentStep, PayoutStep, CreatePool,
          LockForClose, LockForContribution, FindByKey, LockForOrder, FlushOrder, RereadByKey,
          InitializePayment, OpenTransaction, RecordEvent, CommitEvent, LockPaidOrder, LockForPayout,
          ComputeShares, CommitPayouts
    <2>2. Following(s) = <<>>
      BY <2>1, SMTT(30) DEF Following
    <2>3. UNCHANGED <<contributions, orders, payments, released>>
      BY <1>5
      DEF SessionStep, PoolStep, ContributionStep, OrderStep, PaymentStep, PayoutStep, CreatePool,
          LockForClose, LockForContribution, FindByKey, LockForOrder, FlushOrder, RereadByKey,
          InitializePayment, OpenTransaction, RecordEvent, CommitEvent, LockPaidOrder, LockForPayout,
          ComputeShares, CommitPayouts
    <2>4. CASE CreatePool(s)
      <3>1. Request[s].pool \in Pools
        BY <2>4, RequestsAssumption DEF CreatePool
      <3>2. ClosedPools' = ClosedPools
        BY <2>4, <3>1, SMTT(30) DEF CreatePool, ClosedPools, PoolRow
      <3>3. QED
        BY <2>2, <2>3, <3>2, NothingNew
    <2>5. CASE ~CreatePool(s)
      <3>1. pools' = pools
        BY <1>5, <2>5
        DEF SessionStep, PoolStep, ContributionStep, OrderStep, PaymentStep, PayoutStep,
            LockForClose, LockForContribution, FindByKey, LockForOrder, FlushOrder, RereadByKey,
            InitializePayment, OpenTransaction, RecordEvent, CommitEvent, LockPaidOrder, LockForPayout,
            ComputeShares, CommitPayouts
      <3>2. ClosedPools' = ClosedPools
        BY <3>1 DEF ClosedPools
      <3>3. QED
        BY <2>2, <2>3, <3>2, NothingNew
    <2>6. QED
      BY <2>4, <2>5
  <1>6. QED
    BY <1>1, <1>2, <1>3, <1>4, <1>5

\* The same for a sweep: its release of an order is its only commit.
LEMMA SweepTells ==
    ASSUME CommitInv, NEW w \in Sweepers, SweepStep(w)
    PROVE  /\ pc[w] = "expire_commit" => TellsAll(AfterExpiry(w)) /\ pc'[w] = "sweep_next"
           /\ pc[w] # "expire_commit" => TellsAll(<<>>)
  <1>1. CASE CommitExpired(w)
    BY <1>1, ExpiryIsTold DEF CommitExpired
  <1>2. CASE ~CommitExpired(w)
    <2>1. pc[w] # "expire_commit"
      BY <1>2 DEF SweepStep, FindExpired, NextCandidate, LockExpired, LockExpiredPool
    <2>2. UNCHANGED <<contributions, orders, payments, released>> /\ pools' = pools
      BY <1>2 DEF SweepStep, FindExpired, NextCandidate, LockExpired, LockExpiredPool
    <2>3. ClosedPools' = ClosedPools
      BY <2>2 DEF ClosedPools
    <2>4. QED
      BY <2>1, <2>2, <2>3, NothingNew
  <1>3. QED
    BY <1>1, <1>2

-----------------------------------------------------------------------------
(***************************************************************************)
(* What the commits rest on survives every step, failures included.        *)
(***************************************************************************)

\* Nothing touches a settled order but a late payment, and that settles it too.
LEMMA GivenBackStep ==
    ASSUME CommitInv, Next
    PROVE  GivenBack'
  <1> USE DEF CommitInv, TypeInv, TypeOK
  <1>1. ASSUME NEW s \in Sessions, CommitOrder(s) PROVE GivenBack'
    <2>1. s \in Orders /\ orders[s] = "absent"
      BY <1>1, RequestTypes DEF CommitOrder, OrderInv, NotYetPlaced
    <2>2. s \notin released
      BY <2>1 DEF GivenBack
    <2>3. released' = released /\ orders' = [orders EXCEPT ![s] = "pending"]
      BY <1>1 DEF CommitOrder
    <2>4. QED
      BY <2>1, <2>2, <2>3 DEF GivenBack
  <1>2. ASSUME NEW s \in Sessions, CommitPayment(s) PROVE GivenBack'
    <2>1. Reference(s) \in Orders
      BY <1>2, RequestTypes DEF CommitPayment
    <2>2. QED
      BY <1>2, <2>1 DEF CommitPayment, GivenBack
  <1>3. ASSUME NEW w \in Sweepers, CommitExpired(w) PROVE GivenBack'
    <2>1. current[w] \in Orders
      BY <1>3 DEF CommitExpired, LabelsFit, Expiring
    <2>2. QED
      BY <1>3, <2>1 DEF CommitExpired, GivenBack
  <1>4. ASSUME UNCHANGED <<orders, released>> PROVE GivenBack'
    BY <1>4, SMTT(30) DEF GivenBack
  <1>5. ASSUME NEW s \in Sessions, SessionStep(s) \/ Abort(s), ~CommitOrder(s), ~CommitPayment(s)
        PROVE  UNCHANGED <<orders, released>>
    BY <1>5
    DEF SessionStep, PoolStep, ContributionStep, OrderStep, PaymentStep, PayoutStep, CreatePool,
        LockForClose, CommitClose, LockForContribution, CommitContribution, FindByKey, LockForOrder,
        FlushOrder, RereadByKey, InitializePayment, OpenTransaction, RecordEvent, CommitEvent,
        LockPaidOrder, LockForPayout, ComputeShares, CommitPayouts, Abort
  <1>6. ASSUME NEW w \in Sweepers, SweepStep(w) \/ AbortSweep(w), ~CommitExpired(w)
        PROVE  UNCHANGED <<orders, released>>
    BY <1>6 DEF SweepStep, FindExpired, NextCandidate, LockExpired, LockExpiredPool, AbortSweep
  <1>7. ASSUME Quiet \/ \E o \in Orders : Age(o) PROVE UNCHANGED <<orders, released>>
    BY <1>7 DEF Quiet, Age, vars
  <1>8. QED
    BY <1>1, <1>2, <1>3, <1>4, <1>5, <1>6, <1>7 DEF Next

\* The invariant of the commits through every step of the tables.
LEMMA CommitInvStep ==
    ASSUME CommitInv, [Next]_vars
    PROVE  CommitInv'
  <1>1. CASE Next
    BY <1>1, TypeInvStep, LockInvStep, OrderInvStep, NotYetContributedStep, GivenBackStep DEF CommitInv
  <1>2. CASE UNCHANGED vars
    <2>1. NotYetContributed' /\ GivenBack'
      BY <1>2 DEF vars, CommitInv, NotYetContributed, GivenBack
    <2>2. QED
      BY <1>2, <2>1, TypeInvStep, LockInvStep, OrderInvStep DEF CommitInv
  <1>3. QED
    BY <1>1, <1>2

\* It holds at first.
LEMMA CommitInvInit == ASSUME Init PROVE CommitInv
  BY TypeInvInit, LockInvInit, OrderInvInit DEF CommitInv, Init, NotYetContributed, GivenBack

\* A failure after a commit changes an answer, or ends a sweep's run; no table,
\* no lock and nobody's position in a transaction.
LEMMA CommitInvKept ==
    ASSUME CommitInv,
           UNCHANGED <<tables, locks, row, outside>>,
           \/ /\ UNCHANGED <<pc, sweep>>
              /\ answer' \in [Sessions -> Outcomes \cup Orders]
           \/ \E w \in Sweepers :
                 /\ pc[w] = "sweep_next"
                 /\ pc' = [pc EXCEPT ![w] = "idle"]
                 /\ batch' = [batch EXCEPT ![w] = {}]
                 /\ current' = [current EXCEPT ![w] = NoOrder]
                 /\ answer' = answer
    PROVE  CommitInv'
  <1> USE NamesAssumption DEF CommitInv, TypeInv
  <1>1. TypeOK'
    BY DEF TypeOK, Labels
  <1>2. /\ \A s \in Sessions : pc'[s] = pc[s]
        /\ \A w \in Sweepers : \/ pc'[w] = pc[w] /\ current'[w] = current[w]
                               \/ pc[w] = "sweep_next" /\ pc'[w] = "idle"
    BY DEF TypeOK
  <1>3. LabelsFit'
    BY <1>2 DEF LabelsFit, Expiring, ActedOn, Reference
  <1>4. StockReserved'
    BY <1>2 DEF StockReserved, Sellable, Orders, Carrying
  <1>5. LockedRowIsFresh'
    <2>1. ASSUME NEW x \in Processes, pc'[x] \in UnderPoolLock
          PROVE  pc[x] \in UnderPoolLock /\ PoolOf(x)' = PoolOf(x)
      <3>1. pc'[x] = pc[x] /\ (x \in Sweepers => current'[x] = current[x])
        BY <1>2, <2>1 DEF UnderPoolLock
      <3>2. QED
        BY <2>1, <3>1 DEF UnderPoolLock, PoolOf
    <2>2. QED
      BY <2>1, LockIdle DEF LockInv
  <1>6. StatusChecked'
    BY <1>2 DEF LockInv, StatusChecked
  <1>7. RowsExist'
    BY <1>2 DEF LockInv, RowsExist, Placed, Reference
  <1>8. OrderInv'
    BY <1>2 DEF OrderInv, OrderLockHeld, NotYetPlaced, Reference, Orders, Carrying
  <1>9. NotYetContributed'
    BY <1>2 DEF NotYetContributed, TypeOK, Contributions, Carrying
  <1>10. GivenBack'
    BY DEF GivenBack
  <1>11. QED
    BY <1>1, <1>3, <1>4, <1>5, <1>6, <1>7, <1>8, <1>9, <1>10 DEF LockInv

-----------------------------------------------------------------------------
(***************************************************************************)
(* Every notice is in one place at a time: a list, the queue, or told.     *)
(***************************************************************************)

ListsFit ==
    /\ todo = [x \in Processes |-> todo[x]]
    /\ \A x \in Processes : WellFormed(todo[x])

CountersFit == queued \in [Jobs -> Nat] /\ told \in [AllNotices -> Nat]

\* A list remains only where a commit left it: nothing else of that process
\* comes in between.
ListsFollowCommits ==
    /\ \A s \in Sessions : todo[s] # <<>> => pc[s] = "done"
    /\ \A w \in Sweepers : todo[w] # <<>> => pc[w] = "sweep_next"

InLists(n) == \E x \in Processes : n \in NoticesIn(todo[x])

OnePlace ==
    /\ \A x, y \in Processes : x # y => NoticesIn(todo[x]) \cap NoticesIn(todo[y]) = {}
    /\ \A n \in AllNotices : InLists(n) => told[n] = 0 /\ (n \in Jobs => queued[n] = 0)
    /\ \A n \in Jobs : queued[n] > 0 => queued[n] = 1 /\ told[n] = 0
    /\ \A n \in AllNotices : told[n] <= 1

Grounded ==
    /\ \A n \in AllNotices : InLists(n) \/ told[n] > 0 => n \in Committed
    /\ \A n \in Jobs : queued[n] > 0 => n \in Committed

NoticeInv ==
    /\ CommitInv
    /\ ListsFit
    /\ CountersFit
    /\ ListsFollowCommits
    /\ OnePlace
    /\ Grounded

\* What is owed, notice by notice.
LEMMA OwedIs ==
    ASSUME ListsFit
    PROVE  Owed \subseteq AllNotices /\ \A n \in AllNotices : n \in Owed <=> InLists(n) \/ (n \in Jobs /\ queued[n] > 0)
  <1>1. Jobs \subseteq AllNotices
    BY DEF AllNotices
  <1>2. \A x \in Processes : NoticesIn(todo[x]) \subseteq AllNotices
    BY DEF ListsFit, WellFormed
  <1>3. QED
    BY <1>1, <1>2 DEF Owed, InLists

\* At first nothing is owed and nothing told.
LEMMA NoticeInvInit == ASSUME NotifyInit PROVE NoticeInv /\ Owed = {} /\ ToldOnce = {} /\ Committed = {}
  <1> USE DEF NotifyInit
  <1>1. CommitInv
    BY CommitInvInit
  <1>2. ListsFit
    BY NoneToSend DEF ListsFit
  <1>3. CountersFit
    BY DEF CountersFit
  <1>4. \A n \in AllNotices : ~InLists(n)
    BY NoneToSend DEF InLists
  <1>5. \A n \in AllNotices : told[n] = 0
    OBVIOUS
  <1>6. \A n \in Jobs : queued[n] = 0
    OBVIOUS
  <1>7. OnePlace /\ Grounded
    BY <1>4, <1>5, <1>6, NoneToSend DEF OnePlace, Grounded
  <1>8. ListsFollowCommits
    BY DEF ListsFollowCommits
  <1>9. Owed = {}
    BY <1>2, <1>4, <1>6, OwedIs
  <1>10. ToldOnce = {}
    BY <1>5 DEF ToldOnce
  <1>11. Placed = {} /\ PaidFor = {} /\ released = {} /\ contributions = {} /\ ClosedPools = {}
    BY DEF Init, Placed, PaidFor, PaymentsOf, ClosedPools, NoRow
  <1>12. Committed = {}
    BY <1>11, CommittedNext DEF Telling, About
  <1>13. QED
    BY <1>1, <1>2, <1>3, <1>7, <1>8, <1>9, <1>10, <1>12 DEF NoticeInv

-----------------------------------------------------------------------------
(***************************************************************************)
(* The steps that move a notice from one place to the next.                *)
(***************************************************************************)

\* One list replaced, the others as they were.
LEMMA OneListChanged ==
    ASSUME ListsFit, NEW x \in Processes, NEW q, WellFormed(q), todo' = [todo EXCEPT ![x] = q]
    PROVE  /\ ListsFit'
           /\ todo'[x] = q
           /\ \A y \in Processes : y # x => todo'[y] = todo[y]
           /\ \A n : InLists(n)' <=> \/ n \in NoticesIn(q)
                                     \/ \E y \in Processes \ {x} : n \in NoticesIn(todo[y])
  <1>1. todo'[x] = q /\ \A y \in Processes : y # x => todo'[y] = todo[y]
    BY DEF ListsFit
  <1>2. todo' = [y \in Processes |-> todo'[y]]
    BY DEF ListsFit
  <1>3. \A y \in Processes : WellFormed(todo'[y])
    BY <1>1 DEF ListsFit
  <1>4. ListsFit'
    BY <1>2, <1>3 DEF ListsFit, WellFormed, IsSeq, NoRepeats, NoticesIn
  <1>5. \A n : InLists(n)' <=> \E y \in Processes : n \in NoticesIn(todo'[y])
    BY DEF InLists, NoticesIn
  <1>6. QED
    BY <1>1, <1>4, <1>5

\* The owed notices of the next state.
LEMMA OwedNext ==
    ASSUME ListsFit'
    PROVE  /\ Owed' \subseteq AllNotices
           /\ \A n \in AllNotices : n \in Owed' <=> InLists(n)' \/ (n \in Jobs /\ queued'[n] > 0)
  <1>1. Jobs \subseteq AllNotices
    BY DEF AllNotices
  <1>2. \A x \in Processes : \A i \in DOMAIN todo'[x] : todo'[x][i].notice \in AllNotices
    BY DEF ListsFit, WellFormed, NoticesIn, AllNotices, Jobs
  <1>3. QED
    BY <1>1, <1>2 DEF Owed, InLists, NoticesIn, Jobs, AllNotices

\* What a move of notices keeps, apart from the tables.
Moved == ListsFit /\ CountersFit /\ OnePlace /\ Grounded

\* A commit: its news was nowhere before and is on one list after.
LEMMA CommitMoves ==
    ASSUME NoticeInv, NEW x \in Processes, NEW news, TellsAll(news), todo[x] = <<>>,
           todo' = [todo EXCEPT ![x] = news], UNCHANGED <<queued, told, losses>>
    PROVE  Moved' /\ Promised!Happen
  <1> DEFINE N == NoticesIn(news)
  <1>1. WellFormed(news) /\ Committed' = Committed \cup N /\ N \cap Committed = {} /\ N \subseteq AllNotices
    BY DEF TellsAll, WellFormed
  <1>2. /\ ListsFit'
        /\ todo'[x] = news
        /\ \A y \in Processes : y # x => todo'[y] = todo[y]
        /\ \A n : InLists(n)' <=> n \in N \/ \E y \in Processes \ {x} : n \in NoticesIn(todo[y])
    BY <1>1, OneListChanged DEF NoticeInv
  <1>3. NoticesIn(todo[x]) = {}
    BY NoneToSend
  <1>4. \A n : InLists(n)' <=> n \in N \/ InLists(n)
    BY <1>2, <1>3 DEF InLists
  <1>5. \A n \in N : ~InLists(n) /\ told[n] = 0 /\ (n \in Jobs => queued[n] = 0)
    <2>1. \A n \in N : n \in AllNotices /\ n \notin Committed
      BY <1>1
    <2>2. \A n \in AllNotices : told[n] \in Nat
      BY DEF NoticeInv, CountersFit
    <2>3. \A n \in Jobs : queued[n] \in Nat
      BY DEF NoticeInv, CountersFit
    <2>4. QED
      BY <2>1, <2>2, <2>3 DEF NoticeInv, Grounded
  <1>6. CountersFit'
    BY DEF NoticeInv, CountersFit, Jobs, AllNotices
  <1>7. OnePlace'
    <2>1. ASSUME NEW y \in Processes, NEW z \in Processes, y # z
          PROVE  NoticesIn(todo'[y]) \cap NoticesIn(todo'[z]) = {}
      <3>1. CASE y # x /\ z # x
        BY <1>2, <2>1, <3>1 DEF NoticeInv, OnePlace
      <3>2. CASE y = x
        BY <1>2, <1>5, <2>1, <3>2 DEF InLists
      <3>3. CASE z = x
        BY <1>2, <1>5, <2>1, <3>3 DEF InLists
      <3>4. QED
        BY <3>1, <3>2, <3>3
    <2>2. \A n \in AllNotices : InLists(n)' => told'[n] = 0 /\ (n \in Jobs => queued'[n] = 0)
      BY <1>4, <1>5 DEF NoticeInv, OnePlace
    <2>3. QED
      BY <2>1, <2>2 DEF NoticeInv, OnePlace, NoticesIn, AllNotices, Jobs
  <1>8. Grounded'
    BY <1>1, <1>4 DEF NoticeInv, Grounded, AllNotices, Jobs
  <1>9. Owed' = Owed \cup (Committed' \ Committed)
    <2>1. Owed' \subseteq AllNotices
          /\ \A n \in AllNotices : n \in Owed' <=> InLists(n)' \/ (n \in Jobs /\ queued'[n] > 0)
      BY <1>2, OwedNext
    <2>2. Owed \subseteq AllNotices
          /\ \A n \in AllNotices : n \in Owed <=> InLists(n) \/ (n \in Jobs /\ queued[n] > 0)
      BY OwedIs DEF NoticeInv
    <2>3. Committed' \ Committed = N
      BY <1>1
    <2>4. QED
      BY <1>1, <1>4, <2>1, <2>2, <2>3
  <1>10. ToldOnce' = ToldOnce
    BY DEF ToldOnce, AllNotices, Jobs
  <1>11. Committed \subseteq Committed' /\ Committed' \subseteq AllNotices
    BY <1>1 DEF Committed
  <1>12. Promised!Happen
    BY <1>9, <1>10, <1>11 DEF Promised!Happen, Committed
  <1>13. QED
    BY <1>2, <1>6, <1>7, <1>8, <1>12 DEF Moved

\* The next call of a list: its notice leaves the list, and is told, or queued.
LEMMA SendMoves ==
    ASSUME NoticeInv, NEW x \in Processes, Send(x), Committed' = Committed
    PROVE  Moved' /\ (Promised!Tell \/ UNCHANGED Promised!state)
  <1>0. PICK h : h = Head(todo[x]).notice
    OBVIOUS
  <1> DEFINE q == todo[x]
             T == NoticesIn(Tail(q))
             Others(n) == \E y \in Processes \ {x} : n \in NoticesIn(todo[y])
  <1>1. WellFormed(q) /\ q # <<>> /\ todo' = [todo EXCEPT ![x] = Tail(q)]
    BY DEF Send, NoticeInv, ListsFit
  <1>2. NoticesIn(q) = {h} \cup T /\ h \in AllNotices \ T /\ WellFormed(Tail(q))
    BY <1>0, <1>1, HeadAndTail
  <1>3. /\ ListsFit'
        /\ todo'[x] = Tail(q)
        /\ \A y \in Processes : y # x => todo'[y] = todo[y]
        /\ \A n : InLists(n)' <=> n \in T \/ Others(n)
    BY <1>1, <1>2, OneListChanged DEF NoticeInv
  <1>4. \A n : InLists(n) <=> n = h \/ n \in T \/ Others(n)
    BY <1>2 DEF InLists
  <1>5. ~Others(h)
    BY <1>2 DEF NoticeInv, OnePlace
  <1>6. \A n : InLists(n) <=> n = h \/ InLists(n)'
    BY <1>3, <1>4
  <1>7. ~InLists(h)'
    BY <1>2, <1>3, <1>5
  <1>8. told[h] = 0 /\ (h \in Jobs => queued[h] = 0) /\ h \in Committed
    BY <1>2, <1>4 DEF NoticeInv, OnePlace, Grounded
  <1>9. \A y, z \in Processes : y # z => NoticesIn(todo'[y]) \cap NoticesIn(todo'[z]) = {}
    <2>1. \A y \in Processes : NoticesIn(todo'[y]) \subseteq NoticesIn(todo[y])
      BY <1>2, <1>3
    <2>2. QED
      BY <2>1 DEF NoticeInv, OnePlace
  <1>10. /\ Owed' \subseteq AllNotices
         /\ \A n \in AllNotices : n \in Owed' <=> InLists(n)' \/ (n \in Jobs /\ queued'[n] > 0)
    BY <1>3, OwedNext
  <1>11. /\ Owed \subseteq AllNotices
         /\ \A n \in AllNotices : n \in Owed <=> InLists(n) \/ (n \in Jobs /\ queued[n] > 0)
    BY OwedIs DEF NoticeInv
  <1> HIDE DEF T, Others
  <1>12. CASE h.via = "feed"
    <2>1. told' = [told EXCEPT ![h] = @ + 1] /\ queued' = queued /\ h \notin Jobs
      BY <1>0, <1>2, <1>12, ByQueue DEF Send
    <2>2. told'[h] = 1 /\ \A n \in AllNotices : n # h => told'[n] = told[n]
      BY <1>2, <1>8, <2>1 DEF NoticeInv, CountersFit
    <2>3. CountersFit'
      BY <1>2, <2>1 DEF NoticeInv, CountersFit, AllNotices, Jobs
    <2>4. \A n \in AllNotices : InLists(n)' => told'[n] = 0 /\ (n \in Jobs => queued'[n] = 0)
      BY <1>6, <1>7, <2>1, <2>2 DEF NoticeInv, OnePlace
    <2>5. \A n \in Jobs : n \in AllNotices /\ n # h
      BY <2>1 DEF AllNotices
    <2>6. OnePlace'
      <3>1. \A n \in Jobs : queued'[n] > 0 => queued'[n] = 1 /\ told'[n] = 0
        BY <2>1, <2>2, <2>5 DEF NoticeInv, OnePlace
      <3>2. \A n \in AllNotices : told'[n] <= 1
        BY <2>2 DEF NoticeInv, OnePlace
      <3>3. QED
        BY <1>9, <2>4, <3>1, <3>2 DEF OnePlace, NoticesIn, AllNotices, Jobs
    <2>7. Grounded'
      BY <1>6, <1>8, <2>1, <2>2 DEF NoticeInv, Grounded, AllNotices, Jobs
    <2>8. h \in Owed /\ Owed' = Owed \ {h}
      BY <1>2, <1>4, <1>6, <1>7, <1>10, <1>11, <2>1
    <2>9. ToldOnce' = ToldOnce \cup {h}
      BY <1>2, <2>2 DEF ToldOnce, AllNotices, Jobs
    <2>10. Promised!Tell
      BY <2>8, <2>9 DEF Promised!Tell, Committed, Send
    <2>11. QED
      BY <1>3, <2>3, <2>6, <2>7, <2>10 DEF Moved
  <1>13. CASE h.via # "feed"
    <2>1. queued' = [queued EXCEPT ![h] = @ + 1] /\ told' = told /\ h \in Jobs
      BY <1>0, <1>2, <1>13, ByQueue DEF Send
    <2>2. queued'[h] = 1 /\ \A n \in Jobs : n # h => queued'[n] = queued[n]
      BY <1>8, <2>1 DEF NoticeInv, CountersFit
    <2>3. CountersFit'
      BY <2>1 DEF NoticeInv, CountersFit, AllNotices, Jobs
    <2>4. \A n \in AllNotices : InLists(n)' => told'[n] = 0 /\ (n \in Jobs => queued'[n] = 0)
      BY <1>6, <1>7, <2>1, <2>2 DEF NoticeInv, OnePlace
    <2>5. OnePlace'
      <3>1. \A n \in Jobs : queued'[n] > 0 => queued'[n] = 1 /\ told'[n] = 0
        BY <1>8, <2>1, <2>2 DEF NoticeInv, OnePlace
      <3>2. QED
        BY <1>9, <2>1, <2>4, <3>1 DEF NoticeInv, OnePlace, NoticesIn, AllNotices, Jobs
    <2>6. Grounded'
      BY <1>6, <1>8, <2>1, <2>2 DEF NoticeInv, Grounded, AllNotices, Jobs
    <2>7. Owed' = Owed
      BY <1>2, <1>4, <1>6, <1>7, <1>10, <1>11, <2>1, <2>2
    <2>8. ToldOnce' = ToldOnce
      BY <2>1 DEF ToldOnce, AllNotices, Jobs
    <2>9. UNCHANGED Promised!state
      BY <2>7, <2>8 DEF Promised!state, Committed, Send
    <2>10. QED
      BY <1>3, <2>3, <2>5, <2>6, <2>9 DEF Moved
  <1>14. QED
    BY <1>12, <1>13

\* Nobody's list changed.
LEMMA SameLists ==
    ASSUME ListsFit, todo' = todo
    PROVE  ListsFit' /\ \A n : InLists(n)' <=> InLists(n)
  <1>1. todo' = [x \in Processes |-> todo'[x]] /\ \A x \in Processes : WellFormed(todo'[x])
    BY DEF ListsFit
  <1>2. ListsFit'
    BY <1>1 DEF ListsFit, WellFormed, IsSeq, NoRepeats, NoticesIn
  <1>3. \A n : InLists(n)' <=> \E x \in Processes : n \in NoticesIn(todo'[x])
    BY DEF InLists, NoticesIn
  <1>4. QED
    BY <1>2, <1>3 DEF InLists

\* A job leaves the queue, done or failed.
LEMMA TakeMoves ==
    ASSUME NoticeInv, NEW h \in Jobs, TakeJob(h), todo' = todo, Committed' = Committed,
           \/ told' = told /\ losses' = losses + 1
           \/ told' = [told EXCEPT ![h] = @ + 1] /\ losses' = losses
    PROVE  Moved' /\ (Promised!Tell \/ Promised!Lose)
  <1>1. queued[h] > 0 /\ queued' = [queued EXCEPT ![h] = @ - 1]
    BY DEF TakeJob
  <1>2. h \in AllNotices /\ h \in Committed /\ queued[h] = 1 /\ told[h] = 0 /\ ~InLists(h)
    BY <1>1 DEF NoticeInv, OnePlace, Grounded, AllNotices
  <1>3. queued'[h] = 0 /\ \A n \in Jobs : n # h => queued'[n] = queued[n]
    BY <1>1, <1>2 DEF NoticeInv, CountersFit
  <1>4. /\ ListsFit'
        /\ \A n : InLists(n)' <=> InLists(n)
        /\ \A y, z \in Processes : y # z => NoticesIn(todo'[y]) \cap NoticesIn(todo'[z]) = {}
    <2>1. ListsFit' /\ \A n : InLists(n)' <=> InLists(n)
      BY SameLists DEF NoticeInv
    <2>2. QED
      BY <2>1 DEF NoticeInv, OnePlace
  <1>5. /\ Owed' \subseteq AllNotices
        /\ \A n \in AllNotices : n \in Owed' <=> InLists(n)' \/ (n \in Jobs /\ queued'[n] > 0)
    BY <1>4, OwedNext
  <1>6. /\ Owed \subseteq AllNotices
        /\ \A n \in AllNotices : n \in Owed <=> InLists(n) \/ (n \in Jobs /\ queued[n] > 0)
    BY OwedIs DEF NoticeInv
  <1>7. h \in Owed /\ Owed' = Owed \ {h}
    BY <1>1, <1>2, <1>3, <1>4, <1>5, <1>6
  <1>8. /\ told'[h] \in {0, 1}
        /\ \A n \in AllNotices : n # h => told'[n] = told[n]
        /\ told' \in [AllNotices -> Nat]
    BY <1>2 DEF NoticeInv, CountersFit
  <1>9. CountersFit'
    BY <1>1, <1>2, <1>8 DEF NoticeInv, CountersFit, AllNotices, Jobs
  <1>10. OnePlace'
    <2>1. \A n \in AllNotices : InLists(n)' => told'[n] = 0 /\ (n \in Jobs => queued'[n] = 0)
      BY <1>2, <1>3, <1>4, <1>8 DEF NoticeInv, OnePlace
    <2>2. \A n \in Jobs : queued'[n] > 0 => queued'[n] = 1 /\ told'[n] = 0
      BY <1>3, <1>8 DEF NoticeInv, OnePlace, AllNotices
    <2>3. \A n \in AllNotices : told'[n] <= 1
      BY <1>8 DEF NoticeInv, OnePlace
    <2>4. QED
      BY <1>4, <2>1, <2>2, <2>3 DEF OnePlace, NoticesIn, AllNotices, Jobs
  <1>11. Grounded'
    BY <1>2, <1>3, <1>4, <1>8 DEF NoticeInv, Grounded, AllNotices, Jobs
  <1>12. CASE told' = told /\ losses' = losses + 1
    <2>1. ToldOnce' = ToldOnce
      BY <1>12 DEF ToldOnce, AllNotices, Jobs
    <2>2. Promised!Lose
      BY <1>7, <1>12, <2>1 DEF Promised!Lose, Committed
    <2>3. QED
      BY <1>4, <1>9, <1>10, <1>11, <2>2 DEF Moved
  <1>13. CASE told' = [told EXCEPT ![h] = @ + 1] /\ losses' = losses
    <2>1. told'[h] = 1
      BY <1>2, <1>13 DEF NoticeInv, CountersFit
    <2>2. ToldOnce' = ToldOnce \cup {h}
      BY <1>2, <1>8, <2>1 DEF ToldOnce, AllNotices, Jobs
    <2>3. Promised!Tell
      BY <1>7, <1>13, <2>2 DEF Promised!Tell, Committed
    <2>4. QED
      BY <1>4, <1>9, <1>10, <1>11, <2>3 DEF Moved
  <1>14. QED
    BY <1>12, <1>13

\* A failure after a commit: the rest of one list is gone.
LEMMA LossMoves ==
    ASSUME NoticeInv, NEW x \in Processes, todo' = [todo EXCEPT ![x] = <<>>],
           UNCHANGED <<queued, told>>, losses' = losses + 1, Committed' = Committed
    PROVE  Moved' /\ Promised!Lose
  <1>1. /\ ListsFit'
        /\ todo'[x] = <<>>
        /\ \A y \in Processes : y # x => todo'[y] = todo[y]
        /\ \A n : InLists(n)' => InLists(n)
        /\ \A n : InLists(n) => InLists(n)' \/ n \in NoticesIn(todo[x])
    <2>1. /\ ListsFit'
          /\ todo'[x] = <<>>
          /\ \A y \in Processes : y # x => todo'[y] = todo[y]
          /\ \A n : InLists(n)' <=> \/ n \in NoticesIn(<<>>)
                                    \/ \E y \in Processes \ {x} : n \in NoticesIn(todo[y])
      BY NoneToSend, OneListChanged DEF NoticeInv
    <2>2. QED
      BY <2>1, NoneToSend DEF InLists
  <1>2. \A y, z \in Processes : y # z => NoticesIn(todo'[y]) \cap NoticesIn(todo'[z]) = {}
    BY <1>1, NoneToSend DEF NoticeInv, OnePlace
  <1>3. CountersFit' /\ OnePlace' /\ Grounded'
    <2>1. CountersFit'
      BY DEF NoticeInv, CountersFit, AllNotices, Jobs
    <2>2. OnePlace'
      BY <1>1, <1>2 DEF NoticeInv, OnePlace, NoticesIn, AllNotices, Jobs
    <2>3. Grounded'
      BY <1>1 DEF NoticeInv, Grounded, AllNotices, Jobs
    <2>4. QED
      BY <2>1, <2>2, <2>3
  <1>4. Owed' \subseteq Owed /\ Owed \ Owed' \subseteq NoticesIn(todo[x])
    <2>1. /\ Owed' \subseteq AllNotices
          /\ \A n \in AllNotices : n \in Owed' <=> InLists(n)' \/ (n \in Jobs /\ queued'[n] > 0)
      BY <1>1, OwedNext
    <2>2. /\ Owed \subseteq AllNotices
          /\ \A n \in AllNotices : n \in Owed <=> InLists(n) \/ (n \in Jobs /\ queued[n] > 0)
      BY OwedIs DEF NoticeInv
    <2>3. QED
      BY <1>1, <2>1, <2>2
  <1>5. ToldOnce' = ToldOnce
    BY DEF ToldOnce, AllNotices, Jobs
  <1>6. \A n, m \in Owed \ Owed' : n.about = m.about
    BY <1>4 DEF NoticeInv, ListsFit, WellFormed
  <1>7. Promised!Lose
    BY <1>4, <1>5, <1>6 DEF Promised!Lose, Committed
  <1>8. QED
    BY <1>1, <1>3, <1>7 DEF Moved

\* A step that commits no news and sends nothing.
LEMMA NothingMoves ==
    ASSUME NoticeInv, UNCHANGED <<todo, queued, told, losses>>, Committed' = Committed
    PROVE  Moved' /\ UNCHANGED Promised!state
  <1>1. ListsFit' /\ \A n : InLists(n)' <=> InLists(n)
    BY SameLists DEF NoticeInv
  <1>2. CountersFit'
    BY DEF NoticeInv, CountersFit, AllNotices, Jobs
  <1>3. OnePlace' /\ Grounded'
    <2>1. \A n \in AllNotices : InLists(n)' => told'[n] = 0 /\ (n \in Jobs => queued'[n] = 0)
      BY <1>1 DEF NoticeInv, OnePlace
    <2>2. \A y, z \in Processes : y # z => NoticesIn(todo'[y]) \cap NoticesIn(todo'[z]) = {}
      BY DEF NoticeInv, OnePlace
    <2>3. OnePlace'
      BY <2>1, <2>2 DEF NoticeInv, OnePlace, NoticesIn, AllNotices, Jobs
    <2>4. Grounded'
      BY <1>1 DEF NoticeInv, Grounded, AllNotices, Jobs
    <2>5. QED
      BY <2>3, <2>4
  <1>4. Owed' = Owed /\ ToldOnce' = ToldOnce
    BY DEF Owed, ToldOnce, NoticesIn, AllNotices, Jobs
  <1>5. QED
    BY <1>1, <1>2, <1>3, <1>4 DEF Moved, Promised!state, Committed

-----------------------------------------------------------------------------
(***************************************************************************)
(* Every step of the system.                                               *)
(***************************************************************************)

\* A step of FarmLink moves the process that takes it and no other.
LEMMA OneMoves ==
    ASSUME NoticeInv, NEW x \in Processes, Acts(x)
    PROVE  Next /\ CommitInv' /\ \A y \in Processes : y # x => pc'[y] = pc[y]
  <1>1. Next
    BY DEF Acts, Next
  <1>2. CommitInv'
    BY <1>1, CommitInvStep DEF NoticeInv
  <1>3. \E l : pc' = [pc EXCEPT ![x] = l]
    <2>1. CASE x \in Sessions /\ PoolStep(x)
      BY <2>1 DEF PoolStep, CreatePool, LockForClose, CommitClose
    <2>2. CASE x \in Sessions /\ ContributionStep(x)
      BY <2>2 DEF ContributionStep, LockForContribution, CommitContribution
    <2>3. CASE x \in Sessions /\ OrderStep(x)
      BY <2>3 DEF OrderStep, FindByKey, LockForOrder, FlushOrder, CommitOrder, RereadByKey
    <2>4. CASE x \in Sessions /\ PaymentStep(x)
      BY <2>4
      DEF PaymentStep, InitializePayment, OpenTransaction, RecordEvent, CommitEvent,
          LockPaidOrder, CommitPayment
    <2>5. CASE x \in Sessions /\ PayoutStep(x)
      BY <2>5 DEF PayoutStep, LockForPayout, ComputeShares, CommitPayouts
    <2>6. CASE x \in Sessions /\ Abort(x)
      BY <2>6 DEF Abort
    <2>7. CASE x \in Sweepers /\ (SweepStep(x) \/ AbortSweep(x))
      BY <2>7
      DEF SweepStep, FindExpired, NextCandidate, LockExpired, LockExpiredPool, CommitExpired, AbortSweep
    <2>8. QED
      BY <2>1, <2>2, <2>3, <2>4, <2>5, <2>6, <2>7 DEF Acts, SessionStep
  <1>4. pc = [y \in Processes |-> pc[y]]
    BY DEF NoticeInv, CommitInv, TypeInv, TypeOK
  <1>5. QED
    BY <1>1, <1>2, <1>3, <1>4

\* Only the list of the process that moves may come to be wrong for its place.
LEMMA ListsStay ==
    ASSUME NoticeInv, NEW x \in Processes,
           \A y \in Processes : y # x => pc'[y] = pc[y] /\ todo'[y] = todo[y],
           todo'[x] # <<>> => pc'[x] = IF x \in Sessions THEN "done" ELSE "sweep_next"
    PROVE  ListsFollowCommits'
  BY NamesAssumption, SMTT(30) DEF NoticeInv, ListsFollowCommits

\* A request that moves has yet to answer.
LEMMA StillAtWork ==
    ASSUME NEW s \in Sessions, SessionStep(s) \/ Abort(s)
    PROVE  pc[s] # "done"
  BY DEF Abort, InFlight, SessionStep, PoolStep, ContributionStep, OrderStep, PaymentStep,
         PayoutStep, CreatePool, LockForClose, CommitClose, LockForContribution,
         CommitContribution, FindByKey, LockForOrder, FlushOrder, CommitOrder, RereadByKey,
         InitializePayment, OpenTransaction, RecordEvent, CommitEvent, LockPaidOrder,
         CommitPayment, LockForPayout, ComputeShares, CommitPayouts

\* A request that has yet to send is done, and takes no other step.
LEMMA NothingLeftOfSession ==
    ASSUME NoticeInv, NEW s \in Sessions, SessionStep(s) \/ Abort(s)
    PROVE  todo[s] = <<>>
  BY StillAtWork DEF NoticeInv, ListsFollowCommits

\* A step of a request, and the list it leaves.
LEMMA ServeKeeps ==
    ASSUME NoticeInv, NEW s \in Sessions, Serve(s)
    PROVE  NoticeInv' /\ Promised!Happen
  <1>1. SessionStep(s) /\ s \in Processes /\ Acts(s)
    BY DEF Serve, Acts
  <1>2. Next /\ CommitInv' /\ \A y \in Processes : y # s => pc'[y] = pc[y]
    BY <1>1, OneMoves
  <1>3. TellsAll(Following(s)) /\ (Following(s) # <<>> => pc'[s] = "done")
    BY <1>1, SessionTells DEF NoticeInv
  <1>4. todo[s] = <<>>
    BY <1>1, NothingLeftOfSession
  <1>5. todo' = [todo EXCEPT ![s] = Following(s)] /\ UNCHANGED <<queued, told, losses>>
    BY DEF Serve
  <1>6. Moved' /\ Promised!Happen
    BY <1>1, <1>3, <1>4, <1>5, CommitMoves
  <1>7. todo'[s] = Following(s) /\ \A y \in Processes : y # s => todo'[y] = todo[y]
    BY <1>1, <1>5 DEF NoticeInv, ListsFit
  <1>8. ListsFollowCommits'
    BY <1>1, <1>2, <1>3, <1>7, ListsStay
  <1>9. QED
    BY <1>2, <1>6, <1>8 DEF NoticeInv, Moved

\* A step of a sweep likewise.
LEMMA RunSweepKeeps ==
    ASSUME NoticeInv, NEW w \in Sweepers, RunSweep(w)
    PROVE  NoticeInv' /\ Promised!Happen
  <1> DEFINE news == IF pc[w] = "expire_commit" THEN AfterExpiry(w) ELSE <<>>
  <1>1. SweepStep(w) /\ w \in Processes /\ Acts(w)
    BY DEF RunSweep, Acts
  <1>2. Next /\ CommitInv' /\ \A y \in Processes : y # w => pc'[y] = pc[y]
    BY <1>1, OneMoves
  <1>3. TellsAll(news) /\ (news # <<>> => pc'[w] = "sweep_next")
    BY <1>1, SweepTells DEF NoticeInv
  <1>4. todo[w] = <<>> /\ todo' = [todo EXCEPT ![w] = news] /\ UNCHANGED <<queued, told, losses>>
    BY DEF RunSweep
  <1> HIDE DEF news
  <1>5. Moved' /\ Promised!Happen
    BY <1>1, <1>3, <1>4, CommitMoves
  <1>6. todo'[w] = news /\ \A y \in Processes : y # w => todo'[y] = todo[y]
    BY <1>1, <1>4 DEF NoticeInv, ListsFit
  <1>7. w \notin Sessions
    BY NamesAssumption
  <1>8. ListsFollowCommits'
    BY <1>1, <1>2, <1>3, <1>6, <1>7, ListsStay
  <1>9. QED
    BY <1>2, <1>5, <1>8 DEF NoticeInv, Moved

\* A failure before the commit: there was nothing to send.
LEMMA RollBackKeeps ==
    ASSUME NoticeInv, NEW x \in Processes, RollBack(x)
    PROVE  NoticeInv' /\ UNCHANGED Promised!state
  <1>1. Acts(x) /\ UNCHANGED <<todo, queued, told, losses>>
    BY DEF RollBack, Acts, sending
  <1>2. CommitInv' /\ \A y \in Processes : y # x => pc'[y] = pc[y]
    BY <1>1, OneMoves
  <1>3. todo[x] = <<>>
    <2>1. CASE x \in Sessions /\ Abort(x)
      BY <2>1, NothingLeftOfSession
    <2>2. CASE x \in Sweepers /\ AbortSweep(x)
      BY <2>2 DEF AbortSweep, NoticeInv, ListsFollowCommits
    <2>3. QED
      BY <2>1, <2>2 DEF RollBack
  <1>4. ListsFollowCommits'
    BY <1>1, <1>2, <1>3, ListsStay
  <1>5. UNCHANGED <<contributions, orders, payments, released>> /\ pools' = pools
    BY DEF RollBack, Abort, AbortSweep
  <1>6. Committed' = Committed
    <2>1. ClosedPools' = ClosedPools
      BY <1>5 DEF ClosedPools
    <2>2. QED
      BY <1>5, <2>1, NothingNew
  <1>7. Moved' /\ UNCHANGED Promised!state
    BY <1>1, <1>6, NothingMoves
  <1>8. QED
    BY <1>2, <1>4, <1>7 DEF NoticeInv, Moved

\* Time that passes for an order, or for nothing at all.
LEMMA IdleKeeps ==
    ASSUME NoticeInv, UNCHANGED sending,
           (\E o \in Orders : Age(o)) \/ UNCHANGED vars
    PROVE  NoticeInv' /\ UNCHANGED Promised!state
  <1>1. [Next]_vars
    BY DEF Next
  <1>2. CommitInv'
    BY <1>1, CommitInvStep DEF NoticeInv
  <1>3. /\ UNCHANGED <<contributions, orders, payments, released>>
        /\ pools' = pools /\ pc' = pc
        /\ UNCHANGED <<todo, queued, told, losses>>
    BY DEF Age, vars, sending
  <1>4. Committed' = Committed
    <2>1. ClosedPools' = ClosedPools
      BY <1>3 DEF ClosedPools
    <2>2. QED
      BY <1>3, <2>1, NothingNew
  <1>5. ListsFollowCommits'
    BY <1>3 DEF NoticeInv, ListsFollowCommits
  <1>6. Moved' /\ UNCHANGED Promised!state
    BY <1>3, <1>4, NothingMoves
  <1>7. QED
    BY <1>2, <1>5, <1>6 DEF NoticeInv, Moved

\* What a step after a commit leaves alone.
LEMMA CommittedStays ==
    ASSUME NoticeInv, UNCHANGED vars
    PROVE  CommitInv' /\ Committed' = Committed /\ pc' = pc
  <1>1. CommitInv'
    BY CommitInvStep DEF NoticeInv
  <1>2. UNCHANGED <<contributions, orders, payments, released, pools, pc>>
    BY DEF vars
  <1>3. ClosedPools' = ClosedPools
    BY <1>2 DEF ClosedPools
  <1>4. QED
    BY <1>1, <1>2, <1>3, NothingNew

\* One call made.
LEMMA SendKeeps ==
    ASSUME NoticeInv, NEW x \in Processes, Send(x)
    PROVE  NoticeInv' /\ (Promised!Tell \/ UNCHANGED Promised!state)
  <1>1. CommitInv' /\ Committed' = Committed /\ pc' = pc
    BY CommittedStays DEF Send
  <1>2. Moved' /\ (Promised!Tell \/ UNCHANGED Promised!state)
    BY <1>1, SendMoves
  <1>3. \A y \in Processes : todo'[y] # <<>> => todo[y] # <<>>
    BY DEF Send, NoticeInv, ListsFit
  <1>4. ListsFollowCommits'
    BY <1>1, <1>3 DEF NoticeInv, ListsFollowCommits
  <1>5. QED
    BY <1>1, <1>2, <1>4 DEF NoticeInv, Moved

\* One job done or failed.
LEMMA JobKeeps ==
    ASSUME NoticeInv, NEW n \in Jobs, RunJob(n) \/ FailJob(n)
    PROVE  NoticeInv' /\ (Promised!Tell \/ Promised!Lose)
  <1>1. CommitInv' /\ Committed' = Committed /\ pc' = pc
    BY CommittedStays DEF RunJob, FailJob
  <1>2. /\ TakeJob(n) /\ todo' = todo
        /\ \/ told' = told /\ losses' = losses + 1
           \/ told' = [told EXCEPT ![n] = @ + 1] /\ losses' = losses
    BY DEF RunJob, FailJob
  <1>3. Moved' /\ (Promised!Tell \/ Promised!Lose)
    BY <1>1, <1>2, TakeMoves
  <1>4. ListsFollowCommits'
    BY <1>1, <1>2 DEF NoticeInv, ListsFollowCommits
  <1>5. QED
    BY <1>1, <1>3, <1>4 DEF NoticeInv, Moved

\* A request that fails after its commit.
LEMMA FailRequestKeeps ==
    ASSUME NoticeInv, NEW s \in Sessions, FailRequest(s)
    PROVE  NoticeInv' /\ Promised!Lose
  <1>1. /\ UNCHANGED <<tables, locks, row, outside>>
        /\ UNCHANGED <<pc, sweep>>
        /\ todo' = [todo EXCEPT ![s] = <<>>]
        /\ UNCHANGED <<queued, told>> /\ losses' = losses + 1
    BY DEF FailRequest
  <1>2. answer' \in [Sessions -> Outcomes \cup Orders]
    BY DEF FailRequest, NoticeInv, CommitInv, TypeInv, TypeOK, Outcomes
  <1>3. CommitInv'
    BY <1>1, <1>2, CommitInvKept DEF NoticeInv
  <1>4. Committed' = Committed
    <2>1. ClosedPools' = ClosedPools
      BY <1>1 DEF ClosedPools
    <2>2. QED
      BY <1>1, <2>1, NothingNew
  <1>5. Moved' /\ Promised!Lose
    BY <1>1, <1>4, LossMoves
  <1>6. \A y \in Processes : todo'[y] # <<>> => todo[y] # <<>>
    BY <1>1 DEF NoticeInv, ListsFit
  <1>7. ListsFollowCommits'
    BY <1>1, <1>6 DEF NoticeInv, ListsFollowCommits
  <1>8. QED
    BY <1>3, <1>5, <1>7 DEF NoticeInv, Moved

\* A sweep that fails after the commit of one release.
LEMMA FailSweepKeeps ==
    ASSUME NoticeInv, NEW w \in Sweepers, FailSweep(w)
    PROVE  NoticeInv' /\ Promised!Lose
  <1>1. /\ UNCHANGED <<tables, locks, row, outside>>
        /\ answer' = answer
        /\ todo' = [todo EXCEPT ![w] = <<>>]
        /\ UNCHANGED <<queued, told>> /\ losses' = losses + 1
    BY DEF FailSweep
  <1>2. pc[w] = "sweep_next"
    BY DEF FailSweep, NoticeInv, ListsFollowCommits
  <1>3. answer' \in [Sessions -> Outcomes \cup Orders]
    BY <1>1 DEF NoticeInv, CommitInv, TypeInv, TypeOK
  <1>4. CommitInv'
    <2>1. CASE UNCHANGED <<pc, sweep>>
      BY <1>1, <1>3, <2>1, CommitInvKept DEF NoticeInv
    <2>2. CASE /\ pc' = [pc EXCEPT ![w] = "idle"]
               /\ batch' = [batch EXCEPT ![w] = {}]
               /\ current' = [current EXCEPT ![w] = NoOrder]
      BY <1>1, <1>2, <2>2, CommitInvKept DEF NoticeInv
    <2>3. QED
      BY <2>1, <2>2 DEF FailSweep
  <1>5. Committed' = Committed
    <2>1. ClosedPools' = ClosedPools
      BY <1>1 DEF ClosedPools
    <2>2. QED
      BY <1>1, <2>1, NothingNew
  <1>6. Moved' /\ Promised!Lose
    BY <1>1, <1>5, LossMoves
  <1>7. /\ todo'[w] = <<>>
        /\ \A y \in Processes : y # w => pc'[y] = pc[y] /\ todo'[y] = todo[y]
    BY <1>1 DEF FailSweep, NoticeInv, ListsFit, CommitInv, TypeInv, TypeOK
  <1>8. ListsFollowCommits'
    BY <1>7, ListsStay
  <1>9. QED
    BY <1>4, <1>6, <1>8 DEF NoticeInv, Moved

\* The invariant survives every step, and every step is one of the promise's.
LEMMA NoticeInvStep ==
    ASSUME NoticeInv, [NotifyNext]_<<vars, sending>>
    PROVE  NoticeInv' /\ [Promised!Next]_Promised!state
  <1>1. ASSUME NEW s \in Sessions, Serve(s) \/ FailRequest(s)
        PROVE  NoticeInv' /\ (Promised!Happen \/ Promised!Lose)
    BY <1>1, ServeKeeps, FailRequestKeeps
  <1>2. ASSUME NEW w \in Sweepers, RunSweep(w) \/ FailSweep(w)
        PROVE  NoticeInv' /\ (Promised!Happen \/ Promised!Lose)
    BY <1>2, RunSweepKeeps, FailSweepKeeps
  <1>3. ASSUME NEW x \in Processes, RollBack(x)
        PROVE  NoticeInv' /\ UNCHANGED Promised!state
    BY <1>3, RollBackKeeps
  <1>4. ASSUME NEW x \in Processes, Send(x)
        PROVE  NoticeInv' /\ (Promised!Tell \/ UNCHANGED Promised!state)
    BY <1>4, SendKeeps
  <1>5. ASSUME NEW n \in Jobs, RunJob(n) \/ FailJob(n)
        PROVE  NoticeInv' /\ (Promised!Tell \/ Promised!Lose)
    BY <1>5, JobKeeps
  <1>6. ASSUME UNCHANGED sending, (\E o \in Orders : Age(o)) \/ UNCHANGED vars
        PROVE  NoticeInv' /\ UNCHANGED Promised!state
    BY <1>6, IdleKeeps
  <1>7. AllQuiet => UNCHANGED sending /\ UNCHANGED vars
    BY DEF AllQuiet, Quiet
  <1>8. QED
    BY <1>1, <1>2, <1>3, <1>4, <1>5, <1>6, <1>7 DEF NotifyNext, Promised!Next

-----------------------------------------------------------------------------
(***************************************************************************)
(* Copies: in every list an event comes before its copy.                   *)
(***************************************************************************)

LiveOf(n) == Live(n.what, n.about)

\* The event of each copy of a list is earlier in the list.
Paired(q) ==
    \A i \in DOMAIN q :
        q[i].notice.via = "copy" => \E j \in DOMAIN q : j < i /\ q[j].notice = LiveOf(q[i].notice)

\* What is left of a paired list: an event no longer in it is out.
PairedOrTold(q) ==
    \A i \in DOMAIN q :
        q[i].notice.via = "copy" =>
            \/ told[LiveOf(q[i].notice)] > 0
            \/ \E j \in DOMAIN q : j < i /\ q[j].notice = LiveOf(q[i].notice)

CopyInv ==
    /\ \A n \in Jobs :
          n.via = "copy" /\ (queued[n] > 0 \/ told[n] > 0 \/ n \in failed) => told[LiveOf(n)] > 0
    /\ \A x \in Processes : PairedOrTold(todo[x])

\* The lists the services make.
LEMMA PublishingIsPaired ==
    ASSUME NEW what, NEW x, NEW shows
    PROVE  Paired(PublishPoolEvent(what, x, shows))
  <1> DEFINE a == [notice |-> Live(what, x), shows |-> shows]
             b == Say(Copy(what, x))
             q == <<a, b>>
  <1>1. a.notice = Live(what, x) /\ a.notice.via = "feed" /\ LiveOf(b.notice) = Live(what, x)
    BY DEF Say, Live, Copy, LiveOf
  <1>2. DOMAIN q = 1..2 /\ q[1] = a /\ q[2] = b
    OBVIOUS
  <1> HIDE DEF a, b, q
  <1>3. Paired(q)
    BY <1>1, <1>2 DEF Paired
  <1>4. QED
    BY <1>3 DEF a, b, q, PublishPoolEvent

\* An order's list has e-mails, the event, and its copy.
LEMMA OrderIsPaired ==
    ASSUME NEW o
    PROVE  Paired(AfterOrder(o))
  <1> DEFINE shows == {Figure(pools'[Request[o].pool].available_qty, StockChanges(Request[o].pool) + 1)}
             a == Say(Job("order confirmation", o))
             b == Say(Job("new order", o))
             c == [notice |-> Live("order.placed", o), shows |-> shows]
             d == Say(Copy("order.placed", o))
             q == <<a, b>> \o <<c, d>>
  <1>1. AfterOrder(o) = q
    BY DEF AfterOrder, StockEvent, PublishPoolEvent
  <1>0. /\ a.notice = Job("order confirmation", o)
        /\ b.notice = Job("new order", o)
        /\ c.notice = Live("order.placed", o)
        /\ d.notice = Copy("order.placed", o)
    BY DEF Say
  <1> HIDE DEF a, b, c, d, shows
  <1>2. /\ a.notice.via = "job" /\ b.notice.via = "job"
        /\ c.notice.via = "feed" /\ c.notice = Live("order.placed", o)
        /\ LiveOf(d.notice) = Live("order.placed", o)
    <2>1. Job("order confirmation", o).via = "job" /\ Job("new order", o).via = "job"
      BY DEF Job
    <2>2. Live("order.placed", o).via = "feed"
      BY DEF Live
    <2>3. LiveOf(Copy("order.placed", o)) = Live("order.placed", o)
      BY DEF Copy, LiveOf
    <2>4. QED
      BY <1>0, <2>1, <2>2, <2>3
  <1>3. <<a, b>> \in Seq({a, b, c, d}) /\ <<c, d>> \in Seq({a, b, c, d})
    OBVIOUS
  <1>4. Len(<<a, b>>) = 2 /\ Len(<<c, d>>) = 2
    OBVIOUS
  <1>5. q \in Seq({a, b, c, d}) /\ Len(q) = 4 /\ q[1] = a /\ q[2] = b /\ q[3] = c /\ q[4] = d
    BY <1>3, <1>4, ConcatProperties
  <1>6. DOMAIN q = 1..4
    BY <1>5, LenProperties
  <1> HIDE DEF q
  <1>7. Paired(q)
    BY <1>2, <1>5, <1>6 DEF Paired
  <1>8. QED
    BY <1>1, <1>7

\* Whatever a request or a sweep commits, its list is paired.
LEMMA ListsArePaired ==
    /\ \A s \in Sessions : Paired(Following(s))
    /\ \A w \in Sweepers : Paired(AfterExpiry(w))
    /\ Paired(<<>>)
  <1>1. Paired(<<>>)
    BY DEF Paired
  <1>2. ASSUME NEW s \in Sessions PROVE Paired(AfterPayment(s))
    <2> DEFINE a == Say(Job("payment confirmation", Reference(s)))
               q == <<a>>
    <2>1. a.notice = Job("payment confirmation", Reference(s))
      BY DEF Say
    <2>2. a.notice.via = "job"
      <3>1. Job("payment confirmation", Reference(s)).via = "job"
        BY DEF Job
      <3>2. QED
        BY <2>1, <3>1
    <2>3. DOMAIN q = 1..1 /\ q[1] = a
      OBVIOUS
    <2>4. AfterPayment(s) = q
      BY DEF AfterPayment
    <2> HIDE DEF a, q
    <2>5. Paired(q)
      BY <2>2, <2>3 DEF Paired
    <2>6. QED
      BY <2>4, <2>5
  <1>3. ASSUME NEW s \in Sessions PROVE Paired(AfterContribution(s))
    BY PublishingIsPaired DEF AfterContribution, StockEvent
  <1>4. ASSUME NEW s \in Sessions PROVE Paired(AfterClose(s))
    BY PublishingIsPaired DEF AfterClose
  <1>5. ASSUME NEW w \in Sweepers PROVE Paired(AfterExpiry(w))
    BY PublishingIsPaired DEF AfterExpiry, StockEvent
  <1>6. ASSUME NEW s \in Sessions PROVE Paired(Following(s))
    BY <1>1, <1>2, <1>3, <1>4, OrderIsPaired DEF Following
  <1>7. QED
    BY <1>1, <1>5, <1>6

\* A copy is the copy of an event.
LEMMA CopyHasEvent ==
    ASSUME NEW n \in AllNotices, n.via = "copy"
    PROVE  n \in Jobs /\ LiveOf(n) \in AllNotices /\ LiveOf(n).via = "feed" /\ LiveOf(n) # n
  <1>0. \/ n.via = "job"
        \/ <<n.what, n.about>> \in PoolEvents /\ (n.via = "feed" \/ n \in Jobs)
    BY Kinds
  <1>1. <<n.what, n.about>> \in PoolEvents /\ n \in Jobs
    BY <1>0
  <1>2. LiveOf(n) \in AllNotices
    BY <1>1, EventNotices DEF LiveOf
  <1>3. LiveOf(n).via = "feed"
    BY DEF LiveOf, Live
  <1>4. QED
    BY <1>1, <1>2, <1>3

\* Events stay out: no step takes back what is told.
ToldKept == told' \in [AllNotices -> Nat] /\ \A n \in AllNotices : told[n] > 0 => told'[n] > 0

\* A list of the invariant has no copy of anything else.
LEMMA CopiesInLists ==
    ASSUME NoticeInv, NEW x \in Processes, NEW i \in DOMAIN todo[x], todo[x][i].notice.via = "copy"
    PROVE  LiveOf(todo[x][i].notice) \in AllNotices
  <1>1. todo[x][i].notice \in AllNotices
    BY DEF NoticeInv, ListsFit, WellFormed, NoticesIn
  <1>2. QED
    BY <1>1, CopyHasEvent

\* A list that a step leaves alone, or makes anew.
LEMMA PairsKept ==
    ASSUME NoticeInv, CopyInv, ToldKept, NEW x \in Processes, todo'[x] = todo[x] \/ Paired(todo'[x])
    PROVE  PairedOrTold(todo[x])'
  <1>1. CASE todo'[x] = todo[x]
    <2>1. \A i \in DOMAIN todo[x] : todo[x][i].notice.via = "copy" =>
             \/ told[LiveOf(todo[x][i].notice)] > 0 /\ LiveOf(todo[x][i].notice) \in AllNotices
             \/ \E j \in DOMAIN todo[x] : j < i /\ todo[x][j].notice = LiveOf(todo[x][i].notice)
      BY CopiesInLists DEF CopyInv, PairedOrTold
    <2>2. QED
      BY <1>1, <2>1 DEF PairedOrTold, ToldKept, LiveOf, Live
  <1>2. CASE Paired(todo'[x])
    BY <1>2 DEF Paired, PairedOrTold, LiveOf, Live
  <1>3. QED
    BY <1>1, <1>2

\* The jobs known to the queue, when no other becomes known.
LEMMA KnownKept ==
    ASSUME CopyInv, ToldKept,
           \A n \in Jobs : queued'[n] > 0 \/ told'[n] > 0 \/ n \in failed'
                              => queued[n] > 0 \/ told[n] > 0 \/ n \in failed
    PROVE  \A n \in Jobs :
              n.via = "copy" /\ (queued'[n] > 0 \/ told'[n] > 0 \/ n \in failed') => told'[LiveOf(n)] > 0
  <1>1. SUFFICES ASSUME NEW n \in Jobs, n.via = "copy",
                        queued'[n] > 0 \/ told'[n] > 0 \/ n \in failed'
                 PROVE  told'[LiveOf(n)] > 0
    OBVIOUS
  <1>2. told[LiveOf(n)] > 0
    BY <1>1 DEF CopyInv
  <1>3. n \in AllNotices
    BY DEF AllNotices
  <1>4. QED
    BY <1>1, <1>2, <1>3, CopyHasEvent DEF ToldKept

\* The next call of a list: a copy that is queued has nothing before it.
LEMMA SendPairs ==
    ASSUME NoticeInv, CopyInv, NoticeInv', NEW x \in Processes, Send(x)
    PROVE  CopyInv'
  <1>1. PICK h : h = Head(todo[x]).notice
    OBVIOUS
  <1> DEFINE q == todo[x]
  <1>2. WellFormed(q) /\ q # <<>> /\ todo' = [todo EXCEPT ![x] = Tail(q)]
    BY DEF Send, NoticeInv, ListsFit
  <1>3. PICK S : q \in Seq(S)
    BY <1>2 DEF WellFormed, IsSeq
  <1>4. /\ Len(q) \in Nat \ {0}
        /\ DOMAIN q = 1..Len(q)
        /\ DOMAIN Tail(q) = 1..(Len(q) - 1)
        /\ \A i \in 1..(Len(q) - 1) : Tail(q)[i] = q[i + 1]
    BY <1>2, <1>3, HeadTailProperties, LenProperties, EmptySeq
  <1>5. h = q[1].notice /\ h \in AllNotices
    BY <1>1, <1>2, <1>3, HeadAndTail
  <1>6. PairedOrTold(q)
    BY DEF CopyInv
  <1>7. h.via = "copy" => told[LiveOf(h)] > 0
    BY <1>4, <1>5, <1>6 DEF PairedOrTold
  <1>8. /\ told' \in [AllNotices -> Nat]
        /\ \A n \in AllNotices : told'[n] = told[n] \/ (n = h /\ told'[n] > 0)
        /\ h.via = "feed" => told'[h] > 0
        /\ \A n \in Jobs : told'[n] = told[n]
        /\ \A n \in Jobs : queued'[n] = queued[n] \/ n = h
        /\ failed' = failed
    <2>1. CASE h.via = "feed"
      <3>1. told' = [told EXCEPT ![h] = @ + 1] /\ queued' = queued /\ h \notin Jobs /\ failed' = failed
        BY <1>1, <1>5, <2>1, ByQueue DEF Send
      <3>2. QED
        BY <1>5, <2>1, <3>1 DEF NoticeInv, CountersFit, AllNotices
    <2>2. CASE h.via # "feed"
      <3>1. told' = told /\ queued' = [queued EXCEPT ![h] = @ + 1] /\ failed' = failed
        BY <1>1, <2>2 DEF Send
      <3>2. QED
        BY <1>5, <2>2, <3>1 DEF NoticeInv, CountersFit, AllNotices
    <2>3. QED
      BY <2>1, <2>2
  <1>9. ToldKept
    BY <1>8 DEF ToldKept
  <1>10. todo'[x] = Tail(q) /\ \A y \in Processes : y # x => todo'[y] = todo[y]
    BY <1>2 DEF NoticeInv, ListsFit
  <1>11. PairedOrTold(todo[x])'
    <2>1. SUFFICES ASSUME NEW i \in 1..(Len(q) - 1), q[i + 1].notice.via = "copy"
                   PROVE  \/ told'[LiveOf(q[i + 1].notice)] > 0
                          \/ \E j \in 1..(Len(q) - 1) : j < i /\ q[j + 1].notice = LiveOf(q[i + 1].notice)
      BY <1>4, <1>10 DEF PairedOrTold, LiveOf, Live
    <2>2. i + 1 \in DOMAIN q /\ i \in Nat
      BY <1>4
    <2>3. LiveOf(q[i + 1].notice) \in AllNotices /\ LiveOf(q[i + 1].notice).via = "feed"
      BY <2>1, <2>2, CopiesInLists DEF LiveOf, Live
    <2>4. CASE told[LiveOf(q[i + 1].notice)] > 0
      BY <1>9, <2>3, <2>4 DEF ToldKept
    <2>5. CASE \E j \in DOMAIN q : j < i + 1 /\ q[j].notice = LiveOf(q[i + 1].notice)
      <3>1. PICK j \in DOMAIN q : j < i + 1 /\ q[j].notice = LiveOf(q[i + 1].notice)
        BY <2>5
      <3>2. CASE j = 1
        BY <1>5, <1>8, <2>3, <3>1, <3>2
      <3>3. CASE j # 1
        <4>1. j - 1 \in 1..(Len(q) - 1) /\ j - 1 < i /\ (j - 1) + 1 = j
          BY <1>4, <2>2, <3>1, <3>3
        <4>2. QED
          BY <3>1, <4>1
      <3>4. QED
        BY <3>2, <3>3
    <2>6. QED
      BY <1>6, <2>1, <2>2, <2>4, <2>5 DEF PairedOrTold
  <1>12. \A y \in Processes : PairedOrTold(todo[y])'
    BY <1>9, <1>10, <1>11, PairsKept
  <1>13. ASSUME NEW n \in Jobs, n.via = "copy", queued'[n] > 0 \/ told'[n] > 0 \/ n \in failed'
         PROVE  told'[LiveOf(n)] > 0
    <2>1. n \in AllNotices /\ LiveOf(n) \in AllNotices
      BY <1>13, CopyHasEvent DEF AllNotices
    <2>2. told[LiveOf(n)] > 0
      BY <1>7, <1>8, <1>13 DEF CopyInv
    <2>3. QED
      BY <1>9, <2>1, <2>2 DEF ToldKept
  <1>14. QED
    BY <1>12, <1>13 DEF CopyInv, Jobs, LiveOf, Live

\* Steps that leave queue, failed jobs and told notices alone, and put down one
\* list, paired or empty.
LEMMA ListPairs ==
    ASSUME NoticeInv, CopyInv, NEW x \in Processes, NEW news, Paired(news),
           todo' = [todo EXCEPT ![x] = news], UNCHANGED <<queued, told, failed>>
    PROVE  CopyInv'
  <1>1. ToldKept
    BY DEF ToldKept, NoticeInv, CountersFit
  <1>2. todo'[x] = news /\ \A y \in Processes : y # x => todo'[y] = todo[y]
    BY DEF NoticeInv, ListsFit
  <1>3. \A y \in Processes : PairedOrTold(todo[y])'
    BY <1>1, <1>2, PairsKept
  <1>4. \A n \in Jobs :
           n.via = "copy" /\ (queued'[n] > 0 \/ told'[n] > 0 \/ n \in failed') => told'[LiveOf(n)] > 0
    BY <1>1, KnownKept
  <1>5. QED
    BY <1>3, <1>4 DEF CopyInv, Jobs, LiveOf, Live

\* A job that is done or failed was in the queue.
LEMMA JobPairs ==
    ASSUME NoticeInv, CopyInv, NEW h \in Jobs, RunJob(h) \/ FailJob(h)
    PROVE  CopyInv'
  <1>1. /\ queued[h] > 0
        /\ queued' = [queued EXCEPT ![h] = @ - 1]
        /\ todo' = todo
        /\ told' = told \/ told' = [told EXCEPT ![h] = @ + 1]
        /\ failed' = failed \/ failed' = failed \cup {h}
    BY DEF RunJob, FailJob, TakeJob
  <1>2. /\ queued \in [Jobs -> Nat] /\ told \in [AllNotices -> Nat] /\ h \in AllNotices
        /\ \A n \in Jobs : n \in AllNotices
    BY DEF NoticeInv, CountersFit, AllNotices
  <1>3. /\ told' \in [AllNotices -> Nat]
        /\ \A n \in AllNotices : told'[n] = told[n] \/ (n = h /\ told'[n] = told[n] + 1)
    BY <1>1, <1>2
  <1>4. ToldKept
    BY <1>2, <1>3 DEF ToldKept
  <1>5. \A n \in Jobs : n # h => queued'[n] = queued[n] /\ told'[n] = told[n] /\ (n \in failed' <=> n \in failed)
    BY <1>1, <1>2, <1>3
  <1>6. \A n \in Jobs : queued'[n] > 0 \/ told'[n] > 0 \/ n \in failed'
                           => queued[n] > 0 \/ told[n] > 0 \/ n \in failed
    BY <1>1, <1>5
  <1>7. \A n \in Jobs :
           n.via = "copy" /\ (queued'[n] > 0 \/ told'[n] > 0 \/ n \in failed') => told'[LiveOf(n)] > 0
    BY <1>4, <1>6, KnownKept
  <1>8. \A y \in Processes : PairedOrTold(todo[y])'
    BY <1>1, <1>4, PairsKept
  <1>9. QED
    BY <1>7, <1>8 DEF CopyInv, Jobs, LiveOf, Live

\* Steps that send nothing.
LEMMA SamePairs ==
    ASSUME NoticeInv, CopyInv, UNCHANGED sending
    PROVE  CopyInv'
  <1>1. UNCHANGED <<todo, queued, told, failed>>
    BY DEF sending
  <1>2. ToldKept
    BY <1>1 DEF ToldKept, NoticeInv, CountersFit
  <1>3. \A y \in Processes : PairedOrTold(todo[y])'
    BY <1>1, <1>2, PairsKept
  <1>4. \A n \in Jobs :
           n.via = "copy" /\ (queued'[n] > 0 \/ told'[n] > 0 \/ n \in failed') => told'[LiveOf(n)] > 0
    BY <1>1, <1>2, KnownKept
  <1>5. QED
    BY <1>3, <1>4 DEF CopyInv, Jobs, LiveOf, Live

\* Events come before their copies through every step.
LEMMA CopyInvStep ==
    ASSUME NoticeInv, CopyInv, [NotifyNext]_<<vars, sending>>
    PROVE  CopyInv'
  <1>1. ASSUME NEW s \in Sessions, Serve(s) PROVE CopyInv'
    BY <1>1, ListsArePaired, ListPairs DEF Serve
  <1>2. ASSUME NEW s \in Sessions, FailRequest(s) PROVE CopyInv'
    BY <1>2, ListsArePaired, ListPairs DEF FailRequest
  <1>3. ASSUME NEW w \in Sweepers, RunSweep(w) PROVE CopyInv'
    <2>1. PICK news : Paired(news) /\ todo' = [todo EXCEPT ![w] = news]
      <3>1. CASE pc[w] = "expire_commit"
        BY <1>3, <3>1, ListsArePaired DEF RunSweep
      <3>2. CASE pc[w] # "expire_commit"
        BY <1>3, <3>2, ListsArePaired DEF RunSweep
      <3>3. QED
        BY <3>1, <3>2
    <2>2. UNCHANGED <<queued, told, failed>>
      BY <1>3 DEF RunSweep
    <2>3. QED
      BY <2>1, <2>2, ListPairs
  <1>4. ASSUME NEW w \in Sweepers, FailSweep(w) PROVE CopyInv'
    BY <1>4, ListsArePaired, ListPairs DEF FailSweep
  <1>5. ASSUME NEW x \in Processes, Send(x) PROVE CopyInv'
    <2>1. NoticeInv'
      BY <1>5, SendKeeps
    <2>2. QED
      BY <1>5, <2>1, SendPairs
  <1>6. ASSUME NEW n \in Jobs, RunJob(n) \/ FailJob(n) PROVE CopyInv'
    BY <1>6, JobPairs
  <1>7. ASSUME NEW x \in Processes, RollBack(x) PROVE CopyInv'
    BY <1>7, SamePairs DEF RollBack
  <1>8. ASSUME UNCHANGED sending PROVE CopyInv'
    BY <1>8, SamePairs
  <1>9. UNCHANGED <<vars, sending>> => UNCHANGED sending
    OBVIOUS
  <1>10. AllQuiet => UNCHANGED sending
    BY DEF AllQuiet
  <1>11. QED
    BY <1>1, <1>2, <1>3, <1>4, <1>5, <1>6, <1>7, <1>8, <1>9, <1>10 DEF NotifyNext

\* At first there is no copy.
LEMMA CopyInvInit == ASSUME NotifyInit PROVE CopyInv
  <1>1. \A n \in Jobs : queued[n] = 0 /\ told[n] = 0 /\ n \notin failed
    BY DEF NotifyInit, AllNotices
  <1>2. \A x \in Processes : PairedOrTold(todo[x])
    BY DEF NotifyInit, PairedOrTold
  <1>3. QED
    BY <1>1, <1>2 DEF CopyInv

-----------------------------------------------------------------------------
(***************************************************************************)
(* Answers: who is told of success has sent, or is about to send, what the *)
(* commit owes.                                                            *)
(***************************************************************************)

Success(s) == {"ok", s}

\* Still on the handler's own list, in the queue, done, or failed there.
Somewhere(n, s) ==
    \/ n \in NoticesIn(todo[s])
    \/ n \in Jobs /\ queued[n] > 0
    \/ told[n] > 0
    \/ n \in failed

PaidWhenDone == \A s \in payments : pc[s] = "done"

SentInv ==
    /\ PaidWhenDone
    /\ \A s \in Sessions : answer[s] \in Success(s) => \A n \in NoticesOf(s) : Somewhere(n, s)

\* What a session must tell after a step, by what it was asked to do.
LEMMA NoticesNext ==
    ASSUME payments' \subseteq Webhooks, NEW s \in Sessions
    PROVE  /\ s \in Orders => NoticesOf(s)' \subseteq About(OfAnOrder, {s})
           /\ s \in Contributions => NoticesOf(s)' \subseteq About({"contribution.added"}, {s})
           /\ Request[s].op = "close_pool" => NoticesOf(s)' \subseteq About({"pool.closed"}, {Request[s].pool})
           /\ s \in Webhooks => NoticesOf(s)' \subseteq About({"payment confirmation"}, {Reference(s)})
           /\ Request[s].op \notin {"order", "contribute", "close_pool"} /\ s \notin payments' => NoticesOf(s)' = {}
  <1> USE DEF Orders, Contributions, Webhooks, Carrying
  <1>1. ASSUME NEW n \in NoticesOf(s)'
        PROVE  /\ n \in AllNotices
               /\ \/ n.about = s /\ n.what \in OfAnOrder /\ s \in Orders
                  \/ n.about = s /\ n.what = "contribution.added" /\ s \in Contributions
                  \/ n.what = "pool.closed" /\ n.about = Request[s].pool /\ Request[s].op = "close_pool"
                  \/ n.what = "payment confirmation" /\ n.about = Reference(s) /\ s \in payments'
    <2>1. n \in AllNotices /\ n.what # "order.expired"
      BY DEF NoticesOf, AllNotices, Jobs
    <2>2. \/ n.what \in OfAnOrder \cup {"payment confirmation"} /\ n.about \in Orders
          \/ n.what = "contribution.added" /\ n.about \in Contributions
          \/ n.what = "pool.closed" /\ n.about \in Pools
      BY <2>1, Kinds DEF PoolEvents, OfAnOrder
    <2>3. CASE n.about = s /\ s \in Orders \cup Contributions /\ n.what # "payment confirmation"
      BY <2>1, <2>2, <2>3, SubjectsAssumption DEF OfAnOrder
    <2>4. CASE n.what = "pool.closed" /\ Request[s].op = "close_pool" /\ n.about = Request[s].pool
      BY <2>1, <2>4
    <2>5. CASE n.what = "payment confirmation" /\ s \in payments' /\ n.about = Reference(s)
      BY <2>1, <2>5
    <2> QED
      BY <2>3, <2>4, <2>5 DEF NoticesOf, AllNotices, Jobs
  <1>2. s \in payments' => Request[s].op = "webhook"
    BY SMTT(30)
  <1> QED
    BY <1>1, <1>2 DEF About

\* A session inserts its own payment, as its last statement.
LEMMA PaymentSteps ==
    ASSUME NEW s \in Sessions, SessionStep(s)
    PROVE  payments' = payments \/ (CommitPayment(s) /\ payments' = payments \cup {s})
  BY DEF SessionStep, PoolStep, ContributionStep, OrderStep, PaymentStep, PayoutStep, CreatePool,
         LockForClose, CommitClose, LockForContribution, CommitContribution, FindByKey, LockForOrder,
         FlushOrder, CommitOrder, RereadByKey, InitializePayment, OpenTransaction, RecordEvent,
         CommitEvent, LockPaidOrder, CommitPayment, LockForPayout, ComputeShares, CommitPayouts

\* An order found by its key is another request's.
LEMMA FoundIsAnother ==
    ASSUME CommitInv, NEW s \in Sessions, FindByKey(s) \/ RereadByKey(s)
    PROVE  answer' = answer \/ \E a : answer' = [answer EXCEPT ![s] = a] /\ a \notin Success(s)
  <1>1. s \in Orders /\ pc[s] # "done"
    BY RequestTypes DEF FindByKey, RereadByKey, CommitInv, TypeInv, Orders, Carrying
  <1>2. s \notin Placed
    BY <1>1 DEF CommitInv, OrderInv, NotYetPlaced, Placed
  <1>3. "ok" \notin Orders /\ "error" \notin Sessions
    BY NamesAssumption DEF Orders, Carrying, Outcomes
  <1>4. ASSUME NEW o \in FoundByKey(s) PROVE o \notin Success(s)
    BY <1>2, <1>3 DEF FoundByKey, Placed, Success
  <1> QED
    BY <1>3, <1>4 DEF FindByKey, RereadByKey, Success

\* A step of a session either leaves its answer, or refuses, or commits what it
\* lists, or is of a request that has nothing to tell.
LEMMA AnswerSteps ==
    ASSUME CommitInv, PaidWhenDone, NEW s \in Sessions, SessionStep(s)
    PROVE  \/ answer' = answer /\ payments' = payments
           \/ answer'[s] \notin Success(s)
           \/ Following(s) = AfterOrder(s) /\ s \in Orders
           \/ Following(s) = AfterContribution(s) /\ s \in Contributions
           \/ Following(s) = AfterClose(s) /\ Request[s].op = "close_pool" /\ Request[s].pool \in Pools
           \/ Following(s) = AfterPayment(s) /\ s \in Webhooks /\ Reference(s) \in Orders
           \/ Request[s].op \notin {"order", "contribute", "close_pool"} /\ s \notin payments'
  <1> USE DEF CommitInv, TypeInv
  <1>1. \A a \in Outcomes \ {"ok"} : a \notin Success(s)
    BY NamesAssumption DEF Success
  <1>2. answer \in [Sessions -> Outcomes \cup Orders]
    BY DEF TypeOK
  <1>3. pc[s] # "done" => s \notin payments
    BY DEF PaidWhenDone
  <1>4. CASE PoolStep(s)
    <2>1. CASE CommitClose(s)
      <3>1. pc[s] = "close_commit"
        BY <2>1 DEF CommitClose
      <3>2. Request[s].op = "close_pool"
        BY <3>1, RequestsAssumption DEF LabelsFit, LabelsOf, Ops
      <3> QED
        BY <3>1, <3>2, RequestTypes DEF Following
    <2>2. CASE LockForClose(s)
      BY <1>1, <1>2, <2>2 DEF LockForClose, Outcomes
    <2>3. CASE CreatePool(s)
      BY <1>3, <2>3 DEF CreatePool
    <2> QED
      BY <1>4, <2>1, <2>2, <2>3 DEF PoolStep
  <1>5. CASE ContributionStep(s)
    <2>1. CASE CommitContribution(s)
      <3>1. pc[s] = "contribution_commit" /\ (answer'[s] = "ok" \/ answer'[s] = "error")
        BY <1>2, <2>1 DEF CommitContribution
      <3> QED
        BY <1>1, <3>1, RequestTypes DEF Following, Outcomes
    <2>2. CASE LockForContribution(s)
      BY <1>1, <1>2, <2>2 DEF LockForContribution, Outcomes
    <2> QED
      BY <1>5, <2>1, <2>2 DEF ContributionStep
  <1>6. CASE OrderStep(s)
    <2>1. CASE CommitOrder(s)
      <3>1. pc[s] = "order_commit"
        BY <2>1 DEF CommitOrder
      <3> QED
        BY <3>1, RequestTypes DEF Following
    <2>2. CASE FindByKey(s) \/ RereadByKey(s)
      <3>1. payments' = payments
        BY <2>2 DEF FindByKey, RereadByKey
      <3> QED
        BY <1>2, <2>2, <3>1, FoundIsAnother
    <2>3. CASE LockForOrder(s)
      BY <1>1, <1>2, <2>3 DEF LockForOrder, Outcomes
    <2>4. CASE FlushOrder(s)
      BY <1>1, <1>2, <2>4 DEF FlushOrder, Outcomes
    <2> QED
      BY <1>6, <2>1, <2>2, <2>3, <2>4 DEF OrderStep
  <1>7. CASE PaymentStep(s)
    <2>1. CASE CommitPayment(s)
      <3>1. pc[s] = "payment_commit" /\ (answer'[s] = "ok" \/ answer'[s] = "error")
        BY <1>2, <2>1 DEF CommitPayment
      <3> QED
        BY <1>1, <3>1, RequestTypes DEF Following, Outcomes
    <2>2. ASSUME ~CommitPayment(s)
          PROVE  pc[s] # "done" /\ payments' = payments
      BY <1>7, <2>2
      DEF PaymentStep, InitializePayment, OpenTransaction, RecordEvent, CommitEvent, LockPaidOrder
    <2>3. ASSUME ~CommitPayment(s)
          PROVE  Request[s].op \in {"initialize", "webhook"}
      BY <1>7, <2>3, RequestTypes
      DEF PaymentStep, InitializePayment, OpenTransaction, RecordEvent, CommitEvent, LockPaidOrder,
          Webhooks, Carrying
    <2> QED
      BY <1>3, <2>1, <2>2, <2>3
  <1>8. CASE PayoutStep(s)
    <2>1. pc[s] # "done" /\ payments' = payments
      BY <1>8 DEF PayoutStep, LockForPayout, ComputeShares, CommitPayouts
    <2>2. Request[s].op = "distribute"
      BY <1>8, RequestTypes
      DEF PayoutStep, LockForPayout, ComputeShares, CommitPayouts, Distributions, Carrying
    <2> QED
      BY <1>3, <2>1, <2>2
  <1> QED
    BY <1>4, <1>5, <1>6, <1>7, <1>8 DEF SessionStep

\* A request that moves gives no answer but its own.
LEMMA OwnAnswer ==
    ASSUME TypeInv, NEW s \in Sessions, SessionStep(s) \/ Abort(s), NEW t \in Sessions, t # s
    PROVE  answer'[t] = answer[t]
  <1>1. answer' = answer \/ \E a : answer' = [answer EXCEPT ![s] = a]
    <2>1. CASE PoolStep(s)
      BY <2>1 DEF PoolStep, CreatePool, LockForClose, CommitClose
    <2>2. CASE ContributionStep(s)
      BY <2>2 DEF ContributionStep, LockForContribution, CommitContribution
    <2>3. CASE OrderStep(s)
      BY <2>3 DEF OrderStep, FindByKey, LockForOrder, FlushOrder, CommitOrder, RereadByKey
    <2>4. CASE PaymentStep(s)
      BY <2>4
      DEF PaymentStep, InitializePayment, OpenTransaction, RecordEvent, CommitEvent,
          LockPaidOrder, CommitPayment
    <2>5. CASE PayoutStep(s)
      BY <2>5 DEF PayoutStep, LockForPayout, ComputeShares, CommitPayouts
    <2>6. CASE Abort(s)
      BY <2>6 DEF Abort
    <2> QED
      BY <2>1, <2>2, <2>3, <2>4, <2>5, <2>6 DEF SessionStep
  <1> QED
    BY <1>1 DEF TypeInv, TypeOK

\* Notices that stay, whoever's they are: only a list gives them up.
LEMMA StaysSomewhere ==
    ASSUME NEW s \in Sessions, NEW n \in AllNotices, Somewhere(n, s),
           NoticesIn(todo[s]) \subseteq NoticesIn(todo'[s]),
           UNCHANGED <<queued, told, failed>>
    PROVE  Somewhere(n, s)'
  BY DEF Somewhere, NoticesIn, Jobs

\* A request's step: its list holds what it has just committed.
LEMMA ServeSends ==
    ASSUME NoticeInv, SentInv, NEW s \in Sessions, Serve(s)
    PROVE  SentInv'
  <1>1. SessionStep(s) /\ Acts(s) /\ s \in Processes
    BY DEF Serve, Acts
  <1>2. /\ todo'[s] = Following(s)
        /\ \A t \in Sessions : t # s => todo'[t] = todo[t]
        /\ todo[s] = <<>>
        /\ UNCHANGED <<queued, told, failed>>
    BY <1>1, NothingLeftOfSession DEF Serve, NoticeInv, ListsFit
  <1>3. \A t \in Sessions : t # s => answer'[t] = answer[t] /\ pc'[t] = pc[t]
    BY <1>1, OneMoves, OwnAnswer DEF NoticeInv, CommitInv
  <1>4. payments' = payments \/ (CommitPayment(s) /\ payments' = payments \cup {s})
    BY <1>1, PaymentSteps
  <1>5. pc[s] # "done" /\ payments' \subseteq Webhooks
    <2>1. CommitInv'
      BY <1>1, OneMoves
    <2> QED
      BY <1>1, <2>1, StillAtWork DEF CommitInv, TypeInv, TypeOK
  <1>6. PaidWhenDone'
    <2>1. CommitPayment(s) => pc'[s] = "done"
      BY DEF CommitPayment, NoticeInv, CommitInv, TypeInv, TypeOK
    <2>2. \A t \in payments : t \in Sessions /\ t # s
      BY <1>5 DEF NoticeInv, CommitInv, TypeInv, TypeOK, Webhooks, Carrying, SentInv, PaidWhenDone
    <2> QED
      BY <1>3, <1>4, <2>1, <2>2 DEF SentInv, PaidWhenDone
  <1>7. ASSUME NEW t \in Sessions, t # s, answer'[t] \in Success(t), NEW n \in NoticesOf(t)'
        PROVE  Somewhere(n, t)'
    <2>1. t \in payments' <=> t \in payments
      BY <1>4, <1>7
    <2>2. n \in NoticesOf(t) /\ n \in AllNotices
      BY <1>7, <2>1 DEF NoticesOf, AllNotices, Jobs
    <2>3. Somewhere(n, t)
      BY <1>3, <1>7, <2>2 DEF SentInv
    <2> QED
      BY <1>2, <1>7, <2>2, <2>3, StaysSomewhere
  <1>8. ASSUME answer'[s] \in Success(s), NEW n \in NoticesOf(s)'
        PROVE  Somewhere(n, s)'
    <2>1. n \in AllNotices
      BY DEF NoticesOf, AllNotices, Jobs
    <2>2. CASE answer' = answer /\ payments' = payments
      <3>1. n \in NoticesOf(s)
        BY <2>2 DEF NoticesOf, AllNotices, Jobs
      <3>2. Somewhere(n, s)
        BY <1>8, <2>2, <3>1 DEF SentInv
      <3> QED
        BY <1>2, <2>1, <3>2, NoneToSend, StaysSomewhere
    <2>3. CASE ~(answer' = answer /\ payments' = payments)
      <3>1. NoticesOf(s)' \subseteq NoticesIn(Following(s))
        <4>1. CASE Following(s) = AfterOrder(s) /\ s \in Orders
          BY <1>5, <4>1, NoticesNext, OrderList
        <4>2. CASE Following(s) = AfterContribution(s) /\ s \in Contributions
          BY <1>5, <4>2, NoticesNext, ContributionList
        <4>3. CASE Following(s) = AfterClose(s) /\ Request[s].op = "close_pool" /\ Request[s].pool \in Pools
          BY <1>5, <4>3, NoticesNext, ClosingList
        <4>4. CASE Following(s) = AfterPayment(s) /\ s \in Webhooks /\ Reference(s) \in Orders
          BY <1>5, <4>4, NoticesNext, PaymentList
        <4>5. CASE Request[s].op \notin {"order", "contribute", "close_pool"} /\ s \notin payments'
          BY <1>5, <4>5, NoticesNext
        <4> QED
          BY <1>1, <1>8, <2>3, <4>1, <4>2, <4>3, <4>4, <4>5, AnswerSteps DEF NoticeInv, SentInv
      <3> QED
        BY <1>2, <3>1 DEF Somewhere, NoticesIn
    <2> QED
      BY <2>2, <2>3
  <1> QED
    BY <1>6, <1>7, <1>8 DEF SentInv, Success

\* What stays: the answer of a session, its list, and what is told.
LEMMA SentKept ==
    ASSUME SentInv, UNCHANGED payments,
           \A s \in payments : pc'[s] = pc[s],
           \A s \in Sessions : answer'[s] \in Success(s) => answer[s] \in Success(s),
           \A s \in Sessions, n \in AllNotices :
               answer'[s] \in Success(s) /\ Somewhere(n, s) => Somewhere(n, s)'
    PROVE  SentInv'
  <1>1. ASSUME NEW s \in Sessions, answer'[s] \in Success(s), NEW n \in NoticesOf(s)'
        PROVE  Somewhere(n, s)'
    <2>1. n \in AllNotices /\ n \in NoticesOf(s)
      BY DEF NoticesOf, AllNotices, Jobs
    <2> QED
      BY <1>1, <2>1 DEF SentInv
  <1> QED
    BY <1>1 DEF SentInv, PaidWhenDone, Success

\* A call made: the notice goes from its list to the feed or into the queue.
LEMMA SendSends ==
    ASSUME NoticeInv, SentInv, NEW x \in Processes, Send(x)
    PROVE  SentInv'
  <1>1. PICK h : h = Head(todo[x]).notice
    OBVIOUS
  <1> DEFINE q == todo[x]
  <1>2. WellFormed(q) /\ q # <<>> /\ todo' = [todo EXCEPT ![x] = Tail(q)] /\ UNCHANGED <<payments, pc, answer, failed>>
    BY DEF Send, vars, NoticeInv, ListsFit
  <1>3. NoticesIn(q) = {h} \cup NoticesIn(Tail(q)) /\ h \in AllNotices
    BY <1>1, <1>2, HeadAndTail
  <1>4. /\ h.via = "feed" => told' = [told EXCEPT ![h] = @ + 1] /\ queued' = queued
        /\ h.via # "feed" => queued' = [queued EXCEPT ![h] = @ + 1] /\ told' = told
    BY <1>1 DEF Send
  <1>5. /\ \A n \in AllNotices : told[n] > 0 => told'[n] > 0
        /\ \A n \in Jobs : queued[n] > 0 => queued'[n] > 0
        /\ told'[h] > 0 \/ (h \in Jobs /\ queued'[h] > 0)
    BY <1>3, <1>4, ByQueue DEF NoticeInv, CountersFit
  <1>6. ASSUME NEW s \in Sessions, NEW n \in AllNotices, Somewhere(n, s)
        PROVE  Somewhere(n, s)'
    <2>1. n \in NoticesIn(todo[s]) => n = h \/ n \in NoticesIn(todo'[s])
      BY <1>2, <1>3 DEF NoticeInv, ListsFit
    <2> QED
      BY <1>2, <1>5, <1>6, <2>1 DEF Somewhere, NoticesIn, Jobs
  <1> QED
    BY <1>2, <1>6, SentKept

\* A job done or failed.
LEMMA JobSends ==
    ASSUME NoticeInv, SentInv, NEW h \in Jobs, RunJob(h) \/ FailJob(h)
    PROVE  SentInv'
  <1>1. /\ queued' = [queued EXCEPT ![h] = @ - 1]
        /\ UNCHANGED <<payments, pc, answer, todo>>
        /\ \/ told' = [told EXCEPT ![h] = @ + 1] /\ failed' = failed
           \/ told' = told /\ failed' = failed \cup {h}
    BY DEF RunJob, FailJob, TakeJob, vars
  <1>2. \A n \in Jobs : n \in AllNotices
    BY DEF AllNotices
  <1>3. /\ \A n \in AllNotices : told[n] > 0 => told'[n] > 0
        /\ \A n \in Jobs : n # h => queued'[n] = queued[n]
        /\ told'[h] > 0 \/ h \in failed'
        /\ failed \subseteq failed'
    BY <1>1, <1>2 DEF NoticeInv, CountersFit
  <1>4. ASSUME NEW s \in Sessions, NEW n \in AllNotices, Somewhere(n, s)
        PROVE  Somewhere(n, s)'
    BY <1>1, <1>3, <1>4 DEF Somewhere, NoticesIn, Jobs
  <1> QED
    BY <1>1, <1>4, SentKept

\* A request that fails after its commit is not answered with success.
LEMMA FailRequestSends ==
    ASSUME NoticeInv, SentInv, NEW f \in Sessions, FailRequest(f)
    PROVE  SentInv'
  <1>1. /\ UNCHANGED <<payments, pc, queued, told, failed>>
        /\ todo' = [todo EXCEPT ![f] = <<>>]
        /\ answer' = [answer EXCEPT ![f] = "error"]
    BY DEF FailRequest
  <1>2. answer'[f] \notin Success(f) /\ \A s \in Sessions : s # f => answer'[s] = answer[s] /\ todo'[s] = todo[s]
    BY <1>1, NamesAssumption
    DEF NoticeInv, ListsFit, CommitInv, TypeInv, TypeOK, Success, Outcomes
  <1>3. ASSUME NEW s \in Sessions, s # f, NEW n \in AllNotices, Somewhere(n, s)
        PROVE  Somewhere(n, s)'
    BY <1>1, <1>2, <1>3, StaysSomewhere
  <1> QED
    BY <1>1, <1>2, <1>3, SentKept

\* Whatever else happens leaves the answers and the lists of sessions.
LEMMA OthersSend ==
    ASSUME NoticeInv, SentInv, UNCHANGED <<payments, answer, queued, told, failed>>,
           \A s \in Sessions : pc'[s] = pc[s] /\ todo'[s] = todo[s]
    PROVE  SentInv'
  <1>1. \A s \in payments : s \in Sessions
    BY DEF NoticeInv, CommitInv, TypeInv, TypeOK, Webhooks, Carrying
  <1> QED
    BY <1>1, StaysSomewhere, SentKept

\* A failure before the commit answers with an error.
LEMMA RollBackSends ==
    ASSUME NoticeInv, SentInv, NEW x \in Processes, RollBack(x)
    PROVE  SentInv'
  <1>1. Acts(x) /\ UNCHANGED <<payments, todo, queued, told, failed>>
    BY DEF RollBack, Acts, sending, Abort, AbortSweep
  <1>2. \A y \in Processes : y # x => pc'[y] = pc[y]
    BY <1>1, OneMoves
  <1>3. CASE x \in Sessions /\ Abort(x)
    <2>1. pc[x] # "done" /\ answer'[x] \notin Success(x)
      BY <1>3, StillAtWork, NamesAssumption
      DEF Abort, NoticeInv, CommitInv, TypeInv, TypeOK, Success, Outcomes
    <2>2. \A s \in payments : s \in Processes /\ s # x
      BY <2>1 DEF NoticeInv, CommitInv, TypeInv, TypeOK, Webhooks, Carrying, SentInv, PaidWhenDone
    <2>3. \A s \in Sessions : s # x => answer'[s] = answer[s]
      BY <1>3, OwnAnswer DEF NoticeInv, CommitInv
    <2> QED
      BY <1>1, <1>2, <2>1, <2>2, <2>3, StaysSomewhere, SentKept
  <1>4. CASE x \in Sweepers /\ AbortSweep(x)
    <2>1. answer' = answer /\ x \notin Sessions
      BY <1>4, NamesAssumption DEF AbortSweep
    <2> QED
      BY <1>1, <1>2, <2>1, OthersSend
  <1> QED
    BY <1>3, <1>4 DEF RollBack

\* The steps of sweeps, their failures, and time.
LEMMA SweepSends ==
    ASSUME NoticeInv, SentInv, NEW w \in Sweepers, RunSweep(w) \/ FailSweep(w)
    PROVE  SentInv'
  <1>1. w \notin Sessions /\ w \in Processes
    BY NamesAssumption
  <1>2. UNCHANGED <<payments, answer, queued, told, failed>>
    BY DEF RunSweep, FailSweep, SweepStep, FindExpired, NextCandidate, LockExpired, LockExpiredPool,
           CommitExpired
  <1>3. \A s \in Sessions : todo'[s] = todo[s]
    BY <1>1 DEF RunSweep, FailSweep, NoticeInv, ListsFit
  <1>4. \A s \in Sessions : pc'[s] = pc[s]
    <2>1. CASE RunSweep(w)
      BY <1>1, <2>1, OneMoves DEF RunSweep, Acts
    <2>2. CASE FailSweep(w)
      BY <1>1, <2>2 DEF FailSweep, NoticeInv, CommitInv, TypeInv, TypeOK
    <2> QED
      BY <2>1, <2>2
  <1> QED
    BY <1>2, <1>3, <1>4, OthersSend

\* Answers keep what they say through every step.
LEMMA SentInvStep ==
    ASSUME NoticeInv, SentInv, [NotifyNext]_<<vars, sending>>
    PROVE  SentInv'
  <1>1. ASSUME UNCHANGED sending, (\E o \in Orders : Age(o)) \/ UNCHANGED vars PROVE SentInv'
    <2>1. UNCHANGED <<payments, answer, queued, told, failed, pc, todo>>
      BY <1>1 DEF Age, vars, sending
    <2> QED
      BY <2>1, OthersSend
  <1>2. AllQuiet => UNCHANGED sending /\ UNCHANGED vars
    BY DEF AllQuiet, Quiet
  <1> QED
    BY <1>1, <1>2, ServeSends, SendSends, JobSends, FailRequestSends, RollBackSends, SweepSends
    DEF NotifyNext

\* At first there is no answer.
LEMMA SentInvInit == ASSUME NotifyInit PROVE SentInv
  <1>1. \A s \in Sessions : answer[s] = "none" /\ payments = {}
    BY DEF NotifyInit, Init
  <1>2. \A s \in Sessions : answer[s] \notin Success(s)
    BY <1>1, NamesAssumption DEF Success, Outcomes
  <1> QED
    BY <1>1, <1>2 DEF SentInv, PaidWhenDone, NotifyInit, Init

-----------------------------------------------------------------------------
(***************************************************************************)
(* Figures: the event of the latest change of stock shows what is left,    *)
(* wherever that event is.                                                 *)
(***************************************************************************)

Latest(p) == Figure(pools[p].available_qty, StockChanges(p))

FeedOf(p) == {n \in AllNotices : n.via = "feed" /\ Subject(n) = p}

\* Wherever n still waits to be published, it shows f.
Carries(n, f) ==
    \A x \in Processes : \A i \in DOMAIN todo[x] : todo[x][i].notice = n => f \in todo[x][i].shows

\* The event of the latest change is not out: it is on a list, or lost.
Awaited(p) == \E n \in FeedOf(p) : n \in Committed /\ told[n] = 0 /\ Carries(n, Latest(p))

FigureInv ==
    /\ RowsFinite
    /\ shown = [p \in Pools |-> shown[p]]
    /\ \A p \in Pools : StockChanges(p) > 0 => Latest(p) \in shown[p] \/ Awaited(p)

\* A step changes the stock of one pool at most, and its list says to what.
StockSame(p) ==
    pools'[p].available_qty = pools[p].available_qty /\ StockChanges(p)' = StockChanges(p)

Announces(news, p) ==
    /\ StockChanges(p)' = StockChanges(p) + 1
    /\ \E i \in DOMAIN news : /\ news[i].notice \in FeedOf(p)
                              /\ Figure(pools'[p].available_qty, StockChanges(p) + 1) \in news[i].shows

ShowsStock(news) ==
    /\ RowsFinite'
    /\ \E p \in Pools :
          /\ StockSame(p) \/ Announces(news, p)
          /\ \A q \in Pools : q # p => StockSame(q)

AllSame == RowsFinite' /\ \A p \in Pools : StockSame(p)

\* One more row is one more to count.
LEMMA OneMoreRow ==
    ASSUME NEW S, IsFiniteSet(S), NEW x, x \notin S
    PROVE  Cardinality(S) \in Nat /\ Cardinality(S \cup {x}) = Cardinality(S) + 1
  BY FS_AddElement, FS_CardinalityType

\* The rows whose number the figures bear.
PlacedIn(p) == {o \in Placed : Request[o].pool = p}
ReleasedIn(p) == {o \in released : Request[o].pool = p}

\* They are finitely many, and counted separately.
LEMMA RowsCounted ==
    ASSUME CommitInv, RowsFinite, NEW p
    PROVE  /\ IsFiniteSet(ContributionsTo(p)) /\ Cardinality(ContributionsTo(p)) \in Nat
           /\ IsFiniteSet(PlacedIn(p)) /\ Cardinality(PlacedIn(p)) \in Nat
           /\ IsFiniteSet(ReleasedIn(p)) /\ Cardinality(ReleasedIn(p)) \in Nat
           /\ StockChanges(p) = Cardinality(ContributionsTo(p)) + Cardinality(PlacedIn(p))
                                    + Cardinality(ReleasedIn(p))
  <1>1. released \subseteq Placed
    BY DEF CommitInv, TypeInv, TypeOK, GivenBack, Placed
  <1>2. ContributionsTo(p) \subseteq contributions /\ PlacedIn(p) \subseteq Placed /\ ReleasedIn(p) \subseteq Placed
    BY <1>1 DEF ContributionsTo, PlacedIn, ReleasedIn
  <1>3. IsFiniteSet(ContributionsTo(p)) /\ IsFiniteSet(PlacedIn(p)) /\ IsFiniteSet(ReleasedIn(p))
    BY <1>2, FS_Subset DEF RowsFinite
  <1> QED
    BY <1>3, FS_CardinalityType DEF StockChanges, PlacedIn, ReleasedIn

\* The count after a step, from the rows after it.
LEMMA RowsCountedNext ==
    ASSUME NEW p, NEW C, NEW P, NEW R,
           ContributionsTo(p)' = C, PlacedIn(p)' = P, ReleasedIn(p)' = R
    PROVE  StockChanges(p)' = Cardinality(C) + Cardinality(P) + Cardinality(R)
  BY DEF StockChanges, PlacedIn, ReleasedIn

\* A pool without new rows.
LEMMA NoNewRows ==
    ASSUME NEW p, ContributionsTo(p)' = ContributionsTo(p), PlacedIn(p)' = PlacedIn(p),
           ReleasedIn(p)' = ReleasedIn(p), pools'[p].available_qty = pools[p].available_qty
    PROVE  StockSame(p)
  BY DEF StockSame, StockChanges, PlacedIn, ReleasedIn

\* The first message of a publication is the event, with its figure.
LEMMA FigurePublished ==
    ASSUME NEW what, NEW x, NEW shows
    PROVE  /\ 1 \in DOMAIN PublishPoolEvent(what, x, shows)
           /\ PublishPoolEvent(what, x, shows)[1].notice = Live(what, x)
           /\ PublishPoolEvent(what, x, shows)[1].shows = shows
  <1> DEFINE a == [notice |-> Live(what, x), shows |-> shows]
             b == Say(Copy(what, x))
  <1>1. a.notice = Live(what, x) /\ a.shows = shows
    OBVIOUS
  <1>2. PublishPoolEvent(what, x, shows) = <<a, b>>
    BY DEF PublishPoolEvent
  <1> HIDE DEF a, b
  <1>3. 1 \in DOMAIN <<a, b>> /\ <<a, b>>[1] = a
    OBVIOUS
  <1> QED
    BY <1>1, <1>2, <1>3

\* In the list of an order it comes after two e-mails.
LEMMA FigureOfOrder ==
    ASSUME NEW o
    PROVE  /\ 3 \in DOMAIN AfterOrder(o)
           /\ AfterOrder(o)[3].notice = Live("order.placed", o)
           /\ AfterOrder(o)[3].shows =
                  {Figure(pools'[Request[o].pool].available_qty, StockChanges(Request[o].pool) + 1)}
  <1> DEFINE shows == {Figure(pools'[Request[o].pool].available_qty, StockChanges(Request[o].pool) + 1)}
             a == Say(Job("order confirmation", o))
             b == Say(Job("new order", o))
             c == [notice |-> Live("order.placed", o), shows |-> shows]
             d == Say(Copy("order.placed", o))
  <1>1. AfterOrder(o) = <<a, b>> \o <<c, d>>
    BY DEF AfterOrder, StockEvent, PublishPoolEvent
  <1>2. c.notice = Live("order.placed", o) /\ c.shows = shows
    OBVIOUS
  <1> HIDE DEF a, b, c, d
  <1>3. <<a, b>> \in Seq({a, b, c, d}) /\ <<c, d>> \in Seq({a, b, c, d})
    OBVIOUS
  <1>4. Len(<<a, b>>) = 2 /\ Len(<<c, d>>) = 2
    OBVIOUS
  <1>5. <<a, b>> \o <<c, d>> \in Seq({a, b, c, d}) /\ Len(<<a, b>> \o <<c, d>>) = 4 /\ (<<a, b>> \o <<c, d>>)[3] = c
    BY <1>3, <1>4, ConcatProperties
  <1>6. 3 \in DOMAIN (<<a, b>> \o <<c, d>>)
    BY <1>5, LenProperties
  <1> QED
    BY <1>1, <1>2, <1>5, <1>6

\* An event about a row is of the row's pool.
LEMMA FeedOfRow ==
    ASSUME NEW what, NEW s \in Sessions, <<what, s>> \in PoolEvents
    PROVE  Live(what, s) \in FeedOf(Request[s].pool)
  <1>1. Live(what, s) \in AllNotices
    BY EventNotices
  <1>2. Live(what, s).via = "feed" /\ Live(what, s).about = s
    BY DEF Live
  <1> QED
    BY <1>1, <1>2, SubjectsAssumption DEF FeedOf, Subject

\* The list of an order shows what the order left.
LEMMA OrderFigure ==
    ASSUME CommitInv, RowsFinite, NEW s \in Sessions, CommitOrder(s)
    PROVE  ShowsStock(AfterOrder(s))
  <1> DEFINE p == Request[s].pool
  <1> USE DEF CommitInv, TypeInv, TypeOK
  <1>1. s \in Orders /\ orders[s] = "absent" /\ p \in Pools
    BY RequestTypes DEF CommitOrder, OrderInv, NotYetPlaced
  <1>2. /\ pools' = [pools EXCEPT ![p] = Sold(row[s], Request[s].qty)]
        /\ orders' = [orders EXCEPT ![s] = "pending"]
        /\ UNCHANGED <<contributions, released>>
    BY DEF CommitOrder
  <1>3. Placed' = Placed \cup {s} /\ s \notin Placed
    BY <1>1, <1>2 DEF Placed
  <1>4. RowsFinite'
    BY <1>2, <1>3, FS_AddElement DEF RowsFinite
  <1>5. ASSUME NEW q \in Pools, q # p PROVE StockSame(q)
    <2>1. ContributionsTo(q)' = ContributionsTo(q) /\ PlacedIn(q)' = PlacedIn(q) /\ ReleasedIn(q)' = ReleasedIn(q)
      BY <1>2, <1>3, <1>5 DEF ContributionsTo, PlacedIn, ReleasedIn
    <2> QED
      BY <1>2, <1>5, <2>1, NoNewRows
  <1>6. ContributionsTo(p)' = ContributionsTo(p) /\ ReleasedIn(p)' = ReleasedIn(p)
        /\ PlacedIn(p)' = PlacedIn(p) \cup {s} /\ s \notin PlacedIn(p)
    BY <1>2, <1>3 DEF ContributionsTo, PlacedIn, ReleasedIn
  <1>7. StockChanges(p)' = StockChanges(p) + 1
    BY <1>6, RowsCounted, RowsCountedNext, OneMoreRow
  <1>8. Live("order.placed", s) \in FeedOf(p)
    BY <1>1, FeedOfRow, OfAnOrderPlaced
  <1>9. Announces(AfterOrder(s), p)
    BY <1>7, <1>8, FigureOfOrder DEF Announces
  <1> QED
    BY <1>1, <1>4, <1>5, <1>9 DEF ShowsStock

\* The list of a contribution shows what it made available.
LEMMA ContributionFigure ==
    ASSUME CommitInv, RowsFinite, NEW s \in Sessions, CommitContribution(s), QuantityFits(s)
    PROVE  ShowsStock(AfterContribution(s))
  <1> DEFINE p == Request[s].pool
  <1> USE DEF CommitInv, TypeInv, TypeOK
  <1>1. s \in Contributions /\ s \notin contributions /\ p \in Pools
    BY RequestTypes DEF CommitContribution, NotYetContributed
  <1>2. /\ pools' = [pools EXCEPT ![p] = Stocked(row[s], Request[s].qty)]
        /\ contributions' = contributions \cup {s}
        /\ Placed' = Placed /\ released' = released
    BY DEF CommitContribution, Placed
  <1>3. RowsFinite'
    BY <1>1, <1>2, FS_AddElement DEF RowsFinite
  <1>4. ASSUME NEW q \in Pools, q # p PROVE StockSame(q)
    <2>1. ContributionsTo(q)' = ContributionsTo(q) /\ PlacedIn(q)' = PlacedIn(q) /\ ReleasedIn(q)' = ReleasedIn(q)
      BY <1>2, <1>4 DEF ContributionsTo, PlacedIn, ReleasedIn
    <2> QED
      BY <1>2, <1>4, <2>1, NoNewRows
  <1>5. PlacedIn(p)' = PlacedIn(p) /\ ReleasedIn(p)' = ReleasedIn(p)
        /\ ContributionsTo(p)' = ContributionsTo(p) \cup {s} /\ s \notin ContributionsTo(p)
    BY <1>1, <1>2 DEF ContributionsTo, PlacedIn, ReleasedIn
  <1>6. StockChanges(p)' = StockChanges(p) + 1
    BY <1>5, RowsCounted, RowsCountedNext, OneMoreRow
  <1>7. Live("contribution.added", s) \in FeedOf(p)
    BY <1>1, FeedOfRow DEF PoolEvents
  <1>8. Announces(AfterContribution(s), p)
    <2>1. PICK f : f = Figure(pools'[p].available_qty, StockChanges(p) + 1)
      OBVIOUS
    <2>2. AfterContribution(s) = PublishPoolEvent("contribution.added", s, {f})
      BY <2>1 DEF AfterContribution, StockEvent
    <2>3. /\ 1 \in DOMAIN AfterContribution(s)
          /\ AfterContribution(s)[1].notice = Live("contribution.added", s)
          /\ AfterContribution(s)[1].shows = {f}
      BY <2>2, FigurePublished
    <2> QED
      BY <1>6, <1>7, <2>1, <2>3 DEF Announces
  <1> QED
    BY <1>1, <1>3, <1>4, <1>8 DEF ShowsStock

\* The list of a release shows what came back.
LEMMA ExpiryFigure ==
    ASSUME CommitInv, RowsFinite, NEW w \in Sweepers, CommitExpired(w)
    PROVE  ShowsStock(AfterExpiry(w))
  <1>1. PICK o : o = current[w]
    OBVIOUS
  <1> DEFINE p == Request[o].pool
  <1> USE DEF CommitInv, TypeInv, TypeOK
  <1>2. o \in Orders /\ o \in Sessions /\ p \in Pools /\ orders[o] = "pending"
    BY <1>1, RequestTypes DEF CommitExpired, LabelsFit, Expiring, OrderInv, OrderLockHeld, Orders, Carrying
  <1>3. o \notin released /\ o \in Placed
    BY <1>2 DEF GivenBack, Placed
  <1>4. /\ pools' = [pools EXCEPT ![p] = Released(row[w], Request[o].qty)]
        /\ orders' = [orders EXCEPT ![o] = "expired"]
        /\ released' = released \cup {o}
        /\ UNCHANGED contributions
    BY <1>1 DEF CommitExpired
  <1>5. Placed' = Placed
    BY <1>2, <1>4 DEF Placed
  <1>6. RowsFinite'
    BY <1>4, <1>5 DEF RowsFinite
  <1>7. ASSUME NEW q \in Pools, q # p PROVE StockSame(q)
    <2>1. ContributionsTo(q)' = ContributionsTo(q) /\ PlacedIn(q)' = PlacedIn(q) /\ ReleasedIn(q)' = ReleasedIn(q)
      BY <1>4, <1>5, <1>7 DEF ContributionsTo, PlacedIn, ReleasedIn
    <2> QED
      BY <1>4, <1>7, <2>1, NoNewRows
  <1>8. PlacedIn(p)' = PlacedIn(p) /\ ContributionsTo(p)' = ContributionsTo(p)
        /\ ReleasedIn(p)' = ReleasedIn(p) \cup {o} /\ o \notin ReleasedIn(p)
    BY <1>3, <1>4, <1>5 DEF ContributionsTo, PlacedIn, ReleasedIn
  <1>9. StockChanges(p)' = StockChanges(p) + 1
    BY <1>8, RowsCounted, RowsCountedNext, OneMoreRow
  <1>10. Live("order.expired", o) \in FeedOf(p)
    BY <1>2, FeedOfRow DEF PoolEvents
  <1>11. Announces(AfterExpiry(w), p)
    BY <1>1, <1>9, <1>10, FigurePublished DEF Announces, AfterExpiry, StockEvent
  <1> QED
    BY <1>2, <1>6, <1>7, <1>11 DEF ShowsStock

\* Steps that leave the rows and the quantities.
LEMMA SameFigures ==
    ASSUME RowsFinite, UNCHANGED <<contributions, released>>, Placed' = Placed,
           \A p \in Pools : pools'[p].available_qty = pools[p].available_qty
    PROVE  AllSame
  <1>1. RowsFinite'
    BY DEF RowsFinite
  <1>2. ASSUME NEW p \in Pools PROVE StockSame(p)
    <2>1. ContributionsTo(p)' = ContributionsTo(p) /\ PlacedIn(p)' = PlacedIn(p) /\ ReleasedIn(p)' = ReleasedIn(p)
      BY DEF ContributionsTo, PlacedIn, ReleasedIn
    <2> QED
      BY <2>1, NoNewRows
  <1> QED
    BY <1>1, <1>2 DEF AllSame

\* What a step of a request does to stock, its list shows.
LEMMA SessionFigures ==
    ASSUME CommitInv, RowsFinite, NEW s \in Sessions, SessionStep(s)
    PROVE  AllSame \/ ShowsStock(Following(s))
  <1> USE DEF CommitInv, TypeInv, TypeOK
  <1>1. CASE CommitOrder(s)
    <2>1. Following(s) = AfterOrder(s)
      BY <1>1 DEF CommitOrder, Following
    <2> QED
      BY <1>1, <2>1, OrderFigure
  <1>2. CASE CommitContribution(s) /\ QuantityFits(s)
    <2>1. Following(s) = AfterContribution(s)
      BY <1>2 DEF CommitContribution, Following
    <2> QED
      BY <1>2, <2>1, ContributionFigure
  <1>3. CASE CommitContribution(s) /\ ~QuantityFits(s)
    BY <1>3, SameFigures DEF CommitContribution, Placed
  <1>4. CASE CommitClose(s)
    <2>1. Request[s].pool \in Pools /\ row[s] = pools[Request[s].pool]
      BY <1>4, SessionsRow DEF CommitClose, UnderPoolLock
    <2>2. \A p \in Pools : pools'[p].available_qty = pools[p].available_qty
      BY <1>4, <2>1 DEF CommitClose, Closed, PoolRow
    <2> QED
      BY <1>4, <2>2, SameFigures DEF CommitClose, Placed
  <1>5. CASE CreatePool(s)
    <2>1. \A p \in Pools : pools'[p].available_qty = pools[p].available_qty
      BY <1>5 DEF CreatePool, PoolRow
    <2> QED
      BY <1>5, <2>1, SameFigures DEF CreatePool, Placed
  <1>6. CASE CommitPayment(s)
    <2>1. Reference(s) \in Orders /\ orders[Reference(s)] # "absent"
      BY <1>6, RequestTypes DEF CommitPayment, OrderInv, OrderLockHeld
    <2>2. Placed' = Placed
      BY <1>6, <2>1 DEF CommitPayment, Placed
    <2> QED
      BY <1>6, <2>2, SameFigures DEF CommitPayment
  <1>7. CASE ~(CommitOrder(s) \/ CommitContribution(s) \/ CommitClose(s) \/ CreatePool(s) \/ CommitPayment(s))
    <2>1. UNCHANGED <<pools, contributions, orders, released>>
      BY <1>7
      DEF SessionStep, PoolStep, ContributionStep, OrderStep, PaymentStep, PayoutStep,
          LockForClose, LockForContribution, FindByKey, LockForOrder, FlushOrder, RereadByKey,
          InitializePayment, OpenTransaction, RecordEvent, CommitEvent, LockPaidOrder, LockForPayout,
          ComputeShares, CommitPayouts
    <2> QED
      BY <2>1, SameFigures, SMTT(30) DEF Placed
  <1> QED
    BY <1>1, <1>2, <1>3, <1>4, <1>5, <1>6, <1>7

\* And of a sweep.
LEMMA SweepFigures ==
    ASSUME CommitInv, RowsFinite, NEW w \in Sweepers, SweepStep(w)
    PROVE  AllSame \/ (pc[w] = "expire_commit" /\ ShowsStock(AfterExpiry(w)))
  <1>1. CASE CommitExpired(w)
    BY <1>1, ExpiryFigure DEF CommitExpired
  <1>2. CASE ~CommitExpired(w)
    <2>1. UNCHANGED <<contributions, orders, released, pools>>
      BY <1>2 DEF SweepStep, FindExpired, NextCandidate, LockExpired, LockExpiredPool
    <2> QED
      BY <2>1, SameFigures DEF Placed
  <1> QED
    BY <1>1, <1>2

\* A figure that was shown, or waits to be, is or does so after any step that
\* leaves the stock of its pool.
LEMMA FigureKept ==
    ASSUME NoticeInv, FigureInv, NEW p \in Pools, StockSame(p), shown[p] \subseteq shown'[p],
           \A n \in FeedOf(p) : told'[n] = told[n],
           Committed \subseteq Committed',
           \A x \in Processes : \A i \in DOMAIN todo'[x] :
               todo'[x][i].notice \in Committed => \E j \in DOMAIN todo[x] : todo[x][j] = todo'[x][i]
    PROVE  StockChanges(p)' > 0 => Latest(p)' \in shown'[p] \/ Awaited(p)'
  <1>1. StockChanges(p)' = StockChanges(p) /\ Latest(p)' = Latest(p)
    BY DEF StockSame, Latest, Figure
  <1>2. ASSUME NEW n \in FeedOf(p), n \in Committed, told[n] = 0, Carries(n, Latest(p))
        PROVE  Awaited(p)'
    <2>1. n \in Committed' /\ told'[n] = 0
      BY <1>2
    <2>2. \A x \in Processes : \A i \in DOMAIN todo'[x] :
             todo'[x][i].notice = n => Latest(p) \in todo'[x][i].shows
      <3>1. ASSUME NEW x \in Processes, NEW i \in DOMAIN todo'[x], todo'[x][i].notice = n
            PROVE  Latest(p) \in todo'[x][i].shows
        <4>1. PICK j \in DOMAIN todo[x] : todo[x][j] = todo'[x][i]
          BY <1>2, <3>1
        <4>2. todo[x][j].notice = n
          BY <3>1, <4>1
        <4>3. Latest(p) \in todo[x][j].shows
          BY <1>2, <4>2 DEF Carries
        <4> QED
          BY <4>1, <4>3
      <3> QED
        BY <3>1
    <2>3. Carries(n, Latest(p))'
      BY <1>1, <2>2 DEF Carries
    <2>4. n \in FeedOf(p)'
      BY DEF FeedOf, AllNotices, Jobs, Subject
    <2> QED
      BY <2>1, <2>3, <2>4 DEF Awaited
  <1> QED
    BY <1>1, <1>2 DEF FigureInv, Awaited

\* A commit and its list: nothing on it had been committed before.
LEMMA FigureCommit ==
    ASSUME NoticeInv, FigureInv, NEW x \in Processes, NEW news, TellsAll(news),
           AllSame \/ ShowsStock(news),
           todo' = [todo EXCEPT ![x] = news], UNCHANGED <<told, shown>>
    PROVE  FigureInv'
  <1>1. todo'[x] = news /\ \A y \in Processes : y # x => todo'[y] = todo[y]
    BY DEF NoticeInv, ListsFit
  <1>2. \A i \in DOMAIN news : news[i].notice \in Committed' \ Committed
    BY DEF TellsAll, NoticesIn
  <1>3. ASSUME NEW q \in Pools, StockSame(q)
        PROVE  StockChanges(q)' > 0 => Latest(q)' \in shown'[q] \/ Awaited(q)'
    <2>1. \A y \in Processes : \A i \in DOMAIN todo'[y] :
             todo'[y][i].notice \in Committed => \E j \in DOMAIN todo[y] : todo[y][j] = todo'[y][i]
      BY <1>1, <1>2
    <2>2. Committed \subseteq Committed'
      BY DEF TellsAll
    <2> QED
      BY <1>3, <2>1, <2>2, FigureKept
  <1>4. ASSUME NEW p \in Pools, Announces(news, p)
        PROVE  Awaited(p)'
    <2>1. PICK i \in DOMAIN news :
              /\ news[i].notice \in FeedOf(p)
              /\ Figure(pools'[p].available_qty, StockChanges(p) + 1) \in news[i].shows
      BY <1>4 DEF Announces
    <2>2. PICK n : n = news[i].notice
      OBVIOUS
    <2>3. n \in FeedOf(p) /\ n \in AllNotices /\ n \in Committed' /\ n \notin Committed
      BY <1>2, <2>1, <2>2 DEF FeedOf
    <2>4. told'[n] = 0 /\ ~InLists(n)
      BY <2>3 DEF NoticeInv, Grounded, CountersFit
    <2>5. Latest(p)' = Figure(pools'[p].available_qty, StockChanges(p) + 1)
      BY <1>4 DEF Announces, Latest, Figure
    <2>6. ASSUME NEW y \in Processes, NEW j \in DOMAIN todo'[y], todo'[y][j].notice = n
          PROVE  Latest(p)' \in todo'[y][j].shows
      <3>1. y = x
        BY <1>1, <2>4, <2>6 DEF InLists, NoticesIn
      <3>2. j = i
        BY <1>1, <2>2, <2>6, <3>1 DEF TellsAll, WellFormed, NoRepeats
      <3> QED
        BY <1>1, <2>1, <2>5, <3>1, <3>2
    <2>7. Carries(n, Latest(p))'
      BY <2>6 DEF Carries
    <2>8. n \in FeedOf(p)'
      BY <2>3 DEF FeedOf, AllNotices, Jobs, Subject
    <2> QED
      BY <2>3, <2>4, <2>7, <2>8 DEF Awaited
  <1>5. RowsFinite' /\ shown' = [p \in Pools |-> shown'[p]]
    BY DEF AllSame, ShowsStock, FigureInv
  <1>6. ASSUME NEW p \in Pools
        PROVE  StockChanges(p)' > 0 => Latest(p)' \in shown'[p] \/ Awaited(p)'
    BY <1>3, <1>4 DEF AllSame, ShowsStock
  <1> QED
    BY <1>5, <1>6 DEF FigureInv

\* Steps that commit nothing, publish nothing and put nothing on a list.
LEMMA FigureStays ==
    ASSUME NoticeInv, FigureInv, AllSame, UNCHANGED shown,
           \A n \in AllNotices \ Jobs : told'[n] = told[n],
           Committed \subseteq Committed',
           \A x \in Processes : todo'[x] = todo[x] \/ todo'[x] = <<>>
    PROVE  FigureInv'
  <1>1. \A p \in Pools : FeedOf(p) \subseteq AllNotices \ Jobs
    BY ByQueue DEF FeedOf
  <1>2. \A x \in Processes : \A i \in DOMAIN todo'[x] :
            todo'[x][i].notice \in Committed => \E j \in DOMAIN todo[x] : todo[x][j] = todo'[x][i]
    OBVIOUS
  <1>3. \A p \in Pools : StockChanges(p)' > 0 => Latest(p)' \in shown'[p] \/ Awaited(p)'
    BY <1>1, <1>2, FigureKept DEF AllSame
  <1> QED
    BY <1>3 DEF AllSame, FigureInv

\* The tables as they were.
LEMMA TablesSame ==
    ASSUME RowsFinite, UNCHANGED <<pools, contributions, orders, payments, released>>
    PROVE  AllSame /\ Committed' = Committed
  <1>1. ClosedPools' = ClosedPools /\ Placed' = Placed
    BY DEF ClosedPools, Placed
  <1> QED
    BY <1>1, SameFigures, NothingNew

\* A call: the figure of the event that is published is shown.
LEMMA SendShows ==
    ASSUME NoticeInv, FigureInv, NEW x \in Processes, Send(x)
    PROVE  FigureInv'
  <1>1. PICK m : m = Head(todo[x])
    OBVIOUS
  <1>2. PICK h : h = m.notice
    OBVIOUS
  <1> DEFINE q == todo[x]
  <1>3. WellFormed(q) /\ q # <<>> /\ todo' = [todo EXCEPT ![x] = Tail(q)] /\ UNCHANGED vars
    BY DEF Send, NoticeInv, ListsFit
  <1>4. h \in AllNotices \ NoticesIn(Tail(q))
    BY <1>1, <1>2, <1>3, HeadAndTail
  <1>5. AllSame /\ Committed' = Committed
    BY <1>3, TablesSame DEF vars, FigureInv
  <1>6. PICK S : q \in Seq(S)
    BY <1>3 DEF WellFormed, IsSeq
  <1>7. /\ 1 \in DOMAIN q /\ q[1] = m
        /\ \A i \in DOMAIN Tail(q) : i + 1 \in DOMAIN q /\ Tail(q)[i] = q[i + 1]
    <2>1. /\ Len(q) \in Nat \ {0}
          /\ DOMAIN q = 1..Len(q)
          /\ DOMAIN Tail(q) = 1..(Len(q) - 1)
          /\ \A i \in 1..(Len(q) - 1) : Tail(q)[i] = q[i + 1]
      BY <1>3, <1>6, HeadTailProperties, LenProperties, EmptySeq
    <2>2. Head(q) = q[1]
      BY <1>6
    <2> QED
      BY <1>1, <2>1, <2>2
  <1>8. todo'[x] = Tail(q) /\ \A y \in Processes : y # x => todo'[y] = todo[y]
    BY <1>3 DEF NoticeInv, ListsFit
  <1>9. \A y \in Processes : \A i \in DOMAIN todo'[y] : \E j \in DOMAIN todo[y] : todo[y][j] = todo'[y][i]
    BY <1>7, <1>8
  <1>10. /\ \A n \in AllNotices : n # h => told'[n] = told[n]
         /\ \A n \in AllNotices : h.via # "feed" => told'[n] = told[n]
         /\ shown' = [p \in Pools |-> shown'[p]]
         /\ \A p \in Pools : shown[p] \subseteq shown'[p]
         /\ h.via = "feed" => \A p \in Pools : Subject(h) = p => m.shows \subseteq shown'[p]
    <2>1. CASE h.via = "feed"
      <3>1. told' = [told EXCEPT ![h] = @ + 1] /\ shown' = [shown EXCEPT ![Subject(h)] = @ \cup m.shows]
        BY <1>1, <1>2, <2>1 DEF Send
      <3> QED
        BY <1>4, <2>1, <3>1 DEF NoticeInv, CountersFit, FigureInv
    <2>2. CASE h.via # "feed"
      <3>1. told' = told /\ shown' = shown
        BY <1>1, <1>2, <2>2 DEF Send
      <3> QED
        BY <2>2, <3>1 DEF FigureInv
    <2> QED
      BY <2>1, <2>2
  <1>11. ASSUME NEW p \in Pools
         PROVE  StockChanges(p)' > 0 => Latest(p)' \in shown'[p] \/ Awaited(p)'
    <2>1. CASE \A n \in FeedOf(p) : told'[n] = told[n]
      BY <1>5, <1>9, <1>10, <2>1, FigureKept DEF AllSame
    <2>2. CASE h \in FeedOf(p)
      <3>1. Latest(p)' = Latest(p) /\ StockChanges(p)' = StockChanges(p)
        BY <1>5 DEF AllSame, StockSame, Latest, Figure
      <3>2. CASE StockChanges(p) > 0 /\ Latest(p) \in shown[p]
        BY <1>10, <3>1, <3>2
      <3>3. ASSUME NEW n \in FeedOf(p), n \in Committed, told[n] = 0, Carries(n, Latest(p))
            PROVE  Latest(p)' \in shown'[p] \/ Awaited(p)'
        <4>1. CASE n = h
          <5>1. Latest(p) \in m.shows
            BY <1>2, <1>7, <3>3, <4>1 DEF Carries
          <5> QED
            BY <1>10, <2>2, <3>1, <5>1 DEF FeedOf
        <4>2. CASE n # h
          <5>1. told'[n] = 0 /\ n \in Committed'
            BY <1>5, <1>10, <3>3, <4>2 DEF FeedOf
          <5>2. ASSUME NEW y \in Processes, NEW i \in DOMAIN todo'[y], todo'[y][i].notice = n
                PROVE  Latest(p) \in todo'[y][i].shows
            <6>1. PICK j \in DOMAIN todo[y] : todo[y][j] = todo'[y][i]
              BY <1>9, <5>2
            <6>2. todo[y][j].notice = n
              BY <5>2, <6>1
            <6>3. Latest(p) \in todo[y][j].shows
              BY <3>3, <6>2 DEF Carries
            <6> QED
              BY <6>1, <6>3
          <5>3. Carries(n, Latest(p))'
            BY <3>1, <5>2 DEF Carries
          <5>4. n \in FeedOf(p)'
            BY <3>3 DEF FeedOf, AllNotices, Jobs, Subject
          <5> QED
            BY <5>1, <5>3, <5>4 DEF Awaited
        <4> QED
          BY <4>1, <4>2
      <3> QED
        BY <3>1, <3>2, <3>3 DEF FigureInv, Awaited
    <2> QED
      BY <1>10, <2>1, <2>2 DEF FeedOf
  <1> QED
    BY <1>5, <1>10, <1>11 DEF FigureInv, AllSame

\* The latest figure is shown or on its way through every step.
LEMMA FigureInvStep ==
    ASSUME NoticeInv, FigureInv, [NotifyNext]_<<vars, sending>>
    PROVE  FigureInv'
  <1>0. CommitInv /\ RowsFinite
    BY DEF NoticeInv, FigureInv
  <1>1. ASSUME NEW s \in Sessions, Serve(s) PROVE FigureInv'
    <2>1. TellsAll(Following(s)) /\ (AllSame \/ ShowsStock(Following(s)))
      BY <1>0, <1>1, SessionTells, SessionFigures DEF Serve
    <2> QED
      BY <1>1, <2>1, FigureCommit DEF Serve
  <1>2. ASSUME NEW w \in Sweepers, RunSweep(w) PROVE FigureInv'
    <2>1. PICK news : /\ TellsAll(news) /\ (AllSame \/ ShowsStock(news))
                      /\ todo' = [todo EXCEPT ![w] = news]
      <3>1. CASE pc[w] = "expire_commit"
        BY <1>0, <1>2, <3>1, SweepTells, SweepFigures DEF RunSweep
      <3>2. CASE pc[w] # "expire_commit"
        BY <1>0, <1>2, <3>2, SweepTells, SweepFigures DEF RunSweep
      <3> QED
        BY <3>1, <3>2
    <2>2. UNCHANGED <<told, shown>>
      BY <1>2 DEF RunSweep
    <2> QED
      BY <2>1, <2>2, FigureCommit
  <1>3. ASSUME UNCHANGED <<pools, contributions, orders, payments, released>>, UNCHANGED shown,
               \A n \in AllNotices \ Jobs : told'[n] = told[n],
               \A x \in Processes : todo'[x] = todo[x] \/ todo'[x] = <<>>
        PROVE  FigureInv'
    BY <1>0, <1>3, TablesSame, FigureStays
  <1>4. ASSUME NEW x \in Processes, FailRequest(x) \/ FailSweep(x) PROVE FigureInv'
    <2>1. todo' = [todo EXCEPT ![x] = <<>>] /\ UNCHANGED <<told, shown>>
          /\ UNCHANGED <<pools, contributions, orders, payments, released>>
      BY <1>4 DEF FailRequest, FailSweep
    <2>2. \A y \in Processes : todo'[y] = todo[y] \/ todo'[y] = <<>>
      BY <2>1 DEF NoticeInv, ListsFit
    <2> QED
      BY <1>3, <2>1, <2>2
  <1>5. ASSUME NEW n \in Jobs, RunJob(n) \/ FailJob(n) PROVE FigureInv'
    <2>1. \A k \in AllNotices \ Jobs : told'[k] = told[k]
      BY <1>5 DEF RunJob, FailJob, NoticeInv, CountersFit
    <2>2. UNCHANGED <<pools, contributions, orders, payments, released, shown, todo>>
      BY <1>5 DEF RunJob, FailJob, vars
    <2> QED
      BY <1>3, <2>1, <2>2
  <1>6. ASSUME NEW x \in Processes, RollBack(x) PROVE FigureInv'
    BY <1>3, <1>6 DEF RollBack, Abort, AbortSweep, sending
  <1>7. ASSUME UNCHANGED sending, (\E o \in Orders : Age(o)) \/ UNCHANGED vars PROVE FigureInv'
    BY <1>3, <1>7 DEF Age, vars, sending
  <1>8. AllQuiet => UNCHANGED sending /\ UNCHANGED vars
    BY DEF AllQuiet, Quiet
  <1> QED
    BY <1>1, <1>2, <1>4, <1>5, <1>6, <1>7, <1>8, SendShows DEF NotifyNext

\* At first no stock has changed.
LEMMA FigureInvInit == ASSUME NotifyInit PROVE FigureInv
  <1>1. Init /\ shown = [p \in Pools |-> {}]
    BY DEF NotifyInit
  <1>2. RowsFinite
    BY <1>1, GoodsInvInit DEF GoodsInv
  <1>3. CommitInv
    BY <1>1, CommitInvInit
  <1>4. ASSUME NEW p \in Pools PROVE StockChanges(p) = 0
    <2>1. ContributionsTo(p) = {} /\ PlacedIn(p) = {} /\ ReleasedIn(p) = {}
      BY <1>1 DEF Init, ContributionsTo, PlacedIn, ReleasedIn, Placed
    <2> QED
      BY <1>2, <1>3, <2>1, RowsCounted, FS_EmptySet
  <1> QED
    BY <1>1, <1>2, <1>4 DEF FigureInv

-----------------------------------------------------------------------------
(***************************************************************************)
(*                               Theorems                                  *)
(***************************************************************************)

\* Every e-mail, admin notice, feed event and durable copy is owed from the
\* commit it tells of on, told at most once and never without that commit,
\* whatever fails before or after it (core/jobs.py, core/realtime.py and the
\* calls that follow each service's commit).
THEOREM Announced == NotifySpec => AnnouncedOnce
  <1>1. NotifyInit => NoticeInv /\ Promised!Init
    BY NoticeInvInit DEF Promised!Init, Committed, NotifyInit
  <1>2. NoticeInv /\ [NotifyNext]_<<vars, sending>> => NoticeInv' /\ [Promised!Next]_Promised!state
    BY NoticeInvStep
  <1>3. QED
    BY <1>1, <1>2, PTL DEF NotifySpec, AnnouncedOnce, Promised!Spec

\* A durable copy is queued, written or failed only of an event that went out
\* live, whatever fails in between (features/feed/service.py, PUBLISH first).
THEOREM CopiesHaveEvents == NotifySpec => []CopiesFollowTheFeed
  <1>1. NotifyInit => NoticeInv /\ CopyInv
    BY NoticeInvInit, CopyInvInit
  <1>2. NoticeInv /\ CopyInv /\ [NotifyNext]_<<vars, sending>> => NoticeInv' /\ CopyInv'
    BY NoticeInvStep, CopyInvStep
  <1>3. NoticeInv /\ CopyInv => CopiesFollowTheFeed
    <2>1. SUFFICES ASSUME NoticeInv, CopyInv, NEW n \in Jobs, n.via = "copy",
                          queued[n] > 0 \/ told[n] > 0 \/ n \in failed
                   PROVE  told[LiveOf(n)] = 1
      BY DEF CopiesFollowTheFeed, LiveOf
    <2>2. n \in AllNotices
      BY DEF AllNotices
    <2>3. LiveOf(n) \in AllNotices
      BY <2>1, <2>2, CopyHasEvent
    <2>4. told[LiveOf(n)] > 0
      BY <2>1 DEF CopyInv
    <2>5. told[LiveOf(n)] \in Nat /\ told[LiveOf(n)] <= 1
      BY <2>1, <2>3 DEF NoticeInv, CountersFit, OnePlace
    <2>6. QED
      BY <2>4, <2>5
  <1>4. QED
    BY <1>1, <1>2, <1>3, PTL DEF NotifySpec

\* Who is told of success, having placed or found an order, contributed, closed or
\* paid, has published every event and enqueued every job of it; what is missing
\* then has failed in the worker (core/jobs.py; a call that fails after the commit
\* turns the answer into a 500).
THEOREM SuccessIsComplete == NotifySpec => []SuccessMeansSent
  <1>1. NotifyInit => NoticeInv /\ SentInv
    BY NoticeInvInit, SentInvInit
  <1>2. NoticeInv /\ SentInv /\ [NotifyNext]_<<vars, sending>> => NoticeInv' /\ SentInv'
    BY NoticeInvStep, SentInvStep
  <1>3. NoticeInv /\ SentInv => SuccessMeansSent
    <2>1. SUFFICES ASSUME NoticeInv, SentInv, NEW s \in Sessions, answer[s] \in {"ok", s}, todo[s] = <<>>,
                          NEW n \in NoticesOf(s), n \in Lost
                   PROVE  n \in failed
      BY DEF SuccessMeansSent
    <2>2. Somewhere(n, s) /\ n \in AllNotices
      BY <2>1 DEF SentInv, Success, NoticesOf
    <2>3. n \notin NoticesIn(todo[s])
      BY <2>1, NoneToSend
    <2>4. ~(n \in Jobs /\ queued[n] > 0)
      BY <2>1 DEF Lost, Owed
    <2>5. ~(told[n] > 0)
      <3>1. told[n] # 1 /\ told[n] \in Nat /\ told[n] <= 1
        BY <2>1, <2>2 DEF Lost, ToldOnce, NoticeInv, CountersFit, OnePlace
      <3> QED
        BY <3>1
    <2> QED
      BY <2>2, <2>3, <2>4, <2>5 DEF Somewhere
  <1>4. QED
    BY <1>1, <1>2, <1>3, PTL DEF NotifySpec

\* When every event of a pool has been published, the quantity that is left is
\* among those its watchers have seen, in whatever order the events came
\* (features/feed/service.py, called after the lock is gone).
THEOREM FeedIsUpToDate == NotifySpec => []FeedTellsStock
  <1>1. NotifyInit => NoticeInv /\ FigureInv
    BY NoticeInvInit, FigureInvInit
  <1>2. NoticeInv /\ FigureInv /\ [NotifyNext]_<<vars, sending>> => NoticeInv' /\ FigureInv'
    BY NoticeInvStep, FigureInvStep
  <1>3. NoticeInv /\ FigureInv => FeedTellsStock
    <2>1. SUFFICES ASSUME NoticeInv, FigureInv, NEW p \in Pools, StockChanges(p) > 0,
                          \A n \in {Live(e[1], e[2]) : e \in PoolEvents} :
                              Subject(n) = p /\ Happened(n) => told[n] = 1
                   PROVE  Latest(p) \in shown[p]
      BY DEF FeedTellsStock, Latest
    <2>2. ASSUME NEW n \in FeedOf(p), n \in Committed
          PROVE  told[n] = 1
      <3>1. n \in AllNotices /\ Subject(n) = p /\ Happened(n) /\ n.via = "feed"
        BY <2>2 DEF FeedOf, Committed
      <3>2. <<n.what, n.about>> \in PoolEvents /\ n = Live(n.what, n.about)
        BY <3>1, Kinds DEF Copy
      <3>3. <<n.what, n.about>>[1] = n.what /\ <<n.what, n.about>>[2] = n.about
        OBVIOUS
      <3> QED
        BY <2>1, <3>1, <3>2, <3>3
    <2> QED
      BY <2>1, <2>2 DEF FigureInv, Awaited
  <1>4. QED
    BY <1>1, <1>2, <1>3, PTL DEF NotifySpec
===============================================================================
