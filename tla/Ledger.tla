-------------------------------- MODULE Ledger --------------------------------
(***************************************************************************)
(* What the services promise of the tables: each request takes effect at   *)
(* once, alone, on the rows as they are, or not at all.  There are no      *)
(* locks, no sessions and no copies here; FarmLink, which has all three,   *)
(* is shown to implement this module with the tables mapped to themselves. *)
(***************************************************************************)
EXTENDS Requests

VARIABLES pools, contributions, orders, payments, processed_events, payouts

ledger == <<pools, contributions, orders, payments, processed_events, payouts>>

Init ==
    /\ pools = [p \in Pools |-> NoRow]
    /\ contributions = {}
    /\ orders = [o \in Orders |-> "absent"]
    /\ payments = {}
    /\ processed_events = {}
    /\ payouts = {}

CreatePool(p) ==
    /\ pools[p].status = "absent"
    /\ pools' = [pools EXCEPT ![p].status = "open"]
    /\ UNCHANGED <<contributions, orders, payments, processed_events, payouts>>

\* Closing freezes the pool; the quantities stay what they are at that moment.
ClosePool(p) ==
    /\ pools[p].status = "open"
    /\ pools' = [pools EXCEPT ![p] = Closed(pools[p])]
    /\ UNCHANGED <<contributions, orders, payments, processed_events, payouts>>

Contribute(c) ==
    LET p == Request[c].pool IN
    /\ pools[p].status = "open"
    /\ c \notin contributions
    /\ pools[p].total_qty + Request[c].qty <= MaxQty
    /\ pools' = [pools EXCEPT ![p] = Stocked(pools[p], Request[c].qty)]
    /\ contributions' = contributions \cup {c}
    /\ UNCHANGED <<orders, payments, processed_events, payouts>>

\* The stock is there, and no order of this buyer has this key.
PlaceOrder(o) ==
    LET p == Request[o].pool IN
    /\ pools[p].status = "open"
    /\ Request[o].qty <= pools[p].available_qty
    /\ orders[o] = "absent"
    /\ \A t \in Orders : orders[t] # "absent" => ~SameKey(o, t)
    /\ pools' = [pools EXCEPT ![p] = Sold(pools[p], Request[o].qty)]
    /\ orders' = [orders EXCEPT ![o] = "pending"]
    /\ UNCHANGED <<contributions, payments, processed_events, payouts>>

\* Only an unpaid order is released, so it is released once.
ExpireOrder(o) ==
    LET p == Request[o].pool IN
    /\ orders[o] = "pending"
    /\ pools' = [pools EXCEPT ![p] = Released(pools[p], Request[o].qty)]
    /\ orders' = [orders EXCEPT ![o] = "expired"]
    /\ UNCHANGED <<contributions, payments, processed_events, payouts>>

\* An event and its effect are recorded together, and an event once.
RecordEvent(w) ==
    /\ Request[w].event \notin processed_events
    /\ processed_events' = processed_events \cup {Request[w].event}
    /\ UNCHANGED <<pools, contributions, orders, payments, payouts>>

\* The first success event of an order pays it, whether it is pending or expired.
SettleOrder(w) ==
    LET o == Request[w].reference IN
    /\ Request[w].type = "charge.success"
    /\ Request[w].event \notin processed_events
    /\ orders[o] \in {"pending", "expired"}
    /\ \A v \in payments : Request[v].reference # o
    /\ orders' = [orders EXCEPT ![o] = "paid"]
    /\ payments' = payments \cup {w}
    /\ processed_events' = processed_events \cup {Request[w].event}
    /\ UNCHANGED <<pools, contributions, payouts>>

FarmersOf(p) == {Request[c].farmer : c \in {d \in contributions : Request[d].pool = p}}

\* Every contributor of a closed pool gets one row, all in the same step, once.
ShareOut(p) ==
    LET added == payouts' \ payouts IN
    /\ pools[p].status = "closed"
    /\ \A r \in payouts : r.pool # p
    /\ payouts \subseteq payouts'
    /\ \A r \in added : r.pool = p
    /\ {r.farmer : r \in added} = FarmersOf(p)
    /\ \A r, q \in added : r.farmer = q.farmer => r = q
    /\ UNCHANGED <<pools, contributions, orders, payments, processed_events>>

Next ==
    \/ \E p \in Pools : CreatePool(p) \/ ClosePool(p) \/ ShareOut(p)
    \/ \E c \in Contributions : Contribute(c)
    \/ \E o \in Orders : PlaceOrder(o) \/ ExpireOrder(o)
    \/ \E w \in Webhooks : RecordEvent(w) \/ SettleOrder(w)

Spec == Init /\ [][Next]_ledger
===============================================================================
