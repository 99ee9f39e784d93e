--------------------------- MODULE PaymentService ---------------------------
(***************************************************************************)
(* features/payments/service.py: starting a Paystack transaction, and the  *)
(* webhook that turns a successful charge into a paid order.               *)
(*                                                                         *)
(* Deliveries carry a valid signature: one that does not is refused with   *)
(* 401 before it reaches the database (verify_webhook_signature).          *)
(***************************************************************************)
EXTENDS Store

Reference(s) == Request[s].reference

\* initialize_payment reads the order without a lock and writes nothing.
InitializePayment(s) ==
    LET o == Request[s].order IN
    /\ pc[s] = "start"
    /\ Request[s].op = "initialize"
    /\ \/ orders[o] = "absent" /\ Reply(s, "not_found")
       \/ /\ orders[o] # "absent"
          /\ Request[o].buyer # Request[s].buyer
          /\ Reply(s, "forbidden")
       \/ /\ orders[o] \in {"paid", "expired"}
          /\ Request[o].buyer = Request[s].buyer
          /\ Reply(s, "not_pending")
       \/ /\ orders[o] = "pending"
          /\ Request[o].buyer = Request[s].buyer
          /\ Goto(s, "paystack_open")
    /\ UNCHANGED <<tables, locks, row, due, background>>

\* By the time Paystack is called the order may no longer be pending.  Paystack
\* opens a transaction whose reference is the order id, or refuses, or has
\* opened it and the reply is lost.
OpenTransaction(s) ==
    /\ pc[s] = "paystack_open"
    /\ \/ /\ initialized' = initialized \cup {Request[s].order}
          /\ Reply(s, "ok") \/ Reply(s, "error")
       \/ Reply(s, "error") /\ UNCHANGED initialized
    /\ UNCHANGED <<tables, locks, row, due, sweep, aged, released, faults>>

\* Paystack reports on transactions it has; an event can also carry a
\* reference that is missing, malformed or unknown (NoOrder).
Deliverable(s) == Reference(s) \in initialized \cup {NoOrder}

\* Transactions that inserted their event row and have not committed it.
Recording == {t \in Webhooks : pc[t] \in {"event_commit", "webhook_order", "payment_commit"}}

\* An INSERT that meets an uncommitted row with the same event id waits for it.
EventIsFree(s) == \A t \in Recording : Request[t].event # Request[s].event

\* What an event can lead to: only a successful charge of an order has an effect.
ActedOn(s) == Request[s].type = "charge.success" /\ Reference(s) # NoOrder

RecordEvent(s) ==
    /\ pc[s] = "start"
    /\ Request[s].op = "webhook"
    /\ Deliverable(s)
    /\ EventIsFree(s)
    /\ \/ Request[s].event \in processed_events /\ Reply(s, "ok")
       \/ /\ Request[s].event \notin processed_events
          /\ Goto(s, IF ActedOn(s) THEN "webhook_order" ELSE "event_commit")
    /\ UNCHANGED <<tables, locks, row, due, background>>

CommitEvent(s) ==
    /\ pc[s] = "event_commit"
    /\ processed_events' = processed_events \cup {Request[s].event}
    /\ Reply(s, "ok")
    /\ UNCHANGED <<pools, contributions, orders, payments, payouts>>
    /\ UNCHANGED <<locks, row, due, background>>

\* Slips: the status is not looked at, or an expired order counts as settled.
AlreadySettled_never(o) == FALSE

AlreadySettled_or_expired(o) == orders[o] \in {"paid", "expired"}

\* Under the order's lock a paid order ends the transaction; any other status,
\* expired included, goes on to be paid.
AlreadySettled(o) == orders[o] = "paid"

LockPaidOrder(s) ==
    LET o == Reference(s) IN
    /\ pc[s] = "webhook_order"
    /\ OrderIsFree(o)
    /\ \/ /\ orders[o] = "absent" \/ AlreadySettled(o)
          /\ processed_events' = processed_events \cup {Request[s].event}
          /\ Reply(s, "ok")
          /\ UNCHANGED order_lock
       \/ /\ orders[o] # "absent"
          /\ ~AlreadySettled(o)
          /\ LockOrder(s, o)
          /\ Goto(s, "payment_commit")
          /\ UNCHANGED processed_events
    /\ UNCHANGED <<pools, contributions, orders, payments, payouts>>
    /\ UNCHANGED <<pool_lock, row, due, background>>

PaymentsOf(o) == {w \in payments : Reference(w) = o}

\* The payment row has the amount the event carries, Request[s].amount in kobo;
\* the order's total is not looked at.  An amount the column cannot hold, or a
\* second row for the order (uq_payments_order_id), would fail with nothing to
\* catch it: the event is not recorded and Paystack sends it again.
CommitPayment(s) ==
    LET o == Reference(s)
        inserts == PaymentsOf(o) = {} /\ Request[s].amount <= MaxTotal
    IN
    /\ pc[s] = "payment_commit"
    /\ UnlockOrder(o)
    /\ \/ /\ inserts
          /\ orders' = [orders EXCEPT ![o] = "paid"]
          /\ payments' = payments \cup {s}
          /\ processed_events' = processed_events \cup {Request[s].event}
          /\ Reply(s, "ok")
       \/ /\ ~inserts
          /\ Reply(s, "error")
          /\ UNCHANGED <<orders, payments, processed_events>>
    /\ UNCHANGED <<pools, contributions, payouts>>
    /\ UNCHANGED <<pool_lock, row, due, background>>

PaymentStep(s) ==
    \/ InitializePayment(s) \/ OpenTransaction(s) \/ RecordEvent(s) \/ CommitEvent(s)
    \/ LockPaidOrder(s) \/ CommitPayment(s)
=============================================================================
