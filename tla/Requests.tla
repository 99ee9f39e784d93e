------------------------------ MODULE Requests ------------------------------
(***************************************************************************)
(* The workload: which HTTP requests and webhook deliveries arrive, and    *)
(* the limits of the columns they write to.  Every module of the core      *)
(* reads these constants and none changes them.                            *)
(*                                                                         *)
(* A session is one request handled by one database session.  The row a    *)
(* session inserts is identified by the session: an order id IS the        *)
(* session that placed it, so the immutable columns of an order (pool,     *)
(* buyer, qty, key) are the fields of its request.                         *)
(***************************************************************************)
EXTENDS Naturals, FiniteSets, FiniteSetsExt

CONSTANTS
    Request,    \* [session |-> the request it carries], see Ops below
    Sweepers,   \* API instances whose scheduler runs the expiry sweep
    Pools,      \* pool ids
    Price,      \* [pool |-> price per unit, in kobo]
    NoKey,      \* an order sent without an Idempotency-Key header
    NoOrder,    \* a webhook reference that names no order of ours
    Free,       \* the holder of a row lock nobody holds
    MaxQty,     \* largest value of an Integer quantity column
    MaxTotal    \* largest value of a Numeric(12, 2) money column, in kobo

Sessions == DOMAIN Request

Ops == {"create_pool", "close_pool", "contribute", "order",
        "initialize", "webhook", "distribute"}

\* What a handler can answer; create_order answers with an order id instead.
Outcomes == {"none", "ok", "not_found", "closed", "insufficient", "forbidden",
             "not_pending", "not_closed", "already_paid", "error"}

Carrying(op) == {s \in Sessions : Request[s].op = op}
Orders        == Carrying("order")
Contributions == Carrying("contribute")
Webhooks      == Carrying("webhook")
Distributions == Carrying("distribute")

Processes == Sessions \cup Sweepers

\* The schemas accept positive quantities only; reading Request is total.
ASSUME RequestsAssumption ==
    /\ \A s \in Sessions : Request[s].op \in Ops
    /\ \A s \in Sessions : Request[s].op \notin {"initialize", "webhook"} => Request[s].pool \in Pools
    /\ \A s \in Orders \cup Contributions : Request[s].qty \in Nat \ {0}
    /\ \A s \in Webhooks : Request[s].reference \in Orders \cup {NoOrder} /\ Request[s].amount \in Nat
    /\ \A s \in Carrying("initialize") : Request[s].order \in Orders

ASSUME NamesAssumption ==
    /\ Sessions \cap Sweepers = {}
    /\ Free \notin Processes
    /\ NoOrder \notin Orders
    /\ Sessions \cap Outcomes = {}

ASSUME LimitsAssumption ==
    /\ MaxQty \in Nat
    /\ MaxTotal \in Nat
    /\ Price \in [Pools -> Nat]

-----------------------------------------------------------------------------

\* A pool row.  "absent" is the row before create_pool inserts it.
PoolRow == [status : {"absent", "open", "closed"}, total_qty : Nat, available_qty : Nat]

NoRow == [status |-> "absent", total_qty |-> 0, available_qty |-> 0]

Total(o) == Price[Request[o].pool] * Request[o].qty

\* Slip: the key looked up without its buyer.
SameKey_any_buyer(s, t) == Request[s].key # NoKey /\ Request[s].key = Request[t].key

\* The partial unique index on (buyer_id, idempotency_key).
SameKey(s, t) ==
    /\ Request[s].key # NoKey
    /\ Request[s].key = Request[t].key
    /\ Request[s].buyer = Request[t].buyer

Sold(r, qty)     == [r EXCEPT !.available_qty = @ - qty]
Released(r, qty) == [r EXCEPT !.available_qty = @ + qty]
Stocked(r, qty)  == [status |-> r.status, total_qty |-> r.total_qty + qty,
                     available_qty |-> r.available_qty + qty]
Closed(r)        == [r EXCEPT !.status = "closed"]
=============================================================================
