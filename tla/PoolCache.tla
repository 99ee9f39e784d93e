------------------------------ MODULE PoolCache ------------------------------
(***************************************************************************)
(* The cache-aside copies of pools in Redis: three listings (all, open,    *)
(* closed) and one entry per pool, beside the pools table they copy.       *)
(*                                                                         *)
(* A reader looks in Redis, then queries the table, then writes what it    *)
(* saw back to Redis: three round trips.  A writer commits a change, then  *)
(* deletes every key the change may show through: two more.  Nothing holds *)
(* a lock across these steps.  A pool is its status and a version that     *)
(* stands for its quantities.                                              *)
(***************************************************************************)
EXTENDS Naturals

CONSTANTS
    Pools,
    Readers,     \* GET /pools and GET /pools/{id} in flight
    Writers,     \* requests and sweeps that change a pool
    Miss,        \* what Redis answers for a key it does not hold
    MaxVersion,  \* bound on changes per pool, for TLC
    MaxLost      \* bound on invalidations that fail, for TLC

Lists == {"all", "open", "closed"}
Keys  == Lists \cup Pools

ASSUME KeysAssumption == Lists \cap Pools = {} /\ MaxVersion \in Nat /\ MaxLost \in Nat

VARIABLES
    db,        \* [Pools -> the committed row]
    cache,     \* [Keys -> the cached copy, or Miss]
    expiring,  \* keys Redis will drop when their time to live is over
    read,      \* [Readers -> [pc, key, seen]]
    write,     \* [Writers -> [pc, keys]], the keys still to be deleted
    damaged,   \* history: keys filled with a superseded copy or not invalidated
    lost       \* history: invalidations that failed

vars == <<db, cache, expiring, read, write, damaged, lost>>

Row == [status : {"absent", "open", "closed"}, version : 0..MaxVersion]

\* What a query for a key returns: one pool, or the pools a listing shows.
View(k) ==
    IF k \in Pools THEN db[k]
    ELSE [p \in {q \in Pools : db[q].status \in IF k = "all" THEN {"open", "closed"} ELSE {k}}
            |-> db[p]]

Init ==
    /\ db = [p \in Pools |-> [status |-> "absent", version |-> 0]]
    /\ cache = [k \in Keys |-> Miss]
    /\ expiring = {}
    /\ read = [r \in Readers |-> [pc |-> "idle", key |-> "all", seen |-> Miss]]
    /\ write = [w \in Writers |-> [pc |-> "idle", keys |-> {}]]
    /\ damaged = {}
    /\ lost = 0

-----------------------------------------------------------------------------

\* cache_get misses; a hit is answered at once and changes nothing.
Look(r, k) ==
    /\ read[r].pc = "idle"
    /\ cache[k] = Miss
    /\ read' = [read EXCEPT ![r] = [pc |-> "query", key |-> k, seen |-> Miss]]
    /\ UNCHANGED <<db, cache, expiring, write, damaged, lost>>

\* Slip: the answer 404 is cached like any other.
Found_or_not(k) == TRUE

\* get_pool raises PoolNotFound, so an absent pool is never cached.
Found(k) == k \in Lists \/ db[k].status # "absent"

Query(r) ==
    /\ read[r].pc = "query"
    /\ read' = [read EXCEPT ![r] =
                  IF Found(@.key) THEN [pc |-> "fill", key |-> @.key, seen |-> View(@.key)]
                                  ELSE [@ EXCEPT !.pc = "idle"]]
    /\ UNCHANGED <<db, cache, expiring, write, damaged, lost>>

\* Slip: SET without EX, which also clears an earlier time to live.
Fill_for_ever(r) ==
    /\ read[r].pc = "fill"
    /\ cache' = [cache EXCEPT ![read[r].key] = read[r].seen]
    /\ expiring' = expiring \ {read[r].key}
    /\ read' = [read EXCEPT ![r] = [pc |-> "idle", key |-> @.key, seen |-> Miss]]
    /\ damaged' = IF read[r].seen = View(read[r].key) THEN damaged \ {read[r].key}
                                                     ELSE damaged \cup {read[r].key}
    /\ UNCHANGED <<db, write, lost>>

\* cache_set, with the answer the query gave, however old it is by now.
Fill(r) ==
    /\ read[r].pc = "fill"
    /\ cache' = [cache EXCEPT ![read[r].key] = read[r].seen]
    /\ expiring' = expiring \cup {read[r].key}
    /\ read' = [read EXCEPT ![r] = [pc |-> "idle", key |-> @.key, seen |-> Miss]]
    /\ damaged' = IF read[r].seen = View(read[r].key) THEN damaged \ {read[r].key}
                                                     ELSE damaged \cup {read[r].key}
    /\ UNCHANGED <<db, write, lost>>

\* The time to live is over.
Expire(k) ==
    /\ k \in expiring
    /\ cache' = [cache EXCEPT ![k] = Miss]
    /\ expiring' = expiring \ {k}
    /\ damaged' = damaged \ {k}
    /\ UNCHANGED <<db, read, write, lost>>

-----------------------------------------------------------------------------

\* Slip: a suffix no reader uses.
Touched_misspelt(p) == {"all", "open", "close", p}

\* invalidate_pool_cache(pool_id): the listings, whatever the change, and the pool.
Touched(p) == Lists \cup {p}

Changed(w, p, status, keys) ==
    /\ write[w].pc = "idle"
    /\ db[p].version < MaxVersion
    /\ db' = [db EXCEPT ![p] = [status |-> status, version |-> @.version + 1]]
    /\ write' = [write EXCEPT ![w] = [pc |-> "invalidate", keys |-> keys]]
    /\ UNCHANGED <<cache, expiring, read, damaged, lost>>

\* create_pool knows no reader of the new id and deletes the listings only.
Create(w, p) == db[p].status = "absent" /\ Changed(w, p, "open", Lists)

Close(w, p) == db[p].status = "open" /\ Changed(w, p, "closed", Touched(p))

\* A contribution or an order, while open; an expired order, at any time.
Restock(w, p) == db[p].status # "absent" /\ Changed(w, p, db[p].status, Touched(p))

\* cache_delete: one DEL for all keys.
Invalidate(w) ==
    /\ write[w].pc = "invalidate"
    /\ cache' = [k \in Keys |-> IF k \in write[w].keys THEN Miss ELSE cache[k]]
    /\ expiring' = expiring \ write[w].keys
    /\ damaged' = damaged \ write[w].keys
    /\ write' = [write EXCEPT ![w] = [pc |-> "idle", keys |-> {}]]
    /\ UNCHANGED <<db, read, lost>>

\* The process dies or Redis fails after the commit: nobody deletes the keys.
LoseInvalidation(w) ==
    /\ write[w].pc = "invalidate"
    /\ lost < MaxLost
    /\ lost' = lost + 1
    /\ damaged' = damaged \cup {k \in write[w].keys : cache[k] # Miss}
    /\ write' = [write EXCEPT ![w] = [pc |-> "idle", keys |-> {}]]
    /\ UNCHANGED <<db, cache, expiring, read>>

-----------------------------------------------------------------------------

Next ==
    \/ \E r \in Readers : (\E k \in Keys : Look(r, k)) \/ Query(r) \/ Fill(r)
    \/ \E w \in Writers :
          \/ \E p \in Pools : Create(w, p) \/ Close(w, p) \/ Restock(w, p)
          \/ Invalidate(w) \/ LoseInvalidation(w)
    \/ \E k \in Keys : Expire(k)

Spec == Init /\ [][Next]_vars

\* Redis drops every key whose time to live is over; nothing else is promised.
FairSpec == Spec /\ \A k \in Keys : WF_vars(Expire(k))

-----------------------------------------------------------------------------
(***************************************************************************)
(*                               Properties                                *)
(***************************************************************************)

\* What Redis may hold for a key: rows of pools, and the pools it is about.
Copy(k) == IF k \in Pools THEN Row ELSE UNION {[S -> Row] : S \in SUBSET Pools}

CopiesOK ==
    /\ \A k \in Keys : cache[k] # Miss => cache[k] \in Copy(k)
    /\ \A r \in Readers : read[r].pc = "fill" => read[r].seen \in Copy(read[r].key)

PartsOK ==
    /\ db \in [Pools -> Row]
    /\ DOMAIN cache = Keys
    /\ expiring \subseteq Keys
    /\ \A r \in Readers : read[r].pc \in {"idle", "query", "fill"} /\ read[r].key \in Keys
    /\ \A w \in Writers : write[w].pc \in {"idle", "invalidate"} /\ write[w].keys \subseteq Keys
    /\ damaged \subseteq Keys
    /\ lost \in 0..MaxLost

\* Every variable has its type; in particular no listing is ever stored under the
\* key of a pool, or a pool under that of a listing.
TypeOK == PartsOK /\ CopiesOK

Stale(k) == cache[k] # Miss /\ cache[k] # View(k)

Pending(k) == \E w \in Writers : k \in write[w].keys

\* Every write deletes every key it shows through: a copy is out of date only
\* until the write that superseded it has sent its DEL, unless a reader wrote
\* back an old answer or that DEL failed.  This is what invalidate_pool_cache
\* and its five call sites together promise (pools/service.py:11-17).
StaleOnlyIfDamaged == \A k \in Keys : Stale(k) => Pending(k) \/ k \in damaged

\* What the two races leave behind does not stay: Redis drops it in the end.
StaleGoesAway == \A k \in Keys : Stale(k) ~> ~Stale(k)
=============================================================================
