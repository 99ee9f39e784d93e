---------------------------- MODULE PoolCacheProofs ----------------------------
(***************************************************************************)
(* Theorems about PoolCache for any number of pools, readers and writers.  *)
(***************************************************************************)
EXTENDS PoolCache, TLAPS

\* The types, with what a state function must be to be updated at a point.
TypeInv ==
    /\ PartsOK
    /\ cache = [k \in Keys |-> cache[k]]
    /\ read = [r \in Readers |-> read[r]]
    /\ \A r \in Readers : read[r] = [pc |-> read[r].pc, key |-> read[r].key, seen |-> read[r].seen]
    /\ write = [w \in Writers |-> write[w]]

\* Only a writer with keys to delete remembers any.
IdleHasNoKeys == \A w \in Writers : write[w].pc = "idle" => write[w].keys = {}

\* A pool that does not exist has no copy, and no reader is about to make one.
AbsentIsUnknown ==
    /\ \A p \in Pools : db[p].status = "absent" => cache[p] = Miss
    /\ \A r \in Readers : read[r].pc = "fill" => Found(read[r].key)

CacheInv == TypeInv /\ IdleHasNoKeys /\ AbsentIsUnknown /\ StaleOnlyIfDamaged

-----------------------------------------------------------------------------

\* Redis starts empty.
LEMMA CacheInvInit == ASSUME Init PROVE CacheInv
  <1>1. [status |-> "absent", version |-> 0] \in Row
    BY KeysAssumption DEF Row
  <1>2. QED
    BY <1>1, KeysAssumption
    DEF Init, CacheInv, TypeInv, PartsOK, IdleHasNoKeys, AbsentIsUnknown, StaleOnlyIfDamaged, Stale,
        Keys, Lists

\* A change of a pool shows through its own key and the listings only.
LEMMA ViewOfOthers ==
    ASSUME NEW p \in Pools, NEW k \in Keys, k \notin Touched(p),
           \A q \in Pools \ {p} : db'[q] = db[q]
    PROVE  View(k)' = View(k)
  BY KeysAssumption DEF View, Touched, Keys

\* A commit with the keys to delete for it: all it shows through, except the
\* key of a pool no reader has ever found.
LEMMA ChangedStep ==
    ASSUME CacheInv, NEW w \in Writers, NEW p \in Pools,
           NEW status \in {"open", "closed"}, NEW keys \in SUBSET Keys,
           Changed(w, p, status, keys),
           \A k \in Touched(p) \ keys : cache[k] = Miss
    PROVE  CacheInv'
  <1> USE DEF CacheInv, TypeInv, PartsOK
  <1>1. [status |-> status, version |-> db[p].version + 1] \in Row
    BY KeysAssumption DEF Changed, Row
  <1>2. /\ db' = [db EXCEPT ![p] = [status |-> status, version |-> db[p].version + 1]]
        /\ write' = [write EXCEPT ![w] = [pc |-> "invalidate", keys |-> keys]]
        /\ UNCHANGED <<cache, expiring, read, damaged, lost>>
    BY DEF Changed
  <1>3. TypeInv' /\ IdleHasNoKeys'
    BY <1>1, <1>2 DEF IdleHasNoKeys
  <1>4. AbsentIsUnknown'
    BY <1>1, <1>2 DEF AbsentIsUnknown, Found
  <1>5. ASSUME NEW k \in Keys, Stale(k)' PROVE Pending(k)' \/ k \in damaged'
    <2>1. CASE k \in Touched(p)
      <3>1. k \in keys
        BY <1>2, <1>5, <2>1 DEF Stale
      <3>2. QED
        BY <1>2, <3>1 DEF Pending
    <2>2. CASE k \notin Touched(p)
      <3>1. Stale(k)
        BY <1>2, <1>5, <2>2, ViewOfOthers DEF Stale
      <3>2. write[w].keys = {}
        BY DEF Changed, IdleHasNoKeys
      <3>3. QED
        BY <1>2, <3>1, <3>2 DEF StaleOnlyIfDamaged, Pending
    <2>3. QED
      BY <2>1, <2>2
  <1>6. QED
    BY <1>3, <1>4, <1>5 DEF StaleOnlyIfDamaged

\* What a reader sees changes nothing but its own next step.
LEMMA ReaderStep ==
    ASSUME CacheInv, UNCHANGED <<db, cache, expiring, write, damaged, lost>>,
           NEW r \in Readers, NEW pc \in {"idle", "query", "fill"}, NEW key \in Keys, NEW seen,
           pc = "fill" => Found(key),
           read' = [read EXCEPT ![r] = [pc |-> pc, key |-> key, seen |-> seen]]
    PROVE  CacheInv'
  <1> USE DEF CacheInv, TypeInv, PartsOK
  <1>1. TypeInv' /\ IdleHasNoKeys'
    BY DEF IdleHasNoKeys
  <1>2. AbsentIsUnknown'
    BY DEF AbsentIsUnknown, Found
  <1>3. \A k \in Keys : View(k)' = View(k)
    BY DEF View
  <1>4. StaleOnlyIfDamaged'
    BY <1>3 DEF StaleOnlyIfDamaged, Stale, Pending
  <1>5. QED
    BY <1>1, <1>2, <1>4

\* Every step keeps all of it.
LEMMA CacheInvStep == ASSUME CacheInv, [Next]_vars PROVE CacheInv'
  <1> USE DEF CacheInv, TypeInv, PartsOK
  <1>1. ASSUME NEW r \in Readers, NEW k \in Keys, Look(r, k) PROVE CacheInv'
    <2>1. /\ UNCHANGED <<db, cache, expiring, write, damaged, lost>>
          /\ read' = [read EXCEPT ![r] = [pc |-> "query", key |-> k, seen |-> Miss]]
      BY <1>1 DEF Look
    <2>2. QED
      BY <2>1, ReaderStep
  <1>2. ASSUME NEW r \in Readers, Query(r) PROVE CacheInv'
    <2>0. read[r] = [pc |-> read[r].pc, key |-> read[r].key, seen |-> read[r].seen]
      OBVIOUS
    <2>1. UNCHANGED <<db, cache, expiring, write, damaged, lost>> /\ read[r].key \in Keys
      BY <1>2 DEF Query
    <2>2. CASE Found(read[r].key)
      <3>1. read' = [read EXCEPT ![r] = [pc |-> "fill", key |-> read[r].key,
                                         seen |-> View(read[r].key)]]
        BY <1>2, <2>2 DEF Query
      <3>2. QED
        BY <2>1, <2>2, <3>1, ReaderStep
    <2>3. CASE ~Found(read[r].key)
      <3>1. read' = [read EXCEPT ![r] = [read[r] EXCEPT !.pc = "idle"]]
        BY <1>2, <2>3 DEF Query
      <3>2. [read[r] EXCEPT !.pc = "idle"] = [pc |-> "idle", key |-> read[r].key, seen |-> read[r].seen]
        BY <2>0
      <3>3. read' = [read EXCEPT ![r] = [pc |-> "idle", key |-> read[r].key, seen |-> read[r].seen]]
        BY <3>1, <3>2
      <3>4. QED
        BY <2>1, <3>3, ReaderStep
    <2>4. QED
      BY <2>2, <2>3
  <1>3. ASSUME NEW r \in Readers, Fill(r) PROVE CacheInv'
    <2>1. TypeInv' /\ IdleHasNoKeys'
      <3>1. PartsOK'
        BY <1>3 DEF Fill
      <3>2. QED
        BY <1>3, <3>1 DEF Fill, IdleHasNoKeys
    <2>2. AbsentIsUnknown'
      <3>1. \A k \in Keys : Found(k)' = Found(k)
        BY <1>3 DEF Fill, Found
      <3>2. Found(read[r].key)
        BY <1>3 DEF Fill, AbsentIsUnknown
      <3>3. \A p \in Pools : db'[p].status = "absent" => cache'[p] = Miss
        BY <1>3, <3>2, KeysAssumption DEF Fill, AbsentIsUnknown, Found, Keys
      <3>4. \A q \in Readers : read'[q].pc = "fill" => read'[q].key = read[q].key /\ read[q].pc = "fill"
        BY <1>3 DEF Fill
      <3>5. QED
        BY <3>1, <3>3, <3>4 DEF AbsentIsUnknown
    <2>3. \A k \in Keys : View(k)' = View(k)
      BY <1>3 DEF Fill, View
    <2>4. StaleOnlyIfDamaged'
      BY <1>3, <2>3 DEF Fill, StaleOnlyIfDamaged, Stale, Pending
    <2>5. QED
      BY <2>1, <2>2, <2>4
  <1>4. ASSUME NEW k \in Keys, Expire(k) PROVE CacheInv'
    <2>1. TypeInv' /\ IdleHasNoKeys'
      BY <1>4 DEF Expire, IdleHasNoKeys
    <2>2. AbsentIsUnknown'
      BY <1>4 DEF Expire, AbsentIsUnknown, Found, Keys
    <2>3. \A j \in Keys : View(j)' = View(j)
      BY <1>4 DEF Expire, View
    <2>4. StaleOnlyIfDamaged'
      BY <1>4, <2>3 DEF Expire, StaleOnlyIfDamaged, Stale, Pending
    <2>5. QED
      BY <2>1, <2>2, <2>4
  <1>5. ASSUME NEW w \in Writers, NEW p \in Pools, Create(w, p) \/ Close(w, p) \/ Restock(w, p)
        PROVE  CacheInv'
    <2>1. Touched(p) \subseteq Keys /\ Lists \subseteq Keys
      BY DEF Touched, Keys
    <2>2. CASE Create(w, p)
      <3>1. cache[p] = Miss
        BY <2>2 DEF Create, AbsentIsUnknown
      <3>2. QED
        BY <2>1, <2>2, <3>1, ChangedStep DEF Create, Touched
    <2>3. CASE Close(w, p)
      BY <2>1, <2>3, ChangedStep DEF Close
    <2>4. CASE Restock(w, p)
      <3>1. db[p].status \in {"open", "closed"}
        BY <2>4 DEF Restock, Row
      <3>2. QED
        BY <2>1, <2>4, <3>1, ChangedStep DEF Restock
    <2>5. QED
      BY <1>5, <2>2, <2>3, <2>4
  <1>6. ASSUME NEW w \in Writers, Invalidate(w) PROVE CacheInv'
    <2>1. TypeInv' /\ IdleHasNoKeys'
      BY <1>6 DEF Invalidate, IdleHasNoKeys
    <2>2. AbsentIsUnknown' 
      BY <1>6 DEF Invalidate, AbsentIsUnknown, Found, Keys
    <2>3. \A k \in Keys : View(k)' = View(k)
      BY <1>6 DEF Invalidate, View
    <2>4. StaleOnlyIfDamaged'
      BY <1>6, <2>3 DEF Invalidate, StaleOnlyIfDamaged, Stale, Pending
    <2>5. QED
      BY <2>1, <2>2, <2>4
  <1>7. ASSUME NEW w \in Writers, LoseInvalidation(w) PROVE CacheInv'
    <2>1. TypeInv' /\ IdleHasNoKeys' /\ AbsentIsUnknown'
      <3>1. lost' \in 0..MaxLost
        BY <1>7, KeysAssumption DEF LoseInvalidation
      <3>2. damaged' \subseteq Keys
        BY <1>7 DEF LoseInvalidation
      <3>3. TypeInv' /\ IdleHasNoKeys'
        BY <1>7, <3>1, <3>2 DEF LoseInvalidation, IdleHasNoKeys
      <3>4. AbsentIsUnknown'
        BY <1>7 DEF LoseInvalidation, AbsentIsUnknown, Found
      <3>5. QED
        BY <3>3, <3>4
    <2>2. \A k \in Keys : View(k)' = View(k)
      BY <1>7 DEF LoseInvalidation, View
    <2>3. StaleOnlyIfDamaged'
      BY <1>7, <2>2 DEF LoseInvalidation, StaleOnlyIfDamaged, Stale, Pending
    <2>4. QED
      BY <2>1, <2>3
  <1>8. CASE UNCHANGED vars
    <2>1. TypeInv' /\ IdleHasNoKeys'
      BY <1>8 DEF vars, IdleHasNoKeys
    <2>2. AbsentIsUnknown'
      BY <1>8 DEF vars, AbsentIsUnknown, Found
    <2>3. \A k \in Keys : View(k)' = View(k)
      BY <1>8 DEF vars, View
    <2>4. StaleOnlyIfDamaged'
      BY <1>8, <2>3 DEF vars, StaleOnlyIfDamaged, Stale, Pending
    <2>5. QED
      BY <2>1, <2>2, <2>4
  <1>9. QED
    BY <1>1, <1>2, <1>3, <1>4, <1>5, <1>6, <1>7, <1>8 DEF Next

\* All of it holds in every reachable state.
LEMMA CacheInvHolds == Spec => []CacheInv
  BY CacheInvInit, CacheInvStep, PTL DEF Spec

\* What a query returns is what may be stored for its key.
LEMMA ViewFits == ASSUME PartsOK, NEW k \in Keys PROVE View(k) \in Copy(k)
  <1>1. CASE k \in Pools
    BY <1>1 DEF View, Copy, PartsOK
  <1>2. CASE k \notin Pools
    <2>1. PICK S \in SUBSET Pools : View(k) = [p \in S |-> db[p]]
      BY <1>2 DEF View
    <2>2. View(k) \in [S -> Row]
      BY <2>1 DEF PartsOK
    <2>3. QED
      BY <1>2, <2>2 DEF Copy
  <1>3. QED
    BY <1>1, <1>2

\* A reader takes what it may store to the key it is about.
LEMMA CopiesStep == ASSUME CacheInv, CopiesOK, [Next]_vars PROVE CopiesOK'
  <1> USE DEF CacheInv, TypeInv, CopiesOK
  <1>1. ASSUME NEW r \in Readers, NEW k \in Keys, Look(r, k) PROVE CopiesOK'
    BY <1>1 DEF Look, PartsOK
  <1>2. ASSUME NEW r \in Readers, Query(r) PROVE CopiesOK'
    <2>1. read[r].key \in Keys /\ View(read[r].key) \in Copy(read[r].key)
      BY <1>2, ViewFits DEF PartsOK
    <2>2. QED
      BY <1>2, <2>1 DEF Query
  <1>3. ASSUME NEW r \in Readers, Fill(r) PROVE CopiesOK'
    BY <1>3 DEF Fill, PartsOK
  <1>4. ASSUME NEW k \in Keys, Expire(k) PROVE CopiesOK'
    BY <1>4 DEF Expire
  <1>5. ASSUME NEW w \in Writers, NEW p \in Pools, Create(w, p) \/ Close(w, p) \/ Restock(w, p)
        PROVE  CopiesOK'
    BY <1>5 DEF Create, Close, Restock, Changed
  <1>6. ASSUME NEW w \in Writers, Invalidate(w) PROVE CopiesOK'
    BY <1>6 DEF Invalidate
  <1>7. ASSUME NEW w \in Writers, LoseInvalidation(w) PROVE CopiesOK'
    BY <1>7 DEF LoseInvalidation
  <1>8. CASE UNCHANGED vars
    BY <1>8 DEF vars
  <1>9. QED
    BY <1>1, <1>2, <1>3, <1>4, <1>5, <1>6, <1>7, <1>8 DEF Next

\* Every variable keeps its type, and every reader and writer its labels.
THEOREM TypeCorrect == Spec => []TypeOK
  <1>1. CacheInv => PartsOK
    BY DEF CacheInv, TypeInv
  <1>2. Init => CopiesOK
    BY DEF Init, CopiesOK
  <1>3. CacheInv /\ CopiesOK /\ [Next]_vars => CopiesOK'
    BY CopiesStep
  <1>4. QED
    BY <1>1, <1>2, <1>3, CacheInvHolds, PTL DEF Spec, TypeOK

\* A copy in Redis is out of date only while a DEL for it is on its way, after a
\* reader wrote back an answer that had been superseded, or after a DEL failed:
\* the keys deleted by the five callers are enough, for any number of pools,
\* readers and writers.
THEOREM StaleCopiesAreExplained == Spec => []StaleOnlyIfDamaged
  <1>1. CacheInv => StaleOnlyIfDamaged
    BY DEF CacheInv
  <1>2. QED
    BY <1>1, CacheInvHolds, PTL
===============================================================================
