------------------------------ MODULE LRUCache ------------------------------
(***************************************************************************)
(* The state machine of lruCache (pkg/sync/lru.go): every exported method  *)
(* takes the cache's mutex for its whole body, so each call is one action. *)
(***************************************************************************)
EXTENDS LRUOps

CONSTANTS Keys, Values, Size, None

ASSUME CacheAssumption == Size \in Int /\ None \notin Values \cup BOOLEAN

VARIABLES cache,   \* the receiver
          answer   \* what the last call returned

vars == <<cache, answer>>

Init == cache = EmptyCache /\ answer = None

Add(k, v) ==
  /\ cache' = CacheAdd(cache, k, v, Size)
  /\ answer' = None

Get(k) ==
  /\ cache' = CacheGet(cache, k)
  /\ answer' = IF CacheHas(cache, k) THEN cache.items[k] ELSE None

ContainsKey(k) ==
  /\ UNCHANGED cache
  /\ answer' = CacheHas(cache, k)

RemoveKey(k) ==
  /\ cache' = CacheRemove(cache, k)
  /\ answer' = CacheHas(cache, k)

Clear == cache' = EmptyCache /\ answer' = None

Next ==
  \/ \E k \in Keys, v \in Values : Add(k, v)
  \/ \E k \in Keys : Get(k) \/ ContainsKey(k) \/ RemoveKey(k)
  \/ Clear

Spec == Init /\ [][Next]_vars
-----------------------------------------------------------------------------
TypeOK ==
  /\ cache \in Caches(Keys, Values)
  /\ answer \in Values \cup BOOLEAN \cup {None}

\* The list and the map never disagree, whatever order of Add, Get, Remove
\* and Clear led here: every key of the map is in the list exactly once,
\* nothing else is, and one Add evicts enough to stay within the capacity
\* (lru.go keeps the two in step by hand in Add and removeElement).
ListMatchesMap == Consistent(cache) /\ Len(cache.evictList) <= Capacity(Size)

-----------------------------------------------------------------------------
\* The order of last use that a recency list stands for.
UsedBefore(list) ==
  {<<list[p[2]], list[p[1]]>> :
     p \in {q \in (DOMAIN list) \X (DOMAIN list) : q[1] < q[2]}}

Recency == INSTANCE RecencyCache
  WITH Bound <- Capacity(Size),
       content <- cache.items,
       older <- UsedBefore(cache.evictList)

\* Every call is a call of the abstract cache with the same answer: Add
\* evicts exactly the least recently used key, Get refreshes a hit, and
\* Contains is a look that refreshes nothing (lru.go:138-145).
ImplementsRecency == Recency!Spec
=============================================================================
