------------------------------- MODULE LRUOps -------------------------------
(***************************************************************************)
(* The deduplication cache of the sync engine (pkg/sync/lru.go) as values  *)
(* and operators.  A cache is a record of the two structures the code      *)
(* keeps in step: evictList, the recency list with the most recently used  *)
(* key first (container/list), and items, the map from key to entry.  The  *)
(* map's entry points into the list in the code; here it holds the value.  *)
(***************************************************************************)
EXTENDS Integers, Sequences, SequencesExt

Caches(K, V) ==
  [evictList : Seq(K), items : UNION {[D -> V] : D \in SUBSET K}]

\* The list and the map have the same keys, the list each of them once.
Consistent(c) ==
  /\ DOMAIN c.items = {c.evictList[i] : i \in DOMAIN c.evictList}
  /\ \A i, j \in DOMAIN c.evictList : c.evictList[i] = c.evictList[j] => i = j

EmptyCache == [evictList |-> <<>>, items |-> [k \in {} |-> k]]

\* A size that is not positive means the default of a thousand entries.
Capacity(size) == IF size <= 0 THEN 1000 ELSE size

PositionOf(s, k) == CHOOSE i \in DOMAIN s : s[i] = k

MoveToFront(s, k) == <<k>> \o RemoveAt(s, PositionOf(s, k))

CacheHas(c, k) == k \in DOMAIN c.items

RemoveElement(c, i) ==
  [evictList |-> RemoveAt(c.evictList, i),
   items |-> [k \in DOMAIN c.items \ {c.evictList[i]} |-> c.items[k]]]

RemoveOldest(c) ==
  IF c.evictList = <<>> THEN c ELSE RemoveElement(c, Len(c.evictList))

PushFront(c, k, v) ==
  [evictList |-> <<k>> \o c.evictList,
   items |-> [x \in DOMAIN c.items \cup {k} |-> IF x = k THEN v ELSE c.items[x]]]

\* Mutant: Add forgets that the key may be there already.
CacheAddAlwaysPushes(c, k, v, size) ==
  LET grown == PushFront(c, k, v)
  IN  IF Len(grown.evictList) > Capacity(size) THEN RemoveOldest(grown) ELSE grown

CacheAdd(c, k, v, size) ==
  IF CacheHas(c, k)
  THEN [evictList |-> MoveToFront(c.evictList, k),
        items     |-> [c.items EXCEPT ![k] = v]]
  ELSE LET grown == PushFront(c, k, v)
       IN  IF Len(grown.evictList) > Capacity(size) THEN RemoveOldest(grown) ELSE grown

\* Mutant: a hit leaves its place in the list.
CacheGetKeepsOrder(c, k) == c

\* The cache a lookup leaves behind: a hit becomes the most recently used.
CacheGet(c, k) ==
  IF CacheHas(c, k) THEN [c EXCEPT !.evictList = MoveToFront(@, k)] ELSE c

CacheRemove(c, k) ==
  IF CacheHas(c, k) THEN RemoveElement(c, PositionOf(c.evictList, k)) ELSE c
=============================================================================
