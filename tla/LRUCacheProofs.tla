--------------------------- MODULE LRUCacheProofs ---------------------------
(***************************************************************************)
(* Proofs that the cache of LRUCache is well formed after any sequence of  *)
(* calls, for every set of keys and values and every configured size, and  *)
(* that it implements RecencyCache, the order of its list being the order  *)
(* of last use.  What the methods do to a list without duplicates is in    *)
(* LRULemmas; here each call is one step.                                  *)
(***************************************************************************)
EXTENDS LRUCache, LRULemmas, FiniteSetTheorems

IInv == TypeOK /\ ListMatchesMap

\* A new cache is well formed.
LEMMA InitInv == Init => IInv
<1> SUFFICES ASSUME Init  PROVE IInv
  OBVIOUS
<1>1. Capacity(Size) >= 0
  BY CacheAssumption DEF Capacity
<1>2. /\ EmptyCache \in Caches(Keys, Values) /\ Consistent(EmptyCache)
      /\ Len(EmptyCache.evictList) = 0
  BY EmptyCacheFacts
<1> QED  BY <1>1, <1>2 DEF Init, IInv, TypeOK, ListMatchesMap

\* Every call keeps the cache well formed.
LEMMA NextInv == IInv /\ [Next]_vars => IInv'
<1> SUFFICES ASSUME IInv, [Next]_vars  PROVE IInv'
  OBVIOUS
<1>0. /\ cache \in Caches(Keys, Values) /\ Consistent(cache)
      /\ Len(cache.evictList) \in Nat
      /\ Len(cache.evictList) <= Capacity(Size)
      /\ Capacity(Size) \in Nat
      /\ Size \in Int
  BY CacheParts, CacheAssumption DEF IInv, TypeOK, ListMatchesMap, Capacity
<1>1. ASSUME NEW k \in Keys, NEW v \in Values, Add(k, v)
      PROVE  IInv'
  <2>1. cache' = CacheAdd(cache, k, v, Size) /\ answer' = None
    BY <1>1 DEF Add
  <2>2. /\ cache' \in Caches(Keys, Values) /\ Consistent(cache')
        /\ Len(cache'.evictList) <= Capacity(Size)
    BY <1>0, <2>1, CacheAddFacts
  <2> QED  BY <2>1, <2>2 DEF IInv, TypeOK, ListMatchesMap, Consistent
<1>2. ASSUME NEW k \in Keys, Get(k)
      PROVE  IInv'
  <2>1. cache' = CacheGet(cache, k)
    BY <1>2 DEF Get
  <2>2. /\ cache' \in Caches(Keys, Values) /\ Consistent(cache')
        /\ Len(cache'.evictList) <= Capacity(Size)
    BY <1>0, <2>1, CacheGetFacts
  <2>3. answer' \in Values \cup {None}
    BY <1>0, <1>2, CacheParts DEF Get, CacheHas
  <2> QED  BY <2>2, <2>3 DEF IInv, TypeOK, ListMatchesMap, Consistent
<1>3. ASSUME NEW k \in Keys, ContainsKey(k)
      PROVE  IInv'
  BY <1>0, <1>3 DEF ContainsKey, CacheHas, IInv, TypeOK, ListMatchesMap, Consistent
<1>4. ASSUME NEW k \in Keys, RemoveKey(k)
      PROVE  IInv'
  <2>1. cache' = CacheRemove(cache, k) /\ answer' \in BOOLEAN
    BY <1>4 DEF RemoveKey, CacheHas
  <2>2. /\ cache' \in Caches(Keys, Values) /\ Consistent(cache')
        /\ Len(cache'.evictList) <= Len(cache.evictList)
    BY <1>0, <2>1, CacheRemoveFacts
  <2>3. Len(cache'.evictList) <= Capacity(Size)
    BY <1>0, <2>2, CacheParts
  <2> QED  BY <2>1, <2>2, <2>3 DEF IInv, TypeOK, ListMatchesMap, Consistent
<1>5. ASSUME Clear
      PROVE  IInv'
  <2>1. /\ EmptyCache \in Caches(Keys, Values) /\ Consistent(EmptyCache)
        /\ Len(EmptyCache.evictList) = 0
    BY EmptyCacheFacts
  <2>2. cache' = EmptyCache /\ answer' = None
    BY <1>5 DEF Clear
  <2>3. cache' \in Caches(Keys, Values) /\ Consistent(cache') /\ Len(cache'.evictList) = 0
    BY <2>1, <2>2
  <2> QED  BY <1>0, <2>2, <2>3 DEF IInv, TypeOK, ListMatchesMap, Consistent
<1>6. CASE UNCHANGED vars
  BY <1>6 DEF vars, IInv, TypeOK, ListMatchesMap, Consistent
<1> QED  BY <1>1, <1>2, <1>3, <1>4, <1>5, <1>6 DEF Next

\* The list and the map of lruCache (pkg/sync/lru.go) keep the same keys,
\* each once, and never more of them than the capacity.
THEOREM ListMatchesMapAlways == Spec => []ListMatchesMap
<1>1. IInv => ListMatchesMap
  BY DEF IInv
<1> QED  BY <1>1, InitInv, NextInv, PTL DEF Spec

\* What a call returns is a value, a flag or nothing, and the cache holds
\* the keys and values it was given.
THEOREM CacheTypeOK == Spec => []TypeOK
<1>1. IInv => TypeOK
  BY DEF IInv
<1> QED  BY <1>1, InitInv, NextInv, PTL DEF Spec

-----------------------------------------------------------------------------
(***************************************************************************)
(* The refinement of RecencyCache.  UsedBefore(list) changes as the        *)
(* abstract order does: putting a key in front puts it after all others,   *)
(* taking an entry out takes its pairs out.                                *)
(***************************************************************************)

Distinct(s) == \A i, j \in 1..Len(s) : s[i] = s[j] => i = j

Elements(s) == {s[i] : i \in 1..Len(s)}

\* <<x, y>> is in the order exactly when y stands before x in the list.
LEMMA UsedBeforeMember ==
  ASSUME NEW K, NEW s \in Seq(K), NEW e
  PROVE  e \in UsedBefore(s) <=> \E i, j \in 1..Len(s) : i < j /\ e = <<s[j], s[i]>>
<1> DEFINE P == {q \in (1..Len(s)) \X (1..Len(s)) : q[1] < q[2]}
<1>1. UsedBefore(s) = {<<s[p[2]], s[p[1]]>> : p \in P}
  BY LenProperties DEF UsedBefore
<1>2. ASSUME e \in UsedBefore(s)
      PROVE  \E i, j \in 1..Len(s) : i < j /\ e = <<s[j], s[i]>>
  <2>1. PICK p \in P : e = <<s[p[2]], s[p[1]]>>
    BY <1>1, <1>2
  <2>2. p[1] \in 1..Len(s) /\ p[2] \in 1..Len(s) /\ p[1] < p[2]
    BY <2>1
  <2> QED  BY <2>1, <2>2
<1>3. ASSUME NEW i \in 1..Len(s), NEW j \in 1..Len(s), i < j, e = <<s[j], s[i]>>
      PROVE  e \in UsedBefore(s)
  <2>1. <<i, j>> \in P /\ e = <<s[<<i, j>>[2]], s[<<i, j>>[1]]>>
    BY <1>3
  <2> HIDE DEF P
  <2> QED  BY <1>1, <2>1
<1> QED  BY <1>2, <1>3

\* A list is the domain of a bijection onto its elements.
LEMMA ElementsCounted ==
  ASSUME NEW K, NEW s \in Seq(K), Distinct(s)
  PROVE  Cardinality(Elements(s)) = Len(s)
<1>1. Len(s) \in Nat /\ s \in [1..Len(s) -> K]
  BY LenProperties
<1>2. s \in [1..Len(s) -> Elements(s)]
  BY <1>1 DEF Elements
<1>3. s \in Bijection(1..Len(s), Elements(s))
  BY <1>2 DEF Bijection, Injection, Surjection, IsInjective, Distinct, Elements
<1>4. ExistsBijection(1..Len(s), Elements(s))
  BY <1>3 DEF ExistsBijection
<1> QED  BY <1>1, <1>4, FS_CountingElements

\* A key put in front was used after all the others.
LEMMA UsedBeforeCons ==
  ASSUME NEW K, NEW s \in Seq(K), NEW k \in K
  PROVE  UsedBefore(<<k>> \o s) = UsedBefore(s) \cup {<<x, k>> : x \in Elements(s)}
<1> DEFINE r == <<k>> \o s
<1>1. /\ r \in Seq(K) /\ Len(r) = Len(s) + 1 /\ Len(s) \in Nat
      /\ \A j \in 1..(Len(s) + 1) : r[j] = IF j = 1 THEN k ELSE s[j - 1]
  BY ConsFacts, LenProperties
<1> HIDE DEF r
<1>2. ASSUME NEW e \in UsedBefore(r)
      PROVE  e \in UsedBefore(s) \cup {<<x, k>> : x \in Elements(s)}
  <2>1. PICK i, j \in 1..Len(r) : i < j /\ e = <<r[j], r[i]>>
    BY <1>1, UsedBeforeMember
  <2>2. j - 1 \in 1..Len(s) /\ r[j] = s[j - 1]
    BY <1>1, <2>1
  <2>3. CASE i = 1
    <3>1. e = <<s[j - 1], k>>
      BY <1>1, <2>1, <2>2, <2>3
    <3> QED  BY <2>2, <3>1 DEF Elements
  <2>4. CASE i # 1
    <3>1. i - 1 \in 1..Len(s) /\ r[i] = s[i - 1] /\ i - 1 < j - 1
      BY <1>1, <2>1, <2>4
    <3>2. e \in UsedBefore(s)
      BY <2>1, <2>2, <3>1, UsedBeforeMember
    <3> QED  BY <3>2
  <2> QED  BY <2>3, <2>4
<1>3. ASSUME NEW e \in UsedBefore(s)
      PROVE  e \in UsedBefore(r)
  <2>1. PICK i, j \in 1..Len(s) : i < j /\ e = <<s[j], s[i]>>
    BY UsedBeforeMember
  <2>2. /\ i + 1 \in 1..Len(r) /\ j + 1 \in 1..Len(r) /\ i + 1 < j + 1
        /\ r[i + 1] = s[i] /\ r[j + 1] = s[j]
    BY <1>1, <2>1
  <2> QED  BY <1>1, <2>1, <2>2, UsedBeforeMember
<1>4. ASSUME NEW x \in Elements(s)
      PROVE  <<x, k>> \in UsedBefore(r)
  <2>1. PICK i \in 1..Len(s) : x = s[i]
    BY DEF Elements
  <2>2. /\ 1 \in 1..Len(r) /\ i + 1 \in 1..Len(r) /\ 1 < i + 1
        /\ r[1] = k /\ r[i + 1] = s[i]
    BY <1>1
  <2> QED  BY <1>1, <2>1, <2>2, UsedBeforeMember
<1>5. UsedBefore(r) = UsedBefore(s) \cup {<<x, k>> : x \in Elements(s)}
  BY <1>2, <1>3, <1>4
<1> QED  BY <1>5 DEF r

\* An entry taken out leaves the order of the others as it was.
LEMMA UsedBeforeRemove ==
  ASSUME NEW K, NEW s \in Seq(K), Distinct(s), NEW i \in 1..Len(s)
  PROVE  /\ UsedBefore(RemoveAt(s, i)) = Recency!Drop(s[i], UsedBefore(s))
         /\ Elements(RemoveAt(s, i)) = Elements(s) \ {s[i]}
<1> DEFINE r == RemoveAt(s, i)
           old(j) == IF j < i THEN j ELSE j + 1
           new(j) == IF j < i THEN j ELSE j - 1
<1>1. /\ r \in Seq(K) /\ Len(r) = Len(s) - 1 /\ Len(s) \in Nat
      /\ \A j \in 1..(Len(s) - 1) : r[j] = IF j < i THEN s[j] ELSE s[j + 1]
  BY RemoveAtFacts, LenProperties
<1> HIDE DEF r
<1>2. \A j \in 1..Len(r) : old(j) \in (1..Len(s)) \ {i} /\ r[j] = s[old(j)]
  BY <1>1
<1>3. \A j \in (1..Len(s)) \ {i} : new(j) \in 1..Len(r) /\ r[new(j)] = s[j]
  BY <1>1
<1>4. /\ \A a, b \in 1..Len(r) : a < b => old(a) < old(b)
      /\ \A a, b \in (1..Len(s)) \ {i} : a < b => new(a) < new(b)
  BY <1>1
<1>5. \A j \in 1..Len(s) : j # i <=> s[j] # s[i]
  BY DEF Distinct
<1> HIDE DEF old, new
<1>6. ASSUME NEW e \in UsedBefore(r)
      PROVE  e \in Recency!Drop(s[i], UsedBefore(s))
  <2>1. PICK a, b \in 1..Len(r) : a < b /\ e = <<r[b], r[a]>>
    BY <1>1, UsedBeforeMember
  <2>2. e = <<s[old(b)], s[old(a)]>> /\ old(a) < old(b)
    BY <1>2, <1>4, <2>1
  <2>3. old(a) \in 1..Len(s) /\ old(b) \in 1..Len(s) /\ old(a) # i /\ old(b) # i
    BY <1>2, <2>1
  <2>4. e \in UsedBefore(s)
    BY <2>2, <2>3, UsedBeforeMember
  <2>5. e[1] # s[i] /\ e[2] # s[i]
    BY <1>5, <2>2, <2>3
  <2> QED  BY <2>4, <2>5 DEF Recency!Drop
<1>7. ASSUME NEW e \in Recency!Drop(s[i], UsedBefore(s))
      PROVE  e \in UsedBefore(r)
  <2>1. e \in UsedBefore(s) /\ e[1] # s[i] /\ e[2] # s[i]
    BY <1>7 DEF Recency!Drop
  <2>2. PICK a, b \in 1..Len(s) : a < b /\ e = <<s[b], s[a]>>
    BY <2>1, UsedBeforeMember
  <2>3. a # i /\ b # i
    BY <2>1, <2>2
  <2>4. /\ new(a) \in 1..Len(r) /\ new(b) \in 1..Len(r) /\ new(a) < new(b)
        /\ e = <<r[new(b)], r[new(a)]>>
    BY <1>3, <1>4, <2>2, <2>3
  <2> QED  BY <1>1, <2>4, UsedBeforeMember
<1>8. UsedBefore(r) = Recency!Drop(s[i], UsedBefore(s))
  BY <1>6, <1>7
<1>9. Elements(r) = Elements(s) \ {s[i]}
  <2>1. \A x \in Elements(r) : x \in Elements(s) \ {s[i]}
    BY <1>2, <1>5 DEF Elements
  <2>2. \A x \in Elements(s) \ {s[i]} : x \in Elements(r)
    BY <1>3 DEF Elements
  <2> QED  BY <2>1, <2>2
<1> QED  BY <1>8, <1>9 DEF r

\* The elements of a well-formed cache's list are the keys of its map.
LEMMA ListOfCache ==
  ASSUME NEW K, NEW V, NEW c \in Caches(K, V), Consistent(c)
  PROVE  /\ c.evictList \in Seq(K) /\ Distinct(c.evictList)
         /\ Elements(c.evictList) = DOMAIN c.items
         /\ Cardinality(DOMAIN c.items) = Len(c.evictList)
<1>1. /\ c.evictList \in Seq(K) /\ DOMAIN c.evictList = 1..Len(c.evictList)
  BY CacheParts
<1>2. Distinct(c.evictList) /\ Elements(c.evictList) = DOMAIN c.items
  BY <1>1 DEF Consistent, Distinct, Elements
<1> QED  BY <1>1, <1>2, ElementsCounted

\* A pair of the order is one of two keys of the cache.
LEMMA UsedBeforeElements ==
  ASSUME NEW K, NEW s \in Seq(K), NEW k, k \notin Elements(s)
  PROVE  Recency!Drop(k, UsedBefore(s)) = UsedBefore(s)
<1>1. \A e \in UsedBefore(s) : e[1] # k /\ e[2] # k
  BY UsedBeforeMember DEF Elements
<1> QED  BY <1>1 DEF Recency!Drop

\* Moving a key to the front is the abstract cache's use of it.
LEMMA MoveToFrontUses ==
  ASSUME NEW K, NEW V, NEW c \in Caches(K, V), Consistent(c),
         NEW k \in DOMAIN c.items
  PROVE  UsedBefore(MoveToFront(c.evictList, k))
           = Recency!Used(k, DOMAIN c.items, UsedBefore(c.evictList))
<1> DEFINE s == c.evictList
           i == PositionOf(s, k)
           r == RemoveAt(s, i)
<1>1. /\ s \in Seq(K) /\ Distinct(s) /\ Elements(s) = DOMAIN c.items
      /\ i \in 1..Len(s) /\ s[i] = k /\ k \in K
  BY ListOfCache, PositionFacts, CacheParts
<1>2. r \in Seq(K)
  BY <1>1, RemoveAtFacts
<1>3. MoveToFront(s, k) = <<k>> \o r
  BY DEF MoveToFront
<1> HIDE DEF s, i
<1>4. /\ UsedBefore(r) = Recency!Drop(k, UsedBefore(s))
      /\ Elements(r) = DOMAIN c.items \ {k}
  BY <1>1, UsedBeforeRemove
<1> HIDE DEF r
<1>5. UsedBefore(<<k>> \o r) = UsedBefore(r) \cup {<<x, k>> : x \in Elements(r)}
  BY <1>1, <1>2, UsedBeforeCons
<1>6. UsedBefore(MoveToFront(s, k)) = Recency!Used(k, DOMAIN c.items, UsedBefore(s))
  BY <1>3, <1>4, <1>5 DEF Recency!Used, Recency!Drop
<1> QED  BY <1>6 DEF s

\* Pushing a new key to the front uses it, too.
LEMMA PushFrontUses ==
  ASSUME NEW K, NEW V, NEW c \in Caches(K, V), Consistent(c),
         NEW k \in K, NEW v \in V, k \notin DOMAIN c.items
  PROVE  /\ UsedBefore(PushFront(c, k, v).evictList)
              = Recency!Used(k, DOMAIN c.items \cup {k}, UsedBefore(c.evictList))
         /\ PushFront(c, k, v).items = Recency!Store(c.items, k, v)
<1> DEFINE s == c.evictList
<1>1. /\ s \in Seq(K) /\ Elements(s) = DOMAIN c.items /\ k \notin Elements(s)
  BY ListOfCache
<1>2. /\ PushFront(c, k, v).evictList = <<k>> \o s
      /\ PushFront(c, k, v).items = Recency!Store(c.items, k, v)
  BY DEF PushFront, Recency!Store
<1> HIDE DEF s
<1>3. /\ UsedBefore(<<k>> \o s) = UsedBefore(s) \cup {<<x, k>> : x \in Elements(s)}
      /\ Recency!Drop(k, UsedBefore(s)) = UsedBefore(s)
  BY <1>1, UsedBeforeCons, UsedBeforeElements
<1>4. (DOMAIN c.items \cup {k}) \ {k} = Elements(s)
  BY <1>1
<1>5. UsedBefore(<<k>> \o s) = Recency!Used(k, DOMAIN c.items \cup {k}, UsedBefore(s))
  BY <1>3, <1>4 DEF Recency!Used, Recency!Drop
<1> QED  BY <1>2, <1>5 DEF s

\* Taking an entry out of the list and the map drops its key.
LEMMA RemoveElementDrops ==
  ASSUME NEW K, NEW V, NEW c \in Caches(K, V), Consistent(c),
         NEW i \in 1..Len(c.evictList)
  PROVE  LET k == c.evictList[i]
         IN  /\ UsedBefore(RemoveElement(c, i).evictList)
                  = Recency!Drop(k, UsedBefore(c.evictList))
             /\ RemoveElement(c, i).items = Recency!Without(c.items, k)
<1> DEFINE s == c.evictList
<1>1. s \in Seq(K) /\ Distinct(s)
  BY ListOfCache
<1>2. /\ RemoveElement(c, i).evictList = RemoveAt(s, i)
      /\ RemoveElement(c, i).items = Recency!Without(c.items, s[i])
  BY DEF RemoveElement, Recency!Without
<1>3. UsedBefore(RemoveAt(s, i)) = Recency!Drop(s[i], UsedBefore(s))
  BY <1>1, UsedBeforeRemove
<1> QED  BY <1>2, <1>3

\* The last entry of the list was used before every other.
LEMMA LastIsOldest ==
  ASSUME NEW K, NEW V, NEW c \in Caches(K, V), Consistent(c), c.evictList # <<>>
  PROVE  LET last == c.evictList[Len(c.evictList)]
         IN  /\ Len(c.evictList) \in 1..Len(c.evictList)
             /\ last \in DOMAIN c.items
             /\ \A x \in DOMAIN c.items \ {last} : <<last, x>> \in UsedBefore(c.evictList)
<1> DEFINE s == c.evictList
<1>1. /\ s \in Seq(K) /\ Elements(s) = DOMAIN c.items /\ Len(s) \in Nat /\ s # <<>>
  BY ListOfCache, CacheParts
<1>2. Len(s) \in 1..Len(s)
  BY <1>1, EmptySeq
<1> HIDE DEF s
<1>3. s[Len(s)] \in DOMAIN c.items
  BY <1>1, <1>2 DEF Elements
<1>4. ASSUME NEW x \in DOMAIN c.items \ {s[Len(s)]}
      PROVE  <<s[Len(s)], x>> \in UsedBefore(s)
  <2>1. PICK i \in 1..Len(s) : x = s[i]
    BY <1>1 DEF Elements
  <2>2. i < Len(s)
    BY <1>1, <1>4, <2>1
  <2> QED  BY <1>1, <1>2, <2>1, <2>2, UsedBeforeMember
<1>5. /\ Len(s) \in 1..Len(s)
      /\ s[Len(s)] \in DOMAIN c.items
      /\ \A x \in DOMAIN c.items \ {s[Len(s)]} : <<s[Len(s)], x>> \in UsedBefore(s)
  BY <1>2, <1>3, <1>4
<1> QED  BY <1>5 DEF s

\* The instance counts as this module does.
LEMMA SameCardinality ==
  ASSUME NEW S
  PROVE  Recency!Cardinality(S) = Cardinality(S)
BY DEF Cardinality, Recency!Cardinality

\* An Add of a key that is there stores the value and uses the key.
LEMMA AddRefreshes ==
  ASSUME IInv, NEW k \in Keys, NEW v \in Values, Add(k, v), k \in DOMAIN cache.items
  PROVE  Recency!Add(k, v)
<1> DEFINE full == Recency!Store(cache.items, k, v)
<1>1. /\ cache \in Caches(Keys, Values) /\ Consistent(cache)
      /\ Len(cache.evictList) <= Capacity(Size)
  BY DEF IInv, TypeOK, ListMatchesMap
<1>2. cache' = [evictList |-> MoveToFront(cache.evictList, k),
                items |-> [cache.items EXCEPT ![k] = v]]
  BY DEF Add, CacheAdd, CacheHas
<1>3. cache.items \in [DOMAIN cache.items -> Values]
  BY <1>1, CacheParts
<1>4. full = [cache.items EXCEPT ![k] = v] /\ DOMAIN full = DOMAIN cache.items
  BY <1>3 DEF Recency!Store
<1>5. cache'.items = full /\ cache'.evictList = MoveToFront(cache.evictList, k)
  BY <1>2, <1>4
<1>6. Cardinality(DOMAIN full) <= Capacity(Size)
  BY <1>1, <1>4, ListOfCache
<1>7. UsedBefore(cache'.evictList)
        = Recency!Used(k, DOMAIN full, UsedBefore(cache.evictList))
  BY <1>1, <1>4, <1>5, MoveToFrontUses
<1>8. answer' = None
  BY DEF Add
<1> HIDE DEF full
<1>9. full = Recency!Store(cache.items, k, v)
  BY DEF full
<1> QED  BY <1>5, <1>6, <1>7, <1>8, <1>9, SameCardinality DEF Recency!Add

\* An Add of a new key stores it, and takes the oldest key out if there is
\* one too many.
LEMMA AddStores ==
  ASSUME IInv, NEW k \in Keys, NEW v \in Values, Add(k, v), k \notin DOMAIN cache.items
  PROVE  Recency!Add(k, v)
<1> DEFINE full == Recency!Store(cache.items, k, v)
           grown == PushFront(cache, k, v)
           order == Recency!Used(k, DOMAIN full, UsedBefore(cache.evictList))
           n == Len(grown.evictList)
<1>1. /\ cache \in Caches(Keys, Values) /\ Consistent(cache)
  BY DEF IInv, TypeOK, ListMatchesMap
<1>2. /\ grown \in Caches(Keys, Values) /\ Consistent(grown)
      /\ DOMAIN grown.items = DOMAIN cache.items \cup {k}
      /\ n = Len(cache.evictList) + 1 /\ Len(cache.evictList) \in Nat
  BY <1>1, PushFrontFacts, CacheParts
<1>3. grown.items = full /\ UsedBefore(grown.evictList) = order
  <2>1. /\ UsedBefore(grown.evictList)
             = Recency!Used(k, DOMAIN cache.items \cup {k}, UsedBefore(cache.evictList))
        /\ grown.items = full
    BY <1>1, PushFrontUses
  <2>2. DOMAIN full = DOMAIN cache.items \cup {k}
    BY DEF Recency!Store
  <2> QED  BY <2>1, <2>2
<1>4. Cardinality(DOMAIN full) = n
  BY <1>2, <1>3, ListOfCache
<1>5. answer' = None /\ cache' = IF n > Capacity(Size) THEN RemoveOldest(grown) ELSE grown
  BY DEF Add, CacheAdd, CacheHas
<1>6. Capacity(Size) \in Nat /\ n \in Nat
  BY <1>2, CacheAssumption DEF Capacity
<1>7. /\ full = Recency!Store(cache.items, k, v)
      /\ order = Recency!Used(k, DOMAIN full, UsedBefore(cache.evictList))
  OBVIOUS
<1> HIDE DEF full, grown, order
<1>8. CASE n <= Capacity(Size)
  <2>1. cache' = grown
    BY <1>5, <1>6, <1>8
  <2>2. /\ Cardinality(DOMAIN full) <= Capacity(Size)
        /\ cache'.items = full /\ UsedBefore(cache'.evictList) = order
    BY <1>3, <1>4, <1>8, <2>1
  <2> QED  BY <1>5, <1>7, <2>2, SameCardinality DEF Recency!Add
<1>9. CASE n > Capacity(Size)
  <2> DEFINE victim == grown.evictList[n]
  <2>1. grown.evictList # <<>>
    BY <1>2, <1>6, EmptySeq
  <2>2. cache' = RemoveElement(grown, n)
    BY <1>5, <1>9, <2>1 DEF RemoveOldest
  <2>3. /\ n \in 1..n /\ victim \in DOMAIN full
        /\ \A x \in DOMAIN full \ {victim} : <<victim, x>> \in order
    BY <1>2, <1>3, <2>1, LastIsOldest
  <2>4. /\ UsedBefore(cache'.evictList) = Recency!Drop(victim, order)
        /\ cache'.items = Recency!Without(full, victim)
    BY <1>2, <1>3, <2>2, <2>3, RemoveElementDrops
  <2>5. Cardinality(DOMAIN full) > Capacity(Size)
    BY <1>4, <1>9
  <2> HIDE DEF victim
  <2> QED  BY <1>5, <1>7, <2>3, <2>4, <2>5, SameCardinality DEF Recency!Add
<1> QED  BY <1>6, <1>8, <1>9

\* Every call is a call of the abstract cache.
LEMMA RecencyStep == IInv /\ [Next]_vars => [Recency!Next]_(Recency!vars)
<1> SUFFICES ASSUME IInv, [Next]_vars  PROVE [Recency!Next]_(Recency!vars)
  OBVIOUS
<1>0. cache \in Caches(Keys, Values) /\ Consistent(cache)
  BY DEF IInv, TypeOK, ListMatchesMap
<1>1. ASSUME NEW k \in Keys, NEW v \in Values, Add(k, v)
      PROVE  Recency!Next
  <2>1. Recency!Add(k, v)
    BY <1>1, AddRefreshes, AddStores
  <2> QED  BY <2>1 DEF Recency!Next
<1>2. ASSUME NEW k \in Keys, Get(k)
      PROVE  Recency!Next
  <2>1. cache' = CacheGet(cache, k) /\ cache'.items = cache.items
    BY <1>0, <1>2, CacheGetFacts DEF Get
  <2>2. UsedBefore(cache'.evictList) = IF k \in DOMAIN cache.items
          THEN Recency!Used(k, DOMAIN cache.items, UsedBefore(cache.evictList))
          ELSE UsedBefore(cache.evictList)
    <3>1. CASE k \in DOMAIN cache.items
      <4>1. cache'.evictList = MoveToFront(cache.evictList, k)
        BY <1>0, <2>1, <3>1, CacheParts DEF CacheGet, CacheHas
      <4> QED  BY <1>0, <3>1, <4>1, MoveToFrontUses
    <3>2. CASE k \notin DOMAIN cache.items
      BY <2>1, <3>2 DEF CacheGet, CacheHas
    <3> QED  BY <3>1, <3>2
  <2>3. Recency!Get(k)
    BY <1>2, <2>1, <2>2 DEF Recency!Get, Get, CacheHas
  <2> QED  BY <2>3 DEF Recency!Next
<1>3. ASSUME NEW k \in Keys, ContainsKey(k)
      PROVE  Recency!Next
  <2>1. Recency!Peek(k)
    BY <1>3 DEF ContainsKey, CacheHas, Recency!Peek
  <2> QED  BY <2>1 DEF Recency!Next
<1>4. ASSUME NEW k \in Keys, RemoveKey(k)
      PROVE  Recency!Next
  <2>1. cache' = CacheRemove(cache, k) /\ answer' = (k \in DOMAIN cache.items)
    BY <1>4 DEF RemoveKey, CacheHas
  <2>2. /\ cache'.items = Recency!Without(cache.items, k)
        /\ UsedBefore(cache'.evictList) = Recency!Drop(k, UsedBefore(cache.evictList))
    <3>1. CASE k \in DOMAIN cache.items
      <4> DEFINE i == PositionOf(cache.evictList, k)
      <4>1. i \in 1..Len(cache.evictList) /\ cache.evictList[i] = k
        BY <1>0, <3>1, PositionFacts
      <4>2. cache' = RemoveElement(cache, i)
        BY <2>1, <3>1 DEF CacheRemove, CacheHas
      <4> HIDE DEF i
      <4> QED  BY <1>0, <4>1, <4>2, RemoveElementDrops
    <3>2. CASE k \notin DOMAIN cache.items
      <4>1. cache' = cache
        BY <2>1, <3>2 DEF CacheRemove, CacheHas
      <4>2. cache.items = Recency!Without(cache.items, k)
        BY <1>0, <3>2, CacheParts DEF Recency!Without
      <4>3. UsedBefore(cache.evictList) = Recency!Drop(k, UsedBefore(cache.evictList))
        BY <1>0, <3>2, ListOfCache, UsedBeforeElements
      <4> QED  BY <4>1, <4>2, <4>3
    <3> QED  BY <3>1, <3>2
  <2>3. Recency!Remove(k)
    BY <2>1, <2>2 DEF Recency!Remove
  <2> QED  BY <2>3 DEF Recency!Next
<1>5. ASSUME Clear
      PROVE  Recency!Next
  <2>1. cache' = EmptyCache /\ answer' = None
    BY <1>5 DEF Clear
  <2>2. UsedBefore(cache'.evictList) = {} /\ cache'.items = [k \in {} |-> k]
    BY <2>1, EmptySeq DEF UsedBefore, EmptyCache
  <2>3. Recency!Clear
    BY <2>1, <2>2 DEF Recency!Clear
  <2> QED  BY <2>3 DEF Recency!Next
<1>6. CASE UNCHANGED vars
  BY <1>6 DEF vars, Recency!vars
<1> QED  BY <1>1, <1>2, <1>3, <1>4, <1>5, <1>6 DEF Next

\* lruCache (pkg/sync/lru.go) is a least-recently-used cache: every call
\* answers as the abstract cache does, and Add evicts the one key that every
\* other was used after.
THEOREM CacheImplementsRecency == Spec => ImplementsRecency
<1>1. Init => Recency!Init
  <2>1. UsedBefore(EmptyCache.evictList) = {} /\ EmptyCache.items = [k \in {} |-> k]
    BY EmptySeq DEF UsedBefore, EmptyCache
  <2> QED  BY <2>1 DEF Init, Recency!Init
<1>2. IInv /\ [Next]_vars => [Recency!Next]_(Recency!vars)
  BY RecencyStep
<1> QED
  BY <1>1, <1>2, InitInv, NextInv, PTL DEF Spec, ImplementsRecency, Recency!Spec
=============================================================================
