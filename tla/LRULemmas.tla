------------------------------ MODULE LRULemmas -----------------------------
(***************************************************************************)
(* Facts about the operators of LRUOps that the proofs of LRUCache and     *)
(* SyncEngine rest on: every one of them keeps a consistent cache a        *)
(* consistent cache, and what it does to the keys and values.              *)
(***************************************************************************)
EXTENDS LRUOps, SequenceTheorems, TLAPS

\* The list without its i-th element: every other element keeps its place
\* relative to the others.
LEMMA RemoveAtFacts ==
  ASSUME NEW K, NEW s \in Seq(K), NEW i \in 1..Len(s)
  PROVE  /\ RemoveAt(s, i) \in Seq(K)
         /\ Len(RemoveAt(s, i)) = Len(s) - 1
         /\ \A j \in 1..(Len(s) - 1) :
              RemoveAt(s, i)[j] = IF j < i THEN s[j] ELSE s[j + 1]
<1> DEFINE a == SubSeq(s, 1, i - 1)
           b == SubSeq(s, i + 1, Len(s))
<1>0. Len(s) \in Nat /\ i \in Int /\ \A j \in 1..Len(s) : s[j] \in K
  BY LenProperties, ElementOfSeq
<1>1. /\ a \in Seq(K)
      /\ Len(a) = i - 1
      /\ \A j \in 1..(i - 1) : a[j] = s[j]
  <2>1. \A j \in 1..(i - 1) : s[j] \in K
    BY <1>0
  <2>2. /\ a \in Seq(K)
        /\ Len(a) = IF 1 <= i - 1 THEN (i - 1) - 1 + 1 ELSE 0
        /\ \A j \in 1..((i - 1) - 1 + 1) : a[j] = s[1 + j - 1]
    BY <1>0, <2>1, SubSeqProperties
  <2> QED  BY <1>0, <2>2
<1>2. /\ b \in Seq(K)
      /\ Len(b) = Len(s) - i
      /\ \A j \in 1..(Len(s) - i) : b[j] = s[i + j]
  <2>1. \A j \in (i + 1)..Len(s) : s[j] \in K
    BY <1>0
  <2>2. /\ b \in Seq(K)
        /\ Len(b) = IF i + 1 <= Len(s) THEN Len(s) - (i + 1) + 1 ELSE 0
        /\ \A j \in 1..(Len(s) - (i + 1) + 1) : b[j] = s[(i + 1) + j - 1]
    BY <1>0, <2>1, SubSeqProperties
  <2> QED  BY <1>0, <2>2
<1>3. /\ a \o b \in Seq(K)
      /\ Len(a \o b) = Len(a) + Len(b)
      /\ \A j \in 1..(Len(a) + Len(b)) :
           (a \o b)[j] = IF j <= Len(a) THEN a[j] ELSE b[j - Len(a)]
  BY <1>1, <1>2, ConcatProperties
<1>4. RemoveAt(s, i) = a \o b
  BY DEF RemoveAt
<1> HIDE DEF a, b
<1>5. Len(a) + Len(b) = Len(s) - 1
  BY <1>0, <1>1, <1>2
<1>6. ASSUME NEW j \in 1..(Len(s) - 1)
      PROVE  (a \o b)[j] = IF j < i THEN s[j] ELSE s[j + 1]
  <2>1. (a \o b)[j] = IF j <= i - 1 THEN a[j] ELSE b[j - (i - 1)]
    BY <1>1, <1>3, <1>5
  <2>2. CASE j < i
    BY <1>0, <1>1, <2>1, <2>2
  <2>3. CASE ~(j < i)
    <3>1. j - (i - 1) \in 1..(Len(s) - i) /\ i + (j - (i - 1)) = j + 1
      BY <1>0, <2>3
    <3> QED  BY <1>0, <1>2, <2>1, <2>3, <3>1
  <2> QED  BY <2>2, <2>3
<1> QED  BY <1>3, <1>4, <1>5, <1>6

\* The list with k in front.
LEMMA ConsFacts ==
  ASSUME NEW K, NEW s \in Seq(K), NEW k \in K
  PROVE  /\ <<k>> \o s \in Seq(K)
         /\ Len(<<k>> \o s) = Len(s) + 1
         /\ \A j \in 1..(Len(s) + 1) :
              (<<k>> \o s)[j] = IF j = 1 THEN k ELSE s[j - 1]
<1>1. <<k>> \in Seq(K) /\ Len(<<k>>) = 1 /\ <<k>>[1] = k
  OBVIOUS
<1>2. /\ <<k>> \o s \in Seq(K)
      /\ Len(<<k>> \o s) = Len(<<k>>) + Len(s)
      /\ \A j \in 1..(Len(<<k>>) + Len(s)) :
           (<<k>> \o s)[j] = IF j <= Len(<<k>>) THEN <<k>>[j] ELSE s[j - Len(<<k>>)]
  BY <1>1, ConcatProperties
<1>3. Len(s) \in Nat
  BY LenProperties
<1> QED  BY <1>1, <1>2, <1>3

\* A cache without entries is a consistent cache of any keys and values.
LEMMA EmptyCacheFacts ==
  ASSUME NEW K, NEW V
  PROVE  /\ EmptyCache \in Caches(K, V)
         /\ Consistent(EmptyCache)
         /\ Len(EmptyCache.evictList) = 0
         /\ DOMAIN EmptyCache.items = {}
<1>1. [k \in {} |-> k] \in [{} -> V] /\ {} \in SUBSET K
  OBVIOUS
<1>2. <<>> \in Seq(K) /\ DOMAIN <<>> = {} /\ Len(<<>>) = 0
  BY EmptySeq
<1>3. EmptyCache \in Caches(K, V)
  BY <1>1, <1>2 DEF EmptyCache, Caches
<1>4. EmptyCache.evictList = <<>> /\ DOMAIN EmptyCache.items = {}
  BY DEF EmptyCache
<1> QED  BY <1>2, <1>3, <1>4 DEF Consistent

\* What a cache of the type is made of.
LEMMA CacheParts ==
  ASSUME NEW K, NEW V, NEW c \in Caches(K, V)
  PROVE  /\ c.evictList \in Seq(K)
         /\ DOMAIN c.evictList = 1..Len(c.evictList)
         /\ Len(c.evictList) \in Nat
         /\ DOMAIN c.items \subseteq K
         /\ c.items \in [DOMAIN c.items -> V]
         /\ c = [evictList |-> c.evictList, items |-> c.items]
  BY LenProperties DEF Caches

LEMMA CacheMade ==
  ASSUME NEW K, NEW V, NEW e \in Seq(K), NEW D \in SUBSET K, NEW f \in [D -> V]
  PROVE  [evictList |-> e, items |-> f] \in Caches(K, V)
  BY DEF Caches

\* Taking the i-th entry out.
LEMMA RemoveElementFacts ==
  ASSUME NEW K, NEW V, NEW c \in Caches(K, V), Consistent(c),
         NEW i \in 1..Len(c.evictList)
  PROVE  /\ RemoveElement(c, i) \in Caches(K, V)
         /\ Consistent(RemoveElement(c, i))
         /\ Len(RemoveElement(c, i).evictList) = Len(c.evictList) - 1
         /\ DOMAIN RemoveElement(c, i).items = DOMAIN c.items \ {c.evictList[i]}
         /\ \A k \in DOMAIN RemoveElement(c, i).items :
              RemoveElement(c, i).items[k] = c.items[k]
<1> DEFINE s == c.evictList
           r == RemoveAt(s, i)
           D == DOMAIN c.items \ {s[i]}
           f == [k \in D |-> c.items[k]]
<1>0. RemoveElement(c, i) = [evictList |-> r, items |-> f]
  BY DEF RemoveElement
<1>1. /\ s \in Seq(K) /\ DOMAIN s = 1..Len(s) /\ Len(s) \in Nat
      /\ DOMAIN c.items \subseteq K /\ c.items \in [DOMAIN c.items -> V]
  BY CacheParts
<1>2. /\ r \in Seq(K) /\ Len(r) = Len(s) - 1
      /\ \A j \in 1..(Len(s) - 1) : r[j] = IF j < i THEN s[j] ELSE s[j + 1]
  BY <1>1, RemoveAtFacts
<1>3. D \in SUBSET K /\ f \in [D -> V]
  BY <1>1
<1>4. DOMAIN r = 1..(Len(s) - 1)
  BY <1>1, <1>2, LenProperties
<1>5. /\ DOMAIN c.items = {s[j] : j \in 1..Len(s)}
      /\ \A j, k \in 1..Len(s) : s[j] = s[k] => j = k
  BY <1>1 DEF Consistent
<1> HIDE DEF r
<1>6. D = {r[j] : j \in DOMAIN r}
  <2>1. ASSUME NEW x \in D
        PROVE  \E j \in DOMAIN r : x = r[j]
    <3>1. PICK j \in 1..Len(s) : x = s[j]
      BY <1>5
    <3>2. j # i
      BY <3>1
    <3>3. CASE j < i
      <4>1. j \in 1..(Len(s) - 1)
        BY <1>1, <3>3
      <4> QED  BY <1>2, <1>4, <3>1, <3>3, <4>1
    <3>4. CASE j > i
      <4>1. j - 1 \in 1..(Len(s) - 1) /\ ~(j - 1 < i) /\ (j - 1) + 1 = j
        BY <1>1, <3>4
      <4> QED  BY <1>2, <1>4, <3>1, <4>1
    <3> QED  BY <3>2, <3>3, <3>4
  <2>2. ASSUME NEW j \in DOMAIN r
        PROVE  r[j] \in D
    <3>1. j \in 1..Len(s) /\ j + 1 \in 1..Len(s)
      BY <1>1, <1>4
    <3>2. CASE j < i
      BY <1>2, <1>4, <1>5, <3>1, <3>2
    <3>3. CASE ~(j < i)
      BY <1>2, <1>4, <1>5, <3>1, <3>3
    <3> QED  BY <3>2, <3>3
  <2> HIDE DEF D
  <2> QED  BY <2>1, <2>2
<1>7. \A j, k \in DOMAIN r : r[j] = r[k] => j = k
  <2> SUFFICES ASSUME NEW j \in DOMAIN r, NEW k \in DOMAIN r, r[j] = r[k]
               PROVE  j = k
    OBVIOUS
  <2>1. /\ j \in 1..Len(s) /\ j + 1 \in 1..Len(s)
        /\ k \in 1..Len(s) /\ k + 1 \in 1..Len(s)
    BY <1>1, <1>4
  <2>2. /\ r[j] = s[IF j < i THEN j ELSE j + 1]
        /\ r[k] = s[IF k < i THEN k ELSE k + 1]
    BY <1>2, <1>4
  <2>3. (IF j < i THEN j ELSE j + 1) = (IF k < i THEN k ELSE k + 1)
    BY <1>5, <2>1, <2>2
  <2> QED  BY <2>1, <2>3
<1>8. /\ [evictList |-> r, items |-> f].evictList = r
      /\ [evictList |-> r, items |-> f].items = f
      /\ DOMAIN f = D
      /\ \A k \in D : f[k] = c.items[k]
  OBVIOUS
<1>9. [evictList |-> r, items |-> f] \in Caches(K, V)
  BY <1>2, <1>3, CacheMade
<1> HIDE DEF f, D
<1>10. Consistent([evictList |-> r, items |-> f])
  BY <1>6, <1>7, <1>8 DEF Consistent
<1> QED  BY <1>0, <1>2, <1>8, <1>9, <1>10 DEF D

\* Putting a new entry in front.
LEMMA PushFrontFacts ==
  ASSUME NEW K, NEW V, NEW c \in Caches(K, V), Consistent(c),
         NEW k \in K, NEW v \in V, k \notin DOMAIN c.items
  PROVE  /\ PushFront(c, k, v) \in Caches(K, V)
         /\ Consistent(PushFront(c, k, v))
         /\ Len(PushFront(c, k, v).evictList) = Len(c.evictList) + 1
         /\ DOMAIN PushFront(c, k, v).items = DOMAIN c.items \cup {k}
         /\ \A x \in DOMAIN PushFront(c, k, v).items :
              PushFront(c, k, v).items[x] = IF x = k THEN v ELSE c.items[x]
<1> DEFINE s == c.evictList
           r == <<k>> \o s
           D == DOMAIN c.items \cup {k}
           f == [x \in D |-> IF x = k THEN v ELSE c.items[x]]
<1>0. PushFront(c, k, v) = [evictList |-> r, items |-> f]
  BY DEF PushFront
<1>1. /\ s \in Seq(K) /\ DOMAIN s = 1..Len(s) /\ Len(s) \in Nat
      /\ DOMAIN c.items \subseteq K /\ c.items \in [DOMAIN c.items -> V]
  BY CacheParts
<1>2. /\ r \in Seq(K) /\ Len(r) = Len(s) + 1
      /\ \A j \in 1..(Len(s) + 1) : r[j] = IF j = 1 THEN k ELSE s[j - 1]
  BY <1>1, ConsFacts
<1>3. D \in SUBSET K /\ f \in [D -> V]
  BY <1>1
<1>4. DOMAIN r = 1..(Len(s) + 1)
  BY <1>1, <1>2, LenProperties
<1>5. /\ DOMAIN c.items = {s[j] : j \in 1..Len(s)}
      /\ \A j, m \in 1..Len(s) : s[j] = s[m] => j = m
  BY <1>1 DEF Consistent
<1> HIDE DEF r
<1>6. D = {r[j] : j \in DOMAIN r}
  <2>1. ASSUME NEW x \in DOMAIN c.items
        PROVE  \E j \in DOMAIN r : x = r[j]
    <3>1. PICK j \in 1..Len(s) : x = s[j]
      BY <1>5
    <3>2. j + 1 \in 1..(Len(s) + 1) /\ j + 1 # 1 /\ (j + 1) - 1 = j
      BY <1>1
    <3> QED  BY <1>2, <1>4, <3>1, <3>2
  <2>2. 1 \in DOMAIN r /\ r[1] = k
    BY <1>1, <1>2, <1>4
  <2>3. ASSUME NEW j \in DOMAIN r, j # 1
        PROVE  r[j] \in DOMAIN c.items
    <3>1. j - 1 \in 1..Len(s)
      BY <1>1, <1>4, <2>3
    <3> QED  BY <1>2, <1>4, <1>5, <2>3, <3>1
  <2> QED  BY <2>1, <2>2, <2>3
<1>7. \A j, m \in DOMAIN r : r[j] = r[m] => j = m
  <2> SUFFICES ASSUME NEW j \in DOMAIN r, NEW m \in DOMAIN r, r[j] = r[m]
               PROVE  j = m
    OBVIOUS
  <2>1. ASSUME NEW i \in DOMAIN r, i # 1
        PROVE  i - 1 \in 1..Len(s) /\ r[i] = s[i - 1] /\ r[i] # k
    <3>1. i - 1 \in 1..Len(s)
      BY <1>1, <1>4, <2>1
    <3> QED  BY <1>2, <1>4, <1>5, <2>1, <3>1
  <2>2. 1 \in DOMAIN r /\ r[1] = k
    BY <1>1, <1>2, <1>4
  <2>3. CASE j = 1 \/ m = 1
    BY <2>1, <2>2, <2>3
  <2>4. CASE j # 1 /\ m # 1
    <3>1. j - 1 = m - 1
      BY <1>5, <2>1, <2>4
    <3> QED  BY <1>1, <1>4, <3>1
  <2> QED  BY <2>3, <2>4
<1>8. /\ [evictList |-> r, items |-> f].evictList = r
      /\ [evictList |-> r, items |-> f].items = f
      /\ DOMAIN f = D
      /\ \A x \in D : f[x] = IF x = k THEN v ELSE c.items[x]
  OBVIOUS
<1>9. [evictList |-> r, items |-> f] \in Caches(K, V)
  BY <1>2, <1>3, CacheMade
<1> HIDE DEF f, D
<1>10. Consistent([evictList |-> r, items |-> f])
  BY <1>6, <1>7, <1>8 DEF Consistent
<1> QED  BY <1>0, <1>2, <1>8, <1>9, <1>10 DEF D

\* Where the list holds a key of the map.
LEMMA PositionFacts ==
  ASSUME NEW K, NEW V, NEW c \in Caches(K, V), Consistent(c),
         NEW k \in DOMAIN c.items
  PROVE  /\ PositionOf(c.evictList, k) \in 1..Len(c.evictList)
         /\ c.evictList[PositionOf(c.evictList, k)] = k
<1>1. \E i \in DOMAIN c.evictList : c.evictList[i] = k
  BY DEF Consistent
<1> QED  BY <1>1, CacheParts DEF PositionOf

\* A consistent cache whose list has one key moved to the front is what
\* taking the entry out and putting it in again gives.
LEMMA MoveToFrontFacts ==
  ASSUME NEW K, NEW V, NEW c \in Caches(K, V), Consistent(c),
         NEW k \in DOMAIN c.items, NEW v \in V
  PROVE  LET d == [evictList |-> MoveToFront(c.evictList, k),
                   items |-> [c.items EXCEPT ![k] = v]]
         IN  /\ d \in Caches(K, V)
             /\ Consistent(d)
             /\ Len(d.evictList) = Len(c.evictList)
<1> DEFINE i == PositionOf(c.evictList, k)
           out == RemoveElement(c, i)
           back == PushFront(out, k, v)
           d == [evictList |-> MoveToFront(c.evictList, k),
                 items |-> [c.items EXCEPT ![k] = v]]
<1>1. i \in 1..Len(c.evictList) /\ c.evictList[i] = k
  BY PositionFacts
<1>2. k \in K /\ Len(c.evictList) \in Nat
  BY CacheParts
<1> HIDE DEF i
<1>3. /\ out \in Caches(K, V) /\ Consistent(out)
      /\ Len(out.evictList) = Len(c.evictList) - 1
      /\ DOMAIN out.items = DOMAIN c.items \ {k}
      /\ \A x \in DOMAIN out.items : out.items[x] = c.items[x]
  BY <1>1, RemoveElementFacts
<1>4. /\ back \in Caches(K, V) /\ Consistent(back)
      /\ Len(back.evictList) = Len(out.evictList) + 1
  <2> HIDE DEF out
  <2> QED  BY <1>2, <1>3, PushFrontFacts
<1>5. back.evictList = MoveToFront(c.evictList, k)
  BY DEF PushFront, RemoveElement, MoveToFront, i
<1>6. back.items = [c.items EXCEPT ![k] = v]
  <2>1. back.items = [x \in DOMAIN out.items \cup {k} |-> IF x = k THEN v ELSE out.items[x]]
    BY DEF PushFront
  <2>2. DOMAIN out.items \cup {k} = DOMAIN c.items
    BY <1>3
  <2>3. [c.items EXCEPT ![k] = v] = [x \in DOMAIN c.items |-> IF x = k THEN v ELSE c.items[x]]
    BY CacheParts
  <2> HIDE DEF back, out
  <2> QED  BY <1>3, <2>1, <2>2, <2>3
<1>7. back = d
  BY <1>5, <1>6 DEF PushFront
<1> HIDE DEF back, out
<1> QED  BY <1>2, <1>3, <1>4, <1>7

\* Add: the cache stays a consistent cache within its bound, the new value
\* is the only one that is not an old one.
LEMMA CacheAddFacts ==
  ASSUME NEW K, NEW V, NEW c \in Caches(K, V), Consistent(c),
         NEW k \in K, NEW v \in V, NEW size \in Int
  PROVE  LET d == CacheAdd(c, k, v, size)
         IN  /\ d \in Caches(K, V)
             /\ Consistent(d)
             /\ Len(c.evictList) <= Capacity(size) => Len(d.evictList) <= Capacity(size)
             /\ \A x \in DOMAIN d.items :
                  \/ x = k /\ d.items[x] = v
                  \/ x \in DOMAIN c.items /\ d.items[x] = c.items[x]
<1> DEFINE d == CacheAdd(c, k, v, size)
<1>0. Capacity(size) \in Nat /\ Capacity(size) >= 1 /\ Len(c.evictList) \in Nat
  BY CacheParts DEF Capacity
<1>1. CASE k \in DOMAIN c.items
  <2>1. d = [evictList |-> MoveToFront(c.evictList, k), items |-> [c.items EXCEPT ![k] = v]]
    BY <1>1 DEF CacheAdd, CacheHas
  <2>2. d \in Caches(K, V) /\ Consistent(d) /\ Len(d.evictList) = Len(c.evictList)
    BY <1>1, <2>1, MoveToFrontFacts
  <2>3. d.items = [c.items EXCEPT ![k] = v]
    BY <2>1
  <2>4. \A x \in DOMAIN d.items :
          \/ x = k /\ d.items[x] = v
          \/ x \in DOMAIN c.items /\ d.items[x] = c.items[x]
    BY <1>1, <2>3, CacheParts
  <2> HIDE DEF d
  <2> QED  BY <1>0, <2>2, <2>4 DEF d
<1>2. CASE k \notin DOMAIN c.items
  <2> DEFINE g == PushFront(c, k, v)
  <2>1. /\ g \in Caches(K, V) /\ Consistent(g)
        /\ Len(g.evictList) = Len(c.evictList) + 1
        /\ DOMAIN g.items = DOMAIN c.items \cup {k}
        /\ \A x \in DOMAIN g.items : g.items[x] = IF x = k THEN v ELSE c.items[x]
    BY <1>2, PushFrontFacts
  <2>2. d = IF Len(g.evictList) > Capacity(size) THEN RemoveOldest(g) ELSE g
    BY <1>2 DEF CacheAdd, CacheHas
  <2> HIDE DEF g
  <2>3. CASE Len(g.evictList) > Capacity(size)
    <3>1. g.evictList # <<>> /\ Len(g.evictList) \in 1..Len(g.evictList)
      BY <1>0, <2>1, <2>3
    <3>2. d = RemoveElement(g, Len(g.evictList))
      BY <2>2, <2>3, <3>1 DEF RemoveOldest
    <3> HIDE DEF d
    <3>3. /\ d \in Caches(K, V) /\ Consistent(d)
          /\ Len(d.evictList) = Len(g.evictList) - 1
          /\ DOMAIN d.items \subseteq DOMAIN g.items
          /\ \A x \in DOMAIN d.items : d.items[x] = g.items[x]
      BY <2>1, <3>1, <3>2, RemoveElementFacts
    <3> QED  BY <1>0, <2>1, <3>3 DEF d
  <2>4. CASE ~(Len(g.evictList) > Capacity(size))
    <3>1. d = g
      BY <2>2, <2>4
    <3> HIDE DEF d
    <3> QED  BY <1>0, <2>1, <2>4, <3>1 DEF d
  <2> QED  BY <2>3, <2>4
<1> QED  BY <1>1, <1>2

\* Get: the same entries, in a consistent cache.
LEMMA CacheGetFacts ==
  ASSUME NEW K, NEW V, NEW c \in Caches(K, V), Consistent(c), NEW k
  PROVE  /\ CacheGet(c, k) \in Caches(K, V)
         /\ Consistent(CacheGet(c, k))
         /\ Len(CacheGet(c, k).evictList) = Len(c.evictList)
         /\ CacheGet(c, k).items = c.items
<1>1. CASE k \in DOMAIN c.items
  <2> DEFINE v == c.items[k]
  <2>1. c.items = [c.items EXCEPT ![k] = v] /\ v \in V
    BY <1>1, CacheParts
  <2>2. CacheGet(c, k) = [evictList |-> MoveToFront(c.evictList, k), items |-> c.items]
    BY <1>1, CacheParts DEF CacheGet, CacheHas
  <2>3. CacheGet(c, k).items = c.items
    BY <2>2
  <2> HIDE DEF v
  <2> QED  BY <1>1, <2>1, <2>2, <2>3, MoveToFrontFacts
<1>2. CASE k \notin DOMAIN c.items
  BY <1>2 DEF CacheGet, CacheHas
<1> QED  BY <1>1, <1>2

\* Remove: one entry less, or the same cache.
LEMMA CacheRemoveFacts ==
  ASSUME NEW K, NEW V, NEW c \in Caches(K, V), Consistent(c), NEW k
  PROVE  /\ CacheRemove(c, k) \in Caches(K, V)
         /\ Consistent(CacheRemove(c, k))
         /\ Len(CacheRemove(c, k).evictList) <= Len(c.evictList)
<1>0. Len(c.evictList) \in Nat
  BY CacheParts
<1>1. CASE k \in DOMAIN c.items
  <2> DEFINE i == PositionOf(c.evictList, k)
  <2>1. i \in 1..Len(c.evictList)
    BY <1>1, PositionFacts
  <2>2. CacheRemove(c, k) = RemoveElement(c, i)
    BY <1>1 DEF CacheRemove, CacheHas
  <2> HIDE DEF i
  <2> QED  BY <1>0, <2>1, <2>2, RemoveElementFacts
<1>2. CASE k \notin DOMAIN c.items
  BY <1>0, <1>2 DEF CacheRemove, CacheHas
<1> QED  BY <1>1, <1>2
=============================================================================
