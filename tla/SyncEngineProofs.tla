-------------------------- MODULE SyncEngineProofs --------------------------
(***************************************************************************)
(* Proofs about SyncEngine for any number of nodes and API connections,    *)
(* any contents, windows, cache size, buffer size and set of faults:       *)
(*                                                                         *)
(*   types       - the engines' state keeps its types;                     *)
(*   times       - the cache is never ahead of the engine;                 *)
(*   contents    - at rest the engine and the OS clipboard of a node whose *)
(*                 operations never overlapped agree, and it announces     *)
(*                 only what was copied on it;                             *)
(*   calm copies - a copy made in a mesh at rest is taken by every node it *)
(*                 comes to, and reaches every node.                       *)
(*                                                                         *)
(* GoStep, DataStep and CalmStep list what these arguments need to know of *)
(* a goroutine's step, of its times, of its contents and of a mesh in      *)
(* which every copy was calm; lemmas show it of every action, and the      *)
(* invariants are then kept by these steps and by the few actions of the   *)
(* environment.                                                            *)
(***************************************************************************)
EXTENDS SyncEngine, LRULemmas

\* Every goroutine of every node has its locals.
Threads == [Node -> [Goroutine -> Locals]]

\* A step of goroutine g of node n that leaves it with the locals l.
Leaves(n, g, l) == thread' = [thread EXCEPT ![n][g] = l]

\* What TypeOK needs besides itself to be kept by every step: the caches are
\* well formed, initializeState has set the content before it loads it, a
\* message has its timestamp before it is sent, and no node is its own peer.
CachesOK == \A n \in Node : Consistent(dedupe[n])
BootOK == \A n \in Node : At(n, "loop", "bootLoad") => current[n] \in Clip
SendOK == \A n \in Node, g \in Goroutine : At(n, g, "send") => thread[n][g].ts > 0
PeersOK == \A n \in Node : n \notin peers[n]

TypeInv == TypeOK /\ CachesOK /\ BootOK /\ SendOK /\ PeersOK

-----------------------------------------------------------------------------
(* Locals and what updates of them change. *)

LEMMA Goroutines ==
  /\ "loop" \in Goroutine /\ "watch" \in Goroutine
  /\ \A g \in Cli : g \in Goroutine /\ g # "loop" /\ g # "watch"
  BY EngineAssumption DEF Goroutine

LEMMA LocalsFacts ==
  ASSUME TypeOK, NEW n \in Node, NEW g \in Goroutine
  PROVE  /\ thread[n][g] \in Locals
         /\ thread[n][g].pc \in Pcs
         /\ thread[n][g].content \in Clip
         /\ thread[n][g].ts \in 0..MaxTime
         /\ thread[n][g].peers \in SUBSET Node
  BY DEF TypeOK, Locals

LEMMA NowStamps == TypeOK => now \in 0..MaxTime /\ now > 0
  BY EngineAssumption DEF TypeOK

LEMMA ParkedFacts ==
  ASSUME NEW pc \in Pcs
  PROVE  /\ Parked(pc) \in Locals
         /\ Parked(pc).pc = pc
         /\ Parked(pc).ts = 0
         /\ Parked(pc).peers = {}
  BY EngineAssumption DEF Parked, Locals

\* An update of one goroutine's locals leaves the others alone.
LEMMA LeavesFacts ==
  ASSUME thread \in Threads, NEW n \in Node, NEW g \in Goroutine, NEW l \in Locals,
         Leaves(n, g, l)
  PROVE  /\ thread' \in Threads
         /\ thread'[n][g] = l
         /\ \A h \in Goroutine : h # g => thread'[n][h] = thread[n][h]
         /\ \A m \in Node : m # n => thread'[m] = thread[m]
  BY DEF Leaves, Threads

LEMMA ParkFacts ==
  ASSUME thread \in Threads, NEW n \in Node, NEW g \in Goroutine, Park(n, g)
  PROVE  Leaves(n, g, Parked("idle")) /\ Parked("idle") \in Locals
  BY ParkedFacts DEF Park, Leaves, Pcs

LEMMA GotoFacts ==
  ASSUME thread \in Threads, NEW n \in Node, NEW g \in Goroutine, NEW pc \in Pcs,
         Goto(n, g, pc)
  PROVE  \E l \in Locals : /\ Leaves(n, g, l)
                           /\ l.pc = pc
                           /\ l.content = thread[n][g].content
                           /\ l.ts = thread[n][g].ts
                           /\ l.peers = thread[n][g].peers
<1> DEFINE l == [thread[n][g] EXCEPT !.pc = pc]
<1>1. thread[n][g] \in Locals
  BY DEF Threads
<1>2. l \in Locals /\ l.pc = pc /\ l.content = thread[n][g].content
      /\ l.ts = thread[n][g].ts /\ l.peers = thread[n][g].peers
  BY <1>1 DEF Locals
<1>3. Leaves(n, g, l)
  BY DEF Goto, Leaves
<1> QED  BY <1>2, <1>3

-----------------------------------------------------------------------------
(* The type invariant. *)

\* A step that leaves one goroutine with new locals.
LEMMA ThreadStep ==
  ASSUME TypeInv, NEW n \in Node, NEW g \in Goroutine, NEW l \in Locals, Leaves(n, g, l),
         l.pc = "bootLoad" => current'[n] \in Clip,
         l.pc = "send" => l.ts > 0,
         \A m \in Node : current'[m] \in Clip \cup {current[m]}
  PROVE  thread' \in Threads /\ BootOK' /\ SendOK'
<1>1. /\ thread' \in Threads
      /\ thread'[n][g] = l
      /\ \A h \in Goroutine : h # g => thread'[n][h] = thread[n][h]
      /\ \A m \in Node : m # n => thread'[m] = thread[m]
  BY LeavesFacts DEF TypeInv, TypeOK, Threads
<1>2. BootOK'
  BY <1>1, Goroutines DEF TypeInv, BootOK, At
<1>3. SendOK'
  BY <1>1 DEF TypeInv, SendOK, At
<1> QED  BY <1>1, <1>2, <1>3

\* A step that changes nothing else.
LEMMA OnlyThreads ==
  ASSUME TypeInv, thread' \in Threads, BootOK', SendOK',
         UNCHANGED <<now, osVars, engineVars, netVars, historyVars>>
  PROVE  TypeInv'
<1>1. TypeOK'
  BY DEF TypeInv, TypeOK, Threads, osVars, engineVars, netVars, historyVars
<1> QED  BY <1>1 DEF TypeInv, CachesOK, PeersOK, Consistent, engineVars, netVars

\* The cache type of the engine: before initializeState a node may cache the
\* zero value.
EngineCaches == Caches(Clip \cup {Unset}, 0..MaxTime)

LEMMA CacheOf ==
  ASSUME TypeInv, NEW n \in Node
  PROVE  dedupe[n] \in EngineCaches /\ Consistent(dedupe[n])
  BY DEF TypeInv, TypeOK, CachesOK, EngineCaches

\* What goes into a node's cache keeps it one.
LEMMA CacheAddOf ==
  ASSUME TypeInv, NEW n \in Node, NEW c \in Clip, NEW ts \in 0..MaxTime
  PROVE  LET d == CacheAdd(dedupe[n], c, ts, DedupeSize)
         IN  /\ d \in EngineCaches
             /\ Consistent(d)
             /\ \A x \in DOMAIN d.items :
                  \/ x = c /\ d.items[x] = ts
                  \/ x \in DOMAIN dedupe[n].items /\ d.items[x] = dedupe[n].items[x]
<1>1. /\ dedupe[n] \in Caches(Clip \cup {Unset}, 0..MaxTime)
      /\ Consistent(dedupe[n])
      /\ c \in Clip \cup {Unset}
      /\ DedupeSize \in Int
  BY CacheOf, EngineAssumption DEF EngineCaches
<1> DEFINE e == dedupe[n]
           d == CacheAdd(e, c, ts, DedupeSize)
<1> HIDE DEF e
<1>2. /\ d \in Caches(Clip \cup {Unset}, 0..MaxTime)
      /\ Consistent(d)
      /\ \A x \in DOMAIN d.items :
           \/ x = c /\ d.items[x] = ts
           \/ x \in DOMAIN e.items /\ d.items[x] = e.items[x]
  <2>1. e \in Caches(Clip \cup {Unset}, 0..MaxTime) /\ Consistent(e)
    BY <1>1 DEF e
  <2> DEFINE K == Clip \cup {Unset}
             V == 0..MaxTime
  <2> HIDE DEF K, V
  <2>2. e \in Caches(K, V) /\ c \in K /\ ts \in V
    BY <1>1, <2>1 DEF K, V
  <2>3. /\ d \in Caches(K, V)
        /\ Consistent(d)
        /\ \A x \in DOMAIN d.items :
             \/ x = c /\ d.items[x] = ts
             \/ x \in DOMAIN e.items /\ d.items[x] = e.items[x]
    BY <1>1, <2>1, <2>2, CacheAddFacts
  <2> QED  BY <2>3 DEF K, V
<1> QED  BY <1>2 DEF EngineCaches, e

\* A step that gives one node another well-formed cache.
LEMMA CacheStep ==
  ASSUME TypeInv, NEW n \in Node, NEW d \in EngineCaches, Consistent(d),
         dedupe' = [dedupe EXCEPT ![n] = d]
  PROVE  dedupe' \in [Node -> EngineCaches] /\ CachesOK'
<1>1. dedupe \in [Node -> EngineCaches]
  BY DEF TypeInv, TypeOK, EngineCaches
<1>2. \A m \in Node : Consistent(dedupe'[m])
  BY <1>1, CacheOf
<1> QED  BY <1>1, <1>2 DEF CachesOK, Consistent

LEMMA TypeInit == Init => TypeInv
<1> SUFFICES ASSUME Init  PROVE TypeInv
  OBVIOUS
<1> USE EngineAssumption
<1>1. Parked("boot") \in Locals /\ Parked("off") \in Locals /\ Parked("idle") \in Locals
  BY ParkedFacts DEF Pcs
<1>2. Started \in [Goroutine -> Locals]
  BY <1>1 DEF Started
<1>3. thread \in Threads
  BY <1>2 DEF Init, Threads
<1>4. dedupe \in [Node -> EngineCaches] /\ CachesOK
  BY EmptyCacheFacts DEF Init, EngineCaches, CachesOK
<1>5. net \in [Node -> [Node -> Seq(Message)]]
  BY EmptySeq DEF Init
<1>6. BootOK
  <2>1. Started["loop"] = Parked("boot")
    BY Goroutines DEF Started
  <2> QED  BY <2>1, ParkedFacts DEF BootOK, At, Init, Pcs
<1>7. PeersOK /\ SendOK
  <2>1. \A g \in Goroutine : Started[g].pc # "send"
    BY ParkedFacts DEF Started, Pcs
  <2> QED  BY <2>1 DEF Init, PeersOK, SendOK, At
<1>8. TypeOK
  <2>1. now \in 1..MaxTime /\ copies \in 0..MaxCopies
    BY DEF Init
  <2>2. notify \in [Node -> 0..WatchBuffer]
    BY DEF Init
  <2>3. timestamp \in [Node -> 0..MaxTime] /\ lastRemote \in [Node -> 0..MaxTime]
    BY DEF Init
  <2>4. /\ os \in [Node -> Clip] /\ lastHash \in [Node -> Clip]
        /\ current \in [Node -> Clip \cup {Unset}]
        /\ peers \in [Node -> SUBSET Node]
        /\ calm \in BOOLEAN /\ clean \subseteq Node /\ owned \subseteq Node \X Clip
    BY DEF Init
  <2> QED  BY <1>3, <1>4, <1>5, <2>1, <2>2, <2>3, <2>4 DEF TypeOK, Threads, EngineCaches
<1> QED  BY <1>4, <1>6, <1>7, <1>8 DEF TypeInv

\* The steps of initializeState.
LEMMA TypeBoot ==
  ASSUME TypeInv, NEW n \in Node, BootRead(n) \/ BootSet(n) \/ BootLoad(n) \/ BootAdd(n)
  PROVE  TypeInv'
<1> USE EngineAssumption, Goroutines
<1>0. /\ thread \in Threads /\ TypeOK /\ CachesOK /\ BootOK /\ SendOK /\ PeersOK
      /\ thread[n]["loop"] \in Locals
  BY LocalsFacts DEF TypeInv, TypeOK, Threads
<1>1. CASE BootRead(n)
  <2>1. PICK c \in Clip : thread' = [thread EXCEPT ![n]["loop"].pc = "bootSet",
                                                   ![n]["loop"].content = c]
    BY <1>0, <1>1 DEF BootRead, TypeOK
  <2> DEFINE l == [thread[n]["loop"] EXCEPT !.pc = "bootSet", !.content = c]
  <2>2. l \in Locals /\ l.pc = "bootSet"
    BY <1>0 DEF Locals, Pcs
  <2>3. Leaves(n, "loop", l)
    BY <1>0, <2>1 DEF Leaves, Threads, Locals
  <2> HIDE DEF l
  <2>4. thread' \in Threads /\ BootOK' /\ SendOK'
    BY <1>1, <2>2, <2>3, ThreadStep DEF BootRead, engineVars
  <2>5. TypeOK'
    BY <1>0, <1>1, <2>4 DEF TypeOK, Threads, BootRead, osVars, engineVars, netVars
  <2> QED  BY <1>0, <1>1, <2>4, <2>5
             DEF TypeInv, CachesOK, PeersOK, BootRead, engineVars, netVars, Consistent
<1>2. CASE BootSet(n)
  <2>1. PICK l \in Locals : Leaves(n, "loop", l) /\ l.pc = "bootLoad"
    BY <1>0, <1>2, GotoFacts DEF BootSet, Pcs
  <2>2. thread[n]["loop"].content \in Clip
    BY <1>0, LocalsFacts
  <2>3. current'[n] \in Clip /\ \A m \in Node : current'[m] \in Clip \cup {current[m]}
    BY <1>0, <1>2, <2>2 DEF BootSet, TypeOK
  <2>4. thread' \in Threads /\ BootOK' /\ SendOK'
    BY <2>1, <2>3, ThreadStep
  <2>5. timestamp' \in [Node -> 0..MaxTime] /\ current' \in [Node -> Clip \cup {Unset}]
    BY <1>0, <1>2, <2>2, NowStamps DEF TypeOK, BootSet
  <2>6. TypeOK'
    BY <1>0, <1>2, <2>4, <2>5 DEF TypeOK, Threads, BootSet, osVars, netVars, historyVars
  <2> QED  BY <1>0, <1>2, <2>4, <2>6
             DEF TypeInv, CachesOK, PeersOK, BootSet, netVars, Consistent
<1>3. CASE BootLoad(n)
  <2> DEFINE l == [thread[n]["loop"] EXCEPT !.pc = "bootAdd", !.content = current[n],
                                           !.ts = timestamp[n]]
  <2>1. current[n] \in Clip /\ timestamp[n] \in 0..MaxTime
    BY <1>0, <1>3 DEF BootLoad, BootOK, TypeOK
  <2>2. l \in Locals /\ l.pc = "bootAdd"
    BY <1>0, <2>1 DEF Locals, Pcs
  <2>3. Leaves(n, "loop", l)
    BY <1>0, <1>3 DEF Leaves, Threads, Locals, BootLoad
  <2> HIDE DEF l
  <2>4. thread' \in Threads /\ BootOK' /\ SendOK'
    BY <1>3, <2>2, <2>3, ThreadStep DEF BootLoad, engineVars
  <2>5. TypeOK'
    BY <1>0, <1>3, <2>4 DEF TypeOK, Threads, BootLoad, osVars, engineVars, netVars, historyVars
  <2> QED  BY <1>0, <1>3, <2>4, <2>5
             DEF TypeInv, CachesOK, PeersOK, BootLoad, engineVars, netVars, Consistent
<1>4. CASE BootAdd(n)
  <2> DEFINE t == thread[n]["loop"]
             d == CacheAdd(dedupe[n], t.content, t.ts, DedupeSize)
  <2>1. t.content \in Clip /\ t.ts \in 0..MaxTime
    BY <1>0, LocalsFacts
  <2>2. dedupe' = [dedupe EXCEPT ![n] = d] /\ Park(n, "loop")
    BY <1>4 DEF BootAdd
  <2>3. d \in EngineCaches /\ Consistent(d)
    BY <2>1, CacheAddOf
  <2> HIDE DEF d
  <2>4. dedupe' \in [Node -> EngineCaches] /\ CachesOK'
    BY <2>2, <2>3, CacheStep
  <2>5. thread' \in Threads /\ BootOK' /\ SendOK'
    BY <1>0, <1>4, <2>2, ParkFacts, ParkedFacts, ThreadStep DEF BootAdd, Pcs
  <2>6. TypeOK'
    BY <1>0, <1>4, <2>4, <2>5
      DEF TypeOK, Threads, EngineCaches, BootAdd, osVars, netVars, historyVars
  <2> QED  BY <1>0, <1>4, <2>4, <2>5, <2>6 DEF TypeInv, PeersOK, BootAdd, netVars
<1> QED  BY <1>1, <1>2, <1>3, <1>4

\* What a copy, on the clipboard or by a command, records of itself.
LEMMA CopyByFacts ==
  ASSUME TypeOK, NEW n \in Node, NEW c \in Clip, CopyBy(n, c)
  PROVE  /\ copies' \in 0..MaxCopies /\ calm' \in BOOLEAN
         /\ owned' \subseteq Node \X Clip
<1>1. copies \in 0..MaxCopies /\ copies < MaxCopies /\ copies' = copies + 1
  BY DEF TypeOK, CopyBy
<1>2. copies' \in 0..MaxCopies
  BY <1>1, EngineAssumption
<1>3. calm' \in BOOLEAN
  BY DEF CopyBy
<1>4. owned' \subseteq Node \X Clip
  BY DEF TypeOK, CopyBy
<1> QED  BY <1>2, <1>3, <1>4

\* The user, the clock and the poll of the clipboard.
LEMMA TypeUser ==
  ASSUME TypeInv,
         \/ Tick
         \/ \E n \in Node : Poll(n)
         \/ \E n \in Node, c \in Clip : UserCopy(n, c)
  PROVE  TypeInv'
<1> USE EngineAssumption, Goroutines
<1>0. TypeOK /\ CachesOK /\ BootOK /\ SendOK /\ PeersOK
  BY DEF TypeInv
<1>1. CASE Tick
  <2>1. now' \in 1..MaxTime
    BY <1>0, <1>1 DEF TypeOK, Tick
  <2>2. UNCHANGED <<osVars, engineVars, thread, netVars, historyVars>>
    BY <1>1 DEF Tick
  <2>3. TypeOK'
    BY <1>0, <2>1, <2>2 DEF TypeOK, osVars, engineVars, netVars, historyVars
  <2> QED  BY <1>0, <2>2, <2>3
             DEF TypeInv, CachesOK, BootOK, SendOK, PeersOK, At, engineVars, netVars, Consistent
<1>2. ASSUME NEW n \in Node, Poll(n)
      PROVE  TypeInv'
  <2>0. notify[n] \in 0..WatchBuffer
    BY <1>0 DEF TypeOK
  <2>1. (IF notify[n] < WatchBuffer THEN notify[n] + 1 ELSE notify[n]) \in 0..WatchBuffer
    BY <2>0
  <2>2. notify' \in [Node -> 0..WatchBuffer]
    BY <1>0, <1>2, <2>1 DEF TypeOK, Poll
  <2>3. lastHash' \in [Node -> Clip]
    BY <1>0, <1>2 DEF TypeOK, Poll
  <2>4. UNCHANGED <<now, os, engineVars, thread, netVars, historyVars>>
    BY <1>2 DEF Poll
  <2>5. TypeOK'
    BY <1>0, <2>2, <2>3, <2>4 DEF TypeOK, engineVars, netVars, historyVars
  <2> QED  BY <1>0, <2>4, <2>5
             DEF TypeInv, CachesOK, BootOK, SendOK, PeersOK, At, engineVars, netVars, Consistent
<1>3. ASSUME NEW n \in Node, NEW c \in Clip, UserCopy(n, c)
      PROVE  TypeInv'
  <2>1. /\ os' \in [Node -> Clip] /\ copies' \in 0..MaxCopies /\ calm' \in BOOLEAN
        /\ clean' \subseteq Node /\ owned' \subseteq Node \X Clip
    BY <1>0, <1>3, CopyByFacts DEF TypeOK, UserCopy
  <2>2. TypeOK'
    BY <1>0, <1>3, <2>1 DEF TypeOK, UserCopy, engineVars, netVars
  <2> QED  BY <1>0, <1>3, <2>2
             DEF TypeInv, CachesOK, BootOK, SendOK, PeersOK, At, UserCopy, engineVars, netVars, Consistent
<1> QED  BY <1>1, <1>2, <1>3

\* Where the operations of the watcher and of the API connections begin.
LEMMA TypeBegin ==
  ASSUME TypeInv, NEW n \in Node,
         \/ WatchStart(n) \/ WatchRead(n) \/ WatchReadFails(n)
         \/ \E g \in Cli, c \in Clip : CliCopy(n, g, c)
  PROVE  TypeInv'
<1> USE EngineAssumption, Goroutines
<1>0. TypeOK /\ CachesOK /\ BootOK /\ SendOK /\ PeersOK /\ thread \in Threads
  BY DEF TypeInv, TypeOK, Threads
<1>1. CASE WatchStart(n)
  <2>1. thread' \in Threads /\ BootOK' /\ SendOK'
    BY <1>0, <1>1, ParkFacts, ParkedFacts, ThreadStep DEF WatchStart, engineVars, Pcs
  <2>2. TypeOK'
    BY <1>0, <1>1, <2>1 DEF TypeOK, Threads, WatchStart, engineVars, netVars, historyVars
  <2> QED  BY <1>0, <1>1, <2>1, <2>2
             DEF TypeInv, CachesOK, PeersOK, WatchStart, engineVars, netVars, Consistent
<1>2. ASSUME NEW g \in Goroutine, NEW c \in Clip,
             thread' = [thread EXCEPT ![n][g].pc = "set", ![n][g].content = c],
             current' = current
      PROVE  thread' \in Threads /\ BootOK' /\ SendOK'
  <2> DEFINE l == [thread[n][g] EXCEPT !.pc = "set", !.content = c]
  <2>0. thread[n][g] \in Locals
    BY <1>0, LocalsFacts
  <2>1. l \in Locals /\ l.pc = "set"
    BY <2>0 DEF Locals, Pcs
  <2>2. Leaves(n, g, l)
    BY <1>0, <1>2 DEF Leaves, Threads, Locals
  <2> HIDE DEF l
  <2> QED  BY <1>2, <2>1, <2>2, ThreadStep
<1>3. CASE WatchRead(n)
  <2>1. thread' \in Threads /\ BootOK' /\ SendOK'
    BY <1>0, <1>2, <1>3 DEF WatchRead, engineVars, TypeOK
  <2>2. clean' \subseteq Node /\ notify' \in [Node -> 0..WatchBuffer]
    BY <1>0, <1>3 DEF WatchRead, BeginsAlone, TypeOK
  <2>3. TypeOK'
    BY <1>0, <1>3, <2>1, <2>2 DEF TypeOK, Threads, WatchRead, engineVars, netVars
  <2> QED  BY <1>0, <1>3, <2>1, <2>3
             DEF TypeInv, CachesOK, PeersOK, WatchRead, engineVars, netVars, Consistent
<1>4. CASE WatchReadFails(n)
  <2>0. notify[n] \in 0..WatchBuffer /\ notify[n] > 0
    BY <1>0, <1>4 DEF TypeOK, WatchReadFails
  <2>1. notify[n] - 1 \in 0..WatchBuffer
    BY <2>0
  <2>2. notify' \in [Node -> 0..WatchBuffer] /\ clean' \subseteq Node
    BY <1>0, <1>4, <2>1 DEF WatchReadFails, TypeOK
  <2>3. TypeOK'
    BY <1>0, <1>4, <2>2 DEF TypeOK, WatchReadFails, engineVars, netVars
  <2> QED  BY <1>0, <1>4, <2>3
             DEF TypeInv, CachesOK, BootOK, SendOK, PeersOK, At, WatchReadFails,
                 engineVars, netVars, Consistent
<1>5. ASSUME NEW g \in Cli, NEW c \in Clip, CliCopy(n, g, c)
      PROVE  TypeInv'
  <2>1. thread' \in Threads /\ BootOK' /\ SendOK'
    BY <1>0, <1>2, <1>5 DEF CliCopy, engineVars
  <2>2. /\ copies' \in 0..MaxCopies /\ calm' \in BOOLEAN
        /\ clean' \subseteq Node /\ owned' \subseteq Node \X Clip
    <3>1. clean' \subseteq clean
      BY <1>5 DEF CliCopy, BeginsAlone
    <3> QED  BY <1>0, <1>5, <3>1, CopyByFacts DEF TypeOK, CliCopy
  <2>3. TypeOK'
    BY <1>0, <1>5, <2>1, <2>2 DEF TypeOK, Threads, CliCopy, osVars, engineVars, netVars
  <2> QED  BY <1>0, <1>5, <2>1, <2>3
             DEF TypeInv, CachesOK, PeersOK, CliCopy, engineVars, netVars, Consistent
<1> QED  BY <1>1, <1>3, <1>4, <1>5

\* A message is received and judged.
LEMMA TypeReceive ==
  ASSUME TypeInv, NEW n \in Node, Resolve(n) \/ \E m \in Node : Receive(n, m)
  PROVE  TypeInv'
<1> USE EngineAssumption, Goroutines
<1>0. TypeOK /\ CachesOK /\ BootOK /\ SendOK /\ PeersOK /\ thread \in Threads
  BY DEF TypeInv, TypeOK, Threads
<1>1. ASSUME NEW m \in Node, Receive(n, m)
      PROVE  TypeInv'
  <2> DEFINE msg == Head(net[m][n])
             l == [pc |-> "resolve", content |-> msg.content, ts |-> msg.ts, peers |-> {msg.from}]
             d == CacheGet(dedupe[n], msg.content)
  <2>1. net[m][n] \in Seq(Message) /\ net[m][n] # <<>>
    BY <1>0, <1>1 DEF Receive, TypeOK
  <2>2. msg \in Message /\ Tail(net[m][n]) \in Seq(Message)
    BY <2>1, HeadTailProperties
  <2>3. msg.content \in Clip /\ msg.ts \in 1..MaxTime /\ msg.from \in Node
    BY <2>2 DEF Message
  <2>4. l \in Locals /\ l.pc = "resolve"
    BY <2>3 DEF Locals, Pcs
  <2>5. d \in EngineCaches /\ Consistent(d)
    BY CacheOf, CacheGetFacts DEF EngineCaches
  <2>6. /\ dedupe' = [dedupe EXCEPT ![n] = d]
        /\ net' = [net EXCEPT ![m][n] = Tail(@)]
        /\ thread' = thread \/ Leaves(n, "loop", l)
        /\ clean' \subseteq clean
    BY <1>1 DEF Receive, Leaves, BeginsAlone
  <2> HIDE DEF d, l, msg
  <2>7. dedupe' \in [Node -> EngineCaches] /\ CachesOK'
    BY <2>5, <2>6, CacheStep
  <2>8. thread' \in Threads /\ BootOK' /\ SendOK'
    <3>1. CASE thread' = thread
      BY <1>0, <1>1, <3>1 DEF BootOK, SendOK, At, Receive
    <3>2. CASE Leaves(n, "loop", l)
      BY <1>0, <1>1, <2>4, <3>2, ThreadStep DEF Receive
    <3> QED  BY <2>6, <3>1, <3>2
  <2>9. net' \in [Node -> [Node -> Seq(Message)]]
    BY <1>0, <2>2, <2>6 DEF TypeOK
  <2>10. TypeOK'
    BY <1>0, <1>1, <2>6, <2>7, <2>8, <2>9 DEF TypeOK, Threads, EngineCaches, Receive, osVars
  <2> QED  BY <1>0, <1>1, <2>7, <2>8, <2>10 DEF TypeInv, PeersOK, Receive
<1>2. CASE Resolve(n)
  <2>1. CASE Goto(n, "loop", "set")
    <3>1. PICK l \in Locals : Leaves(n, "loop", l) /\ l.pc = "set"
      BY <1>0, <2>1, GotoFacts DEF Pcs
    <3>2. thread' \in Threads /\ BootOK' /\ SendOK'
      BY <1>2, <3>1, ThreadStep DEF Resolve, engineVars
    <3> QED  BY <1>0, <1>2, <3>2, OnlyThreads DEF Resolve
  <2>2. CASE Park(n, "loop")
    <3>1. thread' \in Threads /\ BootOK' /\ SendOK'
      BY <1>0, <1>2, <2>2, ParkFacts, ParkedFacts, ThreadStep DEF Resolve, engineVars, Pcs
    <3> QED  BY <1>0, <1>2, <3>1, OnlyThreads DEF Resolve
  <2> QED  BY <1>2, <2>1, <2>2 DEF Resolve
<1> QED  BY <1>1, <1>2

\* The steps inside SetClipboard, of any goroutine.
LEMMA TypeSet ==
  ASSUME TypeInv, NEW n \in Node, NEW g \in Goroutine, SetClipboard(n, g)
  PROVE  TypeInv'
<1> USE EngineAssumption, Goroutines
<1>0. TypeOK /\ CachesOK /\ BootOK /\ SendOK /\ PeersOK /\ thread \in Threads
  BY DEF TypeInv, TypeOK, Threads
<1> DEFINE t == thread[n][g]
<1>t. /\ t \in Locals /\ t.pc \in Pcs /\ t.content \in Clip
      /\ t.ts \in 0..MaxTime /\ t.peers \in SUBSET Node
  BY <1>0, LocalsFacts
\* A goroutine that moves on, or ends, keeps the locals what they should be.
<1>g. ASSUME NEW pc \in Pcs \ {"bootLoad", "send"}, Goto(n, g, pc) \/ Park(n, g),
             \A m \in Node : current'[m] \in Clip \cup {current[m]}
      PROVE  thread' \in Threads /\ BootOK' /\ SendOK'
  <2>1. CASE Goto(n, g, pc)
    <3>1. PICK l \in Locals : Leaves(n, g, l) /\ l.pc = pc
      BY <1>0, <2>1, GotoFacts
    <3> QED  BY <1>g, <3>1, ThreadStep
  <2>2. CASE Park(n, g)
    BY <1>0, <1>g, <2>2, ParkFacts, ParkedFacts, ThreadStep DEF Pcs
  <2> QED  BY <1>g, <2>1, <2>2
<1>1. CASE SetLocked(n, g)
  <2>1. current' \in [Node -> Clip \cup {Unset}] /\ \A m \in Node : current'[m] \in Clip \cup {current[m]}
    BY <1>0, <1>1, <1>t DEF SetLocked, TypeOK
  <2>2. timestamp' \in [Node -> 0..MaxTime] /\ lastRemote' \in [Node -> 0..MaxTime]
    <3>1. /\ timestamp \in [Node -> 0..MaxTime] /\ lastRemote \in [Node -> 0..MaxTime]
          /\ now \in 0..MaxTime
      BY <1>0, NowStamps DEF TypeOK
    <3>2. timestamp' = timestamp \/ timestamp' = [timestamp EXCEPT ![n] = now]
      BY <1>1 DEF SetLocked
    <3>3. lastRemote' = lastRemote \/ lastRemote' = [lastRemote EXCEPT ![n] = now]
      BY <1>1 DEF SetLocked
    <3>4. timestamp' \in [Node -> 0..MaxTime]
      BY <3>1, <3>2
    <3>5. lastRemote' \in [Node -> 0..MaxTime]
      BY <3>1, <3>3
    <3> QED  BY <3>4, <3>5
  <2>3. thread' \in Threads /\ BootOK' /\ SendOK'
    BY <1>1, <1>g, <2>1 DEF SetLocked, Pcs
  <2>4. TypeOK'
    BY <1>0, <1>1, <2>1, <2>2, <2>3 DEF TypeOK, Threads, SetLocked, osVars, netVars, historyVars
  <2> QED  BY <1>0, <1>1, <2>3, <2>4 DEF TypeInv, CachesOK, PeersOK, SetLocked, netVars, Consistent
<1>2. CASE LoadTimestamp(n, g)
  <2> DEFINE l == [t EXCEPT !.pc = "add", !.ts = timestamp[n]]
  <2>1. l \in Locals /\ l.pc = "add"
    BY <1>0, <1>t DEF Locals, Pcs, TypeOK
  <2>2. Leaves(n, g, l)
    BY <1>0, <1>2, <1>t DEF Leaves, Threads, LoadTimestamp
  <2> HIDE DEF l
  <2>3. thread' \in Threads /\ BootOK' /\ SendOK'
    BY <1>2, <2>1, <2>2, ThreadStep DEF LoadTimestamp, engineVars
  <2>4. TypeOK'
    BY <1>0, <1>2, <2>3 DEF TypeOK, Threads, LoadTimestamp, osVars, engineVars, netVars, historyVars
  <2> QED  BY <1>0, <1>2, <2>3, <2>4
             DEF TypeInv, CachesOK, PeersOK, LoadTimestamp, engineVars, netVars, Consistent
<1>3. CASE AddDedupe(n, g)
  <2> DEFINE d == CacheAdd(dedupe[n], t.content, t.ts, DedupeSize)
  <2>1. dedupe' = [dedupe EXCEPT ![n] = d]
    BY <1>3 DEF AddDedupe
  <2>2. d \in EngineCaches /\ Consistent(d)
    BY <1>t, CacheAddOf
  <2> HIDE DEF d
  <2>3. dedupe' \in [Node -> EngineCaches] /\ CachesOK'
    BY <2>1, <2>2, CacheStep
  <2>4. thread' \in Threads /\ BootOK' /\ SendOK'
    BY <1>3, <1>g DEF AddDedupe, Pcs
  <2>5. TypeOK'
    BY <1>0, <1>3, <2>3, <2>4
      DEF TypeOK, Threads, EngineCaches, AddDedupe, osVars, netVars, historyVars
  <2> QED  BY <1>0, <1>3, <2>3, <2>4, <2>5 DEF TypeInv, PeersOK, AddDedupe, netVars
<1>4. CASE Write(n, g) \/ WriteFails(n, g)
  <2>1. thread' \in Threads /\ BootOK' /\ SendOK'
    BY <1>4, <1>g DEF Write, WriteFails, AfterWrite, engineVars, Pcs
  <2>2. os' \in [Node -> Clip] /\ lastHash' \in [Node -> Clip] /\ clean' \subseteq Node
    BY <1>0, <1>4, <1>t DEF TypeOK, Write, WriteFails, osVars, historyVars
  <2>3. TypeOK'
    BY <1>0, <1>4, <2>1, <2>2
      DEF TypeOK, Threads, Write, WriteFails, osVars, engineVars, netVars, historyVars
  <2> QED  BY <1>0, <1>4, <2>1, <2>3
             DEF TypeInv, CachesOK, PeersOK, Write, WriteFails, engineVars, netVars, Consistent
<1>5. CASE Stamp(n, g)
  <2> DEFINE l == [t EXCEPT !.pc = "send", !.ts = now, !.peers = peers[n]]
  <2>0. now \in 0..MaxTime /\ now > 0 /\ peers[n] \in SUBSET Node
    BY <1>0, NowStamps DEF TypeOK
  <2>1. l \in Locals /\ l.pc = "send" /\ l.ts = now /\ now > 0
    BY <1>t, <2>0 DEF Locals, Pcs
  <2>2. Park(n, g) \/ Leaves(n, g, l)
    BY <1>0, <1>5, <1>t DEF Leaves, Threads, Stamp
  <2>3. current' = current
    BY <1>5 DEF Stamp, engineVars
  <2> HIDE DEF l
  <2>4. thread' \in Threads /\ BootOK' /\ SendOK'
    <3>1. CASE Park(n, g)
      BY <1>g, <2>3, <3>1 DEF Pcs
    <3>2. CASE Leaves(n, g, l)
      BY <2>1, <2>3, <3>2, ThreadStep
    <3> QED  BY <2>2, <3>1, <3>2
  <2>5. TypeOK'
    BY <1>0, <1>5, <2>4 DEF TypeOK, Threads, Stamp, osVars, engineVars, netVars, historyVars
  <2> QED  BY <1>0, <1>5, <2>4, <2>5
             DEF TypeInv, CachesOK, PeersOK, Stamp, engineVars, netVars, Consistent
<1>6. ASSUME NEW m \in Node, Send(n, g, m)
      PROVE  TypeInv'
  <2> DEFINE l == [t EXCEPT !.peers = @ \ {m}]
             msg == [from |-> n, content |-> t.content, ts |-> t.ts]
  <2>1. t.pc = "send" /\ t.ts > 0
    BY <1>0, <1>6 DEF Send, At, SendOK
  <2>2. l \in Locals /\ l.pc = "send" /\ l.ts > 0
    BY <1>t, <2>1 DEF Locals
  <2>3. msg \in Message
    BY <1>t, <2>1 DEF Message
  <2>4. Park(n, g) \/ Leaves(n, g, l)
    BY <1>0, <1>6, <1>t DEF Leaves, Threads, Send
  <2>5. net' = net \/ net' = [net EXCEPT ![n][m] = Append(@, msg)]
    BY <1>6 DEF Send
  <2>6. current' = current
    BY <1>6 DEF Send, engineVars
  <2> HIDE DEF l, msg
  <2>7. thread' \in Threads /\ BootOK' /\ SendOK'
    <3>1. CASE Park(n, g)
      BY <1>g, <2>6, <3>1 DEF Pcs
    <3>2. CASE Leaves(n, g, l)
      BY <2>2, <2>6, <3>2, ThreadStep
    <3> QED  BY <2>4, <3>1, <3>2
  <2>8. net' \in [Node -> [Node -> Seq(Message)]]
    <3>1. Append(net[n][m], msg) \in Seq(Message)
      BY <1>0, <2>3, AppendProperties DEF TypeOK
    <3>2. net \in [Node -> [Node -> Seq(Message)]]
      BY <1>0 DEF TypeOK
    <3>3. ASSUME net' = [net EXCEPT ![n][m] = Append(@, msg)]
          PROVE  net' \in [Node -> [Node -> Seq(Message)]]
      BY <3>1, <3>2, <3>3
    <3> QED  BY <2>5, <3>2, <3>3
  <2>9. TypeOK'
    BY <1>0, <1>6, <2>7, <2>8 DEF TypeOK, Threads, Send, osVars, engineVars, historyVars
  <2> QED  BY <1>0, <1>6, <2>7, <2>9
             DEF TypeInv, CachesOK, PeersOK, Send, engineVars, Consistent
<1> QED  BY <1>1, <1>2, <1>3, <1>4, <1>5, <1>6 DEF SetClipboard

\* A link breaks or comes back, a daemon is started again.
LEMMA TypeFaults ==
  ASSUME TypeInv, NEW m \in Node, NEW n \in Node,
         Disconnect(m, n) \/ Connect(m, n) \/ Restart(n)
  PROVE  TypeInv'
<1> USE EngineAssumption, Goroutines
<1>0. TypeOK /\ CachesOK /\ BootOK /\ SendOK /\ PeersOK /\ thread \in Threads
  BY DEF TypeInv, TypeOK, Threads
<1>1. CASE Disconnect(m, n)
  <2>1. m # n
    BY <1>0, <1>1 DEF Disconnect, PeersOK
  <2>2. PICK i \in 0..Len(net[m][n]), j \in 0..Len(net[n][m]) :
          net' = [net EXCEPT ![m][n] = SubSeq(@, 1, i), ![n][m] = SubSeq(@, 1, j)]
    BY <1>1 DEF Disconnect
  <2>3. net[m][n] \in Seq(Message) /\ net[n][m] \in Seq(Message)
    BY <1>0 DEF TypeOK
  <2>4. ASSUME NEW s \in Seq(Message), NEW k \in 0..Len(s)
        PROVE  SubSeq(s, 1, k) \in Seq(Message)
    <3>1. Len(s) \in Nat /\ \A x \in 1..k : s[x] \in Message
      BY LenProperties, ElementOfSeq
    <3> QED  BY <3>1, SubSeqProperties
  <2>5. /\ SubSeq(net[m][n], 1, i) \in Seq(Message)
        /\ SubSeq(net[n][m], 1, j) \in Seq(Message)
    BY <2>3, <2>4
  <2>6. net' \in [Node -> [Node -> Seq(Message)]]
    BY <1>0, <2>1, <2>2, <2>5 DEF TypeOK
  <2>7. peers' \in [Node -> SUBSET Node] /\ PeersOK'
    BY <1>0, <1>1, <2>1 DEF TypeOK, PeersOK, Disconnect
  <2>8. TypeOK'
    BY <1>0, <1>1, <2>6, <2>7 DEF TypeOK, Disconnect, osVars, engineVars
  <2> QED  BY <1>0, <1>1, <2>7, <2>8
             DEF TypeInv, CachesOK, BootOK, SendOK, At, Disconnect, engineVars, Consistent
<1>2. CASE Connect(m, n)
  <2>1. peers' \in [Node -> SUBSET Node] /\ PeersOK'
    BY <1>0, <1>2 DEF TypeOK, PeersOK, Connect
  <2>2. TypeOK'
    BY <1>0, <1>2, <2>1 DEF TypeOK, Connect, osVars, engineVars, historyVars
  <2> QED  BY <1>0, <1>2, <2>1, <2>2
             DEF TypeInv, CachesOK, BootOK, SendOK, At, Connect, engineVars, Consistent
<1>3. CASE Restart(n)
  <2>1. Started \in [Goroutine -> Locals] /\ \A g \in Goroutine : Started[g].pc \notin {"bootLoad", "send"}
    BY ParkedFacts DEF Started, Pcs
  <2>2. /\ thread' \in Threads
        /\ thread'[n] = Started
        /\ \A k \in Node : k # n => thread'[k] = thread[k] /\ current'[k] = current[k]
    BY <1>0, <1>3, <2>1 DEF Restart, Threads, TypeOK
  <2>3. BootOK' /\ SendOK'
    BY <1>0, <2>1, <2>2 DEF BootOK, SendOK, At
  <2>4. EmptyCache \in EngineCaches /\ Consistent(EmptyCache) /\ dedupe' = [dedupe EXCEPT ![n] = EmptyCache]
    BY <1>3, EmptyCacheFacts DEF Restart, EngineCaches
  <2>5. dedupe' \in [Node -> EngineCaches] /\ CachesOK'
    BY <2>4, CacheStep
  <2>6. net' \in [Node -> [Node -> Seq(Message)]]
    BY <1>0, <1>3, EmptySeq DEF Restart, TypeOK
  <2>7. peers' \in [Node -> SUBSET Node] /\ PeersOK'
    BY <1>0, <1>3 DEF Restart, TypeOK, PeersOK
  <2>8. TypeOK'
    <3>1. timestamp' \in [Node -> 0..MaxTime] /\ lastRemote' \in [Node -> 0..MaxTime]
      BY <1>0, <1>3, EngineAssumption DEF Restart, TypeOK
    <3>2. notify' \in [Node -> 0..WatchBuffer]
      BY <1>0, <1>3, EngineAssumption DEF Restart, TypeOK
    <3>3. /\ current' \in [Node -> Clip \cup {Unset}]
          /\ calm' \in BOOLEAN /\ clean' \subseteq Node
      BY <1>0, <1>3 DEF Restart, TypeOK
    <3>4. UNCHANGED <<now, os, lastHash, copies, owned>>
      BY <1>3 DEF Restart
    <3> QED  BY <1>0, <2>2, <2>5, <2>6, <2>7, <3>1, <3>2, <3>3, <3>4
               DEF TypeOK, Threads, EngineCaches
  <2> QED  BY <2>3, <2>5, <2>7, <2>8 DEF TypeInv
<1> QED  BY <1>1, <1>2, <1>3

\* Every step keeps the type invariant.
LEMMA TypeNext == TypeInv /\ [Next]_vars => TypeInv'
<1> SUFFICES ASSUME TypeInv, [Next]_vars  PROVE TypeInv'
  OBVIOUS
<1>1. CASE Environment
  BY <1>1, TypeUser, TypeFaults, TypeBegin DEF Environment
<1>2. ASSUME NEW n \in Node, Run(n)
      PROVE  TypeInv'
  BY <1>2, Goroutines, TypeBoot, TypeReceive, TypeSet DEF Run
<1>3. ASSUME NEW n \in Node, WatchClipboard(n)
      PROVE  TypeInv'
  BY <1>3, Goroutines, TypeBegin, TypeSet DEF WatchClipboard
<1>4. ASSUME NEW n \in Node, NEW g \in Cli, SetClipboard(n, g)
      PROVE  TypeInv'
  BY <1>4, Goroutines, TypeSet
<1>5. CASE UNCHANGED vars
  <2>1. TypeOK'
    BY <1>5 DEF TypeInv, TypeOK, vars, osVars, engineVars, netVars, historyVars
  <2> QED  BY <1>5, <2>1 DEF TypeInv, CachesOK, BootOK, SendOK, PeersOK, At, Consistent,
                             vars, engineVars, netVars
<1> QED  BY <1>1, <1>2, <1>3, <1>4, <1>5 DEF Next

\* The engines' state keeps its types, whatever the goroutines, the users
\* and the faults of pkg/sync/engine.go's environment do.
THEOREM EngineTypeOK == Spec => []TypeOK
<1>1. TypeInv => TypeOK
  BY DEF TypeInv
<1> QED  BY <1>1, TypeInit, TypeNext, PTL DEF Spec

-----------------------------------------------------------------------------
(* What a goroutine's step does to times and messages. *)

\* Program counters at which a goroutine holds a timestamp for the cache.
Adding == {"add", "bootAdd"}

IdlePcs == {"boot", "off", "idle"}

\* The watcher starts after the loop has booted.
BootFirst == \A n \in Node : At(n, "loop", "boot") => At(n, "watch", "off")

\* No two goroutines of a clean node are in an operation.
Alone ==
  \A n \in clean : \A g, h \in Goroutine : Busy(n, g) /\ Busy(n, h) => g = h

AloneInv == TypeInv /\ BootFirst /\ Alone

\* What goroutine g of n does to the times when it leaves with locals l.
GoTimes(n, g, l) ==
  LET t == thread[n][g] IN
  /\ \/ timestamp' = timestamp
     \/ /\ timestamp' = [timestamp EXCEPT ![n] = now]
        /\ Busy(n, g) /\ l.pc \notin Adding
  /\ l.pc \in Adding => timestamp' = timestamp /\ l.ts = timestamp[n]
  /\ \A m \in Node : \A c \in DOMAIN dedupe'[m].items :
       \/ c \in DOMAIN dedupe[m].items /\ dedupe'[m].items[c] = dedupe[m].items[c]
       \/ m = n /\ t.pc \in Adding /\ dedupe'[m].items[c] = t.ts

\* How it gets busy.
GoStep(n, g, l) ==
  /\ Leaves(n, g, l)
  /\ now' = now
  /\ clean' \subseteq clean
  /\ l.pc # "boot"
  /\ g = "watch" => ~At(n, "watch", "off") \/ ~At(n, "loop", "boot")
  /\ \/ Busy(n, g)
     \/ l.pc \in IdlePcs
     \/ n \notin clean'
     \/ \A h \in Goroutine : h # g => ~Busy(n, h)
  /\ GoTimes(n, g, l)

\* Steps that touch no time.
LEMMA QuietStep ==
  ASSUME TypeInv, NEW n \in Node, NEW g \in Goroutine, NEW l \in Locals,
         UNCHANGED <<timestamp, dedupe>>, l.pc \notin Adding
  PROVE  GoTimes(n, g, l)
  BY DEF GoTimes

\* What AddDedupe and BootAdd do to the cache.
Adds(n, g) ==
  dedupe' = [dedupe EXCEPT ![n] = CacheAdd(dedupe[n], thread[n][g].content,
                                           thread[n][g].ts, DedupeSize)]

\* An Add brings one time into the cache, that of the goroutine.
LEMMA AddTimes ==
  ASSUME TypeInv, NEW n \in Node, NEW g \in Goroutine,
         Adds(n, g)
  PROVE  \A m \in Node : \A c \in DOMAIN dedupe'[m].items :
           \/ c \in DOMAIN dedupe[m].items /\ dedupe'[m].items[c] = dedupe[m].items[c]
           \/ m = n /\ dedupe'[m].items[c] = thread[n][g].ts
<1> DEFINE c0 == thread[n][g].content
           ts == thread[n][g].ts
           d == CacheAdd(dedupe[n], c0, ts, DedupeSize)
<1>1. c0 \in Clip /\ ts \in 0..MaxTime /\ dedupe \in [Node -> EngineCaches]
  BY LocalsFacts DEF TypeInv, TypeOK, EngineCaches
<1>2. \A x \in DOMAIN d.items :
        \/ x = c0 /\ d.items[x] = ts
        \/ x \in DOMAIN dedupe[n].items /\ d.items[x] = dedupe[n].items[x]
  <2> HIDE DEF c0, ts
  <2> QED  BY <1>1, CacheAddOf
<1>3. dedupe' = [dedupe EXCEPT ![n] = d]
  BY DEF Adds
<1> HIDE DEF d
<1> QED  BY <1>1, <1>2, <1>3

\* The steps of initializeState.
LEMMA GoBoot ==
  ASSUME TypeInv, BootFirst, NEW n \in Node,
         BootRead(n) \/ BootSet(n) \/ BootLoad(n) \/ BootAdd(n)
  PROVE  \E l \in Locals : GoStep(n, "loop", l)
<1>0. /\ thread \in Threads /\ TypeOK
      /\ thread[n]["loop"] \in Locals /\ "loop" \in Goroutine
  BY LocalsFacts, Goroutines DEF TypeInv, TypeOK, Threads
<1>1. CASE BootRead(n)
  <2>1. PICK c \in Clip :
          /\ thread' = [thread EXCEPT ![n]["loop"].pc = "bootSet", ![n]["loop"].content = c]
          /\ clean' = IF c # os[n] \/ \E g \in Cli : Busy(n, g) THEN clean \ {n} ELSE clean
    BY <1>0, <1>1, EngineAssumption DEF BootRead, TypeOK
  <2> DEFINE l == [thread[n]["loop"] EXCEPT !.pc = "bootSet", !.content = c]
  <2>2. l \in Locals /\ l.pc = "bootSet"
    BY <1>0 DEF Locals, Pcs
  <2>3. Leaves(n, "loop", l)
    BY <1>0, <2>1 DEF Leaves, Threads, Locals
  <2> HIDE DEF l
  <2>4. n \notin clean' \/ \A h \in Goroutine : h # "loop" => ~Busy(n, h)
    BY <1>1, <2>1 DEF BootRead, BootFirst, At, Busy, Goroutine
  <2>5. now' = now /\ clean' \subseteq clean /\ UNCHANGED <<timestamp, dedupe, net>>
    BY <1>1, <2>1 DEF BootRead, engineVars, netVars
  <2>6. GoTimes(n, "loop", l)
    BY <1>0, <2>2, <2>5, QuietStep DEF Adding
  <2> QED  BY <2>2, <2>3, <2>4, <2>5, <2>6 DEF GoStep
<1>2. CASE BootSet(n)
  <2>1. PICK l \in Locals : Leaves(n, "loop", l) /\ l.pc = "bootLoad"
    BY <1>0, <1>2, GotoFacts DEF BootSet, Pcs
  <2>2. /\ timestamp' = [timestamp EXCEPT ![n] = now] /\ Busy(n, "loop")
        /\ now' = now /\ clean' = clean /\ UNCHANGED <<dedupe, net>>
    BY <1>2 DEF BootSet, At, Busy, netVars, historyVars
  <2>3. GoTimes(n, "loop", l)
    BY <2>1, <2>2 DEF GoTimes, Adding
  <2> QED  BY <2>1, <2>2, <2>3 DEF GoStep
<1>3. CASE BootLoad(n)
  <2> DEFINE l == [thread[n]["loop"] EXCEPT !.pc = "bootAdd", !.content = current[n],
                                           !.ts = timestamp[n]]
  <2>1. current[n] \in Clip /\ timestamp[n] \in 0..MaxTime
    BY <1>0, <1>3 DEF BootLoad, BootOK, TypeOK, TypeInv
  <2>2. l \in Locals /\ l.pc = "bootAdd" /\ l.ts = timestamp[n]
    BY <1>0, <2>1 DEF Locals, Pcs
  <2>3. Leaves(n, "loop", l)
    BY <1>0, <1>3 DEF Leaves, Threads, Locals, BootLoad
  <2> HIDE DEF l
  <2>4. /\ Busy(n, "loop") /\ now' = now /\ clean' = clean
        /\ UNCHANGED <<timestamp, dedupe, net>>
    BY <1>3 DEF BootLoad, At, Busy, engineVars, netVars, historyVars
  <2>5. GoTimes(n, "loop", l)
    BY <2>2, <2>4 DEF GoTimes, Adding
  <2> QED  BY <2>2, <2>3, <2>4, <2>5 DEF GoStep
<1>4. CASE BootAdd(n)
  <2> DEFINE t == thread[n]["loop"]
             l == Parked("idle")
  <2>1. Leaves(n, "loop", l) /\ l \in Locals /\ l.pc = "idle"
    BY <1>0, <1>4, ParkFacts, ParkedFacts DEF BootAdd, Pcs
  <2>2. /\ Busy(n, "loop") /\ now' = now /\ clean' = clean /\ UNCHANGED <<timestamp, net>>
        /\ t.pc \in Adding /\ Adds(n, "loop")
    BY <1>4 DEF BootAdd, At, Busy, netVars, historyVars, Adding, Adds
  <2>3. \A m \in Node : \A c \in DOMAIN dedupe'[m].items :
          \/ c \in DOMAIN dedupe[m].items /\ dedupe'[m].items[c] = dedupe[m].items[c]
          \/ m = n /\ dedupe'[m].items[c] = t.ts
    BY <1>0, <2>2, AddTimes
  <2> HIDE DEF l
  <2>4. GoTimes(n, "loop", l)
    BY <2>1, <2>2, <2>3 DEF GoTimes, Adding
  <2> QED  BY <2>1, <2>2, <2>4 DEF GoStep
<1> QED  BY <1>1, <1>2, <1>3, <1>4

\* Where the operations of the watcher and of the API connections begin.
LEMMA GoBegin ==
  ASSUME TypeInv, NEW n \in Node,
         \/ WatchStart(n) \/ WatchRead(n) \/ WatchReadFails(n)
         \/ \E g \in Cli, c \in Clip : CliCopy(n, g, c)
  PROVE  \E g \in Goroutine : \E l \in Locals : GoStep(n, g, l)
<1>0. /\ thread \in Threads /\ TypeOK /\ "watch" \in Goroutine /\ "watch" # "loop"
      /\ \A g \in Cli : g \in Goroutine /\ g # "loop" /\ g # "watch"
  BY Goroutines DEF TypeInv, TypeOK, Threads
<1>1. CASE WatchStart(n)
  <2> DEFINE l == Parked("idle")
  <2>1. Leaves(n, "watch", l) /\ l \in Locals /\ l.pc = "idle"
    BY <1>0, <1>1, ParkFacts, ParkedFacts DEF WatchStart, Pcs
  <2>2. /\ now' = now /\ clean' = clean /\ UNCHANGED <<timestamp, dedupe, net>>
        /\ ~At(n, "loop", "boot")
    BY <1>1 DEF WatchStart, At, engineVars, netVars, historyVars
  <2> HIDE DEF l
  <2>3. GoTimes(n, "watch", l)
    BY <1>0, <2>1, <2>2, QuietStep DEF Adding
  <2> QED  BY <1>0, <2>1, <2>2, <2>3 DEF GoStep, IdlePcs
<1>2. ASSUME NEW g \in Goroutine, NEW c \in Clip, g # "loop", At(n, g, "idle"),
             thread' = [thread EXCEPT ![n][g].pc = "set", ![n][g].content = c],
             BeginsAlone(n, g) \/ clean' = clean \ {n},
             UNCHANGED <<now, timestamp, dedupe, net>>
      PROVE  \E l \in Locals : GoStep(n, g, l)
  <2> DEFINE l == [thread[n][g] EXCEPT !.pc = "set", !.content = c]
  <2>0. thread[n][g] \in Locals
    BY <1>0, LocalsFacts
  <2>1. l \in Locals /\ l.pc = "set"
    BY <2>0 DEF Locals, Pcs
  <2>2. Leaves(n, g, l)
    BY <1>0, <1>2 DEF Leaves, Threads, Locals
  <2>3. /\ clean' \subseteq clean
        /\ n \notin clean' \/ \A h \in Goroutine : h # g => ~Busy(n, h)
    BY <1>2 DEF BeginsAlone
  <2>4. g = "watch" => ~At(n, "watch", "off")
    BY <1>2 DEF At
  <2> HIDE DEF l
  <2>5. GoTimes(n, g, l)
    BY <1>2, <2>1, QuietStep DEF Adding
  <2> QED  BY <1>2, <2>1, <2>2, <2>3, <2>4, <2>5 DEF GoStep
<1>3. CASE WatchRead(n)
  <2>1. /\ At(n, "watch", "idle") /\ os[n] \in Clip
        /\ thread' = [thread EXCEPT ![n]["watch"].pc = "set", ![n]["watch"].content = os[n]]
        /\ BeginsAlone(n, "watch") \/ clean' = clean \ {n}
        /\ UNCHANGED <<now, timestamp, dedupe, net>>
    BY <1>0, <1>3 DEF WatchRead, TypeOK, engineVars, netVars
  <2> QED  BY <1>0, <1>2, <2>1
<1>4. CASE WatchReadFails(n)
  <2> DEFINE l == thread[n]["watch"]
  <2>1. l \in Locals
    BY <1>0, LocalsFacts
  <2>2. Leaves(n, "watch", l) /\ l.pc = "idle"
    BY <1>0, <1>4 DEF WatchReadFails, Leaves, Threads, At
  <2>3. /\ now' = now /\ clean' \subseteq clean /\ UNCHANGED <<timestamp, dedupe, net>>
        /\ ~At(n, "watch", "off")
    BY <1>4 DEF WatchReadFails, At, engineVars, netVars
  <2> HIDE DEF l
  <2>4. GoTimes(n, "watch", l)
    BY <1>0, <2>1, <2>2, <2>3, QuietStep DEF Adding
  <2> QED  BY <1>0, <2>1, <2>2, <2>3, <2>4 DEF GoStep, IdlePcs
<1>5. ASSUME NEW g \in Cli, NEW c \in Clip, CliCopy(n, g, c)
      PROVE  \E l \in Locals : GoStep(n, g, l)
  <2>1. /\ At(n, g, "idle")
        /\ thread' = [thread EXCEPT ![n][g].pc = "set", ![n][g].content = c]
        /\ BeginsAlone(n, g) /\ UNCHANGED <<now, timestamp, dedupe, net>>
    BY <1>5 DEF CliCopy, engineVars, netVars
  <2> QED  BY <1>0, <1>2, <2>1
<1> QED  BY <1>0, <1>1, <1>3, <1>4, <1>5

\* A message is received and judged.
LEMMA GoReceive ==
  ASSUME TypeInv, NEW n \in Node, Resolve(n) \/ \E m \in Node : Receive(n, m)
  PROVE  \E l \in Locals : GoStep(n, "loop", l)
<1>0. /\ thread \in Threads /\ TypeOK /\ "loop" \in Goroutine /\ "loop" # "watch"
  BY Goroutines DEF TypeInv, TypeOK, Threads
<1>1. ASSUME NEW m \in Node, Receive(n, m)
      PROVE  \E l \in Locals : GoStep(n, "loop", l)
  <2> DEFINE msg == Head(net[m][n])
             judged == [pc |-> "resolve", content |-> msg.content, ts |-> msg.ts,
                        peers |-> {msg.from}]
             e == CacheGet(dedupe[n], msg.content)
  <2>1. net[m][n] \in Seq(Message) /\ net[m][n] # <<>>
    BY <1>0, <1>1 DEF Receive, TypeOK
  <2>2. msg \in Message
    BY <2>1, HeadTailProperties
  <2>3. msg.content \in Clip /\ msg.ts \in 1..MaxTime /\ msg.from \in Node
    BY <2>2 DEF Message
  <2>4. judged \in Locals /\ judged.pc = "resolve"
    BY <2>3 DEF Locals, Pcs
  <2>5. e.items = dedupe[n].items
    BY CacheOf, CacheGetFacts DEF EngineCaches
  <2>6. /\ dedupe' = [dedupe EXCEPT ![n] = e]
        /\ net' = [net EXCEPT ![m][n] = Tail(@)]
        /\ At(n, "loop", "idle") /\ now' = now /\ timestamp' = timestamp
        /\ clean' \subseteq clean
        /\ \/ thread' = thread
           \/ /\ Leaves(n, "loop", judged)
              /\ n \notin clean' \/ \A h \in Goroutine : h # "loop" => ~Busy(n, h)
    BY <1>1 DEF Receive, Leaves, BeginsAlone
  <2>7. PICK l \in Locals : /\ Leaves(n, "loop", l) /\ l.pc \in {"idle", "resolve"}
                            /\ \/ l.pc = "idle" \/ n \notin clean'
                               \/ \A h \in Goroutine : h # "loop" => ~Busy(n, h)
    <3>1. CASE thread' = thread
      <4>1. Leaves(n, "loop", thread[n]["loop"]) /\ thread[n]["loop"].pc = "idle"
        BY <1>0, <2>6, <3>1 DEF Leaves, Threads, At
      <4> QED  BY <1>0, <4>1, LocalsFacts
    <3>2. CASE /\ Leaves(n, "loop", judged)
               /\ n \notin clean' \/ \A h \in Goroutine : h # "loop" => ~Busy(n, h)
      BY <2>4, <3>2
    <3> QED  BY <2>6, <3>1, <3>2
  <2> HIDE DEF e, judged, msg
  <2>8. \A k \in Node : dedupe'[k].items = dedupe[k].items
    BY <1>0, <2>5, <2>6 DEF TypeOK
  <2>9. GoTimes(n, "loop", l)
    BY <2>6, <2>7, <2>8 DEF GoTimes, Adding
  <2> QED  BY <1>0, <2>6, <2>7, <2>9 DEF GoStep, IdlePcs
<1>2. CASE Resolve(n)
  <2>1. /\ Busy(n, "loop") /\ now' = now /\ clean' = clean
        /\ UNCHANGED <<timestamp, dedupe, net>>
    BY <1>2 DEF Resolve, At, Busy, engineVars, netVars, historyVars
  <2>2. PICK l \in Locals : Leaves(n, "loop", l) /\ l.pc \in {"idle", "set"}
    BY <1>0, <1>2, ParkFacts, ParkedFacts, GotoFacts DEF Resolve, Pcs
  <2>3. GoTimes(n, "loop", l)
    BY <2>1, <2>2 DEF GoTimes, Adding
  <2> QED  BY <1>0, <2>1, <2>2, <2>3 DEF GoStep
<1> QED  BY <1>1, <1>2

\* The steps inside SetClipboard.
LEMMA GoSet ==
  ASSUME TypeInv, NEW n \in Node, NEW g \in Goroutine, SetClipboard(n, g)
  PROVE  \E l \in Locals : GoStep(n, g, l)
<1>0. thread \in Threads /\ TypeOK
  BY DEF TypeInv, TypeOK, Threads
<1> DEFINE t == thread[n][g]
<1>t. t \in Locals /\ t.content \in Clip /\ t.ts \in 0..MaxTime /\ t.peers \in SUBSET Node
  BY <1>0, LocalsFacts
\* They are steps of a goroutine that is in an operation.
<1>g. ASSUME NEW l \in Locals, Leaves(n, g, l), l.pc # "boot", Busy(n, g), ~At(n, g, "off"),
             now' = now, clean' \subseteq clean, GoTimes(n, g, l)
      PROVE  GoStep(n, g, l)
  BY <1>g DEF GoStep
<1>1. CASE SetLocked(n, g)
  <2>1. PICK l \in Locals : Leaves(n, g, l) /\ l.pc \in {"idle", "load"}
    BY <1>0, <1>1, ParkFacts, ParkedFacts, GotoFacts DEF SetLocked, Pcs
  <2>2. /\ timestamp' = timestamp \/ timestamp' = [timestamp EXCEPT ![n] = now]
        /\ Busy(n, g) /\ ~At(n, g, "off") /\ now' = now /\ clean' = clean
        /\ UNCHANGED <<dedupe, net>>
    BY <1>1 DEF SetLocked, At, Busy, netVars, historyVars
  <2>3. GoTimes(n, g, l)
    BY <2>1, <2>2 DEF GoTimes, Adding
  <2> QED  BY <1>g, <2>1, <2>2, <2>3
<1>2. CASE LoadTimestamp(n, g)
  <2> DEFINE l == [t EXCEPT !.pc = "add", !.ts = timestamp[n]]
  <2>1. timestamp[n] \in 0..MaxTime
    BY <1>0 DEF TypeOK
  <2>2. l \in Locals /\ l.pc = "add" /\ l.ts = timestamp[n]
    BY <1>t, <2>1 DEF Locals, Pcs
  <2>3. Leaves(n, g, l)
    BY <1>0, <1>2, <1>t DEF Leaves, Threads, LoadTimestamp
  <2>4. /\ Busy(n, g) /\ ~At(n, g, "off") /\ now' = now /\ clean' = clean
        /\ UNCHANGED <<timestamp, dedupe, net>>
    BY <1>2 DEF LoadTimestamp, At, Busy, engineVars, netVars, historyVars
  <2> HIDE DEF l
  <2>5. GoTimes(n, g, l)
    BY <2>2, <2>4 DEF GoTimes, Adding
  <2> QED  BY <1>g, <2>2, <2>3, <2>4, <2>5
<1>3. CASE AddDedupe(n, g)
  <2>1. PICK l \in Locals : Leaves(n, g, l) /\ l.pc \in {"stamp", "write"}
    BY <1>0, <1>3, GotoFacts DEF AddDedupe, Pcs
  <2>2. /\ Busy(n, g) /\ ~At(n, g, "off") /\ now' = now /\ clean' = clean
        /\ UNCHANGED <<timestamp, net>> /\ t.pc \in Adding /\ Adds(n, g)
    BY <1>3 DEF AddDedupe, At, Busy, netVars, historyVars, Adding, Adds
  <2>3. \A m \in Node : \A c \in DOMAIN dedupe'[m].items :
          \/ c \in DOMAIN dedupe[m].items /\ dedupe'[m].items[c] = dedupe[m].items[c]
          \/ m = n /\ dedupe'[m].items[c] = t.ts
    BY <2>2, AddTimes
  <2>4. GoTimes(n, g, l)
    BY <2>1, <2>2, <2>3 DEF GoTimes, Adding
  <2> QED  BY <1>g, <2>1, <2>2, <2>4
<1>4. CASE Write(n, g) \/ WriteFails(n, g)
  <2>1. PICK l \in Locals : Leaves(n, g, l) /\ l.pc \in {"idle", "stamp"}
    BY <1>0, <1>4, ParkFacts, ParkedFacts, GotoFacts DEF Write, WriteFails, AfterWrite, Pcs
  <2>2. /\ Busy(n, g) /\ ~At(n, g, "off") /\ now' = now /\ clean' \subseteq clean
        /\ UNCHANGED <<timestamp, dedupe, net>>
    BY <1>4 DEF Write, WriteFails, At, Busy, engineVars, netVars, historyVars
  <2>3. GoTimes(n, g, l)
    BY <1>0, <2>1, <2>2, QuietStep DEF Adding
  <2> QED  BY <1>g, <2>1, <2>2, <2>3
<1>5. CASE Stamp(n, g)
  <2> DEFINE sending == [t EXCEPT !.pc = "send", !.ts = now, !.peers = peers[n]]
  <2>1. now \in 0..MaxTime /\ peers[n] \in SUBSET Node
    BY <1>0, NowStamps DEF TypeOK
  <2>2. sending \in Locals /\ sending.pc = "send"
    BY <1>t, <2>1 DEF Locals, Pcs
  <2>3. Park(n, g) \/ Leaves(n, g, sending)
    BY <1>5 DEF Leaves, Stamp
  <2> HIDE DEF sending
  <2>4. PICK l \in Locals : Leaves(n, g, l) /\ l.pc \in {"idle", "send"}
    BY <1>0, <2>2, <2>3, ParkFacts, ParkedFacts DEF Pcs
  <2>5. /\ Busy(n, g) /\ ~At(n, g, "off") /\ now' = now /\ clean' = clean
        /\ UNCHANGED <<timestamp, dedupe, net>>
    BY <1>5 DEF Stamp, At, Busy, engineVars, netVars, historyVars
  <2>6. GoTimes(n, g, l)
    BY <2>4, <2>5 DEF GoTimes, Adding
  <2> QED  BY <1>g, <2>4, <2>5, <2>6
<1>6. ASSUME NEW m \in Node, Send(n, g, m)
      PROVE  \E l \in Locals : GoStep(n, g, l)
  <2> DEFINE sending == [t EXCEPT !.peers = @ \ {m}]
  <2>1. t.pc = "send"
    BY <1>6 DEF Send, At
  <2>2. sending \in Locals /\ sending.pc = "send"
    BY <1>t, <2>1 DEF Locals
  <2>3. Park(n, g) \/ Leaves(n, g, sending)
    BY <1>0, <1>6, <1>t DEF Leaves, Threads, Send
  <2> HIDE DEF sending
  <2>4. PICK l \in Locals : Leaves(n, g, l) /\ l.pc \in {"idle", "send"}
    BY <1>0, <2>2, <2>3, ParkFacts, ParkedFacts DEF Pcs
  <2>5. /\ Busy(n, g) /\ ~At(n, g, "off") /\ now' = now /\ clean' = clean
        /\ UNCHANGED <<timestamp, dedupe>>
    BY <1>6 DEF Send, At, Busy, engineVars, historyVars
  <2>6. GoTimes(n, g, l)
    BY <2>4, <2>5 DEF GoTimes, Adding
  <2> QED  BY <1>g, <2>4, <2>5, <2>6
<1> QED  BY <1>1, <1>2, <1>3, <1>4, <1>5, <1>6 DEF SetClipboard

\* The steps of the environment.
Outside ==
  \/ Tick \/ UNCHANGED vars
  \/ \E n \in Node : Poll(n) \/ Restart(n)
  \/ \E n \in Node, c \in Clip : UserCopy(n, c)
  \/ \E m, n \in Node : Disconnect(m, n) \/ Connect(m, n)

\* Every step is a goroutine's or one of the environment.
LEMMA StepKinds ==
  ASSUME TypeInv, BootFirst, [Next]_vars
  PROVE  \/ Outside
         \/ \E n \in Node, g \in Goroutine : \E l \in Locals : GoStep(n, g, l)
<1>1. CASE Environment
  BY <1>1, GoBegin DEF Environment, Outside
<1>2. ASSUME NEW n \in Node, Run(n)
      PROVE  \E l \in Locals : GoStep(n, "loop", l)
  BY <1>2, Goroutines, GoBoot, GoReceive, GoSet DEF Run
<1>3. ASSUME NEW n \in Node, WatchClipboard(n)
      PROVE  \E g \in Goroutine : \E l \in Locals : GoStep(n, g, l)
  BY <1>3, Goroutines, GoBegin, GoSet DEF WatchClipboard
<1>4. ASSUME NEW n \in Node, NEW g \in Cli, SetClipboard(n, g)
      PROVE  \E l \in Locals : GoStep(n, g, l)
  BY <1>4, Goroutines, GoSet
<1> QED  BY <1>1, <1>2, <1>3, <1>4, Goroutines DEF Next, Outside

-----------------------------------------------------------------------------
(* One operation at a time on a clean node. *)

\* What the environment does to goroutines, times and messages.
LEMMA OutsideFacts ==
  ASSUME TypeInv, Outside
  PROVE  /\ clean' \subseteq clean
         /\ now' \in Nat /\ now <= now'
         /\ \/ UNCHANGED <<thread, timestamp, dedupe>>
            \/ \E n \in Node : Restart(n)
         /\ \/ net' = net
            \/ \E m, n \in Node : Disconnect(m, n)
            \/ \E n \in Node : Restart(n)
<1>1. now \in 1..MaxTime /\ now \in Nat
  BY DEF TypeInv, TypeOK
<1>2. CASE Tick
  BY <1>1, <1>2 DEF Tick, engineVars, netVars, historyVars
<1>3. CASE UNCHANGED vars
  BY <1>1, <1>3 DEF vars, engineVars, netVars, historyVars
<1>4. ASSUME NEW n \in Node, Poll(n)
      PROVE  clean' = clean /\ now' = now /\ UNCHANGED <<thread, timestamp, dedupe, net>>
  BY <1>4 DEF Poll, engineVars, netVars, historyVars
<1>5. ASSUME NEW n \in Node, Restart(n)
      PROVE  clean' \subseteq clean /\ now' = now
  BY <1>5 DEF Restart
<1>6. ASSUME NEW n \in Node, NEW c \in Clip, UserCopy(n, c)
      PROVE  clean' \subseteq clean /\ now' = now /\ UNCHANGED <<thread, timestamp, dedupe, net>>
  BY <1>6 DEF UserCopy, engineVars, netVars
<1>7. ASSUME NEW m \in Node, NEW n \in Node, Disconnect(m, n)
      PROVE  clean' = clean /\ now' = now /\ UNCHANGED <<thread, timestamp, dedupe>>
  BY <1>7 DEF Disconnect, engineVars
<1>8. ASSUME NEW m \in Node, NEW n \in Node, Connect(m, n)
      PROVE  clean' = clean /\ now' = now /\ UNCHANGED <<thread, timestamp, dedupe, net>>
  BY <1>8 DEF Connect, engineVars, historyVars
<1>9. now <= now
  BY <1>1
<1> QED  BY <1>1, <1>2, <1>3, <1>4, <1>5, <1>6, <1>7, <1>8, <1>9 DEF Outside

\* A restarted node has no goroutine in an operation.
LEMMA RestartFacts ==
  ASSUME TypeInv, NEW n \in Node, Restart(n)
  PROVE  /\ \A g \in Goroutine : thread'[n][g].pc \in IdlePcs
         /\ thread'[n]["loop"].pc = "boot" /\ thread'[n]["watch"].pc = "off"
         /\ \A k \in Node : k # n => /\ thread'[k] = thread[k]
                                     /\ timestamp'[k] = timestamp[k]
                                     /\ dedupe'[k] = dedupe[k]
         /\ timestamp'[n] = 0 /\ DOMAIN dedupe'[n].items = {}
         /\ clean' = clean \ {n}
         /\ \A m, k \in Node : net'[m][k] = IF k = n THEN <<>> ELSE net[m][k]
         /\ now' = now
<1>1. /\ \A g \in Goroutine : Started[g].pc \in IdlePcs
      /\ Started["loop"].pc = "boot" /\ Started["watch"].pc = "off"
  BY ParkedFacts, Goroutines DEF Started, Pcs, IdlePcs
<1>2. thread'[n] = Started /\ \A k \in Node : k # n => thread'[k] = thread[k]
  BY DEF Restart, TypeInv, TypeOK
<1>3. /\ timestamp'[n] = 0 /\ dedupe'[n] = EmptyCache
      /\ \A k \in Node : k # n => timestamp'[k] = timestamp[k] /\ dedupe'[k] = dedupe[k]
  BY DEF Restart, TypeInv, TypeOK
<1>4. \A m, k \in Node : net'[m][k] = IF k = n THEN <<>> ELSE net[m][k]
  BY DEF Restart
<1> QED  BY <1>1, <1>2, <1>3, <1>4, EmptyCacheFacts DEF Restart

LEMMA AloneInit == Init => AloneInv
<1> SUFFICES ASSUME Init  PROVE AloneInv
  OBVIOUS
<1>1. /\ \A g \in Goroutine : Started[g].pc \in IdlePcs
      /\ Started["watch"].pc = "off"
  BY ParkedFacts, Goroutines DEF Started, Pcs, IdlePcs
<1>2. BootFirst /\ Alone
  BY <1>1 DEF Init, BootFirst, Alone, At, Busy, IdlePcs
<1> QED  BY <1>2, TypeInit DEF AloneInv

LEMMA AloneNext == AloneInv /\ [Next]_vars => AloneInv'
<1> SUFFICES ASSUME AloneInv, [Next]_vars  PROVE AloneInv'
  OBVIOUS
<1>0. TypeInv /\ BootFirst /\ Alone /\ TypeInv' /\ clean \subseteq Node /\ thread \in Threads
  BY TypeNext DEF AloneInv, TypeInv, TypeOK, Threads
<1>1. ASSUME NEW n \in Node, NEW g \in Goroutine, NEW l \in Locals, GoStep(n, g, l)
      PROVE  BootFirst' /\ Alone'
  <2>1. /\ thread'[n][g] = l
        /\ \A h \in Goroutine : h # g => thread'[n][h] = thread[n][h]
        /\ \A m \in Node : m # n => thread'[m] = thread[m]
    BY <1>0, <1>1, LeavesFacts DEF GoStep
  <2>2. BootFirst'
    BY <1>0, <1>1, <2>1, Goroutines DEF GoStep, BootFirst, At
  <2>3. Alone'
    <3> SUFFICES ASSUME NEW k \in clean', NEW h \in Goroutine, NEW i \in Goroutine,
                        Busy(k, h)', Busy(k, i)', h # i
                 PROVE  FALSE
      BY DEF Alone
    <3>1. k \in clean /\ k \in Node
      BY <1>0, <1>1 DEF GoStep
    <3>2. CASE k # n
      BY <1>0, <2>1, <3>1, <3>2 DEF Alone, Busy
    <3>3. CASE k = n
      <4>1. \A j \in Goroutine : j # g /\ Busy(n, j)' => Busy(n, j)
        BY <2>1 DEF Busy
      <4>2. l.pc \in IdlePcs => ~Busy(n, g)'
        BY <2>1 DEF Busy, IdlePcs
      <4>3. \/ Busy(n, g) \/ l.pc \in IdlePcs
            \/ \A j \in Goroutine : j # g => ~Busy(n, j)
        BY <1>1, <3>3 DEF GoStep
      <4>4. \A j, m \in Goroutine : Busy(n, j) /\ Busy(n, m) => j = m
        BY <1>0, <3>1, <3>3 DEF Alone
      <4> QED  BY <3>3, <4>1, <4>2, <4>3, <4>4
    <3> QED  BY <3>2, <3>3
  <2> QED  BY <2>2, <2>3
<1>2. ASSUME Outside
      PROVE  BootFirst' /\ Alone'
  <2>1. CASE thread' = thread
    BY <1>0, <1>2, <2>1, OutsideFacts DEF BootFirst, Alone, At, Busy
  <2>2. ASSUME NEW n \in Node, Restart(n)
        PROVE  BootFirst' /\ Alone'
    BY <1>0, <2>2, RestartFacts DEF BootFirst, Alone, At, Busy, IdlePcs
  <2> QED  BY <1>0, <1>2, <2>1, <2>2, OutsideFacts
<1> QED  BY <1>0, <1>1, <1>2, StepKinds DEF AloneInv

-----------------------------------------------------------------------------
(* The cache is never ahead of the engine. *)

\* A time on its way to the cache is not ahead either.
AddingNotAhead ==
  \A n \in Node, g \in Goroutine : thread[n][g].pc \in Adding => thread[n][g].ts <= timestamp[n]

TimesInv == AloneInv /\ CacheNotAhead /\ AddingNotAhead

LEMMA TimesInit == Init => TimesInv
<1> SUFFICES ASSUME Init  PROVE TimesInv
  OBVIOUS
<1>1. \A g \in Goroutine : Started[g].pc \in IdlePcs
  BY ParkedFacts, Goroutines DEF Started, Pcs, IdlePcs
<1>2. CacheNotAhead
  BY EmptyCacheFacts DEF Init, CacheNotAhead
<1>3. AddingNotAhead
  BY <1>1 DEF Init, AddingNotAhead, Adding, IdlePcs
<1> QED  BY <1>2, <1>3, AloneInit DEF TimesInv

LEMMA TimesNext == TimesInv /\ [Next]_vars => TimesInv'
<1> SUFFICES ASSUME TimesInv, [Next]_vars  PROVE TimesInv'
  OBVIOUS
<1>0. /\ TypeInv /\ AloneInv /\ AloneInv' /\ BootFirst
      /\ thread \in Threads /\ now \in Nat
      /\ \A n \in Node : timestamp[n] \in Nat /\ timestamp'[n] \in Nat
  <2>1. TypeInv /\ AloneInv /\ AloneInv' /\ BootFirst /\ TypeInv'
    BY AloneNext DEF TimesInv, AloneInv
  <2>2. /\ thread \in Threads /\ now \in 1..MaxTime
        /\ timestamp \in [Node -> 0..MaxTime] /\ timestamp' \in [Node -> 0..MaxTime]
    BY <2>1 DEF TypeInv, TypeOK, Threads
  <2>3. now \in Nat /\ \A n \in Node : timestamp[n] \in Nat /\ timestamp'[n] \in Nat
    BY <2>2
  <2> QED  BY <2>1, <2>2, <2>3
<1>t. /\ \A n \in Node, g \in Goroutine : thread[n][g].ts \in Nat
      /\ \A n \in Node : \A c \in DOMAIN dedupe[n].items : dedupe[n].items[c] \in Nat
  <2>1. \A n \in Node, g \in Goroutine : thread[n][g].ts \in 0..MaxTime
    BY <1>0, LocalsFacts DEF TypeInv
  <2>2. ASSUME NEW n \in Node, NEW c \in DOMAIN dedupe[n].items
        PROVE  dedupe[n].items[c] \in 0..MaxTime
    <3>1. dedupe[n] \in Caches(Clip \cup {Unset}, 0..MaxTime)
      BY <1>0 DEF TypeInv, TypeOK
    <3> DEFINE e == dedupe[n]
    <3> HIDE DEF e
    <3>2. e.items \in [DOMAIN e.items -> 0..MaxTime]
      BY <3>1, CacheParts DEF e
    <3> QED  BY <3>2 DEF e
  <2> QED  BY <2>1, <2>2
<1>i. /\ \A n \in Node : timestamp[n] <= now
      /\ \A n \in Node : \A c \in DOMAIN dedupe[n].items : dedupe[n].items[c] <= timestamp[n]
      /\ \A n \in Node, g \in Goroutine :
           thread[n][g].pc \in Adding => thread[n][g].ts <= timestamp[n]
  BY DEF TimesInv, CacheNotAhead, AddingNotAhead
<1>1. ASSUME NEW n \in Node, NEW g \in Goroutine, NEW l \in Locals, GoStep(n, g, l)
      PROVE  CacheNotAhead' /\ AddingNotAhead'
  <2>1. /\ thread'[n][g] = l
        /\ \A h \in Goroutine : h # g => thread'[n][h] = thread[n][h]
        /\ \A m \in Node : m # n => thread'[m] = thread[m]
    BY <1>0, <1>1, LeavesFacts DEF GoStep
  <2>2. now' = now /\ GoTimes(n, g, l)
    BY <1>1 DEF GoStep
  <2>3. \A m \in Node : timestamp[m] <= timestamp'[m] /\ timestamp'[m] <= now
    <3>1. timestamp' = timestamp \/ timestamp' = [timestamp EXCEPT ![n] = now]
      BY <2>2 DEF GoTimes
    <3>2. timestamp \in [Node -> 0..MaxTime]
      BY <1>0 DEF TypeInv, TypeOK
    <3>3. \A m \in Node : timestamp'[m] = timestamp[m] \/ timestamp'[m] = now
      BY <3>1, <3>2
    <3> QED  BY <1>0, <1>i, <3>3
  <2>4. ASSUME NEW m \in Node, NEW c \in DOMAIN dedupe'[m].items
        PROVE  dedupe'[m].items[c] <= timestamp'[m]
    <3>1. dedupe'[m].items[c] \in Nat /\ dedupe'[m].items[c] <= timestamp[m]
      <4>1. \/ c \in DOMAIN dedupe[m].items /\ dedupe'[m].items[c] = dedupe[m].items[c]
            \/ m = n /\ thread[n][g].pc \in Adding /\ dedupe'[m].items[c] = thread[n][g].ts
        BY <2>2 DEF GoTimes
      <4> QED  BY <1>t, <1>i, <4>1
    <3> QED  BY <1>0, <2>3, <3>1
  <2>5. CacheNotAhead'
    BY <2>2, <2>3, <2>4 DEF CacheNotAhead
  <2>6. ASSUME NEW m \in Node, NEW h \in Goroutine, thread'[m][h].pc \in Adding
        PROVE  thread'[m][h].ts <= timestamp'[m]
    <3>1. CASE m = n /\ h = g
      BY <1>0, <2>1, <2>2, <2>6, <3>1 DEF GoTimes
    <3>2. CASE m # n \/ h # g
      <4>1. thread'[m][h] = thread[m][h]
        BY <2>1, <3>2
      <4> QED  BY <1>0, <1>t, <1>i, <2>3, <2>6, <4>1
    <3> QED  BY <3>1, <3>2
  <2> QED  BY <2>5, <2>6 DEF AddingNotAhead
<1>2. ASSUME Outside
      PROVE  CacheNotAhead' /\ AddingNotAhead'
  <2>1. now' \in Nat /\ now <= now'
    BY <1>0, <1>2, OutsideFacts
  <2>2. CASE UNCHANGED <<thread, timestamp, dedupe>>
    <3>1. \A m \in Node : timestamp[m] <= now'
      BY <1>0, <1>i, <2>1
    <3> QED  BY <1>i, <2>2, <3>1 DEF CacheNotAhead, AddingNotAhead
  <2>3. ASSUME NEW n \in Node, Restart(n)
        PROVE  CacheNotAhead' /\ AddingNotAhead'
    <3>1. now' = now /\ 0 <= now
      BY <1>0, <2>3, RestartFacts
    <3>2. CacheNotAhead'
      BY <1>0, <1>i, <2>3, <3>1, RestartFacts DEF CacheNotAhead
    <3>3. AddingNotAhead'
      BY <1>0, <1>i, <2>3, RestartFacts DEF AddingNotAhead, Adding, IdlePcs
    <3> QED  BY <3>2, <3>3
  <2> QED  BY <1>0, <1>2, <2>2, <2>3, OutsideFacts
<1> QED  BY <1>0, <1>1, <1>2, StepKinds DEF TimesInv

\* However goroutines interleave between the unlocked load of e.timestamp
\* (engine.go:246, 359) and dedupe.Add, the cache holds no time later than
\* that of the engine's newest change.
THEOREM CacheNeverAhead == Spec => []CacheNotAhead
<1>1. TimesInv => CacheNotAhead
  BY DEF TimesInv
<1> QED  BY <1>1, TimesInit, TimesNext, PTL DEF Spec

-----------------------------------------------------------------------------
(* What a goroutine's step does to the contents. *)

Booting == {"boot", "bootSet", "bootLoad", "bootAdd"}

\* Where a content is in the engine's state and not yet on the OS clipboard.
Pending == {"load", "add", "write"}

LoopPcs == Booting \cup {"idle", "resolve", "set"} \cup Pending
WatchPcs == {"off", "idle", "set", "load", "add", "stamp", "send"}
CliPcs == {"idle", "set", "stamp", "send"} \cup Pending

\* Where each goroutine can be; the watcher starts after initializeState.
Roles ==
  \A n \in Node :
    /\ thread[n]["loop"].pc \in LoopPcs
    /\ thread[n]["watch"].pc \in WatchPcs
    /\ \A g \in Cli : thread[n][g].pc \in CliPcs
    /\ thread[n]["loop"].pc \in Booting => At(n, "watch", "off")

DataInv == AloneInv /\ Roles

SameOS(n) == os'[n] = os[n] /\ lastHash'[n] = lastHash[n] /\ notify'[n] = notify[n]
Same(n) == SameOS(n) /\ current'[n] = current[n]

\* initializeState, the watcher's start, and the loop's receiving end.
LoopData(n, l) ==
  LET t == thread[n]["loop"] IN
  \/ /\ t.pc = "boot" /\ l.pc = "bootSet" /\ Same(n)
     /\ n \in clean' => l.content = os[n]
  \/ /\ t.pc = "bootSet" /\ l.pc = "bootLoad"
     /\ SameOS(n) /\ current'[n] = t.content
  \/ t.pc = "bootLoad" /\ l.pc = "bootAdd" /\ Same(n)
  \/ t.pc = "bootAdd" /\ l.pc = "idle" /\ Same(n)
  \/ t.pc = "idle" /\ l.pc \in {"idle", "resolve"} /\ Same(n)
  \/ t.pc = "resolve" /\ l.pc \in {"idle", "set"} /\ Same(n)

WatchData(n, l) ==
  LET t == thread[n]["watch"] IN
  \/ /\ t.pc = "off" /\ l.pc = "idle" /\ thread[n]["loop"].pc \notin Booting
     /\ os'[n] = os[n] /\ lastHash'[n] = os[n] /\ notify'[n] = notify[n]
     /\ current'[n] = current[n]
  \/ /\ t.pc = "idle" /\ l.pc = "set" /\ l.content = os[n]
     /\ os'[n] = os[n] /\ lastHash'[n] = lastHash[n] /\ current'[n] = current[n]
     /\ n \in clean' => os[n] = lastHash[n]
  \/ t.pc = "idle" /\ l.pc = "idle" /\ n \notin clean'

\* SetClipboard, of goroutine g.
SetData(n, g, l) ==
  LET t == thread[n][g] IN
  \/ t.pc = "set" /\ l.pc = "idle" /\ t.content = current[n] /\ Same(n)
  \/ /\ t.pc = "set" /\ l.pc = "load" /\ t.content # current[n] /\ l.content = t.content
     /\ SameOS(n) /\ current'[n] = t.content
  \/ /\ t.pc = "set" /\ l.pc = "idle" /\ g = "watch"
     /\ SameOS(n) /\ current'[n] = t.content
  \/ t.pc = "load" /\ l.pc = "add" /\ l.content = t.content /\ Same(n)
  \/ /\ t.pc = "add" /\ l.pc = (IF g = "watch" THEN "stamp" ELSE "write")
     /\ l.content = t.content /\ Same(n)
  \/ /\ t.pc = "write" /\ (IF g = "loop" THEN l.pc = "idle"
                           ELSE l.pc = "stamp" /\ l.content = t.content)
     /\ \/ n \notin clean'
        \/ /\ os'[n] = t.content /\ lastHash'[n] = t.content
           /\ notify'[n] = notify[n] /\ current'[n] = current[n]
  \/ t.pc = "stamp" /\ l.pc = "idle" /\ Same(n)
  \/ t.pc \in {"stamp", "send"} /\ l.pc = "send" /\ l.content = t.content /\ Same(n)
  \/ t.pc = "send" /\ l.pc = "idle" /\ Same(n)

\* A message sent carries the content of the goroutine that sends it.
SentData(n, g) ==
  \/ net' = net
  \/ \E m \in Node : net[m][n] # <<>> /\ net' = [net EXCEPT ![m][n] = Tail(@)]
  \/ /\ thread[n][g].pc = "send"
     /\ \E m \in Node, msg \in Message :
          msg.content = thread[n][g].content /\ net' = [net EXCEPT ![n][m] = Append(@, msg)]

DataStep(n, g, l) ==
  /\ Leaves(n, g, l)
  /\ \A k \in Node : k # n => Same(k)
  /\ owned \subseteq owned' /\ clean' \subseteq clean
  /\ SentData(n, g)
  /\ \/ g = "loop" /\ LoopData(n, l)
     \/ g = "watch" /\ WatchData(n, l)
     \/ /\ g \in Cli /\ thread[n][g].pc = "idle" /\ l.pc = "set"
        /\ <<n, l.content>> \in owned' /\ Same(n)
     \/ SetData(n, g, l)

\* The variables Same speaks of are functions on the nodes.
LEMMA SameFacts ==
  ASSUME TypeInv
  PROVE  /\ \A k \in Node : UNCHANGED <<os, lastHash, notify, current>> => Same(k)
         /\ UNCHANGED osVars => \A k \in Node : SameOS(k)
         /\ UNCHANGED <<osVars, engineVars>> => \A k \in Node : Same(k)
  BY DEF Same, SameOS, osVars, engineVars

LEMMA DataBoot ==
  ASSUME TypeInv, NEW n \in Node, BootRead(n) \/ BootSet(n) \/ BootLoad(n) \/ BootAdd(n)
  PROVE  \E l \in Locals : DataStep(n, "loop", l)
<1>0. /\ thread \in Threads /\ TypeOK
      /\ thread[n]["loop"] \in Locals /\ "loop" \in Goroutine
  BY LocalsFacts, Goroutines DEF TypeInv, TypeOK, Threads
<1>1. CASE BootRead(n)
  <2>1. PICK c \in Clip :
          /\ thread' = [thread EXCEPT ![n]["loop"].pc = "bootSet", ![n]["loop"].content = c]
          /\ clean' = IF c # os[n] \/ \E g \in Cli : Busy(n, g) THEN clean \ {n} ELSE clean
    BY <1>0, <1>1, EngineAssumption DEF BootRead, TypeOK
  <2> DEFINE l == [thread[n]["loop"] EXCEPT !.pc = "bootSet", !.content = c]
  <2>2. l \in Locals /\ l.pc = "bootSet" /\ l.content = c
    BY <1>0 DEF Locals, Pcs
  <2>3. Leaves(n, "loop", l)
    BY <1>0, <2>1 DEF Leaves, Threads, Locals
  <2> HIDE DEF l
  <2>4. n \in clean' => l.content = os[n]
    BY <2>1, <2>2
  <2>5. clean' \subseteq clean
    BY <2>1
  <2>6. /\ \A k \in Node : Same(k)
        /\ owned' = owned /\ net' = net /\ thread[n]["loop"].pc = "boot"
    BY <1>1, SameFacts DEF BootRead, netVars, At
  <2> QED  BY <2>2, <2>3, <2>4, <2>5, <2>6 DEF DataStep, LoopData, SentData
<1>2. CASE BootSet(n)
  <2>1. PICK l \in Locals : Leaves(n, "loop", l) /\ l.pc = "bootLoad"
    BY <1>0, <1>2, GotoFacts DEF BootSet, Pcs
  <2>2. /\ \A k \in Node : SameOS(k)
        /\ owned' = owned /\ clean' = clean /\ net' = net /\ thread[n]["loop"].pc = "bootSet"
        /\ current' = [current EXCEPT ![n] = thread[n]["loop"].content]
    BY <1>2, SameFacts DEF BootSet, netVars, historyVars, At
  <2>3. current'[n] = thread[n]["loop"].content /\ \A k \in Node : k # n => Same(k)
    BY <1>0, <2>2 DEF TypeOK, Same
  <2> QED  BY <2>1, <2>2, <2>3 DEF DataStep, LoopData, SentData
<1>3. CASE BootLoad(n)
  <2> DEFINE l == [thread[n]["loop"] EXCEPT !.pc = "bootAdd", !.content = current[n],
                                           !.ts = timestamp[n]]
  <2>1. current[n] \in Clip /\ timestamp[n] \in 0..MaxTime
    BY <1>0, <1>3 DEF BootLoad, BootOK, TypeOK, TypeInv
  <2>2. l \in Locals /\ l.pc = "bootAdd"
    BY <1>0, <2>1 DEF Locals, Pcs
  <2>3. Leaves(n, "loop", l)
    BY <1>0, <1>3 DEF Leaves, Threads, Locals, BootLoad
  <2> HIDE DEF l
  <2>4. /\ \A k \in Node : Same(k)
        /\ owned' = owned /\ clean' = clean /\ net' = net /\ thread[n]["loop"].pc = "bootLoad"
    BY <1>3, SameFacts DEF BootLoad, netVars, historyVars, At
  <2> QED  BY <2>2, <2>3, <2>4 DEF DataStep, LoopData, SentData
<1>4. CASE BootAdd(n)
  <2>1. PICK l \in Locals : Leaves(n, "loop", l) /\ l.pc = "idle"
    BY <1>0, <1>4, ParkFacts, ParkedFacts DEF BootAdd, Pcs
  <2>2. /\ \A k \in Node : Same(k)
        /\ owned' = owned /\ clean' = clean /\ net' = net /\ thread[n]["loop"].pc = "bootAdd"
    BY <1>4, SameFacts DEF BootAdd, netVars, historyVars, At, Same, SameOS, osVars
  <2> QED  BY <2>1, <2>2 DEF DataStep, LoopData, SentData
<1> QED  BY <1>1, <1>2, <1>3, <1>4

LEMMA DataBegin ==
  ASSUME TypeInv, NEW n \in Node,
         \/ WatchStart(n) \/ WatchRead(n) \/ WatchReadFails(n)
         \/ \E g \in Cli, c \in Clip : CliCopy(n, g, c)
  PROVE  \E g \in Goroutine : \E l \in Locals : DataStep(n, g, l)
<1>0. /\ thread \in Threads /\ TypeOK /\ "watch" \in Goroutine
      /\ \A g \in Cli : g \in Goroutine
  BY Goroutines DEF TypeInv, TypeOK, Threads
<1>s. ASSUME NEW g \in Goroutine, NEW c \in Clip,
             thread' = [thread EXCEPT ![n][g].pc = "set", ![n][g].content = c]
      PROVE  \E l \in Locals : Leaves(n, g, l) /\ l.pc = "set" /\ l.content = c
  <2> DEFINE l == [thread[n][g] EXCEPT !.pc = "set", !.content = c]
  <2>0. thread[n][g] \in Locals
    BY <1>0, LocalsFacts
  <2>1. l \in Locals /\ l.pc = "set" /\ l.content = c
    BY <2>0 DEF Locals, Pcs
  <2>2. Leaves(n, g, l)
    BY <1>0, <1>s DEF Leaves, Threads, Locals
  <2> QED  BY <2>1, <2>2
<1>1. CASE WatchStart(n)
  <2>1. PICK l \in Locals : Leaves(n, "watch", l) /\ l.pc = "idle"
    BY <1>0, <1>1, ParkFacts, ParkedFacts DEF WatchStart, Pcs
  <2>2. /\ os' = os /\ notify' = notify /\ current' = current
        /\ lastHash' = [lastHash EXCEPT ![n] = os[n]]
        /\ owned' = owned /\ clean' = clean /\ net' = net /\ thread[n]["watch"].pc = "off"
        /\ thread[n]["loop"].pc \notin Booting
    BY <1>1 DEF WatchStart, engineVars, netVars, historyVars, At, Booting
  <2>3. lastHash'[n] = os[n] /\ \A k \in Node : k # n => Same(k)
    BY <1>0, <2>2 DEF TypeOK, Same, SameOS
  <2> QED  BY <1>0, <2>1, <2>2, <2>3 DEF DataStep, WatchData, SentData
<1>2. CASE WatchRead(n)
  <2>1. /\ os[n] \in Clip
        /\ thread' = [thread EXCEPT ![n]["watch"].pc = "set", ![n]["watch"].content = os[n]]
    BY <1>0, <1>2 DEF WatchRead, TypeOK
  <2>2. PICK l \in Locals : Leaves(n, "watch", l) /\ l.pc = "set" /\ l.content = os[n]
    BY <1>0, <1>s, <2>1
  <2>3. /\ os' = os /\ lastHash' = lastHash /\ current' = current
        /\ notify' = [notify EXCEPT ![n] = @ - 1]
        /\ owned' = owned /\ clean' \subseteq clean /\ net' = net
        /\ thread[n]["watch"].pc = "idle"
        /\ n \in clean' => os[n] = lastHash[n]
    BY <1>2 DEF WatchRead, BeginsAlone, engineVars, netVars, At
  <2>4. \A k \in Node : k # n => Same(k)
    BY <1>0, <2>3 DEF TypeOK, Same, SameOS
  <2> QED  BY <1>0, <2>2, <2>3, <2>4 DEF DataStep, WatchData, SentData
<1>3. CASE WatchReadFails(n)
  <2> DEFINE l == thread[n]["watch"]
  <2>1. l \in Locals
    BY <1>0, LocalsFacts
  <2>2. Leaves(n, "watch", l) /\ l.pc = "idle"
    BY <1>0, <1>3 DEF WatchReadFails, Leaves, Threads, At
  <2>3. /\ os' = os /\ lastHash' = lastHash /\ current' = current
        /\ notify' = [notify EXCEPT ![n] = @ - 1]
        /\ owned' = owned /\ clean' \subseteq clean /\ net' = net /\ n \notin clean'
    BY <1>3 DEF WatchReadFails, engineVars, netVars
  <2>4. \A k \in Node : k # n => Same(k)
    BY <1>0, <2>3 DEF TypeOK, Same, SameOS
  <2> QED  BY <1>0, <2>1, <2>2, <2>3, <2>4 DEF DataStep, WatchData, SentData
<1>4. ASSUME NEW g \in Cli, NEW c \in Clip, CliCopy(n, g, c)
      PROVE  \E l \in Locals : DataStep(n, g, l)
  <2>1. PICK l \in Locals : Leaves(n, g, l) /\ l.pc = "set" /\ l.content = c
    BY <1>0, <1>4, <1>s DEF CliCopy
  <2>2. /\ \A k \in Node : Same(k)
        /\ owned' = owned \cup {<<n, c>>} /\ clean' \subseteq clean /\ net' = net
        /\ thread[n][g].pc = "idle"
    BY <1>4, SameFacts DEF CliCopy, CopyBy, BeginsAlone, netVars, At
  <2> QED  BY <2>1, <2>2 DEF DataStep, SentData
<1> QED  BY <1>0, <1>1, <1>2, <1>3, <1>4

LEMMA DataReceive ==
  ASSUME TypeInv, NEW n \in Node, Resolve(n) \/ \E m \in Node : Receive(n, m)
  PROVE  \E l \in Locals : DataStep(n, "loop", l)
<1>0. /\ thread \in Threads /\ TypeOK /\ "loop" \in Goroutine
  BY Goroutines DEF TypeInv, TypeOK, Threads
<1>1. ASSUME NEW m \in Node, Receive(n, m)
      PROVE  \E l \in Locals : DataStep(n, "loop", l)
  <2> DEFINE msg == Head(net[m][n])
             judged == [pc |-> "resolve", content |-> msg.content, ts |-> msg.ts,
                        peers |-> {msg.from}]
  <2>1. net[m][n] \in Seq(Message) /\ net[m][n] # <<>>
    BY <1>0, <1>1 DEF Receive, TypeOK
  <2>2. msg \in Message
    BY <2>1, HeadTailProperties
  <2>3. judged \in Locals /\ judged.pc = "resolve"
    BY <2>2 DEF Locals, Pcs, Message
  <2>4. /\ net' = [net EXCEPT ![m][n] = Tail(@)]
        /\ thread[n]["loop"].pc = "idle"
        /\ owned' = owned /\ clean' \subseteq clean
        /\ thread' = thread \/ Leaves(n, "loop", judged)
        /\ \A k \in Node : Same(k)
    BY <1>1, SameFacts DEF Receive, Leaves, BeginsAlone, At, osVars
  <2>5. PICK l \in Locals : Leaves(n, "loop", l) /\ l.pc \in {"idle", "resolve"}
    <3>1. CASE thread' = thread
      <4>1. Leaves(n, "loop", thread[n]["loop"]) /\ thread[n]["loop"].pc = "idle"
        BY <1>0, <2>4, <3>1 DEF Leaves, Threads
      <4> QED  BY <1>0, <4>1, LocalsFacts
    <3> HIDE DEF judged
    <3> QED  BY <2>3, <2>4, <3>1
  <2> HIDE DEF msg, judged
  <2> QED  BY <2>1, <2>4, <2>5 DEF DataStep, LoopData, SentData
<1>2. CASE Resolve(n)
  <2>1. PICK l \in Locals : Leaves(n, "loop", l) /\ l.pc \in {"idle", "set"}
    BY <1>0, <1>2, ParkFacts, ParkedFacts, GotoFacts DEF Resolve, Pcs
  <2>2. /\ \A k \in Node : Same(k)
        /\ owned' = owned /\ clean' = clean /\ net' = net /\ thread[n]["loop"].pc = "resolve"
    BY <1>2, SameFacts DEF Resolve, netVars, historyVars, At
  <2> QED  BY <2>1, <2>2 DEF DataStep, LoopData, SentData
<1> QED  BY <1>1, <1>2

LEMMA DataSet ==
  ASSUME TypeInv, NEW n \in Node, NEW g \in Goroutine, SetClipboard(n, g)
  PROVE  \E l \in Locals : DataStep(n, g, l)
<1>0. thread \in Threads /\ TypeOK
  BY DEF TypeInv, TypeOK, Threads
<1> DEFINE t == thread[n][g]
<1>t. t \in Locals /\ t.content \in Clip /\ t.ts \in 0..MaxTime /\ t.peers \in SUBSET Node
  BY <1>0, LocalsFacts
<1>p. Park(n, g) => \E l \in Locals : Leaves(n, g, l) /\ l.pc = "idle"
  BY <1>0, ParkFacts, ParkedFacts DEF Pcs
<1>g. ASSUME NEW pc \in Pcs, Goto(n, g, pc)
      PROVE  \E l \in Locals : Leaves(n, g, l) /\ l.pc = pc /\ l.content = t.content
  BY <1>0, <1>g, GotoFacts
<1>1. CASE SetLocked(n, g)
  <2>1. /\ t.pc = "set" /\ net' = net /\ owned' = owned /\ clean' = clean
        /\ \A k \in Node : SameOS(k)
    BY <1>1, SameFacts DEF SetLocked, At, netVars, historyVars
  <2>2. CASE t.content = current[n] /\ Park(n, g) /\ current' = current
    <3>1. PICK l \in Locals : Leaves(n, g, l) /\ l.pc = "idle"
      BY <1>p, <2>2
    <3> QED  BY <2>1, <2>2, <3>1 DEF DataStep, SetData, SentData, Same
  <2>3. CASE /\ t.content # current[n]
             /\ current' = [current EXCEPT ![n] = t.content]
             /\ (g = "watch" /\ Park(n, g)) \/ Goto(n, g, "load")
    <3>1. current'[n] = t.content /\ \A k \in Node : k # n => Same(k)
      BY <1>0, <2>1, <2>3 DEF TypeOK, Same
    <3>2. PICK l \in Locals : /\ Leaves(n, g, l)
                              /\ \/ g = "watch" /\ l.pc = "idle"
                                 \/ l.pc = "load" /\ l.content = t.content
      BY <1>p, <1>g, <2>3 DEF Pcs
    <3> QED  BY <2>1, <2>3, <3>1, <3>2 DEF DataStep, SetData, SentData
  <2> QED  BY <1>1, <2>2, <2>3 DEF SetLocked
<1>2. CASE LoadTimestamp(n, g)
  <2> DEFINE l == [t EXCEPT !.pc = "add", !.ts = timestamp[n]]
  <2>1. timestamp[n] \in 0..MaxTime
    BY <1>0 DEF TypeOK
  <2>2. l \in Locals /\ l.pc = "add" /\ l.content = t.content
    BY <1>t, <2>1 DEF Locals, Pcs
  <2>3. Leaves(n, g, l)
    BY <1>0, <1>2, <1>t DEF Leaves, Threads, LoadTimestamp
  <2> HIDE DEF l
  <2>4. /\ t.pc = "load" /\ net' = net /\ owned' = owned /\ clean' = clean
        /\ \A k \in Node : Same(k)
    BY <1>2, SameFacts DEF LoadTimestamp, At, netVars, historyVars
  <2> QED  BY <2>2, <2>3, <2>4 DEF DataStep, SetData, SentData
<1>3. CASE AddDedupe(n, g)
  <2>1. PICK l \in Locals : /\ Leaves(n, g, l) /\ l.content = t.content
                            /\ l.pc = IF g = "watch" THEN "stamp" ELSE "write"
    BY <1>3, <1>g DEF AddDedupe, Pcs
  <2>2. /\ t.pc = "add" /\ net' = net /\ owned' = owned /\ clean' = clean
        /\ \A k \in Node : Same(k)
    BY <1>3, SameFacts DEF AddDedupe, At, netVars, historyVars, osVars
  <2> QED  BY <2>1, <2>2 DEF DataStep, SetData, SentData
<1>4. CASE Write(n, g) \/ WriteFails(n, g)
  <2>1. PICK l \in Locals : /\ Leaves(n, g, l)
                            /\ IF g = "loop" THEN l.pc = "idle"
                               ELSE l.pc = "stamp" /\ l.content = t.content
    BY <1>4, <1>p, <1>g DEF Write, WriteFails, AfterWrite, Pcs
  <2>2. t.pc = "write" /\ net' = net /\ owned' = owned /\ clean' \subseteq clean
    BY <1>4 DEF Write, WriteFails, At, netVars, historyVars
  <2>3. CASE Write(n, g)
    <3>1. /\ os' = [os EXCEPT ![n] = t.content] /\ lastHash' = [lastHash EXCEPT ![n] = t.content]
          /\ notify' = notify /\ current' = current
      BY <2>3 DEF Write, engineVars
    <3>2. /\ os'[n] = t.content /\ lastHash'[n] = t.content
          /\ \A k \in Node : k # n => Same(k)
      BY <1>0, <3>1 DEF TypeOK, Same, SameOS
    <3> QED  BY <2>1, <2>2, <3>1, <3>2 DEF DataStep, SetData, SentData
  <2>4. CASE WriteFails(n, g)
    <3>1. n \notin clean' /\ \A k \in Node : Same(k)
      BY <2>4, SameFacts DEF WriteFails
    <3> QED  BY <2>1, <2>2, <3>1 DEF DataStep, SetData, SentData
  <2> QED  BY <1>4, <2>3, <2>4
<1>5. CASE Stamp(n, g)
  <2> DEFINE sending == [t EXCEPT !.pc = "send", !.ts = now, !.peers = peers[n]]
  <2>1. now \in 0..MaxTime /\ peers[n] \in SUBSET Node
    BY <1>0, NowStamps DEF TypeOK
  <2>2. sending \in Locals /\ sending.pc = "send" /\ sending.content = t.content
    BY <1>t, <2>1 DEF Locals, Pcs
  <2>3. Park(n, g) \/ Leaves(n, g, sending)
    BY <1>5 DEF Leaves, Stamp
  <2> HIDE DEF sending
  <2>4. PICK l \in Locals : /\ Leaves(n, g, l)
                            /\ l.pc = "idle" \/ (l.pc = "send" /\ l.content = t.content)
    BY <1>p, <2>2, <2>3
  <2>5. /\ t.pc = "stamp" /\ net' = net /\ owned' = owned /\ clean' = clean
        /\ \A k \in Node : Same(k)
    BY <1>5, SameFacts DEF Stamp, At, netVars, historyVars
  <2> QED  BY <2>4, <2>5 DEF DataStep, SetData, SentData
<1>6. ASSUME NEW m \in Node, Send(n, g, m)
      PROVE  \E l \in Locals : DataStep(n, g, l)
  <2> DEFINE sending == [t EXCEPT !.peers = @ \ {m}]
             msg == [from |-> n, content |-> t.content, ts |-> t.ts]
  <2>1. t.pc = "send" /\ t.ts > 0
    BY <1>6 DEF Send, At, SendOK, TypeInv
  <2>2. sending \in Locals /\ sending.pc = "send" /\ sending.content = t.content
    BY <1>t, <2>1 DEF Locals
  <2>3. msg \in Message /\ msg.content = t.content
    BY <1>t, <2>1 DEF Message
  <2>4. Park(n, g) \/ Leaves(n, g, sending)
    BY <1>0, <1>6, <1>t DEF Leaves, Threads, Send
  <2>5. net' = net \/ net' = [net EXCEPT ![n][m] = Append(@, msg)]
    BY <1>6 DEF Send
  <2> HIDE DEF sending, msg
  <2>6. PICK l \in Locals : /\ Leaves(n, g, l)
                            /\ l.pc = "idle" \/ (l.pc = "send" /\ l.content = t.content)
    BY <1>p, <2>2, <2>4
  <2>7. owned' = owned /\ clean' = clean /\ \A k \in Node : Same(k)
    BY <1>6, SameFacts DEF Send, historyVars
  <2>8. SentData(n, g)
    BY <2>1, <2>3, <2>5 DEF SentData
  <2> QED  BY <2>1, <2>6, <2>7, <2>8 DEF DataStep, SetData
<1> QED  BY <1>1, <1>2, <1>3, <1>4, <1>5, <1>6 DEF SetClipboard

\* Every step is a goroutine's or one of the environment.
LEMMA DataKinds ==
  ASSUME TypeInv, [Next]_vars
  PROVE  \/ Outside
         \/ \E n \in Node, g \in Goroutine : \E l \in Locals : DataStep(n, g, l)
<1>1. CASE Environment
  BY <1>1, DataBegin DEF Environment, Outside
<1>2. ASSUME NEW n \in Node, Run(n)
      PROVE  \E l \in Locals : DataStep(n, "loop", l)
  BY <1>2, Goroutines, DataBoot, DataReceive, DataSet DEF Run
<1>3. ASSUME NEW n \in Node, WatchClipboard(n)
      PROVE  \E g \in Goroutine : \E l \in Locals : DataStep(n, g, l)
  BY <1>3, Goroutines, DataBegin, DataSet DEF WatchClipboard
<1>4. ASSUME NEW n \in Node, NEW g \in Cli, SetClipboard(n, g)
      PROVE  \E l \in Locals : DataStep(n, g, l)
  BY <1>4, Goroutines, DataSet
<1> QED  BY <1>1, <1>2, <1>3, <1>4, Goroutines DEF Next, Outside

\* What the environment does to the contents of a node.
OutsideData(n) ==
  \/ Same(n)
  \/ /\ ~At(n, "watch", "off")
     /\ os'[n] = os[n] /\ lastHash'[n] = os[n] /\ notify'[n] # 0 /\ current'[n] = current[n]
  \/ /\ ~At(n, "watch", "off") \/ At(n, "loop", "boot")
     /\ <<n, os'[n]>> \in owned'
     /\ lastHash'[n] = lastHash[n] /\ notify'[n] = notify[n] /\ current'[n] = current[n]

LEMMA OutsideKinds ==
  ASSUME TypeInv, Outside
  PROVE  /\ clean' \subseteq clean /\ owned \subseteq owned'
         /\ \A k \in clean' : thread'[k] = thread[k] /\ OutsideData(k)
<1>0. TypeOK /\ clean \subseteq Node
  BY DEF TypeInv, TypeOK
<1>1. CASE Tick \/ UNCHANGED vars
  <2>1. UNCHANGED <<osVars, engineVars, thread, historyVars>>
    BY <1>1 DEF Tick, vars
  <2> QED  BY <1>0, <2>1, SameFacts DEF historyVars, OutsideData
<1>2. ASSUME NEW n \in Node, Poll(n)
      PROVE  /\ clean' = clean /\ owned' = owned /\ thread' = thread
             /\ \A k \in Node : OutsideData(k)
  <2> DEFINE more == IF notify[n] < WatchBuffer THEN notify[n] + 1 ELSE notify[n]
  <2>1. /\ clean' = clean /\ owned' = owned /\ thread' = thread
        /\ os' = os /\ current' = current
        /\ lastHash' = [lastHash EXCEPT ![n] = os[n]]
        /\ notify' = [notify EXCEPT ![n] = more]
        /\ ~At(n, "watch", "off")
    BY <1>2 DEF Poll, engineVars, historyVars
  <2>2. more # 0
    <3>1. notify[n] \in 0..WatchBuffer /\ WatchBuffer \in Nat \ {0}
      BY <1>0, EngineAssumption DEF TypeOK
    <3> QED  BY <3>1
  <2> HIDE DEF more
  <2>3. /\ os'[n] = os[n] /\ lastHash'[n] = os[n] /\ notify'[n] # 0 /\ current'[n] = current[n]
    BY <1>0, <2>1, <2>2 DEF TypeOK
  <2>4. \A k \in Node : k # n => Same(k)
    BY <1>0, <2>1 DEF TypeOK, Same, SameOS
  <2> QED  BY <2>1, <2>3, <2>4 DEF OutsideData
<1>3. ASSUME NEW n \in Node, NEW c \in Clip, UserCopy(n, c)
      PROVE  /\ clean' \subseteq clean /\ owned \subseteq owned' /\ thread' = thread
             /\ \A k \in clean' : OutsideData(k)
  <2>1. /\ clean' = IF At(n, "watch", "off") /\ ~At(n, "loop", "boot") THEN clean \ {n} ELSE clean
        /\ owned' = owned \cup {<<n, c>>} /\ thread' = thread
        /\ os' = [os EXCEPT ![n] = c]
        /\ lastHash' = lastHash /\ notify' = notify /\ current' = current
    BY <1>3 DEF UserCopy, CopyBy, engineVars
  <2>2. os'[n] = c /\ \A k \in Node : k # n => Same(k)
    BY <1>0, <2>1 DEF TypeOK, Same, SameOS
  <2>3. clean' \subseteq clean /\ (n \in clean' => ~At(n, "watch", "off") \/ At(n, "loop", "boot"))
    BY <2>1
  <2> QED  BY <1>0, <2>1, <2>2, <2>3 DEF OutsideData
<1>4. ASSUME NEW m \in Node, NEW n \in Node, Disconnect(m, n) \/ Connect(m, n)
      PROVE  /\ clean' = clean /\ owned' = owned /\ thread' = thread
             /\ \A k \in Node : OutsideData(k)
  <2>1. UNCHANGED <<osVars, engineVars, thread, clean, owned>>
    BY <1>4 DEF Disconnect, Connect, historyVars
  <2> QED  BY <2>1, SameFacts DEF OutsideData
<1>5. ASSUME NEW n \in Node, Restart(n)
      PROVE  /\ clean' = clean \ {n} /\ owned' = owned
             /\ \A k \in Node : k # n => thread'[k] = thread[k] /\ OutsideData(k)
  <2>1. /\ clean' = clean \ {n} /\ owned' = owned /\ os' = os /\ lastHash' = lastHash
        /\ notify' = [notify EXCEPT ![n] = 0] /\ current' = [current EXCEPT ![n] = Unset]
    BY <1>5 DEF Restart
  <2>2. \A k \in Node : k # n => thread'[k] = thread[k] /\ Same(k)
    BY <1>0, <1>5, <2>1, RestartFacts DEF TypeOK, Same, SameOS
  <2> QED  BY <2>1, <2>2 DEF OutsideData
<1> QED  BY <1>0, <1>1, <1>2, <1>3, <1>4, <1>5 DEF Outside

LEMMA RolesInit == Init => DataInv
<1> SUFFICES ASSUME Init  PROVE DataInv
  OBVIOUS
<1>1. /\ Started["loop"].pc = "boot" /\ Started["watch"].pc = "off"
      /\ \A g \in Cli : Started[g].pc = "idle"
  BY ParkedFacts, Goroutines DEF Started, Pcs
<1>2. Roles
  BY <1>1 DEF Init, Roles, At, LoopPcs, WatchPcs, CliPcs, Booting
<1> QED  BY <1>2, AloneInit DEF DataInv

LEMMA RolesNext == DataInv /\ [Next]_vars => DataInv'
<1> SUFFICES ASSUME DataInv, [Next]_vars  PROVE DataInv'
  OBVIOUS
<1>0. TypeInv /\ AloneInv /\ AloneInv' /\ Roles /\ thread \in Threads
  BY AloneNext DEF DataInv, AloneInv, TypeInv, TypeOK, Threads
<1>1. ASSUME NEW n \in Node, NEW g \in Goroutine, NEW l \in Locals, DataStep(n, g, l)
      PROVE  Roles'
  <2>1. /\ thread'[n][g] = l
        /\ \A h \in Goroutine : h # g => thread'[n][h] = thread[n][h]
        /\ \A m \in Node : m # n => thread'[m] = thread[m]
    BY <1>0, <1>1, LeavesFacts DEF DataStep
  <2>2. /\ g = "loop" => l.pc \in LoopPcs /\ (l.pc \in Booting => thread[n]["loop"].pc \in Booting)
        /\ g = "watch" => /\ l.pc \in WatchPcs
                          /\ thread[n]["loop"].pc \in Booting => l.pc = "off"
        /\ g \in Cli => l.pc \in CliPcs
    BY <1>0, <1>1, Goroutines
      DEF DataStep, LoopData, WatchData, SetData, Roles, LoopPcs, WatchPcs, CliPcs,
          Booting, Pending, At
  <2>3. ASSUME NEW k \in Node
        PROVE  /\ thread'[k]["loop"].pc \in LoopPcs
               /\ thread'[k]["watch"].pc \in WatchPcs
               /\ \A h \in Cli : thread'[k][h].pc \in CliPcs
               /\ thread'[k]["loop"].pc \in Booting => thread'[k]["watch"].pc = "off"
    <3>1. CASE k # n
      BY <1>0, <2>1, <3>1 DEF Roles, At
    <3>2. CASE k = n
      <4>1. g = "loop" \/ g = "watch" \/ g \in Cli
        BY DEF Goroutine
      <4> QED  BY <1>0, <2>1, <2>2, <3>2, <4>1, Goroutines DEF Roles, At
    <3> QED  BY <3>1, <3>2
  <2> QED  BY <2>3 DEF Roles, At
<1>2. ASSUME Outside
      PROVE  Roles'
  <2>1. CASE thread' = thread
    BY <1>0, <2>1 DEF Roles, At
  <2>2. ASSUME NEW n \in Node, Restart(n)
        PROVE  Roles'
    <3>1. thread' = [thread EXCEPT ![n] = Started]
      BY <2>2 DEF Restart
    <3>2. /\ Started["loop"].pc = "boot" /\ Started["watch"].pc = "off"
          /\ \A g \in Cli : Started[g].pc = "idle"
      BY ParkedFacts, Goroutines DEF Started, Pcs
    <3>3. \A k \in Node : thread'[k] = IF k = n THEN Started ELSE thread[k]
      BY <1>0, <3>1 DEF Threads
    <3> QED  BY <1>0, <3>2, <3>3 DEF Roles, At, LoopPcs, WatchPcs, CliPcs, Booting
  <2> QED  BY <1>0, <1>2, <2>1, <2>2, OutsideFacts
<1> QED  BY <1>0, <1>1, <1>2, DataKinds DEF DataInv

\* While one goroutine of a clean node is in an operation, no other is.
LEMMA OthersIdle ==
  ASSUME AloneInv, AloneInv', NEW n \in clean', clean' \subseteq clean, NEW g \in Goroutine,
         NEW l \in Locals, Leaves(n, g, l),
         thread[n][g].pc \notin IdlePcs \/ l.pc \notin IdlePcs
  PROVE  \A h \in Goroutine : h # g => thread[n][h].pc \in IdlePcs
<1>1. n \in clean /\ n \in Node /\ thread \in Threads
  BY DEF AloneInv, TypeInv, TypeOK, Threads
<1>2. thread'[n][g] = l /\ \A h \in Goroutine : h # g => thread'[n][h] = thread[n][h]
  BY <1>1, LeavesFacts
<1>3. CASE thread[n][g].pc \notin IdlePcs
  BY <1>1, <1>3 DEF AloneInv, Alone, Busy, IdlePcs
<1>4. CASE l.pc \notin IdlePcs
  BY <1>2, <1>4 DEF AloneInv, Alone, Busy, IdlePcs
<1> QED  BY <1>3, <1>4

-----------------------------------------------------------------------------
(* What paste returns and what the OS clipboard holds. *)

\* No content is on its way from the engine to the OS clipboard.
Landed(n) == \A g \in Goroutine : g = "watch" \/ thread[n][g].pc \notin Pending

\* On a clean node the content on its way is the engine's; the OS clipboard
\* holds the engine's content until the watcher runs; from then on what the
\* watcher noticed last is the engine's content, if no notification waits.
Follows(n) ==
  /\ \A g \in Goroutine : thread[n][g].pc \in Pending => g = "watch" \/ thread[n][g].content = current[n]
  /\ At(n, "loop", "bootSet") => thread[n]["loop"].content = os[n]
  /\ At(n, "watch", "off") /\ thread[n]["loop"].pc \notin {"boot", "bootSet"} /\ Landed(n)
       => current[n] = os[n]
  /\ At(n, "watch", "set") /\ notify[n] = 0 => lastHash[n] = thread[n]["watch"].content
  /\ thread[n]["watch"].pc \notin {"off", "set"} /\ Landed(n) /\ notify[n] = 0
       => current[n] = lastHash[n]

FollowInv == DataInv /\ \A n \in clean : Follows(n)

LEMMA FollowInit == Init => FollowInv
<1> SUFFICES ASSUME Init  PROVE FollowInv
  OBVIOUS
<1>1. \A g \in Goroutine : Started[g].pc \in IdlePcs
  BY ParkedFacts, Goroutines DEF Started, Pcs, IdlePcs
<1>2. Started["loop"].pc = "boot" /\ Started["watch"].pc = "off"
  BY ParkedFacts, Goroutines DEF Started, Pcs
<1>3. \A n \in Node : Follows(n)
  BY <1>1, <1>2 DEF Init, Follows, At, Pending, IdlePcs
<1> QED  BY <1>3, RolesInit DEF FollowInv, Init

LEMMA FollowsStep ==
  ASSUME DataInv, DataInv', NEW n \in clean', NEW g \in Goroutine, NEW l \in Locals,
         DataStep(n, g, l), Follows(n)
  PROVE  Follows(n)'
<1> DEFINE t == thread[n][g]
<1>0. /\ AloneInv /\ AloneInv' /\ Roles /\ n \in clean /\ n \in Node /\ thread \in Threads
      /\ Leaves(n, g, l) /\ clean' \subseteq clean
  BY DEF DataInv, AloneInv, TypeInv, TypeOK, Threads, DataStep
<1>1. /\ thread'[n][g] = l
      /\ \A h \in Goroutine : h # g => thread'[n][h] = thread[n][h]
  BY <1>0, LeavesFacts
<1>2. t.pc \notin IdlePcs \/ l.pc \notin IdlePcs =>
        \A h \in Goroutine : h # g => thread[n][h].pc \in IdlePcs
  BY <1>0, OthersIdle
<1>3. /\ thread[n]["loop"].pc \in LoopPcs
      /\ thread[n]["watch"].pc \in WatchPcs
      /\ thread[n]["loop"].pc \in Booting => thread[n]["watch"].pc = "off"
      /\ g \in Cli => t.pc \in CliPcs
  BY <1>0 DEF Roles, At
<1>4. "loop" \in Goroutine /\ "watch" \in Goroutine /\ (g \in Cli => g # "loop" /\ g # "watch")
  BY Goroutines
<1> USE DEF At, LoopPcs, WatchPcs, CliPcs, Booting, Pending, IdlePcs
<1>5. CASE g = "loop" /\ LoopData(n, l)
  BY <1>1, <1>2, <1>3, <1>4, <1>5 DEF LoopData, Follows, Landed, Same, SameOS
<1>6. CASE g = "watch" /\ WatchData(n, l)
  BY <1>1, <1>2, <1>3, <1>4, <1>6 DEF WatchData, Follows, Landed, Same, SameOS
<1>7. CASE g \in Cli /\ t.pc = "idle" /\ l.pc = "set" /\ Same(n)
  BY <1>1, <1>2, <1>3, <1>4, <1>7 DEF Follows, Landed, Same, SameOS
<1>8. CASE SetData(n, g, l)
  BY <1>1, <1>2, <1>3, <1>4, <1>8 DEF SetData, Follows, Landed, Same, SameOS
<1> QED  BY <1>5, <1>6, <1>7, <1>8 DEF DataStep

\* A step that leaves n's goroutines and contents alone keeps Follows.
LEMMA FollowsFrame ==
  ASSUME NEW n \in Node, Follows(n), thread'[n] = thread[n], Same(n)
  PROVE  Follows(n)'
  BY DEF Follows, Landed, At, Same, SameOS

LEMMA FollowNext == FollowInv /\ [Next]_vars => FollowInv'
<1> SUFFICES ASSUME FollowInv, [Next]_vars  PROVE FollowInv'
  OBVIOUS
<1>0. TypeInv /\ DataInv /\ DataInv' /\ thread \in Threads /\ clean \subseteq Node /\ Roles
  BY RolesNext DEF FollowInv, DataInv, AloneInv, TypeInv, TypeOK, Threads
<1>1. ASSUME NEW n \in Node, NEW g \in Goroutine, NEW l \in Locals, DataStep(n, g, l),
             NEW k \in clean'
      PROVE  Follows(k)'
  <2>1. k \in clean /\ k \in Node /\ Follows(k)
    BY <1>0, <1>1 DEF DataStep, FollowInv
  <2>2. CASE k = n
    BY <1>0, <1>1, <2>1, <2>2, FollowsStep
  <2>3. CASE k # n
    BY <1>0, <1>1, <2>1, <2>3, FollowsFrame, LeavesFacts DEF DataStep
  <2> QED  BY <2>2, <2>3
<1>2. ASSUME Outside, NEW k \in clean'
      PROVE  Follows(k)'
  <2>1. /\ k \in clean /\ k \in Node /\ Follows(k)
        /\ thread'[k] = thread[k] /\ OutsideData(k)
    BY <1>0, <1>2, OutsideKinds DEF FollowInv
  <2>2. CASE Same(k)
    BY <2>1, <2>2, FollowsFrame
  <2>3. CASE /\ ~At(k, "watch", "off") /\ notify'[k] # 0
             /\ os'[k] = os[k] /\ current'[k] = current[k]
    <3>1. thread[k]["loop"].pc \notin Booting
      BY <1>0, <2>1, <2>3 DEF Roles
    <3> QED  BY <2>1, <2>3, <3>1 DEF Follows, Landed, At, Booting
  <2>4. CASE /\ ~At(k, "watch", "off") \/ At(k, "loop", "boot")
             /\ lastHash'[k] = lastHash[k] /\ notify'[k] = notify[k] /\ current'[k] = current[k]
    <3>1. At(k, "watch", "off") \/ thread[k]["loop"].pc \notin Booting
      BY <1>0, <2>1 DEF Roles
    <3> QED  BY <2>1, <2>4, <3>1 DEF Follows, Landed, At, Booting
  <2> QED  BY <2>1, <2>2, <2>3, <2>4 DEF OutsideData
<1> QED  BY <1>0, <1>1, <1>2, DataKinds DEF FollowInv

\* On a node whose operations never overlapped, what paste returns
\* (GetClipboard, engine.go:271) is what the OS clipboard holds, whenever the
\* node is at rest: although the engine updates its state before it writes the
\* clipboard, and the watcher reads it some time after it changed.
THEOREM PasteMatchesOnCleanNodes == Spec => []PasteMatchesOS
<1>1. FollowInv => PasteMatchesOS
  <2> SUFFICES ASSUME FollowInv, NEW n \in clean, Settled(n)
               PROVE  current[n] = os[n]
    BY DEF PasteMatchesOS
  <2>1. Follows(n) /\ notify[n] = 0 /\ lastHash[n] = os[n]
    BY DEF FollowInv, Settled
  <2>2. \A g \in Goroutine : thread[n][g].pc = "idle"
    BY DEF Settled, At
  <2> QED  BY <2>1, <2>2, Goroutines DEF Follows, Landed, Pending
<1> QED  BY <1>1, FollowInit, FollowNext, PTL DEF Spec

-----------------------------------------------------------------------------
(* What a clean node announces. *)

Own(n, c) == <<n, c>> \in owned

\* What an API connection handles, and what the watcher took up as new, was
\* copied here. What the watcher is yet to judge, what it last noticed and
\* what the OS clipboard holds was copied here or is nothing new to the engine.
NoticesOwn(n) ==
  /\ \A g \in Cli : thread[n][g].pc # "idle" => Own(n, thread[n][g].content)
  /\ thread[n]["watch"].pc \in WatchPcs \ {"off", "idle", "set"} => Own(n, thread[n]["watch"].content)
  /\ At(n, "watch", "set") =>
       /\ Own(n, thread[n]["watch"].content) \/ thread[n]["watch"].content = current[n]
       /\ Own(n, lastHash[n]) \/ thread[n]["watch"].content = lastHash[n]
  /\ Own(n, os[n]) \/ os[n] = lastHash[n]
  /\ thread[n]["watch"].pc \notin {"off", "set"} /\ Landed(n)
       => Own(n, lastHash[n]) \/ lastHash[n] = current[n]

OwnChannel(n, s) == \A i \in DOMAIN s : Own(n, s[i].content)

EchoInv == FollowInv /\ NoEcho /\ \A n \in clean : NoticesOwn(n)

LEMMA OwnChannels == NoEcho <=> \A n \in clean, m \in Node : OwnChannel(n, net[n][m])
  BY DEF NoEcho, OwnChannel, Own

LEMMA EchoInit == Init => EchoInv
<1> SUFFICES ASSUME Init  PROVE EchoInv
  OBVIOUS
<1>1. \A g \in Cli : Started[g].pc = "idle"
  BY ParkedFacts, Goroutines DEF Started, Pcs
<1>2. Started["watch"].pc = "off"
  BY ParkedFacts, Goroutines DEF Started, Pcs
<1>3. \A n \in Node : NoticesOwn(n)
  BY <1>1, <1>2 DEF Init, NoticesOwn, At
<1>4. NoEcho
  BY DEF Init, NoEcho
<1> QED  BY <1>3, <1>4, FollowInit DEF EchoInv, Init

LEMMA NoticesStep ==
  ASSUME DataInv, DataInv', NEW n \in clean', NEW g \in Goroutine, NEW l \in Locals,
         DataStep(n, g, l), Follows(n), NoticesOwn(n)
  PROVE  NoticesOwn(n)'
<1> DEFINE t == thread[n][g]
<1>0. /\ AloneInv /\ AloneInv' /\ Roles /\ n \in clean /\ n \in Node /\ thread \in Threads
      /\ Leaves(n, g, l) /\ clean' \subseteq clean
  BY DEF DataInv, AloneInv, TypeInv, TypeOK, Threads, DataStep
<1>1. /\ thread'[n][g] = l
      /\ \A h \in Goroutine : h # g => thread'[n][h] = thread[n][h]
  BY <1>0, LeavesFacts
<1>2. t.pc \notin IdlePcs \/ l.pc \notin IdlePcs =>
        \A h \in Goroutine : h # g => thread[n][h].pc \in IdlePcs
  BY <1>0, OthersIdle
<1>3. /\ thread[n]["loop"].pc \in LoopPcs
      /\ thread[n]["watch"].pc \in WatchPcs
      /\ thread[n]["loop"].pc \in Booting => thread[n]["watch"].pc = "off"
      /\ \A h \in Cli : thread[n][h].pc \in CliPcs
  BY <1>0 DEF Roles, At
<1>4. /\ "loop" \in Goroutine /\ "watch" \in Goroutine
      /\ \A h \in Cli : h \in Goroutine /\ h # "loop" /\ h # "watch"
  BY Goroutines
<1>5. \A c : Own(n, c) => Own(n, c)'
  BY DEF DataStep, Own
<1> USE DEF At, LoopPcs, WatchPcs, CliPcs, Booting, Pending, IdlePcs
<1>6. CASE g = "loop" /\ LoopData(n, l)
  BY <1>1, <1>2, <1>3, <1>4, <1>5, <1>6 DEF LoopData, Follows, NoticesOwn, Landed, Same, SameOS
<1>7. CASE g = "watch" /\ WatchData(n, l)
  BY <1>1, <1>2, <1>3, <1>4, <1>5, <1>7 DEF WatchData, Follows, NoticesOwn, Landed, Same, SameOS
<1>8. CASE g \in Cli /\ t.pc = "idle" /\ l.pc = "set" /\ Same(n) /\ Own(n, l.content)'
  BY <1>1, <1>2, <1>3, <1>4, <1>5, <1>8 DEF Follows, NoticesOwn, Landed, Same, SameOS
<1>9. CASE SetData(n, g, l)
  BY <1>1, <1>2, <1>3, <1>4, <1>5, <1>9 DEF SetData, Follows, NoticesOwn, Landed, Same, SameOS
<1> QED  BY <1>6, <1>7, <1>8, <1>9 DEF DataStep, Own

\* A channel that loses messages at one end, or gets one of the node's own.
LEMMA OwnTail ==
  ASSUME NEW n, NEW s \in Seq(Message), s # <<>>, OwnChannel(n, s)
  PROVE  OwnChannel(n, Tail(s))
<1> DEFINE r == Tail(s)
<1>1. /\ r \in Seq(Message) /\ Len(r) = Len(s) - 1 /\ Len(s) \in Nat /\ Len(r) \in Nat
      /\ \A i \in 1..Len(r) : r[i] = s[i + 1]
      /\ DOMAIN r = 1..Len(r) /\ DOMAIN s = 1..Len(s)
  BY HeadTailProperties, LenProperties
<1> HIDE DEF r
<1>2. \A i \in DOMAIN r : i + 1 \in DOMAIN s /\ r[i] = s[i + 1]
  BY <1>1
<1> QED  BY <1>2 DEF OwnChannel, r

LEMMA OwnPrefix ==
  ASSUME NEW n, NEW s \in Seq(Message), NEW k \in 0..Len(s), OwnChannel(n, s)
  PROVE  OwnChannel(n, SubSeq(s, 1, k))
<1> DEFINE r == SubSeq(s, 1, k)
<1>1. Len(s) \in Nat /\ DOMAIN s = 1..Len(s) /\ \A i \in 1..k : s[i] \in Message
  BY LenProperties, ElementOfSeq
<1>2. /\ r \in Seq(Message)
      /\ Len(r) = IF 1 <= k THEN k - 1 + 1 ELSE 0
      /\ \A i \in 1..(k - 1 + 1) : r[i] = s[1 + i - 1]
  BY <1>1, SubSeqProperties
<1>3. Len(r) = k /\ \A i \in 1..k : r[i] = s[i]
  BY <1>2
<1>4. DOMAIN r = 1..k
  BY <1>2, <1>3, LenProperties
<1> HIDE DEF r
<1>5. \A i \in DOMAIN r : i \in DOMAIN s /\ r[i] = s[i]
  BY <1>1, <1>3, <1>4
<1> QED  BY <1>5 DEF OwnChannel, r

LEMMA OwnAppend ==
  ASSUME NEW n, NEW s \in Seq(Message), NEW msg \in Message, OwnChannel(n, s),
         Own(n, msg.content)
  PROVE  OwnChannel(n, Append(s, msg))
<1> DEFINE r == Append(s, msg)
           k == Len(s)
<1>1. /\ r \in Seq(Message) /\ Len(r) = k + 1 /\ k \in Nat /\ DOMAIN s = 1..k
      /\ \A i \in 1..k : r[i] = s[i]
      /\ r[k + 1] = msg
  BY AppendProperties, LenProperties
<1>2. DOMAIN r = 1..(k + 1)
  BY <1>1, LenProperties
<1> HIDE DEF r, k
<1>3. \A i \in DOMAIN r : (i \in DOMAIN s /\ r[i] = s[i]) \/ r[i] = msg
  BY <1>1, <1>2
<1> QED  BY <1>3 DEF OwnChannel, r

\* What the environment does to a channel.
LEMMA OutsideChannel ==
  ASSUME TypeInv, Outside, NEW k \in Node, NEW m \in Node
  PROVE  \/ net'[k][m] = net[k][m] \/ net'[k][m] = <<>>
         \/ \E i \in 0..Len(net[k][m]) : net'[k][m] = SubSeq(net[k][m], 1, i)
<1>0. net \in [Node -> [Node -> Seq(Message)]]
  BY DEF TypeInv, TypeOK
<1>1. ASSUME NEW i \in Node, NEW n \in Node, Disconnect(i, n)
      PROVE  \/ net'[k][m] = net[k][m]
             \/ \E x \in 0..Len(net[k][m]) : net'[k][m] = SubSeq(net[k][m], 1, x)
  <2>1. i # n
    BY <1>1 DEF Disconnect, TypeInv, PeersOK
  <2>2. PICK a \in 0..Len(net[i][n]), b \in 0..Len(net[n][i]) :
          net' = [net EXCEPT ![i][n] = SubSeq(@, 1, a), ![n][i] = SubSeq(@, 1, b)]
    BY <1>1 DEF Disconnect
  <2>3. /\ net'[i] = [net[i] EXCEPT ![n] = SubSeq(@, 1, a)]
        /\ net'[n] = [net[n] EXCEPT ![i] = SubSeq(@, 1, b)]
        /\ \A x \in Node : x # i /\ x # n => net'[x] = net[x]
    BY <1>0, <2>1, <2>2
  <2>4. \A x \in Node : DOMAIN net[x] = Node
    BY <1>0
  <2>5. net'[k][m] = IF k = i /\ m = n THEN SubSeq(net[k][m], 1, a)
                     ELSE IF k = n /\ m = i THEN SubSeq(net[k][m], 1, b)
                     ELSE net[k][m]
    BY <2>1, <2>3, <2>4
  <2> QED  BY <2>2, <2>5
<1>2. ASSUME NEW n \in Node, Restart(n)
      PROVE  net'[k][m] = net[k][m] \/ net'[k][m] = <<>>
  BY <1>2, RestartFacts
<1> QED  BY <1>1, <1>2, OutsideFacts

LEMMA EchoNext == EchoInv /\ [Next]_vars => EchoInv'
<1> SUFFICES ASSUME EchoInv, [Next]_vars  PROVE EchoInv'
  OBVIOUS
<1>0. /\ TypeInv /\ DataInv /\ DataInv' /\ FollowInv /\ FollowInv' /\ Roles
      /\ thread \in Threads /\ clean \subseteq Node
      /\ net \in [Node -> [Node -> Seq(Message)]]
  BY FollowNext DEF EchoInv, FollowInv, DataInv, AloneInv, TypeInv, TypeOK, Threads
<1>i. \A n \in clean : Follows(n) /\ NoticesOwn(n) /\ \A m \in Node : OwnChannel(n, net[n][m])
  BY OwnChannels DEF EchoInv, FollowInv
<1>1. ASSUME NEW n \in Node, NEW g \in Goroutine, NEW l \in Locals, DataStep(n, g, l),
             NEW k \in clean'
      PROVE  NoticesOwn(k)' /\ \A m \in Node : OwnChannel(k, net[k][m])'
  <2>1. k \in clean /\ k \in Node /\ owned \subseteq owned'
    BY <1>0, <1>1 DEF DataStep
  <2>2. NoticesOwn(k)'
    <3>1. CASE k = n
      BY <1>0, <1>1, <1>i, <2>1, <3>1, NoticesStep
    <3>2. CASE k # n
      <4>1. thread'[k] = thread[k] /\ Same(k)
        BY <1>0, <1>1, <2>1, <3>2, LeavesFacts DEF DataStep
      <4>2. NoticesOwn(k)
        BY <1>i, <2>1
      <4> QED  BY <2>1, <4>1, <4>2 DEF NoticesOwn, Own, Landed, At, Same, SameOS
    <3> QED  BY <3>1, <3>2
  <2>3. ASSUME NEW m \in Node
        PROVE  OwnChannel(k, net'[k][m])
    <3>0. net[k][m] \in Seq(Message) /\ OwnChannel(k, net[k][m])
      BY <1>0, <1>i, <2>1
    <3>1. CASE net' = net
      BY <3>0, <3>1
    <3>2. ASSUME NEW i \in Node, net[i][n] # <<>>, net' = [net EXCEPT ![i][n] = Tail(@)]
          PROVE  OwnChannel(k, net'[k][m])
      <4>1. net'[k][m] = IF k = i /\ m = n THEN Tail(net[k][m]) ELSE net[k][m]
        BY <1>0, <2>1, <3>2
      <4> QED  BY <3>0, <3>2, <4>1, OwnTail
    <3>3. ASSUME thread[n][g].pc = "send", NEW i \in Node, NEW msg \in Message,
                 msg.content = thread[n][g].content,
                 net' = [net EXCEPT ![n][i] = Append(@, msg)]
          PROVE  OwnChannel(k, net'[k][m])
      <4>1. net'[k][m] = IF k = n /\ m = i THEN Append(net[k][m], msg) ELSE net[k][m]
        BY <1>0, <2>1, <3>3
      <4>2. k = n => Own(k, msg.content)
        <5>1. g # "loop"
          BY <1>0, <3>3 DEF Roles, LoopPcs, Booting, Pending
        <5>2. g = "watch" \/ g \in Cli
          BY <5>1 DEF Goroutine
        <5>3. NoticesOwn(k)
          BY <1>i, <2>1
        <5> QED  BY <3>3, <5>2, <5>3 DEF NoticesOwn, WatchPcs
      <4> QED  BY <3>0, <4>1, <4>2, OwnAppend
    <3> QED  BY <1>1, <3>1, <3>2, <3>3 DEF DataStep, SentData
  <2> QED  BY <2>1, <2>2, <2>3 DEF OwnChannel, Own
<1>2. ASSUME Outside, NEW k \in clean'
      PROVE  NoticesOwn(k)' /\ \A m \in Node : OwnChannel(k, net[k][m])'
  <2>1. /\ k \in clean /\ k \in Node /\ owned \subseteq owned' /\ NoticesOwn(k)
        /\ thread'[k] = thread[k] /\ OutsideData(k)
    BY <1>0, <1>2, <1>i, OutsideKinds
  <2>2. NoticesOwn(k)'
    BY <2>1 DEF OutsideData, NoticesOwn, Own, Landed, At, Same, SameOS
  <2>3. ASSUME NEW m \in Node
        PROVE  OwnChannel(k, net'[k][m])
    <3>0. net[k][m] \in Seq(Message) /\ OwnChannel(k, net[k][m])
      BY <1>0, <1>i, <2>1
    <3>1. OwnChannel(k, <<>>)
      BY DEF OwnChannel
    <3> QED  BY <1>0, <1>2, <2>1, <3>0, <3>1, OutsideChannel, OwnPrefix
  <2> QED  BY <2>1, <2>2, <2>3 DEF OwnChannel, Own
<1>3. /\ \A k \in clean' : NoticesOwn(k)'
      /\ \A k \in clean', m \in Node : OwnChannel(k, net[k][m])'
  BY <1>0, <1>1, <1>2, DataKinds
<1>4. NoEcho'
  BY <1>3 DEF NoEcho, OwnChannel, Own
<1> QED  BY <1>0, <1>3, <1>4 DEF EchoInv

\* A node whose operations never overlapped announces only what was copied on
\* it: the remote changes that SetClipboard writes to the OS clipboard do not
\* come back out through the watcher (engine.go:525-535), at whatever moment
\* the poll of watchWithPolling notices them.
THEOREM CleanNodesDoNotEcho == Spec => []NoEcho
<1>1. EchoInv => NoEcho
  BY DEF EchoInv
<1> QED  BY <1>1, EchoInit, EchoNext, PTL DEF Spec

-----------------------------------------------------------------------------
(* The mesh in which every copy was calm. *)

\* Until a daemon is restarted or a link breaks all nodes are connected.
AllPeers == \A n \in Node : peers[n] = Node \ {n}

RemoteKnown == \A n \in Node : lastRemote[n] <= timestamp[n]

Idle(n) == \A g \in Goroutine : At(n, g, "idle")

RestIdle(n, g) == \A h \in Goroutine \ {g} : At(n, h, "idle")

Noticed(n) == notify[n] = 0 /\ lastHash[n] = os[n]

NoMail(n) == \A m \in Node : net[m][n] = <<>>

\* A message with the stamp ts is accepted by n, unless n's state changes first.
CanReach(n, ts) == timestamp[n] < ts /\ SyncLoopWindow <= ts - timestamp[n]

Resting(n) == Idle(n) /\ Noticed(n) /\ NoMail(n)

\* Nobody has copied anything yet, and the nodes boot.
StartingAt(n) ==
  /\ os[n] = Blank /\ Noticed(n) /\ NoMail(n)
  /\ thread[n]["loop"].pc \in {"boot", "bootSet", "bootLoad", "bootAdd", "idle"}
  /\ thread[n]["watch"].pc \in {"off", "idle"}
  /\ \A g \in Cli : At(n, g, "idle")
  /\ At(n, "loop", "bootSet") => thread[n]["loop"].content = Blank
  /\ thread[n]["loop"].pc \notin {"boot", "bootSet"} => current[n] = Blank

Starting == \A n \in Node : StartingAt(n)

\* A copy was made on n, which has not applied it yet.
Copied(n, b) ==
  /\ \A m \in Node : current[m] = b /\ CanReach(m, now) /\ NoMail(m)
  /\ \A m \in Node \ {n} : Idle(m) /\ Noticed(m)
  /\ ~IsSyncLoop(n)
  /\ \/ Idle(n) /\ (notify[n] = 0 \/ (notify[n] = 1 /\ lastHash[n] = os[n]))
     \/ /\ Noticed(n)
        /\ \E g \in Goroutine \ {"loop"} : At(n, g, "set") /\ RestIdle(n, g)

StampOf(n, g) == IF At(n, g, "send") THEN thread[n][g].ts ELSE now

\* The change of n to c is on its way to m, or has arrived.
Arriving(n, m, c) ==
  /\ Noticed(m) /\ RestIdle(m, "loop")
  /\ \A k \in Node \ {n} : net[k][m] = <<>>
  /\ LET t == thread[m]["loop"] IN
     \/ /\ t.pc = "idle"
        /\ \E ts \in 1..MaxTime :
             net[n][m] = <<[from |-> n, content |-> c, ts |-> ts]>> /\ CanReach(m, ts)
     \/ /\ net[n][m] = <<>> /\ t.pc = "resolve"
        /\ t.content = c /\ t.peers = {n} /\ CanReach(m, t.ts)
     \/ net[n][m] = <<>> /\ t.pc = "set" /\ t.content = c
     \/ /\ net[n][m] = <<>> /\ current[m] = c
        /\ t.pc = "idle" \/ (t.pc \in {"load", "add", "write"} /\ t.content = c)

\* Goroutine g of n has applied c and passes it on.
Spreading(n, g, c) ==
  /\ current[n] = c /\ Noticed(n) /\ RestIdle(n, g) /\ NoMail(n)
  /\ \/ At(n, g, "idle")
     \/ /\ thread[n][g].pc \in {"load", "add", "write", "stamp", "send"}
        /\ thread[n][g].content = c
  /\ \A m \in Node \ {n} :
       IF Awaits(n, g, m)
       THEN Resting(m) /\ CanReach(m, StampOf(n, g))
       ELSE Arriving(n, m, c)

Calm ==
  \/ Starting
  \/ \E n \in Node, b \in Clip : Copied(n, b)
  \/ \E n \in Node, g \in Goroutine \ {"loop"}, c \in Clip : Spreading(n, g, c)

CalmInv == RemoteKnown /\ (calm => AllPeers /\ Calm)

-----------------------------------------------------------------------------
(* What a goroutine's step does to its node and to the messages. *)

Untouched(k) == Same(k) /\ timestamp'[k] = timestamp[k] /\ lastRemote'[k] = lastRemote[k]

\* initializeState and the start of the watcher.
Prepares(n, g, l) ==
  LET t == thread[n][g] IN
  /\ net' = net
  /\ \/ /\ t.pc = "boot" /\ l.pc = "bootSet" /\ l.content \in {os[n], Blank}
        /\ g = "loop" /\ Untouched(n)
     \/ /\ t.pc = "bootSet" /\ l.pc = "bootLoad" /\ g = "loop"
        /\ SameOS(n) /\ current'[n] = t.content
     \/ t.pc = "bootLoad" /\ l.pc = "bootAdd" /\ g = "loop" /\ Untouched(n)
     \/ t.pc = "bootAdd" /\ l.pc = "idle" /\ g = "loop" /\ Untouched(n)
     \/ /\ t.pc = "off" /\ l.pc = "idle" /\ g = "watch"
        /\ os'[n] = os[n] /\ lastHash'[n] = os[n] /\ notify'[n] = notify[n]
        /\ current'[n] = current[n]

\* The watcher takes a notification, whether its read fails or not.
Notices(n, g, l) ==
  LET t == thread[n][g] IN
  /\ g = "watch" /\ t.pc = "idle"
  /\ notify[n] > 0 /\ notify'[n] = notify[n] - 1
  /\ os'[n] = os[n] /\ lastHash'[n] = lastHash[n] /\ current'[n] = current[n]
  /\ timestamp'[n] = timestamp[n] /\ lastRemote'[n] = lastRemote[n]
  /\ net' = net
  /\ l.pc = "set" \/ l.pc = "idle"

\* A message is taken, and dropped when it is a duplicate.
Takes(n, g, l) ==
  /\ g = "loop" /\ At(n, g, "idle") /\ Untouched(n)
  /\ \E m \in Node :
       LET msg == Head(net[m][n]) IN
       /\ net[m][n] # <<>>
       /\ net' = [net EXCEPT ![m][n] = Tail(@)]
       /\ \/ IsDuplicate(n, msg) /\ l.pc = "idle"
          \/ l = [pc |-> "resolve", content |-> msg.content, ts |-> msg.ts,
                  peers |-> {msg.from}]

Judges(n, g, l) ==
  LET t == thread[n][g] IN
  /\ g = "loop" /\ t.pc = "resolve" /\ Untouched(n) /\ net' = net
  /\ \/ l.pc = "set" /\ l.content = t.content
     \/ l.pc = "idle" /\ ~\E m \in t.peers : Wins(n, t.ts, m)

Sets(n, g, l) ==
  LET t == thread[n][g] IN
  /\ t.pc = "set" /\ SameOS(n) /\ net' = net
  /\ \/ t.content = current[n] /\ l.pc = "idle" /\ Untouched(n)
     \/ /\ current'[n] = t.content
        /\ timestamp'[n] = now
        /\ lastRemote'[n] \in {lastRemote[n], now}
        /\ \/ l.pc = "load" /\ l.content = t.content
           \/ l.pc = "idle" /\ g = "watch" /\ IsSyncLoop(n)

\* From the update to the broadcast; the loop's operation ends there.
Applies(n, g, l) ==
  LET t == thread[n][g] IN
  /\ t.pc \in {"load", "add", "write"} /\ net' = net
  /\ current'[n] = current[n]
  /\ timestamp'[n] = timestamp[n] /\ lastRemote'[n] = lastRemote[n]
  /\ SameOS(n) \/ (os'[n] = t.content /\ lastHash'[n] = t.content /\ notify'[n] = notify[n])
  /\ \/ l.pc \in {"add", "write"} /\ l.content = t.content
     \/ l.pc = "stamp" /\ l.content = t.content /\ g # "loop"
     \/ l.pc = "idle" /\ g = "loop"

Stamps(n, g, l) ==
  LET t == thread[n][g] IN
  /\ t.pc = "stamp" /\ Untouched(n) /\ net' = net
  /\ \/ peers[n] = {} /\ l.pc = "idle"
     \/ l.pc = "send" /\ l.content = t.content /\ l.ts = now /\ l.peers = peers[n]

Sends(n, g, l) ==
  LET t == thread[n][g] IN
  /\ t.pc = "send" /\ Untouched(n)
  /\ \E m \in t.peers :
       /\ \/ m \notin peers[n] /\ net' = net
          \/ /\ m \in peers[n]
             /\ net' = [net EXCEPT ![n][m] =
                          Append(@, [from |-> n, content |-> t.content, ts |-> t.ts])]
       /\ \/ t.peers = {m} /\ l.pc = "idle"
          \/ /\ l.pc = "send" /\ l.content = t.content /\ l.ts = t.ts
             /\ l.peers = t.peers \ {m}

CalmStep(n, g, l) ==
  /\ Leaves(n, g, l)
  /\ now' = now /\ peers' = peers /\ calm' = calm
  /\ \A k \in Node : k # n => Untouched(k)
  /\ \/ Prepares(n, g, l) \/ Notices(n, g, l) \/ Takes(n, g, l) \/ Judges(n, g, l)
     \/ Sets(n, g, l) \/ Applies(n, g, l) \/ Stamps(n, g, l) \/ Sends(n, g, l)

LEMMA UntouchedFacts ==
  ASSUME TypeInv
  PROVE  /\ UNCHANGED <<osVars, current, timestamp, lastRemote>> => \A k \in Node : Untouched(k)
         /\ UNCHANGED <<osVars, engineVars>> => \A k \in Node : Untouched(k)
  BY DEF Untouched, Same, SameOS, osVars, engineVars

LEMMA CalmBoot ==
  ASSUME TypeInv, NEW n \in Node, BootRead(n) \/ BootSet(n) \/ BootLoad(n) \/ BootAdd(n)
  PROVE  \E l \in Locals : CalmStep(n, "loop", l)
<1>0. /\ thread \in Threads /\ TypeOK
      /\ thread[n]["loop"] \in Locals /\ "loop" \in Goroutine
  BY LocalsFacts, Goroutines DEF TypeInv, TypeOK, Threads
<1>1. CASE BootRead(n)
  <2>1. PICK c \in {os[n], Blank} :
          thread' = [thread EXCEPT ![n]["loop"].pc = "bootSet", ![n]["loop"].content = c]
    BY <1>1 DEF BootRead
  <2>2. c \in Clip
    BY <1>0, EngineAssumption DEF TypeOK
  <2> DEFINE l == [thread[n]["loop"] EXCEPT !.pc = "bootSet", !.content = c]
  <2>3. l \in Locals /\ l.pc = "bootSet" /\ l.content = c
    BY <1>0, <2>2 DEF Locals, Pcs
  <2>4. Leaves(n, "loop", l)
    BY <1>0, <2>1 DEF Leaves, Threads, Locals
  <2> HIDE DEF l
  <2>5. /\ \A k \in Node : Untouched(k)
        /\ now' = now /\ peers' = peers /\ calm' = calm /\ net' = net
        /\ thread[n]["loop"].pc = "boot"
    BY <1>1, UntouchedFacts DEF BootRead, netVars, At
  <2>6. Prepares(n, "loop", l)
    BY <2>3, <2>5 DEF Prepares
  <2> QED  BY <2>3, <2>4, <2>5, <2>6 DEF CalmStep
<1>2. CASE BootSet(n)
  <2>1. PICK l \in Locals : Leaves(n, "loop", l) /\ l.pc = "bootLoad"
    BY <1>0, <1>2, GotoFacts DEF BootSet, Pcs
  <2>2. /\ osVars' = osVars /\ lastRemote' = lastRemote
        /\ now' = now /\ peers' = peers /\ calm' = calm /\ net' = net
        /\ thread[n]["loop"].pc = "bootSet"
        /\ current' = [current EXCEPT ![n] = thread[n]["loop"].content]
        /\ timestamp' = [timestamp EXCEPT ![n] = now]
    BY <1>2 DEF BootSet, netVars, historyVars, At
  <2>3. current'[n] = thread[n]["loop"].content
    BY <1>0, <2>2 DEF TypeOK
  <2>4. \A k \in Node : k # n => Untouched(k)
    BY <1>0, <2>2 DEF TypeOK, Untouched, Same, SameOS, osVars
  <2>5. SameOS(n)
    BY <2>2 DEF SameOS, osVars
  <2>6. Prepares(n, "loop", l)
    BY <2>1, <2>2, <2>3, <2>5 DEF Prepares
  <2> QED  BY <2>1, <2>2, <2>4, <2>6 DEF CalmStep
<1>3. CASE BootLoad(n)
  <2> DEFINE l == [thread[n]["loop"] EXCEPT !.pc = "bootAdd", !.content = current[n],
                                           !.ts = timestamp[n]]
  <2>1. current[n] \in Clip /\ timestamp[n] \in 0..MaxTime
    BY <1>0, <1>3 DEF BootLoad, BootOK, TypeOK, TypeInv
  <2>2. l \in Locals /\ l.pc = "bootAdd"
    BY <1>0, <2>1 DEF Locals, Pcs
  <2>3. Leaves(n, "loop", l)
    BY <1>0, <1>3 DEF Leaves, Threads, Locals, BootLoad
  <2> HIDE DEF l
  <2>4. /\ \A k \in Node : Untouched(k)
        /\ now' = now /\ peers' = peers /\ calm' = calm /\ net' = net
        /\ thread[n]["loop"].pc = "bootLoad"
    BY <1>3, UntouchedFacts DEF BootLoad, netVars, historyVars, At
  <2>5. Prepares(n, "loop", l)
    BY <2>2, <2>4 DEF Prepares
  <2> QED  BY <2>2, <2>3, <2>4, <2>5 DEF CalmStep
<1>4. CASE BootAdd(n)
  <2>1. PICK l \in Locals : Leaves(n, "loop", l) /\ l.pc = "idle"
    BY <1>0, <1>4, ParkFacts, ParkedFacts DEF BootAdd, Pcs
  <2>2. /\ \A k \in Node : Untouched(k)
        /\ now' = now /\ peers' = peers /\ calm' = calm /\ net' = net
        /\ thread[n]["loop"].pc = "bootAdd"
    BY <1>4, UntouchedFacts DEF BootAdd, netVars, historyVars, At
  <2>3. Prepares(n, "loop", l)
    BY <2>1, <2>2 DEF Prepares
  <2> QED  BY <2>1, <2>2, <2>3 DEF CalmStep
<1> QED  BY <1>1, <1>2, <1>3, <1>4

LEMMA CalmWatch ==
  ASSUME TypeInv, NEW n \in Node, WatchStart(n) \/ WatchRead(n) \/ WatchReadFails(n)
  PROVE  \E l \in Locals : CalmStep(n, "watch", l)
<1>0. /\ thread \in Threads /\ TypeOK /\ "watch" \in Goroutine
      /\ thread[n]["watch"] \in Locals
  BY LocalsFacts, Goroutines DEF TypeInv, TypeOK, Threads
<1>1. CASE WatchStart(n)
  <2>1. PICK l \in Locals : Leaves(n, "watch", l) /\ l.pc = "idle"
    BY <1>0, <1>1, ParkFacts, ParkedFacts DEF WatchStart, Pcs
  <2>2. /\ os' = os /\ notify' = notify /\ engineVars' = engineVars
        /\ lastHash' = [lastHash EXCEPT ![n] = os[n]]
        /\ now' = now /\ peers' = peers /\ calm' = calm /\ net' = net
        /\ thread[n]["watch"].pc = "off"
    BY <1>1 DEF WatchStart, netVars, historyVars, At
  <2>3. lastHash'[n] = os[n] /\ \A k \in Node : k # n => Untouched(k)
    BY <1>0, <2>2 DEF TypeOK, Untouched, Same, SameOS, engineVars
  <2>4. Prepares(n, "watch", l)
    BY <2>1, <2>2, <2>3 DEF Prepares, engineVars
  <2> QED  BY <2>1, <2>2, <2>3, <2>4 DEF CalmStep
<1>2. CASE WatchRead(n) \/ WatchReadFails(n)
  <2>1. \E l \in Locals : Leaves(n, "watch", l) /\ l.pc \in {"set", "idle"}
    <3>1. CASE WatchRead(n)
      <4> DEFINE l == [thread[n]["watch"] EXCEPT !.pc = "set", !.content = os[n]]
      <4>1. l \in Locals /\ l.pc = "set"
        BY <1>0 DEF Locals, Pcs, TypeOK
      <4>2. Leaves(n, "watch", l)
        BY <1>0, <3>1 DEF Leaves, Threads, Locals, WatchRead
      <4> QED  BY <4>1, <4>2
    <3>2. CASE WatchReadFails(n)
      <4>1. Leaves(n, "watch", thread[n]["watch"]) /\ thread[n]["watch"].pc = "idle"
        BY <1>0, <3>2 DEF WatchReadFails, Leaves, Threads, At
      <4> QED  BY <1>0, <4>1
    <3> QED  BY <1>2, <3>1, <3>2
  <2>2. PICK l \in Locals : Leaves(n, "watch", l) /\ l.pc \in {"set", "idle"}
    BY <2>1
  <2>3. /\ os' = os /\ lastHash' = lastHash /\ engineVars' = engineVars
        /\ notify[n] > 0 /\ notify' = [notify EXCEPT ![n] = @ - 1]
        /\ now' = now /\ peers' = peers /\ calm' = calm /\ net' = net
        /\ thread[n]["watch"].pc = "idle"
    BY <1>2 DEF WatchRead, WatchReadFails, netVars, At
  <2>4. notify'[n] = notify[n] - 1 /\ \A k \in Node : k # n => Untouched(k)
    BY <1>0, <2>3 DEF TypeOK, Untouched, Same, SameOS, engineVars
  <2>5. Notices(n, "watch", l)
    BY <2>2, <2>3, <2>4 DEF Notices, engineVars
  <2> QED  BY <2>2, <2>3, <2>4, <2>5 DEF CalmStep
<1> QED  BY <1>1, <1>2

LEMMA CalmReceive ==
  ASSUME TypeInv, NEW n \in Node, Resolve(n) \/ \E m \in Node : Receive(n, m)
  PROVE  \E l \in Locals : CalmStep(n, "loop", l)
<1>0. /\ thread \in Threads /\ TypeOK /\ "loop" \in Goroutine
  BY Goroutines DEF TypeInv, TypeOK, Threads
<1>1. ASSUME NEW m \in Node, Receive(n, m)
      PROVE  \E l \in Locals : CalmStep(n, "loop", l)
  <2> DEFINE msg == Head(net[m][n])
             judged == [pc |-> "resolve", content |-> msg.content, ts |-> msg.ts,
                        peers |-> {msg.from}]
  <2>1. net[m][n] \in Seq(Message) /\ net[m][n] # <<>>
    BY <1>0, <1>1 DEF Receive, TypeOK
  <2>2. msg \in Message
    BY <2>1, HeadTailProperties
  <2>3. judged \in Locals
    BY <2>2 DEF Locals, Pcs, Message
  <2>4. /\ net' = [net EXCEPT ![m][n] = Tail(@)]
        /\ At(n, "loop", "idle")
        /\ now' = now /\ peers' = peers /\ calm' = calm
        /\ (IsDuplicate(n, msg) /\ thread' = thread) \/ Leaves(n, "loop", judged)
    BY <1>1 DEF Receive, Leaves
  <2>5. \A k \in Node : Untouched(k)
    BY <1>1, UntouchedFacts DEF Receive
  <2>6. PICK l \in Locals : /\ Leaves(n, "loop", l)
                            /\ (IsDuplicate(n, msg) /\ l.pc = "idle") \/ l = judged
    <3>1. CASE IsDuplicate(n, msg) /\ thread' = thread
      <4>1. Leaves(n, "loop", thread[n]["loop"]) /\ thread[n]["loop"].pc = "idle"
        BY <1>0, <2>4, <3>1 DEF Leaves, Threads, At
      <4> HIDE DEF judged
      <4> QED  BY <1>0, <3>1, <4>1, LocalsFacts
    <3> HIDE DEF judged, msg
    <3> QED  BY <2>3, <2>4, <3>1
  <2>7. Takes(n, "loop", l)
    BY <2>1, <2>4, <2>5, <2>6 DEF Takes
  <2> QED  BY <2>4, <2>5, <2>6, <2>7 DEF CalmStep
<1>2. CASE Resolve(n)
  <2> DEFINE t == thread[n]["loop"]
  <2>1. PICK l \in Locals :
          /\ Leaves(n, "loop", l)
          /\ \/ l.pc = "set" /\ l.content = t.content
             \/ l.pc = "idle" /\ ~\E m \in t.peers : Wins(n, t.ts, m)
    <3>1. CASE \E m \in t.peers : Wins(n, t.ts, m)
      BY <1>0, <1>2, <3>1, GotoFacts DEF Resolve, Pcs
    <3>2. CASE ~\E m \in t.peers : Wins(n, t.ts, m)
      BY <1>0, <1>2, <3>2, ParkFacts, ParkedFacts DEF Resolve, Pcs
    <3> QED  BY <3>1, <3>2
  <2>2. /\ \A k \in Node : Untouched(k)
        /\ now' = now /\ peers' = peers /\ calm' = calm /\ net' = net /\ t.pc = "resolve"
    BY <1>2, UntouchedFacts DEF Resolve, netVars, historyVars, At
  <2>3. Judges(n, "loop", l)
    BY <2>1, <2>2 DEF Judges
  <2> QED  BY <2>1, <2>2, <2>3 DEF CalmStep
<1> QED  BY <1>1, <1>2

LEMMA CalmUpdate ==
  ASSUME TypeInv, NEW n \in Node, NEW g \in Goroutine, SetLocked(n, g)
  PROVE  \E l \in Locals : CalmStep(n, g, l)
<1>0. thread \in Threads /\ TypeOK
  BY DEF TypeInv, TypeOK, Threads
<1> DEFINE t == thread[n][g]
<1>1. /\ t.pc = "set" /\ net' = net /\ now' = now /\ peers' = peers /\ calm' = calm
      /\ osVars' = osVars /\ \A k \in Node : SameOS(k)
  BY SameFacts DEF SetLocked, At, netVars, historyVars
<1>p. Park(n, g) => \E l \in Locals : Leaves(n, g, l) /\ l.pc = "idle"
  BY <1>0, ParkFacts, ParkedFacts DEF Pcs
<1>2. CASE t.content = current[n] /\ Park(n, g) /\ UNCHANGED <<current, timestamp, lastRemote>>
  <2>1. PICK l \in Locals : Leaves(n, g, l) /\ l.pc = "idle"
    BY <1>p, <1>2
  <2>2. \A k \in Node : Untouched(k)
    BY <1>1, <1>2, UntouchedFacts
  <2>3. Sets(n, g, l)
    BY <1>1, <1>2, <2>1, <2>2 DEF Sets
  <2> QED  BY <1>1, <2>1, <2>2, <2>3 DEF CalmStep
<1>3. CASE /\ current' = [current EXCEPT ![n] = t.content]
           /\ timestamp' = [timestamp EXCEPT ![n] = now]
           /\ lastRemote' = IF g = "loop" THEN [lastRemote EXCEPT ![n] = now] ELSE lastRemote
           /\ IF g = "watch" /\ IsSyncLoop(n) THEN Park(n, g) ELSE Goto(n, g, "load")
  <2>1. /\ current'[n] = t.content /\ timestamp'[n] = now
        /\ \A k \in Node : k # n => current'[k] = current[k] /\ timestamp'[k] = timestamp[k]
    BY <1>0, <1>3 DEF TypeOK
  <2>2. /\ lastRemote'[n] \in {lastRemote[n], now}
        /\ \A k \in Node : k # n => lastRemote'[k] = lastRemote[k]
    BY <1>0, <1>3 DEF TypeOK
  <2>3. \A k \in Node : k # n => Untouched(k)
    BY <1>1, <2>1, <2>2 DEF Untouched, Same
  <2>4. PICK l \in Locals :
          /\ Leaves(n, g, l)
          /\ \/ l.pc = "load" /\ l.content = t.content
             \/ l.pc = "idle" /\ g = "watch" /\ IsSyncLoop(n)
    <3>1. CASE g = "watch" /\ IsSyncLoop(n)
      BY <1>p, <1>3, <3>1
    <3>2. CASE ~(g = "watch" /\ IsSyncLoop(n))
      BY <1>0, <1>3, <3>2, GotoFacts DEF Pcs
    <3> QED  BY <3>1, <3>2
  <2>5. Sets(n, g, l)
    BY <1>1, <2>1, <2>2, <2>4 DEF Sets
  <2> QED  BY <1>1, <2>3, <2>4, <2>5 DEF CalmStep
<1> QED  BY <1>2, <1>3 DEF SetLocked

LEMMA CalmApply ==
  ASSUME TypeInv, NEW n \in Node, NEW g \in Goroutine,
         \/ LoadTimestamp(n, g) \/ AddDedupe(n, g) \/ Write(n, g) \/ WriteFails(n, g)
  PROVE  \E l \in Locals : CalmStep(n, g, l)
<1>0. thread \in Threads /\ TypeOK
  BY DEF TypeInv, TypeOK, Threads
<1> DEFINE t == thread[n][g]
<1>t. t \in Locals
  BY <1>0, LocalsFacts
<1>1. /\ t.pc \in {"load", "add", "write"} /\ net' = net
      /\ current' = current /\ timestamp' = timestamp /\ lastRemote' = lastRemote
      /\ now' = now /\ peers' = peers /\ calm' = calm
  BY DEF LoadTimestamp, AddDedupe, Write, WriteFails, At, engineVars, netVars, historyVars
<1>2. /\ \A k \in Node : k # n => Untouched(k)
      /\ SameOS(n) \/ (os'[n] = t.content /\ lastHash'[n] = t.content /\ notify'[n] = notify[n])
  <2>1. CASE osVars' = osVars
    BY <1>1, <2>1 DEF Untouched, Same, SameOS, osVars
  <2>2. CASE /\ os' = [os EXCEPT ![n] = t.content] /\ lastHash' = [lastHash EXCEPT ![n] = t.content]
             /\ notify' = notify
    BY <1>0, <1>1, <2>2 DEF Untouched, Same, SameOS, TypeOK
  <2> QED  BY <2>1, <2>2 DEF LoadTimestamp, AddDedupe, Write, WriteFails
<1>3. PICK l \in Locals :
        /\ Leaves(n, g, l)
        /\ \/ l.pc \in {"add", "write"} /\ l.content = t.content
           \/ l.pc = "stamp" /\ l.content = t.content /\ g # "loop"
           \/ l.pc = "idle" /\ g = "loop"
  <2>1. CASE LoadTimestamp(n, g)
    <3> DEFINE l == [t EXCEPT !.pc = "add", !.ts = timestamp[n]]
    <3>1. timestamp[n] \in 0..MaxTime
      BY <1>0 DEF TypeOK
    <3>2. l \in Locals /\ l.pc = "add" /\ l.content = t.content
      BY <1>t, <3>1 DEF Locals, Pcs
    <3>3. Leaves(n, g, l)
      BY <1>0, <2>1, <1>t DEF Leaves, Threads, LoadTimestamp
    <3> QED  BY <3>2, <3>3
  <2>2. CASE AddDedupe(n, g)
    <3>1. Goto(n, g, IF g = "watch" THEN "stamp" ELSE "write")
      BY <2>2 DEF AddDedupe
    <3> QED  BY <1>0, <3>1, GotoFacts DEF Pcs
  <2>3. CASE Write(n, g) \/ WriteFails(n, g)
    <3>1. AfterWrite(n, g)
      BY <2>3 DEF Write, WriteFails
    <3> QED  BY <1>0, <3>1, GotoFacts, ParkFacts, ParkedFacts DEF AfterWrite, Pcs
  <2> QED  BY <2>1, <2>2, <2>3
<1>4. Applies(n, g, l)
  BY <1>1, <1>2, <1>3 DEF Applies
<1> QED  BY <1>1, <1>2, <1>3, <1>4 DEF CalmStep

LEMMA CalmSend ==
  ASSUME TypeInv, "loss" \notin Faults, NEW n \in Node, NEW g \in Goroutine,
         Stamp(n, g) \/ \E m \in Node : Send(n, g, m)
  PROVE  \E l \in Locals : CalmStep(n, g, l)
<1>0. thread \in Threads /\ TypeOK
  BY DEF TypeInv, TypeOK, Threads
<1> DEFINE t == thread[n][g]
<1>t. t \in Locals /\ t.content \in Clip /\ t.ts \in 0..MaxTime /\ t.peers \in SUBSET Node
  BY <1>0, LocalsFacts
<1>p. Park(n, g) => \E l \in Locals : Leaves(n, g, l) /\ l.pc = "idle"
  BY <1>0, ParkFacts, ParkedFacts DEF Pcs
<1>1. CASE Stamp(n, g)
  <2> DEFINE sending == [t EXCEPT !.pc = "send", !.ts = now, !.peers = peers[n]]
  <2>1. now \in 0..MaxTime /\ peers[n] \in SUBSET Node
    BY <1>0, NowStamps DEF TypeOK
  <2>2. /\ sending \in Locals /\ sending.pc = "send" /\ sending.content = t.content
        /\ sending.ts = now /\ sending.peers = peers[n]
    BY <1>t, <2>1 DEF Locals, Pcs
  <2>3. (peers[n] = {} /\ Park(n, g)) \/ Leaves(n, g, sending)
    BY <1>1 DEF Leaves, Stamp
  <2> HIDE DEF sending
  <2>4. PICK l \in Locals : Leaves(n, g, l) /\ ((peers[n] = {} /\ l.pc = "idle") \/ l = sending)
    BY <1>p, <2>2, <2>3
  <2>5. /\ t.pc = "stamp" /\ net' = net /\ now' = now /\ peers' = peers /\ calm' = calm
        /\ \A k \in Node : Untouched(k)
    BY <1>1, UntouchedFacts DEF Stamp, At, netVars, historyVars
  <2>6. Stamps(n, g, l)
    BY <2>2, <2>4, <2>5 DEF Stamps
  <2> QED  BY <2>4, <2>5, <2>6 DEF CalmStep
<1>2. ASSUME NEW m \in Node, Send(n, g, m)
      PROVE  \E l \in Locals : CalmStep(n, g, l)
  <2> DEFINE sending == [t EXCEPT !.peers = @ \ {m}]
             msg == [from |-> n, content |-> t.content, ts |-> t.ts]
  <2>1. t.pc = "send" /\ m \in t.peers /\ now' = now /\ peers' = peers /\ calm' = calm
    BY <1>2 DEF Send, At, historyVars
  <2>2. /\ sending \in Locals /\ sending.pc = "send" /\ sending.content = t.content
        /\ sending.ts = t.ts /\ sending.peers = t.peers \ {m}
    BY <1>t, <2>1 DEF Locals
  <2>3. (t.peers = {m} /\ Park(n, g)) \/ Leaves(n, g, sending)
    BY <1>0, <1>2, <1>t DEF Leaves, Threads, Send
  <2>4. \/ m \notin peers[n] /\ net' = net
        \/ m \in peers[n] /\ net' = [net EXCEPT ![n][m] = Append(@, msg)]
    BY <1>2 DEF Send
  <2> HIDE DEF sending
  <2>5. PICK l \in Locals : Leaves(n, g, l) /\ ((t.peers = {m} /\ l.pc = "idle") \/ l = sending)
    BY <1>p, <2>2, <2>3
  <2>6. \A k \in Node : Untouched(k)
    BY <1>2, UntouchedFacts DEF Send
  <2>7. Sends(n, g, l)
    BY <2>1, <2>2, <2>4, <2>5, <2>6 DEF Sends
  <2> QED  BY <2>1, <2>5, <2>6, <2>7 DEF CalmStep
<1> QED  BY <1>1, <1>2

\* Steps that leave every node and every message as they are.
Passes ==
  /\ now <= now' /\ thread' = thread /\ net' = net /\ peers' = peers /\ calm' = calm
  /\ \A k \in Node : Untouched(k)

Copies == \E n \in Node, c \in Clip : UserCopy(n, c) \/ \E g \in Cli : CliCopy(n, g, c)

\* What a step of the mesh is, if the mesh was calm and still is.
LEMMA CalmKinds ==
  ASSUME TypeInv, "loss" \notin Faults, AllPeers, [Next]_vars, calm'
  PROVE  \/ Passes \/ Copies
         \/ \E n \in Node : Poll(n)
         \/ \E n \in Node, g \in Goroutine : \E l \in Locals : CalmStep(n, g, l)
<1>1. CASE Tick \/ UNCHANGED vars
  <2>1. now \in Nat
    BY EngineAssumption DEF TypeInv, TypeOK
  <2>2. now <= now'
    BY <1>1, <2>1 DEF Tick, vars
  <2>3. UNCHANGED <<osVars, engineVars>> /\ UNCHANGED <<thread, net, peers, calm>>
    <3>1. UNCHANGED <<osVars, engineVars, thread, netVars, historyVars>>
      BY <1>1 DEF Tick, vars
    <3> QED  BY <3>1 DEF netVars, historyVars
  <2>4. \A k \in Node : Untouched(k)
    BY <2>3, UntouchedFacts
  <2> QED  BY <2>2, <2>3, <2>4 DEF Passes
<1>2. ASSUME NEW n \in Node, Restart(n)
      PROVE  FALSE
  BY <1>2 DEF Restart
<1>3. ASSUME NEW m \in Node, NEW n \in Node, Disconnect(m, n) \/ Connect(m, n)
      PROVE  FALSE
  BY <1>3 DEF Disconnect, Connect, AllPeers
<1>4. CASE Environment
  BY <1>1, <1>2, <1>3, <1>4 DEF Environment, Copies
<1>5. ASSUME NEW n \in Node, Run(n)
      PROVE  \E l \in Locals : CalmStep(n, "loop", l)
  BY <1>5, Goroutines, CalmBoot, CalmReceive, CalmUpdate, CalmApply, CalmSend DEF Run, SetClipboard
<1>6. ASSUME NEW n \in Node, WatchClipboard(n)
      PROVE  \E l \in Locals : CalmStep(n, "watch", l)
  BY <1>6, Goroutines, CalmWatch, CalmUpdate, CalmApply, CalmSend DEF WatchClipboard, SetClipboard
<1>7. ASSUME NEW n \in Node, NEW g \in Cli, SetClipboard(n, g)
      PROVE  \E l \in Locals : CalmStep(n, g, l)
  BY <1>7, Goroutines, CalmUpdate, CalmApply, CalmSend DEF SetClipboard
<1> QED  BY <1>1, <1>4, <1>5, <1>6, <1>7, Goroutines DEF Next

-----------------------------------------------------------------------------
(* What stays as it is. *)

\* Times only become older.
LEMMA LaterFacts ==
  ASSUME TypeInv, TypeInv', now <= now', NEW m \in Node, Untouched(m)
  PROVE  /\ \A ts \in Nat : CanReach(m, ts) => CanReach(m, ts)'
         /\ CanReach(m, now) => CanReach(m, now)'
         /\ ~IsSyncLoop(m) => ~IsSyncLoop(m)'
         /\ Noticed(m) => Noticed(m)'
<1>0. /\ now \in Nat /\ now' \in Nat /\ timestamp[m] \in Nat /\ lastRemote[m] \in Nat
      /\ SyncLoopWindow \in Nat /\ MinChangeInterval \in Nat
      /\ timestamp'[m] = timestamp[m] /\ lastRemote'[m] = lastRemote[m] /\ SameOS(m)
  BY EngineAssumption DEF TypeInv, TypeOK, Untouched, Same
<1>1. \A ts \in Nat : CanReach(m, ts) => CanReach(m, ts)'
  BY <1>0 DEF CanReach
<1>2. CanReach(m, now) => CanReach(m, now)'
  BY <1>0 DEF CanReach
<1>3. ~IsSyncLoop(m) => ~IsSyncLoop(m)'
  BY <1>0 DEF IsSyncLoop
<1>4. Noticed(m) => Noticed(m)'
  BY <1>0 DEF Noticed, SameOS
<1> QED  BY <1>1, <1>2, <1>3, <1>4

LEMMA IdleFacts ==
  ASSUME NEW m \in Node, thread'[m] = thread[m]
  PROVE  /\ Idle(m) => Idle(m)'
         /\ \A g \in Goroutine : RestIdle(m, g) => RestIdle(m, g)'
         /\ \A g \in Goroutine, pc \in Pcs : At(m, g, pc) => At(m, g, pc)'
  BY DEF Idle, RestIdle, At

\* A node that a step does not touch, and the messages to it.
SameMail(m) == \A k \in Node : net'[k][m] = net[k][m]

LEMMA RestingStays ==
  ASSUME TypeInv, TypeInv', now <= now', NEW m \in Node, thread'[m] = thread[m],
         Untouched(m), SameMail(m), Resting(m)
  PROVE  Resting(m)'
<1>1. NoMail(m)'
  BY DEF SameMail, Resting, NoMail
<1> QED  BY <1>1, LaterFacts, IdleFacts DEF Resting

LEMMA ArrivingStays ==
  ASSUME TypeInv, TypeInv', now <= now', NEW m \in Node, thread'[m] = thread[m],
         Untouched(m), SameMail(m), NEW n \in Node, NEW c \in Clip, Arriving(n, m, c)
  PROVE  Arriving(n, m, c)'
<1>1. Noticed(m)' /\ RestIdle(m, "loop")' /\ \A k \in Node \ {n} : net'[k][m] = <<>>
  BY LaterFacts, IdleFacts, Goroutines DEF Arriving, SameMail
<1>2. net'[n][m] = net[n][m] /\ current'[m] = current[m] /\ thread'[m] = thread[m]
  BY DEF SameMail, Untouched, Same
<1>3. \A ts \in Nat : CanReach(m, ts) => CanReach(m, ts)'
  BY LaterFacts
<1>4. thread[m]["loop"].ts \in Nat /\ \A ts \in 1..MaxTime : ts \in Nat
  BY LocalsFacts, Goroutines, EngineAssumption DEF TypeInv
<1>5. CASE /\ thread[m]["loop"].pc = "idle"
           /\ \E ts \in 1..MaxTime :
                net[n][m] = <<[from |-> n, content |-> c, ts |-> ts]>> /\ CanReach(m, ts)
  <2>1. PICK ts \in 1..MaxTime :
          net[n][m] = <<[from |-> n, content |-> c, ts |-> ts]>> /\ CanReach(m, ts)
    BY <1>5
  <2>2. net'[n][m] = <<[from |-> n, content |-> c, ts |-> ts]>> /\ CanReach(m, ts)'
    BY <1>2, <1>3, <1>4, <2>1
  <2> QED  BY <1>1, <1>2, <1>5, <2>2 DEF Arriving
<1>6. CASE /\ net[n][m] = <<>> /\ thread[m]["loop"].pc = "resolve"
           /\ thread[m]["loop"].content = c /\ thread[m]["loop"].peers = {n}
           /\ CanReach(m, thread[m]["loop"].ts)
  <2>1. CanReach(m, thread[m]["loop"].ts)'
    BY <1>2, <1>3, <1>4, <1>6 DEF CanReach
  <2> QED  BY <1>1, <1>2, <1>6, <2>1 DEF Arriving
<1>7. CASE net[n][m] = <<>> /\ thread[m]["loop"].pc = "set" /\ thread[m]["loop"].content = c
  BY <1>1, <1>2, <1>7 DEF Arriving
<1>8. CASE /\ net[n][m] = <<>> /\ current[m] = c
           /\ \/ thread[m]["loop"].pc = "idle"
              \/ /\ thread[m]["loop"].pc \in {"load", "add", "write"}
                 /\ thread[m]["loop"].content = c
  BY <1>1, <1>2, <1>8 DEF Arriving
<1> QED  BY <1>5, <1>6, <1>7, <1>8 DEF Arriving

-----------------------------------------------------------------------------
(* While the nodes boot. *)

LEMMA StartingStays ==
  ASSUME TypeInv, NEW m \in Node, thread'[m] = thread[m],
         Same(m), SameMail(m), StartingAt(m)
  PROVE  StartingAt(m)'
  BY DEF StartingAt, Same, SameOS, SameMail, Noticed, NoMail, At

LEMMA StartingStep ==
  ASSUME TypeInv, TypeInv', Starting, NEW n \in Node, NEW g \in Goroutine, NEW l \in Locals,
         CalmStep(n, g, l)
  PROVE  Starting'
<1>1. /\ thread'[n][g] = l
      /\ \A h \in Goroutine : h # g => thread'[n][h] = thread[n][h]
      /\ \A m \in Node : m # n => thread'[m] = thread[m] /\ Same(m)
  <2>1. thread \in Threads
    BY DEF TypeInv, TypeOK, Threads
  <2> QED  BY <2>1, LeavesFacts DEF CalmStep, Untouched
<1>2. /\ os[n] = Blank /\ Noticed(n) /\ NoMail(n)
      /\ thread[n]["loop"].pc \in {"boot", "bootSet", "bootLoad", "bootAdd", "idle"}
      /\ thread[n]["watch"].pc \in {"off", "idle"}
      /\ \A h \in Cli : At(n, h, "idle")
      /\ At(n, "loop", "bootSet") => thread[n]["loop"].content = Blank
      /\ thread[n]["loop"].pc \notin {"boot", "bootSet"} => current[n] = Blank
  BY DEF Starting, StartingAt
<1>3. thread[n][g].pc \in {"boot", "bootSet", "bootLoad", "bootAdd", "idle", "off"}
  BY <1>2 DEF Goroutine, At
<1>4. Prepares(n, g, l)
  <2>1. ~Notices(n, g, l)
    BY <1>2 DEF Notices, Noticed
  <2>2. ~Takes(n, g, l)
    BY <1>2 DEF Takes, NoMail
  <2>3. ~Judges(n, g, l) /\ ~Sets(n, g, l) /\ ~Applies(n, g, l) /\ ~Stamps(n, g, l) /\ ~Sends(n, g, l)
    BY <1>3 DEF Judges, Sets, Applies, Stamps, Sends
  <2> QED  BY <2>1, <2>2, <2>3 DEF CalmStep
<1>5. \A m \in Node : SameMail(m)
  BY <1>4 DEF Prepares, SameMail
<1>6. \A m \in Node : m # n => StartingAt(m)'
  BY <1>1, <1>5, StartingStays DEF Starting
<1>7. /\ os'[n] = Blank /\ Noticed(n)' /\ NoMail(n)'
  BY <1>2, <1>4 DEF Prepares, Noticed, NoMail, Untouched, Same, SameOS
<1>8. CASE g = "loop"
  <2>1. /\ thread'[n]["watch"] = thread[n]["watch"]
        /\ \A h \in Cli : thread'[n][h] = thread[n][h]
    BY <1>1, <1>8, Goroutines
  <2>2. /\ l.pc \in {"bootSet", "bootLoad", "bootAdd", "idle"}
        /\ l.pc = "bootSet" => l.content = Blank
        /\ l.pc # "bootSet" => current'[n] = Blank
    BY <1>2, <1>4, <1>8 DEF Prepares, Untouched, Same, At
  <2>3. StartingAt(n)'
    BY <1>1, <1>2, <1>7, <1>8, <2>1, <2>2 DEF StartingAt, At
  <2> QED  BY <1>6, <2>3 DEF Starting
<1>9. CASE g = "watch"
  <2>1. /\ thread'[n]["loop"] = thread[n]["loop"]
        /\ \A h \in Cli : thread'[n][h] = thread[n][h]
    BY <1>1, <1>9, Goroutines
  <2>2. l.pc = "idle" /\ current'[n] = current[n]
    BY <1>4, <1>9 DEF Prepares
  <2>3. StartingAt(n)'
    BY <1>1, <1>2, <1>7, <1>9, <2>1, <2>2 DEF StartingAt, At
  <2> QED  BY <1>6, <2>3 DEF Starting
<1> QED  BY <1>4, <1>8, <1>9 DEF Prepares

-----------------------------------------------------------------------------
(* The steps that keep the mesh calm. *)

\* What a goroutine's step does to the goroutines.
LEMMA CalmStepFacts ==
  ASSUME TypeInv, NEW n \in Node, NEW g \in Goroutine, NEW l \in Locals, CalmStep(n, g, l)
  PROVE  /\ thread'[n][g] = l
         /\ \A h \in Goroutine : h # g => thread'[n][h] = thread[n][h]
         /\ \A m \in Node : m # n => thread'[m] = thread[m] /\ Untouched(m)
         /\ RestIdle(n, g) => RestIdle(n, g)'
         /\ now <= now' /\ now' = now
<1>1. thread \in Threads /\ now \in Nat
  BY EngineAssumption DEF TypeInv, TypeOK, Threads
<1>2. /\ thread'[n][g] = l
      /\ \A h \in Goroutine : h # g => thread'[n][h] = thread[n][h]
      /\ \A m \in Node : m # n => thread'[m] = thread[m]
  BY <1>1, LeavesFacts DEF CalmStep
<1>3. RestIdle(n, g) => RestIdle(n, g)'
  BY <1>2 DEF RestIdle, At
<1>4. now <= now' /\ now' = now
  BY <1>1 DEF CalmStep
<1> QED  BY <1>2, <1>3, <1>4 DEF CalmStep

\* What an idle goroutine can do.
LEMMA IdleSteps ==
  ASSUME NEW n \in Node, NEW g \in Goroutine, NEW l \in Locals, CalmStep(n, g, l),
         At(n, g, "idle"), notify[n] = 0
  PROVE  Takes(n, g, l)
<1>1. /\ ~Prepares(n, g, l) /\ ~Judges(n, g, l) /\ ~Sets(n, g, l) /\ ~Applies(n, g, l)
      /\ ~Stamps(n, g, l) /\ ~Sends(n, g, l)
  BY DEF At, Prepares, Judges, Sets, Applies, Stamps, Sends
<1>2. ~Notices(n, g, l)
  BY DEF Notices
<1> QED  BY <1>1, <1>2 DEF CalmStep

LEMMA NoMailNoTake ==
  ASSUME NEW n \in Node, NEW g \in Goroutine, NEW l \in Locals, NoMail(n)
  PROVE  ~Takes(n, g, l)
  BY DEF Takes, NoMail

LEMMA CopiedStep ==
  ASSUME TypeInv, TypeInv', NEW o \in Node, NEW b \in Clip, Copied(o, b),
         NEW n \in Node, NEW g \in Goroutine, NEW l \in Locals, CalmStep(n, g, l)
  PROVE  Calm'
<1>0. /\ \A m \in Node : current[m] = b /\ CanReach(m, now) /\ NoMail(m)
      /\ \A m \in Node \ {o} : Idle(m) /\ Noticed(m)
      /\ ~IsSyncLoop(o)
  BY DEF Copied
<1>1. ~Takes(n, g, l)
  BY <1>0, NoMailNoTake
<1>2. n = o
  <2> SUFFICES ASSUME n # o  PROVE FALSE
    OBVIOUS
  <2>1. At(n, g, "idle") /\ notify[n] = 0
    BY <1>0 DEF Idle, Noticed
  <2> QED  BY <1>1, <2>1, IdleSteps
<1>3. /\ thread'[o][g] = l
      /\ \A h \in Goroutine : h # g => thread'[o][h] = thread[o][h]
      /\ RestIdle(o, g) => RestIdle(o, g)'
      /\ \A m \in Node : m # o => thread'[m] = thread[m] /\ Untouched(m)
      /\ now <= now' /\ now' = now
  BY <1>2, CalmStepFacts
<1>4. \A m \in Node \ {o} : /\ current'[m] = b /\ CanReach(m, now)'
                            /\ Idle(m)' /\ Noticed(m)'
  BY <1>0, <1>3, LaterFacts, IdleFacts DEF Untouched, Same
<1>5. CASE Idle(o) /\ (notify[o] = 0 \/ (notify[o] = 1 /\ lastHash[o] = os[o]))
  <2>1. At(o, g, "idle")
    BY <1>5 DEF Idle
  <2>2. notify[o] = 1 /\ lastHash[o] = os[o]
    BY <1>1, <1>2, <1>5, <2>1, IdleSteps
  <2>3. Notices(o, g, l)
    <3>1. /\ ~Prepares(o, g, l) /\ ~Judges(o, g, l) /\ ~Sets(o, g, l) /\ ~Applies(o, g, l)
          /\ ~Stamps(o, g, l) /\ ~Sends(o, g, l)
      BY <2>1 DEF At, Prepares, Judges, Sets, Applies, Stamps, Sends
    <3> QED  BY <1>1, <1>2, <3>1 DEF CalmStep
  <2>4. /\ Noticed(o)' /\ current'[o] = b /\ timestamp'[o] = timestamp[o]
        /\ lastRemote'[o] = lastRemote[o] /\ net' = net
        /\ l.pc = "set" \/ l.pc = "idle"
    BY <1>0, <2>2, <2>3 DEF Notices, Noticed
  <2>5. CanReach(o, now)' /\ ~IsSyncLoop(o)' /\ \A m \in Node : NoMail(m)'
    BY <1>0, <1>3, <2>4 DEF CanReach, IsSyncLoop, NoMail
  <2>6. RestIdle(o, g)' /\ g # "loop"
    BY <1>3, <1>5, <2>3 DEF Idle, RestIdle, Notices
  <2>7. Idle(o)' \/ \E h \in Goroutine \ {"loop"} : At(o, h, "set")' /\ RestIdle(o, h)'
    <3>1. CASE l.pc = "set"
      BY <1>3, <2>6, <3>1 DEF At
    <3>2. CASE l.pc = "idle"
      BY <1>3, <2>6, <3>2 DEF At, RestIdle, Idle
    <3> QED  BY <2>4, <3>1, <3>2
  <2>8. Copied(o, b)'
    BY <1>4, <2>4, <2>5, <2>7 DEF Copied, Noticed
  <2> QED  BY <2>8 DEF Calm
<1>6. ASSUME Noticed(o), NEW h \in Goroutine \ {"loop"}, At(o, h, "set"), RestIdle(o, h)
      PROVE  Calm'
  <2>1. h = g
    <3> SUFFICES ASSUME h # g  PROVE FALSE
      OBVIOUS
    <3>1. At(o, g, "idle") /\ notify[o] = 0
      BY <1>6 DEF RestIdle, Noticed
    <3> QED  BY <1>1, <1>2, <3>1, IdleSteps
  <2>2. Sets(o, g, l)
    <3>1. /\ ~Prepares(o, g, l) /\ ~Judges(o, g, l) /\ ~Applies(o, g, l)
          /\ ~Stamps(o, g, l) /\ ~Sends(o, g, l) /\ ~Notices(o, g, l)
      BY <1>6, <2>1 DEF At, Prepares, Judges, Applies, Stamps, Sends, Notices
    <3> QED  BY <1>1, <1>2, <3>1 DEF CalmStep
  <2>3. /\ Noticed(o)' /\ net' = net /\ RestIdle(o, g)' /\ g # "loop"
        /\ \A m \in Node : NoMail(m)'
    BY <1>0, <1>3, <1>6, <2>1, <2>2 DEF Sets, Noticed, SameOS, NoMail
  <2>c. PICK c \in Clip : c = thread[o][g].content
    BY LocalsFacts, <2>1 DEF TypeInv
  <2>4. CASE l.pc = "idle" /\ Untouched(o)
    <3>1. /\ current'[o] = b /\ CanReach(o, now)' /\ ~IsSyncLoop(o)'
      BY <1>0, <1>3, <2>4 DEF Untouched, Same, CanReach, IsSyncLoop
    <3>2. Idle(o)'
      BY <1>3, <2>3, <2>4 DEF At, RestIdle, Idle
    <3>3. Copied(o, b)'
      BY <1>4, <2>3, <3>1, <3>2 DEF Copied, Noticed
    <3> QED  BY <3>3 DEF Calm
  <2>5. CASE current'[o] = c /\ l.pc = "load" /\ l.content = c
    <3>1. At(o, g, "load")' /\ thread'[o][g].content = c
      BY <1>3, <2>5 DEF At
    <3>2. \A m \in Node \ {o} : Awaits(o, g, m)' /\ Resting(m)' /\ StampOf(o, g)' = now'
      BY <1>4, <2>3, <3>1 DEF Awaits, Resting, StampOf, At
    <3>3. \A m \in Node \ {o} : CanReach(m, StampOf(o, g))'
      BY <1>4, <3>2 DEF CanReach
    <3>4. Spreading(o, g, c)'
      BY <2>3, <2>5, <3>1, <3>2, <3>3 DEF Spreading, At
    <3> QED  BY <2>1, <3>4 DEF Calm
  <2> QED  BY <1>0, <2>2, <2>4, <2>5, <2>c DEF Sets
<1> QED  BY <1>5, <1>6 DEF Copied

\* What a spreading change is to the node it comes from, as far as the
\* messages still to be sent.
LEMMA AwaitsStays ==
  ASSUME TypeInv, TypeInv', NEW n \in Node, NEW g \in Goroutine, NEW m \in Node,
         thread'[n] = thread[n], now <= now', Untouched(m)
  PROVE  /\ Awaits(n, g, m)' <=> Awaits(n, g, m)
         /\ CanReach(m, StampOf(n, g)) => CanReach(m, StampOf(n, g))'
<1>1. Awaits(n, g, m)' <=> Awaits(n, g, m)
  BY DEF Awaits, At
<1>2. /\ timestamp[m] \in Nat /\ timestamp'[m] = timestamp[m]
      /\ now \in Nat /\ now' \in Nat /\ SyncLoopWindow \in Nat
  BY EngineAssumption DEF TypeInv, TypeOK, Untouched
<1>3. thread[n][g].ts \in Nat
  BY LocalsFacts, EngineAssumption DEF TypeInv
<1>4. CASE At(n, g, "send")
  BY <1>1, <1>2, <1>3, <1>4 DEF CanReach, StampOf, At
<1>5. CASE ~At(n, g, "send")
  BY <1>1, <1>2, <1>5 DEF CanReach, StampOf, At
<1> QED  BY <1>4, <1>5

LEMMA CalmPasses ==
  ASSUME TypeInv, TypeInv', Calm, Passes
  PROVE  Calm'
<1>1. /\ now <= now'
      /\ \A m \in Node : thread'[m] = thread[m] /\ Untouched(m) /\ SameMail(m)
  BY DEF Passes, SameMail
<1>2. CASE Starting
  <2>1. \A m \in Node : StartingAt(m)'
    BY <1>1, <1>2, StartingStays DEF Starting, Untouched
  <2> QED  BY <2>1 DEF Calm, Starting
<1>3. ASSUME NEW n \in Node, NEW b \in Clip, Copied(n, b)
      PROVE  Calm'
  <2>1. /\ \A m \in Node : current'[m] = b /\ CanReach(m, now)'
        /\ \A m \in Node \ {n} : Idle(m)' /\ Noticed(m)'
        /\ ~IsSyncLoop(n)'
    BY <1>1, <1>3, LaterFacts, IdleFacts DEF Copied, Untouched, Same
  <2>2. \A m \in Node : NoMail(m)'
    BY <1>1, <1>3 DEF Copied, NoMail, SameMail
  <2>3. /\ os'[n] = os[n] /\ lastHash'[n] = lastHash[n] /\ notify'[n] = notify[n]
        /\ thread'[n] = thread[n]
    BY <1>1 DEF Untouched, Same, SameOS
  <2>4. \/ Idle(n)' /\ (notify'[n] = 0 \/ (notify'[n] = 1 /\ lastHash'[n] = os'[n]))
        \/ /\ Noticed(n)'
           /\ \E g \in Goroutine \ {"loop"} : At(n, g, "set")' /\ RestIdle(n, g)'
    <3>1. CASE Idle(n) /\ (notify[n] = 0 \/ (notify[n] = 1 /\ lastHash[n] = os[n]))
      BY <2>3, <3>1, IdleFacts
    <3>2. ASSUME Noticed(n), NEW g \in Goroutine \ {"loop"}, At(n, g, "set"), RestIdle(n, g)
          PROVE  Noticed(n)' /\ At(n, g, "set")' /\ RestIdle(n, g)'
      BY <2>3, <3>2 DEF Noticed, At, RestIdle
    <3> QED  BY <1>3, <3>1, <3>2 DEF Copied
  <2>5. Copied(n, b)'
    BY <2>1, <2>2, <2>4 DEF Copied
  <2> QED  BY <2>5 DEF Calm
<1>4. ASSUME NEW n \in Node, NEW g \in Goroutine \ {"loop"}, NEW c \in Clip, Spreading(n, g, c)
      PROVE  Calm'
  <2>1. /\ current'[n] = c /\ Noticed(n)' /\ RestIdle(n, g)' /\ NoMail(n)'
        /\ thread'[n] = thread[n]
    BY <1>1, <1>4, LaterFacts, IdleFacts DEF Spreading, Untouched, Same, NoMail, SameMail
  <2>2. ASSUME NEW m \in Node \ {n}
        PROVE  IF Awaits(n, g, m)'
               THEN Resting(m)' /\ CanReach(m, StampOf(n, g))'
               ELSE Arriving(n, m, c)'
    <3>1. CASE Awaits(n, g, m)
      BY <1>1, <1>4, <3>1, AwaitsStays, RestingStays DEF Spreading
    <3>2. CASE ~Awaits(n, g, m)
      BY <1>1, <1>4, <3>2, AwaitsStays, ArrivingStays DEF Spreading
    <3> QED  BY <3>1, <3>2
  <2>3. Spreading(n, g, c)'
    BY <1>4, <2>1, <2>2 DEF Spreading, At
  <2> QED  BY <2>3 DEF Calm
<1> QED  BY <1>2, <1>3, <1>4 DEF Calm

LEMMA CalmPoll ==
  ASSUME TypeInv, TypeInv', Calm, NEW n \in Node, Poll(n)
  PROVE  Calm'
<1>1. ~Noticed(n)
  BY DEF Poll, Noticed
<1>2. ASSUME NEW o \in Node, NEW b \in Clip, Copied(o, b)
      PROVE  Calm'
  <2>1. /\ \A m \in Node : current[m] = b /\ CanReach(m, now) /\ NoMail(m)
        /\ \A m \in Node \ {o} : Idle(m) /\ Noticed(m)
        /\ ~IsSyncLoop(o)
    BY <1>2 DEF Copied
  <2>2. n = o
    BY <1>1, <2>1
  <2>3. Idle(o) /\ notify[o] = 0
    BY <1>1, <1>2, <2>2 DEF Copied, Poll
  <2>4. /\ lastHash' = [lastHash EXCEPT ![o] = os[o]]
        /\ notify' = [notify EXCEPT ![o] = IF @ < WatchBuffer THEN @ + 1 ELSE @]
        /\ now' = now /\ os' = os /\ current' = current /\ timestamp' = timestamp
        /\ lastRemote' = lastRemote /\ thread' = thread /\ net' = net
    BY <2>2 DEF Poll, engineVars, netVars
  <2>5. lastHash'[o] = os'[o] /\ notify'[o] = 1
    <3>1. lastHash \in [Node -> Clip] /\ notify \in [Node -> 0..WatchBuffer]
      BY DEF TypeInv, TypeOK
    <3>2. 0 < WatchBuffer
      BY EngineAssumption
    <3>3. lastHash'[o] = os'[o]
      BY <2>4, <3>1
    <3> QED  BY <2>3, <2>4, <3>1, <3>2, <3>3
  <2>6. \A m \in Node \ {o} : Idle(m)' /\ Noticed(m)'
    BY <2>1, <2>4 DEF Idle, At, Noticed, TypeInv, TypeOK
  <2>7. /\ Idle(o)' /\ ~IsSyncLoop(o)'
        /\ \A m \in Node : current'[m] = b /\ CanReach(m, now)' /\ NoMail(m)'
    BY <2>1, <2>3, <2>4 DEF Idle, At, IsSyncLoop, CanReach, NoMail
  <2>8. Copied(o, b)'
    BY <2>5, <2>6, <2>7 DEF Copied
  <2> QED  BY <2>8 DEF Calm
<1>3. ~Starting
  BY <1>1 DEF Starting, StartingAt
<1>4. ASSUME NEW o \in Node, NEW g \in Goroutine \ {"loop"}, NEW c \in Clip, Spreading(o, g, c)
      PROVE  FALSE
  <2>1. n # o
    BY <1>1, <1>4 DEF Spreading
  <2>2. Resting(n) \/ Arriving(o, n, c)
    BY <1>4, <2>1 DEF Spreading
  <2> QED  BY <1>1, <2>2 DEF Resting, Arriving
<1> QED  BY <1>2, <1>3, <1>4 DEF Calm

\* In a calm mesh that rests the nodes agree.
LEMMA CalmAgrees ==
  ASSUME Calm, Quiet
  PROVE  \E b \in Clip : \A m \in Node : current[m] = b
<1>0. /\ \A m \in Node, g \in Goroutine : thread[m][g].pc = "idle"
      /\ \A k, m \in Node : net[k][m] = <<>>
  BY DEF Quiet, Settled, At
<1>1. CASE Starting
  <2>1. \A m \in Node : current[m] = Blank
    BY <1>0, <1>1, Goroutines DEF Starting, StartingAt
  <2> QED  BY <2>1, EngineAssumption
<1>2. ASSUME NEW n \in Node, NEW b \in Clip, Copied(n, b)
      PROVE  \A m \in Node : current[m] = b
  BY <1>2 DEF Copied
<1>3. ASSUME NEW n \in Node, NEW g \in Goroutine \ {"loop"}, NEW c \in Clip, Spreading(n, g, c)
      PROVE  \A m \in Node : current[m] = c
  <2>1. ASSUME NEW m \in Node, m # n
        PROVE  current[m] = c
    <3>1. ~Awaits(n, g, m)
      BY <1>0 DEF Awaits, At
    <3>2. Arriving(n, m, c)
      BY <1>3, <2>1, <3>1 DEF Spreading
    <3>3. ASSUME NEW ts \in 1..MaxTime, net[n][m] = <<[from |-> n, content |-> c, ts |-> ts]>>
          PROVE  FALSE
      BY <1>0, <2>1, <3>3
    <3> QED  BY <1>0, <3>2, <3>3, Goroutines DEF Arriving
  <2> QED  BY <1>3, <2>1 DEF Spreading
<1> QED  BY <1>1, <1>2, <1>3 DEF Calm

\* The next copy is made in such a mesh.
LEMMA CalmCopy ==
  ASSUME TypeInv, TypeInv', RemoteKnown, Calm, Copies, calm'
  PROVE  Calm'
<1>1. Quiet /\ Rested
  BY DEF Copies, UserCopy, CliCopy, CopyBy
<1>2. PICK b \in Clip : \A m \in Node : current[m] = b
  BY <1>1, CalmAgrees
<1>3. PICK n \in Node, c \in Clip : UserCopy(n, c) \/ \E g \in Cli : CliCopy(n, g, c)
  BY DEF Copies
<1>4. now' = now /\ lastHash' = lastHash /\ notify' = notify /\ net' = net
      /\ current' = current /\ timestamp' = timestamp /\ lastRemote' = lastRemote
  BY <1>3 DEF UserCopy, CliCopy, engineVars, netVars, osVars
<1>5. \A m \in Node : /\ now \in Nat /\ timestamp[m] \in Nat /\ lastRemote[m] \in Nat
                      /\ MinChangeInterval \in Nat /\ SyncLoopWindow \in Nat
                      /\ now - timestamp[m] >= SyncLoopWindow
                      /\ now - timestamp[m] >= MinChangeInterval
                      /\ now > timestamp[m] /\ lastRemote[m] <= timestamp[m]
  BY <1>1, EngineAssumption DEF Rested, RemoteKnown, TypeInv, TypeOK
<1>6. \A m \in Node : CanReach(m, now)' /\ ~IsSyncLoop(m)'
  BY <1>4, <1>5 DEF CanReach, IsSyncLoop
<1>7. \A m \in Node : current'[m] = b /\ NoMail(m)' /\ notify'[m] = 0
  BY <1>1, <1>2, <1>4 DEF Quiet, Settled, NoMail
<1>8. \A m \in Node : Idle(m) /\ lastHash[m] = os[m]
  BY <1>1 DEF Quiet, Settled, Idle
<1>9. CASE UserCopy(n, c)
  <2>1. /\ thread' = thread
        /\ \A m \in Node \ {n} : os'[m] = os[m]
    BY <1>9 DEF UserCopy, TypeInv, TypeOK
  <2>2. /\ \A m \in Node : Idle(m)'
        /\ \A m \in Node \ {n} : Noticed(m)'
    BY <1>4, <1>7, <1>8, <2>1 DEF Idle, At, Noticed
  <2>3. Copied(n, b)'
    BY <1>6, <1>7, <2>2 DEF Copied
  <2> QED  BY <2>3 DEF Calm
<1>10. ASSUME NEW g \in Cli, CliCopy(n, g, c)
       PROVE  Calm'
  <2>1. /\ thread' = [thread EXCEPT ![n][g].pc = "set", ![n][g].content = c]
        /\ thread \in Threads /\ os' = os /\ g \in Goroutine \ {"loop"}
    BY <1>10, Goroutines DEF CliCopy, TypeInv, TypeOK, Threads, osVars
  <2>2. /\ thread'[n][g].pc = "set"
        /\ \A h \in Goroutine \ {g} : thread'[n][h] = thread[n][h]
        /\ \A m \in Node \ {n} : thread'[m] = thread[m]
    BY <2>1 DEF Threads, Locals
  <2>3. /\ \A m \in Node \ {n} : Idle(m)'
        /\ At(n, g, "set")' /\ RestIdle(n, g)'
    BY <1>8, <2>2 DEF Idle, RestIdle, At
  <2>4. \A m \in Node : Noticed(m)'
    BY <1>4, <1>7, <1>8, <2>1 DEF Noticed
  <2>5. Copied(n, b)'
    BY <1>6, <1>7, <2>1, <2>3, <2>4 DEF Copied
  <2> QED  BY <2>5 DEF Calm
<1> QED  BY <1>3, <1>9, <1>10

\* A message newer than the state it meets is no duplicate.
LEMMA NewsIsNoDuplicate ==
  ASSUME TypeInv, CacheNotAhead, NEW m \in Node, NEW msg \in Message, CanReach(m, msg.ts)
  PROVE  ~IsDuplicate(m, msg)
<1> SUFFICES ASSUME CacheHas(dedupe[m], msg.content)
             PROVE  ~(msg.ts - dedupe[m].items[msg.content] < SyncLoopWindow)
  BY DEF IsDuplicate
<1>1. dedupe[m] \in Caches(Clip \cup {Unset}, 0..MaxTime)
  BY DEF TypeInv, TypeOK
<1>2. msg.content \in DOMAIN dedupe[m].items
  BY DEF CacheHas
<1>3. dedupe[m].items[msg.content] <= timestamp[m]
  BY <1>2 DEF CacheNotAhead
<1>4. dedupe[m].items[msg.content] \in 0..MaxTime
  BY <1>1, <1>2 DEF Caches
<1>5. msg.ts \in Nat /\ timestamp[m] \in Nat /\ dedupe[m].items[msg.content] \in Nat
      /\ SyncLoopWindow \in Nat
  BY <1>4, EngineAssumption DEF Message, TypeInv, TypeOK
<1> QED  BY <1>3, <1>5 DEF CanReach

\* What a node the change is on its way to can do brings the change forward.
LEMMA ArrivingStep ==
  ASSUME TypeInv, TypeInv', CacheNotAhead, NEW n \in Node, NEW m \in Node, m # n,
         NEW c \in Clip, Arriving(n, m, c),
         NEW g \in Goroutine, NEW l \in Locals, CalmStep(m, g, l)
  PROVE  Arriving(n, m, c)' /\ \A k \in Node : k # m => SameMail(k)
<1> DEFINE t == thread[m]["loop"]
           sent(ts) == [from |-> n, content |-> c, ts |-> ts]
<1>0. /\ Noticed(m) /\ RestIdle(m, "loop") /\ \A k \in Node \ {n} : net[k][m] = <<>>
      /\ "loop" \in Goroutine /\ t \in Locals /\ net \in [Node -> [Node -> Seq(Message)]]
      /\ MaxTime \in Nat
  BY LocalsFacts, Goroutines, EngineAssumption DEF Arriving, TypeInv, TypeOK
<1>1. g = "loop"
  <2> SUFFICES ASSUME g # "loop"  PROVE FALSE
    OBVIOUS
  <2>1. At(m, g, "idle") /\ notify[m] = 0
    BY <1>0 DEF RestIdle, Noticed
  <2>2. Takes(m, g, l)
    BY <2>1, IdleSteps
  <2> QED  BY <2>2 DEF Takes
<1>2. /\ thread'[m]["loop"] = l /\ RestIdle(m, "loop")'
      /\ \A k \in Node : k # m => Untouched(k)
      /\ now' = now
  BY <1>0, <1>1, CalmStepFacts
<1>3. /\ ~Prepares(m, "loop", l) \/ t.pc \in {"boot", "bootSet", "bootLoad", "bootAdd"}
      /\ ~Notices(m, "loop", l)
      /\ ~Stamps(m, "loop", l) \/ t.pc = "stamp"
      /\ ~Sends(m, "loop", l) \/ t.pc = "send"
  BY DEF Prepares, Notices, Stamps, Sends
<1>4. ASSUME t.pc = "idle", NEW ts \in 1..MaxTime, net[n][m] = <<sent(ts)>>, CanReach(m, ts)
      PROVE  Arriving(n, m, c)' /\ \A k \in Node : k # m => SameMail(k)
  <2>1. Takes(m, "loop", l)
    BY <1>0, <1>1, <1>4, IdleSteps DEF At, Noticed
  <2>2. PICK k \in Node :
          LET msg == Head(net[k][m]) IN
          /\ net[k][m] # <<>>
          /\ net' = [net EXCEPT ![k][m] = Tail(@)]
          /\ \/ IsDuplicate(m, msg) /\ l.pc = "idle"
             \/ l = [pc |-> "resolve", content |-> msg.content, ts |-> msg.ts,
                     peers |-> {msg.from}]
    BY <2>1 DEF Takes
  <2>3. k = n
    BY <1>0, <2>2
  <2>4. Head(net[n][m]) = sent(ts) /\ Tail(net[n][m]) = <<>> /\ sent(ts) \in Message
    BY <1>4 DEF Message
  <2>5. ~IsDuplicate(m, sent(ts))
    BY <1>4, <2>4, NewsIsNoDuplicate
  <2>6. l = [pc |-> "resolve", content |-> c, ts |-> ts, peers |-> {n}]
    BY <2>2, <2>3, <2>4, <2>5
  <2>7. /\ net'[n][m] = <<>>
        /\ \A i, j \in Node : j # m => net'[i][j] = net[i][j]
        /\ \A i \in Node \ {n} : net'[i][m] = net[i][m]
    BY <1>0, <2>2, <2>3, <2>4
  <2>8. Noticed(m)' /\ CanReach(m, ts)'
    BY <1>0, <1>4, <2>1 DEF Takes, Untouched, Same, SameOS, Noticed, CanReach
  <2>9. CanReach(m, thread[m]["loop"].ts)'
    BY <1>2, <2>6, <2>8 DEF CanReach
  <2>10. Arriving(n, m, c)'
    BY <1>0, <1>2, <2>6, <2>7, <2>8, <2>9 DEF Arriving
  <2> QED  BY <2>7, <2>10 DEF SameMail
<1>5. CASE /\ net[n][m] = <<>> /\ t.pc = "resolve" /\ t.content = c /\ t.peers = {n}
           /\ CanReach(m, t.ts)
  <2>1. Judges(m, "loop", l)
    BY <1>1, <1>3, <1>5 DEF CalmStep, Takes, At, Sets, Applies
  <2>2. Wins(m, t.ts, n)
    BY <1>5 DEF Wins, CanReach
  <2>3. l.pc = "set" /\ l.content = c /\ net' = net /\ Noticed(m)'
    BY <1>0, <1>5, <2>1, <2>2 DEF Judges, Untouched, Same, SameOS, Noticed
  <2>4. Arriving(n, m, c)'
    BY <1>0, <1>2, <1>5, <2>3 DEF Arriving
  <2> QED  BY <2>3, <2>4 DEF SameMail
<1>6. CASE net[n][m] = <<>> /\ t.pc = "set" /\ t.content = c
  <2>1. Sets(m, "loop", l)
    BY <1>1, <1>3, <1>6 DEF CalmStep, Takes, At, Judges, Applies
  <2>2. /\ current'[m] = c /\ net' = net /\ Noticed(m)'
        /\ l.pc = "idle" \/ (l.pc = "load" /\ l.content = c)
    BY <1>0, <1>6, <2>1 DEF Sets, Untouched, Same, SameOS, Noticed
  <2>3. Arriving(n, m, c)'
    BY <1>0, <1>2, <1>6, <2>2 DEF Arriving
  <2> QED  BY <2>2, <2>3 DEF SameMail
<1>7. CASE net[n][m] = <<>> /\ current[m] = c /\ t.pc \in {"load", "add", "write"} /\ t.content = c
  <2>1. Applies(m, "loop", l)
    BY <1>1, <1>3, <1>7 DEF CalmStep, Takes, At, Judges, Sets
  <2>2. /\ current'[m] = c /\ net' = net
        /\ l.pc = "idle" \/ (l.pc \in {"add", "write"} /\ l.content = c)
    BY <1>7, <2>1 DEF Applies
  <2>3. Noticed(m)'
    BY <1>0, <2>1 DEF Applies, SameOS, Noticed
  <2>4. Arriving(n, m, c)'
    BY <1>0, <1>2, <1>7, <2>2, <2>3 DEF Arriving
  <2> QED  BY <2>2, <2>4 DEF SameMail
<1>8. CASE net[n][m] = <<>> /\ t.pc = "idle"
  <2>1. Takes(m, "loop", l) /\ NoMail(m)
    BY <1>0, <1>1, <1>8, IdleSteps DEF At, Noticed, NoMail
  <2> QED  BY <2>1, NoMailNoTake, <1>0
<1> QED  BY <1>4, <1>5, <1>6, <1>7, <1>8 DEF Arriving

\* What the node that passes the change on can do.
LEMMA SourceStep ==
  ASSUME TypeInv, TypeInv', AllPeers, NEW n \in Node, NEW g \in Goroutine \ {"loop"},
         NEW c \in Clip, Spreading(n, g, c),
         NEW h \in Goroutine, NEW l \in Locals, CalmStep(n, h, l)
  PROVE  Spreading(n, g, c)'
<1> DEFINE t == thread[n][g]
           msg == [from |-> n, content |-> c, ts |-> t.ts]
<1>0. /\ current[n] = c /\ Noticed(n) /\ RestIdle(n, g) /\ NoMail(n)
      /\ t \in Locals /\ g \in Goroutine /\ net \in [Node -> [Node -> Seq(Message)]]
      /\ t.peers \in SUBSET Node
  BY LocalsFacts DEF Spreading, TypeInv, TypeOK
<1>1. h = g /\ ~At(n, g, "idle")
  <2> SUFFICES ASSUME At(n, h, "idle")  PROVE FALSE
    BY <1>0 DEF RestIdle
  <2> QED  BY <1>0, IdleSteps, NoMailNoTake DEF Noticed
<1>2. /\ thread'[n][g] = l /\ RestIdle(n, g)'
      /\ \A m \in Node \ {n} : thread'[m] = thread[m] /\ Untouched(m)
      /\ now' = now /\ now <= now'
  BY <1>0, <1>1, CalmStepFacts
<1>3. t.pc \in {"load", "add", "write", "stamp", "send"} /\ t.content = c
  BY <1>1 DEF Spreading, At
<1>4. /\ ~Prepares(n, g, l) /\ ~Notices(n, g, l) /\ ~Takes(n, g, l)
      /\ ~Judges(n, g, l) /\ ~Sets(n, g, l)
  BY <1>3 DEF Prepares, Notices, Takes, Judges, Sets, At
<1>5. \A m \in Node \ {n} : Awaits(n, g, m) => Resting(m) /\ CanReach(m, StampOf(n, g))
  BY DEF Spreading
<1>6. \A m \in Node \ {n} : ~Awaits(n, g, m) => Arriving(n, m, c)
  BY DEF Spreading
<1>7. CASE Applies(n, g, l)
  <2>1. /\ net' = net /\ current'[n] = c /\ t.pc \in {"load", "add", "write"}
        /\ l.pc \in {"add", "write", "stamp"} /\ l.content = c
    BY <1>0, <1>3, <1>7 DEF Applies
  <2>2. Noticed(n)'
    BY <1>0, <1>7 DEF Applies, SameOS, Noticed
  <2>3. NoMail(n)' /\ \A m \in Node : SameMail(m)
    BY <1>0, <2>1 DEF NoMail, SameMail
  <2>4. ASSUME NEW m \in Node \ {n}
        PROVE  Awaits(n, g, m)' /\ Resting(m)' /\ CanReach(m, StampOf(n, g))'
    <3>1. Awaits(n, g, m) /\ StampOf(n, g) = now
      BY <2>1 DEF Awaits, StampOf, At
    <3>2. Awaits(n, g, m)' /\ StampOf(n, g)' = now
      BY <1>2, <2>1 DEF Awaits, StampOf, At
    <3>3. Resting(m)'
      BY <1>2, <1>5, <2>3, <3>1, RestingStays
    <3>4. CanReach(m, now)
      BY <1>5, <3>1
    <3>5. CanReach(m, now)'
      BY <1>2, <3>4, LaterFacts
    <3> QED  BY <1>2, <3>2, <3>3, <3>5 DEF CanReach
  <2> QED  BY <1>2, <2>1, <2>2, <2>3, <2>4 DEF Spreading
<1>8. CASE Stamps(n, g, l)
  <2>1. /\ net' = net /\ Untouched(n) /\ t.pc = "stamp"
        /\ \/ peers[n] = {} /\ l.pc = "idle"
           \/ l.pc = "send" /\ l.content = c /\ l.ts = now /\ l.peers = peers[n]
    BY <1>3, <1>8 DEF Stamps
  <2>2. /\ Noticed(n)' /\ NoMail(n)' /\ current'[n] = c
        /\ \A m \in Node : SameMail(m)
    BY <1>0, <2>1 DEF Untouched, Same, SameOS, Noticed, NoMail, SameMail
  <2>3. ASSUME NEW m \in Node \ {n}
        PROVE  Awaits(n, g, m)' /\ Resting(m)' /\ CanReach(m, StampOf(n, g))'
    <3>1. Awaits(n, g, m) /\ StampOf(n, g) = now
      BY <2>1 DEF Awaits, StampOf, At
    <3>2. m \in peers[n]
      BY DEF AllPeers
    <3>3. l.pc = "send" /\ l.content = c /\ l.ts = now /\ m \in l.peers
      BY <2>1, <3>2
    <3>4. Awaits(n, g, m)' /\ StampOf(n, g)' = now
      BY <1>2, <3>3 DEF Awaits, StampOf, At
    <3>5. Resting(m)'
      BY <1>2, <1>5, <2>2, <3>1, RestingStays
    <3>6. CanReach(m, now)
      BY <1>5, <3>1
    <3>7. CanReach(m, now)'
      BY <1>2, <3>6, LaterFacts
    <3> QED  BY <1>2, <3>4, <3>5, <3>7 DEF CanReach
  <2>4. At(n, g, "idle")' \/ (thread'[n][g].pc = "send" /\ thread'[n][g].content = c)
    BY <1>2, <2>1 DEF At
  <2> QED  BY <1>2, <2>2, <2>3, <2>4 DEF Spreading
<1>9. CASE Sends(n, g, l)
  <2>1. PICK m \in t.peers :
          /\ \/ m \notin peers[n] /\ net' = net
             \/ m \in peers[n] /\ net' = [net EXCEPT ![n][m] = Append(@, msg)]
          /\ \/ t.peers = {m} /\ l.pc = "idle"
             \/ /\ l.pc = "send" /\ l.content = c /\ l.ts = t.ts
                /\ l.peers = t.peers \ {m}
    BY <1>3, <1>9 DEF Sends
  <2>2. /\ t.pc = "send" /\ Untouched(n) /\ m \in Node
        /\ m # n => net' = [net EXCEPT ![n][m] = Append(@, msg)]
        /\ m = n => net' = net
    BY <1>0, <1>9, <2>1 DEF Sends, AllPeers
  <2>3. /\ \A k \in Node : k # m => SameMail(k)
        /\ \A k \in Node \ {n} : net'[k][m] = net[k][m]
        /\ m # n => net'[n][m] = Append(net[n][m], msg)
        /\ m = n => SameMail(m)
    <3>1. CASE m = n
      BY <2>2, <3>1 DEF SameMail
    <3>2. CASE m # n
      <4> DEFINE grown == Append(net[n][m], msg)
      <4>1. net' = [net EXCEPT ![n][m] = grown]
        BY <2>2, <3>2
      <4> HIDE DEF grown, msg
      <4>2. \A i, k \in Node : k # m => net'[i][k] = net[i][k]
        BY <1>0, <2>2, <4>1
      <4>3. \A k \in Node \ {n} : net'[k][m] = net[k][m]
        BY <1>0, <2>2, <4>1
      <4>4. net'[n][m] = grown
        BY <1>0, <2>2, <4>1
      <4> QED  BY <3>2, <4>2, <4>3, <4>4 DEF SameMail, grown
    <3> QED  BY <3>1, <3>2
  <2>4. /\ Noticed(n)' /\ current'[n] = c
    BY <1>0, <2>2 DEF Untouched, Same, SameOS, Noticed
  <2>5. NoMail(n)'
    BY <1>0, <2>3 DEF NoMail, SameMail
  <2>6. At(n, g, "idle")' \/ (thread'[n][g].pc = "send" /\ thread'[n][g].content = c)
    BY <1>2, <2>1 DEF At
  <2>7. ASSUME m # n
        PROVE  ~Awaits(n, g, m)' /\ Arriving(n, m, c)'
    <3>1. Awaits(n, g, m) /\ StampOf(n, g) = t.ts
      BY <2>1, <2>2 DEF Awaits, StampOf, At
    <3>2. Resting(m) /\ CanReach(m, t.ts)
      BY <1>5, <2>2, <2>7, <3>1
    <3>3. ~Awaits(n, g, m)'
      BY <1>2, <2>1 DEF Awaits, At
    <3>4. net'[n][m] = <<msg>> /\ \A k \in Node \ {n} : net'[k][m] = <<>>
      BY <2>2, <2>3, <2>7, <3>2 DEF Resting, NoMail
    <3>5. PICK ts \in 1..MaxTime : ts = t.ts
      <4>1. t.ts \in 0..MaxTime /\ t.ts > 0
        BY <1>0, <2>2, LocalsFacts DEF TypeInv, SendOK, At
      <4> QED  BY <4>1, EngineAssumption
    <3>6. /\ Noticed(m)' /\ RestIdle(m, "loop")' /\ thread'[m]["loop"].pc = "idle"
          /\ CanReach(m, ts)'
      BY <1>2, <2>2, <2>7, <3>2, <3>5, Goroutines
         DEF Resting, Idle, RestIdle, At, Untouched, Same, SameOS, Noticed, CanReach
    <3>7. net'[n][m] = <<[from |-> n, content |-> c, ts |-> ts]>>
      BY <3>4, <3>5
    <3> QED  BY <3>3, <3>4, <3>6, <3>7 DEF Arriving
  <2>8. ASSUME NEW k \in Node \ {n}, k # m
        PROVE  IF Awaits(n, g, k)'
               THEN Resting(k)' /\ CanReach(k, StampOf(n, g))'
               ELSE Arriving(n, k, c)'
    <3>1. /\ thread'[k] = thread[k] /\ Untouched(k) /\ SameMail(k)
      BY <1>2, <2>3, <2>8
    <3>2. CASE Awaits(n, g, k)
      <4>1. k \in t.peers /\ StampOf(n, g) = t.ts
        BY <2>2, <3>2 DEF Awaits, StampOf, At
      <4>2. l.pc = "send" /\ l.ts = t.ts /\ k \in l.peers
        BY <2>1, <2>8, <4>1
      <4>3. Awaits(n, g, k)' /\ StampOf(n, g)' = t.ts
        BY <1>2, <4>2 DEF Awaits, StampOf, At
      <4>4. Resting(k) /\ CanReach(k, t.ts)
        BY <1>5, <3>2, <4>1
      <4>5. Resting(k)'
        BY <1>2, <3>1, <4>4, RestingStays
      <4>6. CanReach(k, StampOf(n, g))'
        BY <3>1, <4>3, <4>4 DEF CanReach, Untouched
      <4> QED  BY <4>3, <4>5, <4>6
    <3>3. CASE ~Awaits(n, g, k)
      <4>1. k \notin t.peers
        BY <2>2, <3>3 DEF Awaits, At
      <4>2. ~Awaits(n, g, k)'
        BY <1>2, <2>1, <4>1 DEF Awaits, At
      <4>3. Arriving(n, k, c)'
        BY <1>2, <1>6, <3>1, <3>3, ArrivingStays
      <4> QED  BY <4>2, <4>3
    <3> QED  BY <3>2, <3>3
  <2>9. \A k \in Node \ {n} : IF Awaits(n, g, k)'
                              THEN Resting(k)' /\ CanReach(k, StampOf(n, g))'
                              ELSE Arriving(n, k, c)'
    BY <2>7, <2>8
  <2> QED  BY <1>2, <2>4, <2>5, <2>6, <2>9 DEF Spreading
<1> QED  BY <1>1, <1>4, <1>7, <1>8, <1>9 DEF CalmStep

LEMMA SpreadingStep ==
  ASSUME TypeInv, TypeInv', CacheNotAhead, AllPeers, NEW n \in Node,
         NEW g \in Goroutine \ {"loop"}, NEW c \in Clip, Spreading(n, g, c),
         NEW m \in Node, NEW h \in Goroutine, NEW l \in Locals, CalmStep(m, h, l)
  PROVE  Spreading(n, g, c)'
<1>1. CASE m = n
  BY <1>1, SourceStep
<1>2. CASE m # n
  <2>0. /\ \A k \in Node : k # m => thread'[k] = thread[k] /\ Untouched(k)
        /\ now <= now'
    BY CalmStepFacts
  <2>1. ~Resting(m)
    <3> SUFFICES ASSUME Resting(m)  PROVE FALSE
      OBVIOUS
    <3>1. At(m, h, "idle") /\ notify[m] = 0 /\ NoMail(m)
      BY DEF Resting, Idle, Noticed
    <3> QED  BY <3>1, IdleSteps, NoMailNoTake
  <2>2. ~Awaits(n, g, m) /\ Arriving(n, m, c)
    BY <1>2, <2>1 DEF Spreading
  <2>3. Arriving(n, m, c)' /\ \A k \in Node : k # m => SameMail(k)
    BY <1>2, <2>2, ArrivingStep
  <2>4. thread'[n] = thread[n] /\ Untouched(n) /\ SameMail(n)
    BY <1>2, <2>0, <2>3
  <2>5. /\ current'[n] = c /\ Noticed(n)' /\ RestIdle(n, g)' /\ NoMail(n)'
    BY <2>0, <2>4, LaterFacts, IdleFacts DEF Spreading, Untouched, Same, NoMail, SameMail
  <2>6. ~Awaits(n, g, m)'
    BY <2>2, <2>4 DEF Awaits, At
  <2>7. ASSUME NEW k \in Node \ {n}
        PROVE  IF Awaits(n, g, k)'
               THEN Resting(k)' /\ CanReach(k, StampOf(n, g))'
               ELSE Arriving(n, k, c)'
    <3>1. CASE k = m
      BY <2>3, <2>6, <3>1
    <3>2. CASE k # m /\ Awaits(n, g, k)
      BY <2>0, <2>3, <2>4, <3>2, AwaitsStays, RestingStays DEF Spreading
    <3>3. CASE k # m /\ ~Awaits(n, g, k)
      BY <2>0, <2>3, <2>4, <3>3, AwaitsStays, ArrivingStays DEF Spreading
    <3> QED  BY <3>1, <3>2, <3>3
  <2> QED  BY <2>4, <2>5, <2>7 DEF Spreading, At
<1> QED  BY <1>1, <1>2

LEMMA CalmGoes ==
  ASSUME TypeInv, TypeInv', CacheNotAhead, AllPeers, Calm,
         NEW n \in Node, NEW g \in Goroutine, NEW l \in Locals, CalmStep(n, g, l)
  PROVE  Calm'
<1>1. CASE Starting
  BY <1>1, StartingStep DEF Calm
<1>2. ASSUME NEW o \in Node, NEW b \in Clip, Copied(o, b)
      PROVE  Calm'
  BY <1>2, CopiedStep
<1>3. ASSUME NEW o \in Node, NEW h \in Goroutine \ {"loop"}, NEW c \in Clip, Spreading(o, h, c)
      PROVE  Calm'
  <2>1. Spreading(o, h, c)'
    BY <1>3, SpreadingStep
  <2> QED  BY <2>1 DEF Calm
<1> QED  BY <1>1, <1>2, <1>3 DEF Calm

\* lastRemoteChange is the time of a change the engine has taken, so never
\* later than the newest one.
LEMMA RemoteKnownNext ==
  ASSUME TypeInv, TypeInv', CacheNotAhead, RemoteKnown, [Next]_vars
  PROVE  RemoteKnown'
<1>0. /\ \A n \in Node : timestamp[n] \in Nat /\ lastRemote[n] \in Nat /\ timestamp[n] <= now
      /\ now \in Nat /\ lastRemote \in [Node -> 0..MaxTime] /\ timestamp \in [Node -> 0..MaxTime]
      /\ \A n \in Node : lastRemote[n] <= timestamp[n]
  BY EngineAssumption DEF TypeInv, TypeOK, CacheNotAhead, RemoteKnown
<1>1. CASE UNCHANGED <<timestamp, lastRemote>>
  BY <1>1 DEF RemoteKnown
<1>2. ASSUME NEW n \in Node, BootSet(n)
      PROVE  RemoteKnown'
  <2>1. timestamp' = [timestamp EXCEPT ![n] = now] /\ lastRemote' = lastRemote
    BY <1>2 DEF BootSet
  <2>2. \A m \in Node : lastRemote'[m] <= timestamp'[m]
    BY <1>0, <2>1
  <2> QED  BY <2>2 DEF RemoteKnown
<1>3. ASSUME NEW n \in Node, NEW g \in Goroutine, SetLocked(n, g)
      PROVE  RemoteKnown'
  <2>1. CASE /\ timestamp' = [timestamp EXCEPT ![n] = now]
             /\ lastRemote' = lastRemote \/ lastRemote' = [lastRemote EXCEPT ![n] = now]
    <3>1. \A m \in Node : lastRemote'[m] <= timestamp'[m]
      BY <1>0, <2>1
    <3> QED  BY <3>1 DEF RemoteKnown
  <2> QED  BY <1>1, <1>3, <2>1 DEF SetLocked
<1>4. ASSUME NEW n \in Node, Restart(n)
      PROVE  RemoteKnown'
  <2>1. /\ timestamp' = [timestamp EXCEPT ![n] = 0]
        /\ lastRemote' = [lastRemote EXCEPT ![n] = 0]
    BY <1>4 DEF Restart
  <2>2. \A m \in Node : lastRemote'[m] <= timestamp'[m]
    BY <1>0, <2>1
  <2> QED  BY <2>2 DEF RemoteKnown
<1>5. CASE Environment
  <2>1. CASE Tick \/ \E n \in Node : Poll(n)
    BY <1>1, <2>1 DEF Tick, Poll, engineVars
  <2>2. CASE \E n \in Node, c \in Clip : UserCopy(n, c) \/ \E g \in Cli : CliCopy(n, g, c)
    BY <1>1, <2>2 DEF UserCopy, CliCopy, engineVars
  <2>3. CASE \E m, n \in Node : Disconnect(m, n) \/ Connect(m, n)
    BY <1>1, <2>3 DEF Disconnect, Connect, engineVars
  <2> QED  BY <1>4, <1>5, <2>1, <2>2, <2>3 DEF Environment
<1>6. ASSUME NEW n \in Node, NEW g \in Goroutine, SetClipboard(n, g)
      PROVE  RemoteKnown'
  <2>1. CASE \/ LoadTimestamp(n, g) \/ AddDedupe(n, g) \/ Write(n, g) \/ WriteFails(n, g)
             \/ Stamp(n, g) \/ \E m \in Node : Send(n, g, m)
    BY <1>1, <2>1 DEF LoadTimestamp, AddDedupe, Write, WriteFails, Stamp, Send, engineVars
  <2> QED  BY <1>3, <1>6, <2>1 DEF SetClipboard
<1>7. ASSUME NEW n \in Node, Run(n)
      PROVE  RemoteKnown'
  <2>1. CASE \/ BootRead(n) \/ BootLoad(n) \/ BootAdd(n)
             \/ Resolve(n) \/ \E m \in Node : Receive(n, m)
    BY <1>1, <2>1 DEF BootRead, BootLoad, BootAdd, Resolve, Receive, engineVars
  <2> QED  BY <1>2, <1>6, <1>7, <2>1, Goroutines DEF Run
<1>8. ASSUME NEW n \in Node, WatchClipboard(n)
      PROVE  RemoteKnown'
  <2>1. CASE WatchStart(n) \/ WatchRead(n) \/ WatchReadFails(n)
    BY <1>1, <2>1 DEF WatchStart, WatchRead, WatchReadFails, engineVars
  <2> QED  BY <1>6, <1>8, <2>1, Goroutines DEF WatchClipboard
<1>9. CASE UNCHANGED vars
  BY <1>1, <1>9 DEF vars, engineVars
<1> QED  BY <1>5, <1>6, <1>7, <1>8, <1>9, Goroutines DEF Next

\* The mesh does not become calm again.
LEMMA CalmWas ==
  ASSUME TypeInv, [Next]_vars, calm'
  PROVE  calm
<1>1. CASE Environment
  BY <1>1 DEF Environment, Tick, Poll, Restart, UserCopy, CliCopy, CopyBy, Disconnect, Connect,
              historyVars
<1>2. ASSUME NEW n \in Node, NEW g \in Goroutine, SetClipboard(n, g)
      PROVE  calm
  BY <1>2 DEF SetClipboard, SetLocked, LoadTimestamp, AddDedupe, Write, WriteFails, Stamp, Send,
              historyVars
<1>3. ASSUME NEW n \in Node, Run(n)
      PROVE  calm
  BY <1>2, <1>3, Goroutines
     DEF Run, BootRead, BootSet, BootLoad, BootAdd, Resolve, Receive, historyVars
<1>4. ASSUME NEW n \in Node, WatchClipboard(n)
      PROVE  calm
  BY <1>2, <1>4, Goroutines
     DEF WatchClipboard, WatchStart, WatchRead, WatchReadFails, historyVars
<1>5. CASE UNCHANGED vars
  BY <1>5 DEF vars, historyVars
<1> QED  BY <1>1, <1>2, <1>3, <1>4, <1>5, Goroutines DEF Next

LEMMA CalmInit == Init => CalmInv
<1> SUFFICES ASSUME Init  PROVE CalmInv
  OBVIOUS
<1>1. RemoteKnown
  BY DEF Init, RemoteKnown
<1>2. AllPeers
  BY DEF Init, AllPeers
<1>3. /\ Started["loop"] = Parked("boot") /\ Started["watch"] = Parked("off")
      /\ \A g \in Cli : Started[g] = Parked("idle")
  BY Goroutines DEF Started
<1>4. ASSUME NEW n \in Node
      PROVE  StartingAt(n)
  <2>1. /\ thread[n]["loop"].pc = "boot" /\ thread[n]["watch"].pc = "off"
        /\ \A g \in Cli : thread[n][g].pc = "idle"
    BY <1>3 DEF Init, Parked
  <2>2. os[n] = Blank /\ Noticed(n) /\ NoMail(n)
    BY DEF Init, Noticed, NoMail
  <2> QED  BY <2>1, <2>2 DEF StartingAt, At
<1>5. Calm
  BY <1>4 DEF Calm, Starting
<1> QED  BY <1>1, <1>2, <1>5 DEF CalmInv

LEMMA CalmNext ==
  ASSUME "loss" \notin Faults, TypeInv, TypeInv', CacheNotAhead, CalmInv, [Next]_vars
  PROVE  CalmInv'
<1>1. RemoteKnown'
  BY RemoteKnownNext DEF CalmInv
<1>2. ASSUME calm'
      PROVE  AllPeers' /\ Calm'
  <2>1. RemoteKnown /\ AllPeers /\ Calm
    BY <1>2, CalmWas DEF CalmInv
  <2>2. CASE Passes
    <3>1. peers' = peers
      BY <2>2 DEF Passes
    <3> QED  BY <2>1, <2>2, <3>1, CalmPasses DEF AllPeers
  <2>3. CASE Copies
    <3>1. peers' = peers
      BY <2>3 DEF Copies, UserCopy, CliCopy, netVars
    <3> QED  BY <1>2, <2>1, <2>3, <3>1, CalmCopy DEF AllPeers
  <2>4. ASSUME NEW n \in Node, Poll(n)
        PROVE  AllPeers' /\ Calm'
    <3>1. peers' = peers
      BY <2>4 DEF Poll, netVars
    <3> QED  BY <2>1, <2>4, <3>1, CalmPoll DEF AllPeers
  <2>5. ASSUME NEW n \in Node, NEW g \in Goroutine, NEW l \in Locals, CalmStep(n, g, l)
        PROVE  AllPeers' /\ Calm'
    <3>1. peers' = peers
      BY <2>5 DEF CalmStep
    <3> QED  BY <2>1, <2>5, <3>1, CalmGoes DEF AllPeers
  <2> QED  BY <1>2, <2>1, <2>2, <2>3, <2>4, <2>5, CalmKinds
<1> QED  BY <1>1, <1>2 DEF CalmInv

LEMMA CalmAlways ==
  ASSUME "loss" \notin Faults
  PROVE  Spec => [](TimesInv /\ CalmInv)
<1>1. Init => TimesInv /\ CalmInv
  BY TimesInit, CalmInit
<1>2. TimesInv /\ CalmInv /\ [Next]_vars => (TimesInv /\ CalmInv)'
  <2> SUFFICES ASSUME TimesInv, CalmInv, [Next]_vars
               PROVE  TimesInv' /\ CalmInv'
    OBVIOUS
  <2>1. TimesInv'
    BY TimesNext
  <2>2. TypeInv /\ TypeInv' /\ CacheNotAhead
    BY <2>1 DEF TimesInv, AloneInv
  <2> QED  BY <2>1, <2>2, CalmNext
<1> QED  BY <1>1, <1>2, PTL DEF Spec

\* CalmCopiesAgree: copies made one at a time, each in a mesh at rest, reach
\* every node (handleLocalChange, broadcastChange, handleIncomingMessage and
\* SetClipboard of engine.go), for any number of nodes and copies, whatever
\* the windows and the size of the cache, and although tools, links and
\* daemons can fail. Only a message dropped at a full buffer, "loss", breaks it.
THEOREM CalmCopiesReachAll ==
  ASSUME "loss" \notin Faults
  PROVE  Spec => []CalmCopiesAgree
<1>1. TimesInv /\ CalmInv => CalmCopiesAgree
  BY CalmAgrees DEF CalmInv, CalmCopiesAgree
<1> QED  BY <1>1, CalmAlways, PTL

LEMMA CalmAccepts ==
  ASSUME TypeInv, CacheNotAhead, Calm
  PROVE  \A m \in Node :
           /\ \A n \in Node : \A i \in DOMAIN net[n][m] : ~IsDuplicate(m, net[n][m][i])
           /\ At(m, "loop", "resolve") =>
                \E n \in thread[m]["loop"].peers : Wins(m, thread[m]["loop"].ts, n)
<1> DEFINE Quietly(m) == NoMail(m) /\ ~At(m, "loop", "resolve")
           News(m) == \A n \in Node : \A i \in DOMAIN net[n][m] : ~IsDuplicate(m, net[n][m][i])
           Wanted(m) == At(m, "loop", "resolve") =>
                          \E n \in thread[m]["loop"].peers : Wins(m, thread[m]["loop"].ts, n)
<1>1. ASSUME NEW m \in Node, Quietly(m)
      PROVE  News(m) /\ Wanted(m)
  BY <1>1 DEF NoMail
<1>2. CASE Starting
  <2>1. \A m \in Node : Quietly(m)
    BY <1>2 DEF Starting, StartingAt, At
  <2> QED  BY <1>1, <2>1
<1>3. ASSUME NEW n \in Node, NEW b \in Clip, Copied(n, b)
      PROVE  \A m \in Node : Quietly(m)
  BY <1>3, Goroutines DEF Copied, Idle, RestIdle, At
<1>4. ASSUME NEW n \in Node, NEW g \in Goroutine \ {"loop"}, NEW c \in Clip, Spreading(n, g, c),
             NEW m \in Node
      PROVE  News(m) /\ Wanted(m)
  <2>1. CASE m = n
    <3>1. Quietly(m)
      BY <1>4, <2>1, Goroutines DEF Spreading, RestIdle, At
    <3> QED  BY <1>1, <3>1
  <2>2. CASE m # n /\ Awaits(n, g, m)
    <3>1. Quietly(m)
      BY <1>4, <2>2, Goroutines DEF Spreading, Resting, Idle, At
    <3> QED  BY <1>1, <3>1
  <2>3. CASE m # n /\ ~Awaits(n, g, m)
    <3>1. Arriving(n, m, c)
      BY <1>4, <2>3 DEF Spreading
    <3>2. CASE Quietly(m)
      BY <1>1, <3>2
    <3>3. ASSUME NEW ts \in 1..MaxTime, CanReach(m, ts), At(m, "loop", "idle"),
                 net[n][m] = <<[from |-> n, content |-> c, ts |-> ts]>>
          PROVE  News(m) /\ Wanted(m)
      <4> DEFINE msg == [from |-> n, content |-> c, ts |-> ts]
      <4>1. ~IsDuplicate(m, msg)
        BY <3>3, NewsIsNoDuplicate DEF Message
      <4>2. \A k \in Node : \A i \in DOMAIN net[k][m] : net[k][m][i] = msg
        BY <3>1, <3>3 DEF Arriving
      <4> HIDE DEF msg
      <4>3. News(m)
        BY <4>1, <4>2
      <4> QED  BY <3>3, <4>3 DEF At
    <3>4. CASE /\ net[n][m] = <<>> /\ thread[m]["loop"].pc = "resolve"
               /\ thread[m]["loop"].peers = {n} /\ CanReach(m, thread[m]["loop"].ts)
      <4>1. NoMail(m)
        BY <3>1, <3>4 DEF Arriving, NoMail
      <4>2. Wins(m, thread[m]["loop"].ts, n)
        <5>1. thread[m]["loop"].ts \in Nat /\ timestamp[m] \in Nat
          BY Goroutines DEF TypeInv, TypeOK, Threads, Locals
        <5> QED  BY <3>4, <5>1 DEF CanReach, Wins
      <4>3. Wanted(m)
        BY <3>4, <4>2
      <4> QED  BY <4>1, <4>3 DEF NoMail
    <3> QED
      <4>1. \/ Quietly(m)
            \/ \E ts \in 1..MaxTime :
                  /\ CanReach(m, ts) /\ At(m, "loop", "idle")
                  /\ net[n][m] = <<[from |-> n, content |-> c, ts |-> ts]>>
            \/ /\ net[n][m] = <<>> /\ thread[m]["loop"].pc = "resolve"
               /\ thread[m]["loop"].peers = {n} /\ CanReach(m, thread[m]["loop"].ts)
        BY <3>1 DEF Arriving, NoMail, At
      <4> QED  BY <3>2, <3>3, <3>4, <4>1
  <2> QED  BY <2>1, <2>2, <2>3
<1> QED  BY <1>1, <1>2, <1>3, <1>4 DEF Calm

\* CalmNewsAccepted: in a mesh of calm copies neither isDuplicate nor
\* shouldApplyRemoteChange turns a change away, which nobody would send again.
THEOREM CalmChangesAccepted ==
  ASSUME "loss" \notin Faults
  PROVE  Spec => []CalmNewsAccepted
<1>1. TimesInv /\ CalmInv => CalmNewsAccepted
  <2>1. TimesInv => TypeInv /\ CacheNotAhead
    BY DEF TimesInv, AloneInv
  <2> QED  BY <2>1, CalmAccepts DEF CalmInv, CalmNewsAccepted
<1> QED  BY <1>1, CalmAlways, PTL

\* CalmNoneForgotten: at every moment of a mesh of calm copies there is one
\* content that each node holds or will be brought by what is under way
\* (broadcastChange, Topology.Broadcast, handleIncomingMessage): no step loses
\* the last trace of a copy before it has reached everyone.
THEOREM CalmCopiesUnderWay ==
  ASSUME "loss" \notin Faults
  PROVE  Spec => []CalmNoneForgotten
<1>1. ASSUME Calm
      PROVE  \E c \in Clip : \A m \in Node : current[m] = c \/ Awaited(m, c)
  <2>1. CASE Starting
    <3>1. \A m \in Node : current[m] = Blank \/ Awaited(m, Blank)
      BY <2>1 DEF Starting, StartingAt, Awaited
    <3> QED  BY <3>1, EngineAssumption
  <2>2. ASSUME NEW n \in Node, NEW b \in Clip, Copied(n, b)
        PROVE  \A m \in Node : current[m] = b
    BY <2>2 DEF Copied
  <2>3. ASSUME NEW n \in Node, NEW g \in Goroutine \ {"loop"}, NEW c \in Clip, Spreading(n, g, c),
               NEW m \in Node
        PROVE  current[m] = c \/ Awaited(m, c)
    <3>1. current[n] = c
      BY <2>3 DEF Spreading
    <3>2. CASE m # n /\ Awaits(n, g, m)
      BY <3>1, <3>2 DEF Awaited
    <3>3. CASE m # n /\ ~Awaits(n, g, m)
      <4>1. Arriving(n, m, c)
        BY <2>3, <3>3 DEF Spreading
      <4>2. ASSUME NEW ts \in 1..MaxTime,
                   net[n][m] = <<[from |-> n, content |-> c, ts |-> ts]>>
            PROVE  Awaited(m, c)
        <5>1. 1 \in DOMAIN net[n][m] /\ net[n][m][1].content = c
          BY <4>2
        <5> QED  BY <5>1 DEF Awaited
      <4>3. \/ \E ts \in 1..MaxTime : net[n][m] = <<[from |-> n, content |-> c, ts |-> ts]>>
            \/ thread[m]["loop"].pc \in {"resolve", "set"} /\ thread[m]["loop"].content = c
            \/ current[m] = c
        BY <4>1 DEF Arriving
      <4> QED  BY <4>2, <4>3 DEF Awaited
    <3> QED  BY <3>1, <3>2, <3>3
  <2> QED  BY <1>1, <2>1, <2>2, <2>3 DEF Calm
<1>2. TimesInv /\ CalmInv => CalmNoneForgotten
  BY <1>1 DEF CalmInv, CalmNoneForgotten
<1> QED  BY <1>2, CalmAlways, PTL

\* What the users see of it: at rest the OS clipboards of the nodes on which
\* no tool failed and no operations overlapped hold the same content.
CalmClipboardsAgree == calm /\ Quiet => \A m, n \in clean : os[m] = os[n]

\* CalmClipboardsAgree: the OS clipboards agree, not only the engines' states:
\* a node has written what it accepted (Write in SetClipboard), and its state
\* is what a user copied there (watchClipboard).
THEOREM CalmCopiesReachClipboards ==
  ASSUME "loss" \notin Faults
  PROVE  Spec => []CalmClipboardsAgree
<1>1. Spec => []CalmCopiesAgree
  BY CalmCopiesReachAll
<1>2. TypeOK /\ CalmCopiesAgree /\ PasteMatchesOS => CalmClipboardsAgree
  BY DEF TypeOK, CalmCopiesAgree, PasteMatchesOS, CalmClipboardsAgree, Quiet
<1> QED  BY <1>1, <1>2, EngineTypeOK, PasteMatchesOnCleanNodes, PTL
=============================================================================
