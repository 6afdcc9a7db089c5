----------------------------- MODULE SyncEngine -----------------------------
(***************************************************************************)
(* The clipboard synchronisation engine (pkg/sync/engine.go) of every node *)
(* of the mesh, with the parts of its environment its behaviour depends    *)
(* on: the OS clipboard and the watcher's change detection                 *)
(* (pkg/clipboard/linux.go), and the ordered channel a pair of connected   *)
(* peers has (pkg/mesh).                                                   *)
(*                                                                         *)
(* A node runs several goroutines on one engine: "loop" is Run's select    *)
(* loop, "watch" is watchClipboard, and each member of Cli is a connection *)
(* of the local API server carrying a copy command.  A goroutine's program *)
(* counter names the section it runs next; a section is one action because *)
(* the engine's mutex, or the mutex of the cache, clipboard or connection  *)
(* it calls, makes it one.                                                 *)
(***************************************************************************)
EXTENDS LRUOps

CONSTANTS
  Node,               \* node identities; their order is the tiebreak order
  Cli,                \* API connections a node serves at a time
  Clip,               \* clipboard contents
  Blank,              \* the content every OS clipboard starts with
  Unset,              \* the engine's zero value, before initializeState
  DedupeSize,         \* Config.DedupeSize
  SyncLoopWindow,     \* Config.SyncLoopWindow, in ticks
  MinChangeInterval,  \* Config.MinChangeInterval, in ticks
  WatchBuffer,        \* capacity of the clipboard's notification channel
  MaxTime,            \* bound on the clock
  MaxCopies,          \* bound on the user's copies, in the whole mesh
  Faults              \* which of FaultKinds can happen

Goroutine == {"loop", "watch"} \cup Cli

\* A clipboard tool that fails, a link that breaks, a message dropped at a
\* full buffer, a daemon that is killed and started again.
FaultKinds == {"tool", "link", "loss", "restart"}

ASSUME EngineAssumption ==
  /\ Node \subseteq Nat
  /\ Cli \cap {"loop", "watch"} = {}
  /\ Blank \in Clip
  /\ Unset \notin Clip
  /\ DedupeSize \in Int
  /\ SyncLoopWindow \in Nat
  /\ MinChangeInterval \in Nat
  /\ WatchBuffer \in Nat \ {0}
  /\ MaxTime \in Nat \ {0}
  /\ MaxCopies \in Nat
  /\ Faults \subseteq FaultKinds

VARIABLES
  now,         \* the clock all nodes read with time.Now
  os,          \* os[n]: the content of n's OS clipboard
  lastHash,    \* lastHash[n]: the content LinuxClipboard last noticed or wrote
  notify,      \* notify[n]: notifications waiting in the watch channel
  current,     \* current[n]: engine.current and engine.checksum
  timestamp,   \* timestamp[n]: engine.timestamp
  lastRemote,  \* lastRemote[n]: engine.lastRemoteChange, 0 for the zero time
  dedupe,      \* dedupe[n]: engine.dedupe
  thread,      \* thread[n][g]: where goroutine g is, and its local variables
  peers,       \* peers[n]: the nodes topology.Broadcast of n reaches
  net,         \* net[m][n]: messages of m that n's loop has not yet received
  copies,      \* how many copies users have made
  calm,        \* history: every copy so far was made in a mesh at rest
  clean,       \* history: nodes none of whose operations overlapped or failed
  owned        \* history: <<n, c>> where c was copied on n

engineVars  == <<current, timestamp, lastRemote, dedupe>>
osVars      == <<os, lastHash, notify>>
netVars     == <<peers, net>>
historyVars == <<copies, calm, clean, owned>>
vars == <<now, osVars, engineVars, thread, netVars, historyVars>>

Message == [from : Node, content : Clip, ts : 1..MaxTime]

\* A goroutine's locals: the content it is applying; the timestamp of the
\* message it received or is sending, or that it loaded for the cache; and
\* the peers the message came from or is still to be sent to.
Pcs == {"boot", "bootSet", "bootLoad", "bootAdd", "off", "idle",
        "resolve", "set", "load", "add", "write", "stamp", "send"}

Locals == [pc : Pcs, content : Clip, ts : 0..MaxTime, peers : SUBSET Node]

At(n, g, pc) == thread[n][g].pc = pc

Goto(n, g, pc) == thread' = [thread EXCEPT ![n][g].pc = pc]

Parked(pc) == [pc |-> pc, content |-> Blank, ts |-> 0, peers |-> {}]

Park(n, g) == thread' = [thread EXCEPT ![n][g] = Parked("idle")]

Busy(n, g) == thread[n][g].pc \notin {"boot", "off", "idle"}

Started == [g \in Goroutine |->
              Parked(CASE g = "loop" -> "boot" [] g = "watch" -> "off" [] OTHER -> "idle")]

Init ==
  /\ now = 1
  /\ os = [n \in Node |-> Blank]
  /\ lastHash = [n \in Node |-> Blank]
  /\ notify = [n \in Node |-> 0]
  /\ current = [n \in Node |-> Unset]
  /\ timestamp = [n \in Node |-> 0]
  /\ lastRemote = [n \in Node |-> 0]
  /\ dedupe = [n \in Node |-> EmptyCache]
  /\ thread = [n \in Node |-> Started]
  /\ peers = [n \in Node |-> Node \ {n}]
  /\ net = [m \in Node |-> [n \in Node |-> <<>>]]
  /\ copies = 0
  /\ calm = TRUE
  /\ clean = Node
  /\ owned = {}

-----------------------------------------------------------------------------
(* Where the mesh is at rest. *)

\* Nothing of node n is under way and its watcher has seen the clipboard.
Settled(n) ==
  /\ \A g \in Goroutine : At(n, g, "idle")
  /\ notify[n] = 0
  /\ lastHash[n] = os[n]

Quiet ==
  /\ \A n \in Node : Settled(n)
  /\ \A m, n \in Node : net[m][n] = <<>>

\* Every remembered timestamp is out of both of the engine's time windows.
Rested ==
  \A n \in Node : /\ now - timestamp[n] >= SyncLoopWindow
                  /\ now - timestamp[n] >= MinChangeInterval
                  /\ now > timestamp[n]

\* History: g of n starts an operation. The node stays clean only if every
\* other goroutine is between operations.
BeginsAlone(n, g) ==
  clean' = IF \E h \in Goroutine \ {g} : Busy(n, h) THEN clean \ {n} ELSE clean

-----------------------------------------------------------------------------
(* The clock, the user, and the clipboard watcher of linux.go. *)

Tick == now < MaxTime /\ now' = now + 1
        /\ UNCHANGED <<osVars, engineVars, thread, netVars, historyVars>>

\* The user makes a copy on n; a copy that lands between initializeState's
\* Read and the watcher's first Read is one no watcher will report.
CopyBy(n, c) ==
  /\ copies < MaxCopies
  /\ copies' = copies + 1
  /\ calm' = (calm /\ Quiet /\ Rested)
  /\ owned' = owned \cup {<<n, c>>}

UserCopy(n, c) ==
  /\ c # os[n]
  /\ CopyBy(n, c)
  /\ os' = [os EXCEPT ![n] = c]
  /\ clean' = IF At(n, "watch", "off") /\ ~At(n, "loop", "boot") THEN clean \ {n} ELSE clean
  /\ UNCHANGED <<now, lastHash, notify, engineVars, thread, netVars>>

\* Mutant: the poll notifies without remembering what it saw.
PollForgets(n) ==
  /\ ~At(n, "watch", "off")
  /\ os[n] # lastHash[n]
  /\ notify' = [notify EXCEPT ![n] = IF @ < WatchBuffer THEN @ + 1 ELSE @]
  /\ UNCHANGED <<now, os, lastHash, engineVars, thread, netVars, historyVars>>

\* One turn of watchWithPolling that finds the clipboard changed: the
\* notification is dropped when the channel is full.
Poll(n) ==
  /\ ~At(n, "watch", "off")
  /\ os[n] # lastHash[n]
  /\ lastHash' = [lastHash EXCEPT ![n] = os[n]]
  /\ notify' = [notify EXCEPT ![n] = IF @ < WatchBuffer THEN @ + 1 ELSE @]
  /\ UNCHANGED <<now, os, engineVars, thread, netVars, historyVars>>

-----------------------------------------------------------------------------
(* initializeState and the start of the watcher. *)

\* A clipboard that cannot be read counts as empty.
BootRead(n) ==
  /\ At(n, "loop", "boot")
  /\ \E c \in {os[n]} \cup (IF "tool" \in Faults THEN {Blank} ELSE {}) :
       /\ thread' = [thread EXCEPT ![n]["loop"].pc = "bootSet",
                                   ![n]["loop"].content = c]
       /\ clean' = IF c # os[n] \/ \E g \in Cli : Busy(n, g) THEN clean \ {n} ELSE clean
  /\ UNCHANGED <<now, osVars, engineVars, netVars, copies, calm, owned>>

BootSet(n) ==
  /\ At(n, "loop", "bootSet")
  /\ current' = [current EXCEPT ![n] = thread[n]["loop"].content]
  /\ timestamp' = [timestamp EXCEPT ![n] = now]
  /\ Goto(n, "loop", "bootLoad")
  /\ UNCHANGED <<now, osVars, lastRemote, dedupe, netVars, historyVars>>

\* The fields go to the cache as they are after the mutex was released: the
\* loads are one step and the locked dedupe.Add is another.
BootLoad(n) ==
  /\ At(n, "loop", "bootLoad")
  /\ thread' = [thread EXCEPT ![n]["loop"].pc = "bootAdd",
                              ![n]["loop"].content = current[n],
                              ![n]["loop"].ts = timestamp[n]]
  /\ UNCHANGED <<now, osVars, engineVars, netVars, historyVars>>

BootAdd(n) ==
  /\ At(n, "loop", "bootAdd")
  /\ LET t == thread[n]["loop"]
     IN  dedupe' = [dedupe EXCEPT ![n] = CacheAdd(@, t.content, t.ts, DedupeSize)]
  /\ Park(n, "loop")
  /\ UNCHANGED <<now, osVars, current, timestamp, lastRemote, netVars, historyVars>>

\* Run starts the watcher's goroutine after initializeState returned; the
\* watcher takes the content it finds as already noticed.
WatchStart(n) ==
  /\ At(n, "watch", "off")
  /\ thread[n]["loop"].pc \notin {"boot", "bootSet", "bootLoad", "bootAdd"}
  /\ lastHash' = [lastHash EXCEPT ![n] = os[n]]
  /\ Park(n, "watch")
  /\ UNCHANGED <<now, os, notify, engineVars, netVars, historyVars>>

-----------------------------------------------------------------------------
(* Where an operation of the engine begins. *)

\* watchClipboard takes a notification and reads the clipboard, which may no
\* longer hold what the notification was about: a copy of the older content
\* made in between, undone by yet another copy, goes unnoticed by the poll.
WatchRead(n) ==
  /\ At(n, "watch", "idle")
  /\ notify[n] > 0
  /\ notify' = [notify EXCEPT ![n] = @ - 1]
  /\ thread' = [thread EXCEPT ![n]["watch"].pc = "set",
                              ![n]["watch"].content = os[n]]
  /\ IF os[n] = lastHash[n] THEN BeginsAlone(n, "watch") ELSE clean' = clean \ {n}
  /\ UNCHANGED <<now, os, lastHash, engineVars, netVars, copies, calm, owned>>

\* The read fails: the notification is spent.
WatchReadFails(n) ==
  /\ "tool" \in Faults
  /\ At(n, "watch", "idle")
  /\ notify[n] > 0
  /\ notify' = [notify EXCEPT ![n] = @ - 1]
  /\ clean' = clean \ {n}
  /\ UNCHANGED <<now, os, lastHash, engineVars, thread, netVars, copies, calm, owned>>

\* A copy command arrives on API connection g.
CliCopy(n, g, c) ==
  /\ At(n, g, "idle")
  /\ CopyBy(n, c)
  /\ thread' = [thread EXCEPT ![n][g].pc = "set", ![n][g].content = c]
  /\ BeginsAlone(n, g)
  /\ UNCHANGED <<now, osVars, engineVars, netVars>>

\* Mutant: a checksum seen once is a duplicate for good.
DuplicateForGood(n, msg) == CacheHas(dedupe[n], msg.content)

IsDuplicate(n, msg) ==
  /\ CacheHas(dedupe[n], msg.content)
  /\ LET diff == msg.ts - dedupe[n].items[msg.content]
     IN  diff < SyncLoopWindow /\ -diff < SyncLoopWindow

\* handleIncomingMessage, up to the verdict of isDuplicate.
Receive(n, m) ==
  /\ At(n, "loop", "idle")
  /\ net[m][n] # <<>>
  /\ LET msg == Head(net[m][n])
     IN  /\ net' = [net EXCEPT ![m][n] = Tail(@)]
         /\ dedupe' = [dedupe EXCEPT ![n] = CacheGet(@, msg.content)]
         /\ \/ IsDuplicate(n, msg) /\ UNCHANGED <<thread, clean>>
            \/ /\ ~IsDuplicate(n, msg)
               /\ thread' = [thread EXCEPT ![n]["loop"] =
                               [pc |-> "resolve", content |-> msg.content,
                                ts |-> msg.ts, peers |-> {msg.from}]]
               /\ BeginsAlone(n, "loop")
  /\ UNCHANGED <<now, osVars, current, timestamp, lastRemote, peers, copies, calm, owned>>

\* Mutant: the tiebreak is asked of every message.
WinsTieBreak(n, ts, from) == ts >= timestamp[n] /\ from > n

Wins(n, ts, from) == ts > timestamp[n] \/ (ts = timestamp[n] /\ from > n)

\* shouldApplyRemoteChange, under the read lock it gives up again.
Resolve(n) ==
  /\ At(n, "loop", "resolve")
  /\ LET t == thread[n]["loop"]
     IN  IF \E m \in t.peers : Wins(n, t.ts, m)
         THEN Goto(n, "loop", "set")
         ELSE Park(n, "loop")
  /\ UNCHANGED <<now, osVars, engineVars, netVars, historyVars>>

-----------------------------------------------------------------------------
(* SetClipboard: the locked update, then the effects outside the lock. *)

IsSyncLoop(n) == lastRemote[n] # 0 /\ now - lastRemote[n] < MinChangeInterval

\* Mutant: the sync-loop test comes before the state is updated.
SetLockedTestsFirst(n, g) ==
  LET c == thread[n][g].content IN
  /\ At(n, g, "set")
  /\ IF c = current[n] \/ (g = "watch" /\ IsSyncLoop(n))
     THEN Park(n, g) /\ UNCHANGED <<current, timestamp, lastRemote>>
     ELSE /\ current' = [current EXCEPT ![n] = c]
          /\ timestamp' = [timestamp EXCEPT ![n] = now]
          /\ lastRemote' = IF g = "loop" THEN [lastRemote EXCEPT ![n] = now] ELSE lastRemote
          /\ Goto(n, g, "load")
  /\ UNCHANGED <<now, osVars, dedupe, netVars, historyVars>>

SetLocked(n, g) ==
  LET c == thread[n][g].content IN
  /\ At(n, g, "set")
  /\ \/ /\ c = current[n]
        /\ Park(n, g)
        /\ UNCHANGED <<current, timestamp, lastRemote>>
     \/ /\ c # current[n]
        /\ current' = [current EXCEPT ![n] = c]
        /\ timestamp' = [timestamp EXCEPT ![n] = now]
        /\ lastRemote' = IF g = "loop" THEN [lastRemote EXCEPT ![n] = now] ELSE lastRemote
        /\ IF g = "watch" /\ IsSyncLoop(n) THEN Park(n, g) ELSE Goto(n, g, "load")
  /\ UNCHANGED <<now, osVars, dedupe, netVars, historyVars>>

\* Mutant: the cache gets a clock reading of its own.
LoadClock(n, g) ==
  /\ At(n, g, "load")
  /\ thread' = [thread EXCEPT ![n][g].pc = "add", ![n][g].ts = now]
  /\ UNCHANGED <<now, osVars, engineVars, netVars, historyVars>>

\* e.timestamp is loaded without the mutex (engine.go:246) ...
LoadTimestamp(n, g) ==
  /\ At(n, g, "load")
  /\ thread' = [thread EXCEPT ![n][g].pc = "add", ![n][g].ts = timestamp[n]]
  /\ UNCHANGED <<now, osVars, engineVars, netVars, historyVars>>

\* ... and goes to the cache, which has a mutex of its own.
AddDedupe(n, g) ==
  LET t == thread[n][g] IN
  /\ At(n, g, "add")
  /\ dedupe' = [dedupe EXCEPT ![n] = CacheAdd(@, t.content, t.ts, DedupeSize)]
  /\ Goto(n, g, IF g = "watch" THEN "stamp" ELSE "write")
  /\ UNCHANGED <<now, osVars, current, timestamp, lastRemote, netVars, historyVars>>

\* Mutant: a remote change falls through to the broadcast.
AfterWriteBroadcasts(n, g) == Goto(n, g, "stamp")

\* Mutant: a copy command ends with the write as well.
AfterWriteStops(n, g) == Park(n, g)

\* A remote change ends with the write, a copy command goes on to broadcast.
AfterWrite(n, g) == IF g = "loop" THEN Park(n, g) ELSE Goto(n, g, "stamp")

Write(n, g) ==
  /\ At(n, g, "write")
  /\ os' = [os EXCEPT ![n] = thread[n][g].content]
  /\ lastHash' = [lastHash EXCEPT ![n] = thread[n][g].content]
  /\ AfterWrite(n, g)
  /\ UNCHANGED <<now, notify, engineVars, netVars, historyVars>>

\* The tool fails; the engine keeps the content it could not write.
WriteFails(n, g) ==
  /\ "tool" \in Faults
  /\ At(n, g, "write")
  /\ AfterWrite(n, g)
  /\ clean' = clean \ {n}
  /\ UNCHANGED <<now, osVars, engineVars, netVars, copies, calm, owned>>

\* broadcastChange: the message gets a timestamp of its own, and Broadcast
\* takes the peers connected now.
Stamp(n, g) ==
  /\ At(n, g, "stamp")
  /\ IF peers[n] = {}
     THEN Park(n, g)
     ELSE thread' = [thread EXCEPT ![n][g] =
                       [@ EXCEPT !.pc = "send", !.ts = now, !.peers = peers[n]]]
  /\ UNCHANGED <<now, osVars, engineVars, netVars, historyVars>>

\* The send to one peer; it is lost when the link is gone, or when
\* the receiver's message buffer is full (topology.go:614-617).
Send(n, g, m) ==
  LET t == thread[n][g] IN
  /\ At(n, g, "send")
  /\ m \in t.peers
  /\ \/ /\ m \in peers[n]
        /\ net' = [net EXCEPT ![n][m] =
                     Append(@, [from |-> n, content |-> t.content, ts |-> t.ts])]
     \/ (m \notin peers[n] \/ "loss" \in Faults) /\ UNCHANGED net
  /\ IF t.peers = {m} THEN Park(n, g)
     ELSE thread' = [thread EXCEPT ![n][g].peers = @ \ {m}]
  /\ UNCHANGED <<now, osVars, engineVars, peers, historyVars>>

-----------------------------------------------------------------------------
(* What can go wrong around the engine. *)

\* The link of m and n breaks, with all but a prefix of what is under way.
Disconnect(m, n) ==
  /\ "link" \in Faults
  /\ m \in peers[n]
  /\ peers' = [peers EXCEPT ![m] = @ \ {n}, ![n] = @ \ {m}]
  /\ \E i \in 0..Len(net[m][n]), j \in 0..Len(net[n][m]) :
       net' = [net EXCEPT ![m][n] = SubSeq(@, 1, i), ![n][m] = SubSeq(@, 1, j)]
  /\ calm' = FALSE
  /\ UNCHANGED <<now, osVars, engineVars, thread, copies, clean, owned>>

\* The link comes back; handleTopologyEvent sends the new peer nothing.
Connect(m, n) ==
  /\ Faults \cap {"link", "restart"} # {}
  /\ m # n
  /\ m \notin peers[n]
  /\ peers' = [peers EXCEPT ![m] = @ \cup {n}, ![n] = @ \cup {m}]
  /\ UNCHANGED <<now, osVars, engineVars, thread, net, historyVars>>

\* The daemon is killed and started again: nothing of the engine survives.
Restart(n) ==
  /\ "restart" \in Faults
  /\ ~At(n, "loop", "boot")
  /\ current' = [current EXCEPT ![n] = Unset]
  /\ timestamp' = [timestamp EXCEPT ![n] = 0]
  /\ lastRemote' = [lastRemote EXCEPT ![n] = 0]
  /\ dedupe' = [dedupe EXCEPT ![n] = EmptyCache]
  /\ thread' = [thread EXCEPT ![n] = Started]
  /\ notify' = [notify EXCEPT ![n] = 0]
  /\ peers' = [m \in Node |-> IF m = n THEN {} ELSE peers[m] \ {n}]
  /\ net' = [m \in Node |-> [k \in Node |-> IF k = n THEN <<>> ELSE net[m][k]]]
  /\ calm' = FALSE
  /\ clean' = clean \ {n}
  /\ UNCHANGED <<now, os, lastHash, copies, owned>>

-----------------------------------------------------------------------------
\* What a goroutine does inside SetClipboard.
SetClipboard(n, g) ==
  \/ SetLocked(n, g) \/ LoadTimestamp(n, g) \/ AddDedupe(n, g)
  \/ Write(n, g) \/ WriteFails(n, g)
  \/ Stamp(n, g) \/ \E m \in Node : Send(n, g, m)

Run(n) ==
  \/ BootRead(n) \/ BootSet(n) \/ BootLoad(n) \/ BootAdd(n)
  \/ Resolve(n) \/ \E m \in Node : Receive(n, m)
  \/ SetClipboard(n, "loop")

WatchClipboard(n) ==
  WatchStart(n) \/ WatchRead(n) \/ WatchReadFails(n) \/ SetClipboard(n, "watch")

Environment ==
  \/ Tick
  \/ \E n \in Node : Poll(n) \/ Restart(n)
  \/ \E n \in Node, c \in Clip : UserCopy(n, c) \/ \E g \in Cli : CliCopy(n, g, c)
  \/ \E m, n \in Node : Disconnect(m, n) \/ Connect(m, n)

Next ==
  \/ Environment
  \/ \E n \in Node :
       Run(n) \/ WatchClipboard(n) \/ \E g \in Cli : SetClipboard(n, g)

Spec == Init /\ [][Next]_vars

\* Goroutines that run, a network that delivers and a watcher that polls:
\* what the Go scheduler, TCP and the ticker of watchWithPolling give a
\* running daemon. Users need not copy, and nothing has to fail.
Fairness ==
  \A n \in Node :
    /\ WF_vars(Run(n))
    /\ WF_vars(WatchClipboard(n))
    /\ WF_vars(Poll(n))
    /\ \A g \in Cli : WF_vars(SetClipboard(n, g))

FairSpec == Spec /\ Fairness
-----------------------------------------------------------------------------
TypeOK ==
  /\ now \in 1..MaxTime
  /\ os \in [Node -> Clip]
  /\ lastHash \in [Node -> Clip]
  /\ notify \in [Node -> 0..WatchBuffer]
  /\ current \in [Node -> Clip \cup {Unset}]
  /\ timestamp \in [Node -> 0..MaxTime]
  /\ lastRemote \in [Node -> 0..MaxTime]
  /\ dedupe \in [Node -> Caches(Clip \cup {Unset}, 0..MaxTime)]
  /\ thread \in [Node -> [Goroutine -> Locals]]
  /\ peers \in [Node -> SUBSET Node]
  /\ net \in [Node -> [Node -> Seq(Message)]]
  /\ copies \in 0..MaxCopies
  /\ calm \in BOOLEAN
  /\ clean \subseteq Node
  /\ owned \subseteq Node \X Clip

\* When everything on a node whose operations never overlapped has come to
\* rest, what `linkpearl paste` returns (GetClipboard) is what the OS
\* clipboard holds, whichever of them changed last.
PasteMatchesOS ==
  \A n \in clean : Settled(n) => current[n] = os[n]

\* A node announces only content that was copied on it: a remote change it
\* wrote to its own OS clipboard does not come back out through its watcher
\* (engine.go:525-535), whatever the timing of the poll.
NoEcho ==
  \A n \in clean, m \in Node :
    \A i \in DOMAIN net[n][m] : <<n, net[n][m][i].content>> \in owned

\* However the goroutines of a node interleave, the cache never remembers a
\* time later than that of the newest change: the timestamp it is given was
\* loaded without the mutex (engine.go:246), but is only older or the same.
CacheNotAhead ==
  \A n \in Node :
    /\ timestamp[n] <= now
    /\ \A c \in DOMAIN dedupe[n].items : dedupe[n].items[c] <= timestamp[n]

\* Copies made one at a time, each in a mesh at rest and after the time
\* windows of the last have passed, reach every node.
CalmCopiesAgree ==
  calm /\ Quiet => \A m, n \in Node : current[m] = current[n]

\* As long as all copies were calm, every change on its way to a node is news
\* there: neither isDuplicate, for a content the node has seen before, nor
\* shouldApplyRemoteChange, which compares the sender's stamp with the time the
\* node made its own last update, turns it away. Nobody would send it again.
CalmNewsAccepted ==
  calm => \A m \in Node :
    /\ \A n \in Node : \A i \in DOMAIN net[n][m] : ~IsDuplicate(m, net[n][m][i])
    /\ At(m, "loop", "resolve") =>
         \E n \in thread[m]["loop"].peers : Wins(m, thread[m]["loop"].ts, n)

\* m is still to be sent the change of goroutine g of n.
Awaits(n, g, m) ==
  \/ thread[n][g].pc \in {"load", "add", "write", "stamp"}
  \/ At(n, g, "send") /\ m \in thread[n][g].peers

\* What m has to do, or to be sent, to come to hold c: it boots, its loop has c
\* in hand, a message waits for it, or a node that holds c has yet to send it.
Awaited(m, c) ==
  \/ thread[m]["loop"].pc \in {"boot", "bootSet"}
  \/ thread[m]["loop"].pc \in {"resolve", "set"} /\ thread[m]["loop"].content = c
  \/ \E n \in Node : \E i \in DOMAIN net[n][m] : net[n][m][i].content = c
  \/ \E n \in Node, g \in Goroutine : current[n] = c /\ Awaits(n, g, m)

\* As long as all copies were calm, there is at every moment one content that
\* each node holds or will be brought by what is under way (broadcastChange,
\* handleIncomingMessage): no step, and no break of a link between two sends,
\* loses the last trace of a copy before it has reached everyone.
CalmNoneForgotten == calm => \E c \in Clip : \A m \in Node : current[m] = c \/ Awaited(m, c)

\* The step in which n's loop overwrites its state with a remote change.
AppliesRemote(n) == At(n, "loop", "set") /\ thread'[n]["loop"].pc = "load"

\* Last write wins, the newer timestamp (engine.go:462-465): a remote change
\* replaces only an older state of its node, or one of the same time.
NewestWins ==
  [][\A n \in Node : AppliesRemote(n) => thread[n]["loop"].ts >= timestamp[n]]_vars

\* Every operation ends and every message is consumed: once the users stop,
\* the mesh comes to rest, with no goroutine waiting for another.
ComesToRest == <>[]Quiet

\* A calm copy is noticed by the watcher and reaches every node.
CalmCopySpreads ==
  \A n \in Node, c \in Clip :
    (calm /\ os[n] = c /\ lastHash[n] # c) ~> (~calm \/ \A m \in Node : current[m] = c)

\* The nodes agree whenever the mesh is at rest, with every change delivered
\* (engine.go:468-470), here even if no node's own operations overlapped.
AgreeAtRest ==
  Quiet /\ clean = Node => \A m, n \in Node : current[m] = current[n]
=============================================================================
