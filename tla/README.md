# A verification project for linkpearl

linkpearl keeps the clipboards of several machines the same. Every machine runs
a daemon; the daemons form a static overlay ("mesh") of authenticated TCP
connections, each watches its own OS clipboard, broadcasts what a user copies
and writes what it receives. There is no leader and no log: every node decides
alone, with timestamps, which content is the newest.

This directory holds TLA+ modules that model the parts of the daemon whose
correctness depends on the order in which things happen, TLC configurations
that check them on small instances, and TLAPS proofs of what holds for every
instance.

    tlc -config EngineRunning.cfg MCSyncEngine    # a run
    tlapm SyncEngineProofs.tla                  # proofs

## 1. Inventory of the system

| part (code) | state it keeps | operations | talks to |
|---|---|---|---|
| sync engine (`pkg/sync/engine.go`) | current content and checksum, timestamp, lastRemoteChange, statistics | `Run`, `initializeState`, `watchClipboard`, `handleIncomingMessage`, `SetClipboard`, `GetClipboard`, `broadcastChange`, `Topology` | clipboard, topology, API server |
| deduplication cache (`pkg/sync/lru.go`) | map and recency list | `Add`, `Get`, `Remove`, `Clear`, `Len` | engine |
| sync messages (`pkg/sync/message.go`) | none | build, marshal, unmarshal, validate | engine |
| topology (`pkg/mesh/topology.go`) | join addresses, started/closed, the message channel | `Start`, `Stop`, `AddJoinAddr`, `RemoveJoinAddr`, accept and maintain loops, `Broadcast`, `SendToPeer` | transport, peer manager, event pump, backoffs, router |
| peer manager (`pkg/mesh/peer.go`) | the peer of every node identity, its connection | add, remove, send, broadcast, stop | topology |
| topology events (`pkg/mesh/events.go`) | ring buffer, subscribers | publish, subscribe, push, pop | topology, engine |
| reconnection backoff (`pkg/mesh/backoff.go`) | delay, attempts, reset time per address | next, reset, get | topology |
| message router (`pkg/mesh/messages.go`) | handler table | register, process, send | topology |
| clipboards (`pkg/clipboard/{linux,darwin,noop,mock}.go`) | last content seen, statistics | read, write, watch | engine, OS tools |
| resilience (`pkg/clipboard/{resilient,retry,ratelimit}.go`) | error count, fallback switch, tokens | read, write, recover | clipboards |
| transport (`pkg/transport/*.go`) | listener, connections by node | listen, accept, connect, handshake, send, receive, close | topology |
| API server and client (`pkg/api`, `pkg/client`) | listener, client goroutines | copy, paste, status, shutdown | engine, CLI |
| daemon (`cmd/linkpearl/run.go`) | none of its own | wiring, signals, orderly stop | all |

How they interact. A user's copy changes the OS clipboard. The watcher's poll
notices and puts a notification (not the content) into a small channel; the
engine's watch goroutine takes it, *reads the clipboard again*, and calls
`SetClipboard(local)`, which updates the state under the engine's mutex, then,
after giving the mutex up, touches the deduplication cache and broadcasts. The
topology sends the message to every connected peer in turn. On the other side
the connection's goroutine puts the message into the topology's channel,
dropping it when the channel is full; the engine's main loop takes it, asks the
cache whether it is a duplicate, compares timestamps under the read lock, and
calls `SetClipboard(remote)`, which updates the state under the write lock and
then writes the OS clipboard. `linkpearl copy` does the same as a local change
from a goroutine of the API server, with the OS write in between.

What is hard, and what should hold:

- **Engine.** Up to three kinds of goroutine interleave between its locked
  sections: the cache is told a timestamp loaded without the mutex, the verdict
  that a remote change is newer is stale by the time it is used, OS writes happen
  in another order than state updates. A change applied from a peer must not come
  back out through the watcher; paste must not differ from the OS clipboard at
  rest; the newest change should win; the nodes should agree; every operation
  must end.
- **Cache.** Two structures (map and list) describe one thing and must agree;
  what is evicted must be the least recently used.
- **Topology and peer manager.** Connection, acceptance, failure and `Stop` run
  concurrently on one map with callbacks under its lock; at most one peer per
  node, events in the right order, `Stop` must end, and nothing may be sent on
  the closed message channel. Two nodes that join each other race for the same
  peer slot.
- **Events.** A ring buffer must be a bounded queue that forgets the oldest;
  publication is not atomic with the subscriptions.
- **Clipboards.** A change is noticed by comparing hashes that `Write` sets too,
  and read again by the consumer some time after; nothing may get lost between
  `Write`, watcher, a full channel and a late reader.
- **Resilience, metrics.** Calls that passed the check of the fallback mode end
  in any order among late recoveries, and the count of failures and the mode must
  still agree; sizes are kept by loops without a lock.
- **Transport.** The handshake must not consume the bytes of the next protocol;
  `Accept` serves one connection at a time, so that one dialer can hold up all
  others, for as long as its handshake lasts;
  the registry of connections has one slot per node; a `Send` that runs into its
  deadline has written half a message.
- **API server and daemon.** Shutdown races with active clients; daemons of one
  user share a socket path; the engine's initial state races with the first
  commands.
- **Backoff.** Delays stay within bounds.

`PROJECT.json` lists every component with its status and every hazard at the
line where it bites, with the property that covers it or the reason why none
does yet.

## 2. What is modelled

| module | models | how |
|---|---|---|
| `LRUOps` | `pkg/sync/lru.go` | a cache is a record of the map (`items`) and the recency list (`evictList`); `CacheGet`, `CacheAdd`, `CacheRemove` are the methods, each atomic under the cache's mutex |
| `LRUCache` | the cache as a state machine | one action per method, `answer` holds what the last call returned |
| `RecencyCache` | what an LRU cache promises | no list: every entry has the moment of its last use and the oldest goes |
| `SyncEngine` | `pkg/sync/engine.go` on every node, with the polling watcher, the OS clipboard, the links and the user | below |
| `Topology` | one node's `pkg/mesh/topology.go` and `peer.go`, with the connection registry of `pkg/transport/transport.go`, amid remote nodes | below |
| `Presence` | what a topology tells about every other node | connected, disconnected, gone, in turn |
| `EventBuffer` | the ring buffer of `pkg/mesh/events.go` | one operator per method |
| `EventPump` | the pump of `pkg/mesh/events.go` with its publishers and subscribers | below |
| `RecentEvents` | what the ring buffer promises | a queue of the last `Capacity` events |
| `ClipboardWatch` | watchers, writers and reader of a clipboard: `pkg/clipboard/{linux,darwin,noop,command}.go`, and how the wrappers of `resilient.go` and `instrumented.go` forward | below |
| `HardenedClipboard` | `Read` and `Write` of `pkg/clipboard/{resilient,retry,ratelimit,instrumented,metrics}.go` | below |
| `Transport` | `pkg/transport`: authentication, TLS, node information, the registry, messages | below |
| `Daemon` | `cmd/linkpearl/run.go`, `pkg/api/server.go`, `pkg/client/client.go` | below |
| `MCSyncEngine`, `MCTopology`, `MCEventPump`, `MCClipboardWatch`, `MCDaemon` | the instances TLC checks | starts in the mesh that has booted, symmetry, definitions given to constants |
| `LRULemmas`, `LRUCacheProofs`, `SyncEngineProofs`, `TopologyProofs`, `EventPumpProofs`, `ClipboardProofs`, `TransportProofs`, `DaemonProofs` | proofs | section 4 |

Composition: `SyncEngine` uses the operators of `LRUOps` for every node's
cache, `EventPump` those of `EventBuffer`. `LRUCache` implements `RecencyCache`,
`Topology` implements `Presence` and `EventPump` implements `RecentEvents`, each
through INSTANCE with the abstract state defined over the detailed one.
The other modules meet where one's assumption is the other's subject:
`SyncEngine` takes a change to be noticed unless a notification is already
waiting, which `ClipboardWatch` examines; `Topology` takes a handshake to end,
of which `Transport` shows when; `Daemon` takes the engine's settings of the
clipboard as numbered steps, whose contents are `SyncEngine`'s.

### SyncEngine

A node has the goroutines `loop` (Run's select loop), `watch` (watchClipboard)
and `Cli` (API connections that carry a copy command). A goroutine's program
counter `thread[n][g].pc` names the section it executes next; what a mutex or a
single unlocked load makes atomic is one action.

| pc | action | code |
|---|---|---|
| boot, bootSet, bootLoad, bootAdd | `BootRead`, `BootSet`, `BootLoad`, `BootAdd` | `initializeState` |
| off | `WatchStart` | the watcher's first read, after `initializeState` |
| idle | `WatchRead`, `WatchReadFails`, `Receive`, `CliCopy` | a notification, a message or a command arrives |
| resolve | `Resolve` | `shouldApplyRemoteChange` (read lock) |
| set | `SetLocked` | the locked part of `SetClipboard` |
| load, add | `LoadTimestamp`, `AddDedupe` | `e.dedupe.Add(checksum, e.timestamp)`: an unlocked load, then the cache's lock |
| write | `Write`, `WriteFails` | `clipboard.Write` |
| stamp, send | `Stamp`, `Send` | `broadcastChange` and `Broadcast`, one send per peer |

Around the engine: `UserCopy`, `Poll` (one turn of `watchWithPolling` that finds
a change), `Tick`, `Disconnect` and `Connect` (a broken link loses a suffix of
what is under way), a message lost at a full buffer, `Restart` (a killed daemon:
engine state is gone, OS clipboard stays). `Faults` says which faults a run has.

Abstractions: a content is a model value and its own checksum (no collisions);
all nodes read one clock, `now`, that advances in ticks; the two time windows
keep their order relative to each other; the OS write and the update of
`lastHash` are one step, and so are a poll's read and comparison; taking the
message's timestamp and the snapshot of the connected peers are one step;
the statistics, message validation, size limits, logging and `clipnotify` (the
other watcher) are left out. The history variables `calm`, `clean` and `owned`
record how a state was reached and influence no other variable: a node leaves
`clean` when one of its operations begins while another is in progress, when a
tool fails, when it restarts, when a copy falls between `initializeState`'s
read and the watcher's first one, or when the engine, told of one content,
reads the next one, which the watcher has not noticed yet.

### Topology

One node, from before `Start` to after `Stop`. Remote nodes are identities
that may dial us, answer at addresses and close connections at any step.

| state | code |
|---|---|
| `acceptor` | `acceptLoop`: `AcceptConn`, `AcceptOk`, `AcceptFails`, `AcceptExit` |
| `dialer[d]` | one `maintainConnection` goroutine: `DialStart`, `DialRefused`, `DialFails`, `DialOk`, `PauseOver`, `DialExit` |
| `handler[c]` | the goroutine of connection `c` (the dialer's own when we dialled): `Check`, `AddPeer`, `Greet`, `ReadMessage`, `Deliver`, `DeliverPanics`, `ReadFails`, `Disconnect`, `Publish`, `Remove` |
| `stop` | `Stop`, one step for each thing it does, `peers.Stop` one peer at a time |
| `peers`, `connected`, `registry` | `peerManager.peers`, `peer.connected`, `tcpTransport.conns` |
| `stuck` | a goroutine waits for the peer manager's mutex while it holds it; every action that needs the mutex is disabled |

A section under a mutex is one action; a callback made with the mutex held
belongs to it. `RemovePeer` is told an identity, not a peer, as in the code, and
stops whatever peer it finds.

Abstractions: a connection and the peer object made for it share a name, which
is free again when the goroutine has ended, so that `Conn` bounds the
connections that exist at a time and not their number over time; a handshake is
a begin and an end and is assumed to end (the TLS part of `Accept` has no deadline
of its own, so that a dialer that hangs there can keep it from ending: a listed hazard,
which `Transport` examines); a peer's identity is the one its handshake gave; what
is in the message channel is `SyncEngine`'s subject; pings and peer lists change
no state that is read, so of sendPeerList only its use of the peer manager is
left; the length of a pause is left to the scheduler.

### EventPump

A goroutine that publishes is identified with the remote node whose event it
publishes: those of one node follow each other, since `AddPeer` publishes
before it returns and `handlePeerDisconnected` before it frees the slot. (After
`Stop` has emptied the peer map this order is gone; `Topology` shows what else
goes wrong there.) `Publish` is the locked part, which fills the ring and copies
the listeners; `Deliver` is one turn of the loop that sends without the lock.
`published`, `seen`, `missed` and `joined` are history. `Pop` and `Unsubscribe`
are called by the package's tests only; they are actions all the same.

### ClipboardWatch

One clipboard with the goroutine that `Watch` starts (`watcher`), the callers of
`Write`, the user, and the consumer of the channel (the engine's
`watchClipboard`), behind `Hops` forwarding wrappers.

| action | code |
|---|---|
| `InitialRead`, `InitialCount` | the watcher's first look, whose content nobody is told of |
| `Tick`, `WatcherRead`, `Judge`, `Send` | one turn of `watchWithPolling`, `watchWithClipnotify` or darwin's `watch`: the trigger, `Read`, the comparison, the notification |
| `ClipnotifyFails`, `WakeToPoll` | polling takes over from a `clipnotify` that fails |
| `Write`, `Record` | the tool, and then the hash under the lock |
| `NoopWrite`, `NoopLeave` | the clipboard without a system clipboard, its list of channels |
| `Forward`, `Take`, `ConsumerRead` | the wrappers and the reader |
| `Cancel`, `Return` | the context of `Watch` |

`slipped` is history: it is set when a change passes in one of the ways in which
the code, by its design, cannot notice it (between two runs of `clipnotify`,
before the first comparison, as the hash of a `Write` that has not recorded
it yet, by a failed or late read) and reset when the program catches up. The
property then says that these are the only ways.

Abstractions: a hash is its content (on Linux up to the CR LF that the hash, but
not `Read`, takes for LF); the pasteboard's counter is counted by the model; the
two sequences of clipboard numbers that nothing reads, timeouts of tools (a
failure) and the choice of tools at start (`Installed`) are reduced to their effect.

### HardenedClipboard

Goroutines that read and write through `NewHardenedClipboard`. `call[c].at` is
the section a caller executes next: `size`, `loadLeast`, `swapLeast`, `loadMost`,
`swapMost` (`RecordSize`'s two compare-and-swap loops), `limit` (`Allow`),
`check` (the fallback mode, under a lock that is dropped before the call), `try`
(one attempt of `RetryOperation`), `update` (`updateErrorState`), `count`. A
recovery is `Probe` (a read without the lock) and `Recover`. `works` is the
platform's clipboard. Delays, jitter and the counters of calls and times are left
out: nothing depends on them.

### Transport

A session is a TCP connection with the two ends' program counters (`client`,
`acceptor`/`server`) and two queues of frames. `Accept` is one call at a time, as
in acceptLoop: `Accept`, `SendAuth` and `ReadAuth` in parallel, `Authenticated`,
`ServerHello`, `ServerFinish`, `ServerInfo`, `ServerTrack`; `AcceptFails` is a
deadline or the end of the connection, in TLS, which has no deadline at this end, the
end of the connection or what is no TLS record. The dialer's side is the same seen from
the other end, with a deadline everywhere (`ClientFails`): ten seconds each for
authentication and node information, thirty for TLS, the context that
`maintainConnection` gives to `Connect`. `ReadAuth` may take a TLS hello that has
already arrived into the decoder's buffer, whole or its beginning; what is then left
of it is the frame `Rest`. `Close`, `Send` with its deadline, `Receive` with the reader's
limit, dialers that hang (`stopped.process`) or vanish (`stopped.machine`).
Cryptography is a comparison of secrets; TLS is its three flights.

### Daemon

Daemons of one machine, started, signalled, killed and started again, that share
a socket path; full nodes share a TCP port, too. `phase[d]` is the place in
`runDaemonWithConfig`: `topology`, `socket` and `bind` (`Server.Start` removes
what is at the path and listens there), `running`, `cancelled` (waiting for the
engine), `stopServer`, `wait` and `remove` (`Server.Stop`), `stopTopology`, `exit`.
`request[r]` is a command's connection from `Dial` to its answer. A setting of the
clipboard is its number, so that "newer" can be asked of what a paste returns.
`overlapped`, `rolledBack` and `overdue` are history and name the circumstances
under which the properties do not hold.

## 3. The runs

| run | question | instance |
|---|---|---|
| `lru_cache` | does the cache do what an LRU cache promises, list and map always in step? | 4 keys, 2 values, size 3, every sequence of calls: eviction, refresh and re-insertion all happen |
| `engine_running` | is the cache never ahead of the engine? Does every node take a calm copy that comes to it, is something always under way to those that lack it, do calm copies reach every node, and does everything come to rest? | 2 booted nodes with an API connection each, 3 contents, 2 copies, both windows 1 tick, clock to 3 |
| `engine_faults` | is paste still the OS clipboard at rest, and what was received never announced as the node's own, amid failing tools, broken links, losses and restarts? | 2 nodes from boot, every fault, clock to 2 |
| `topology` | one peer per node, freed by its own goroutine; events in turn; no deadlock until `Stop`; is the node connected in the end? Does `Stop`, at any moment, leave nothing behind, and when no connection was being made as it took the peers, has it closed all of them before it waits, and does it return? | 1 remote node that dials us, 1 address that leads to it with 1 goroutine at a time (it may be removed and added again), 2 connections |
| `event_pump` | is the ring a queue of the most recent events; does a subscriber get a node's events in order, and all it had room for? | 2 publishing nodes with 2 events each, 2 subscribers, channels of 2, a ring of 3 |
| `clipboard` | does the program end up knowing the clipboard, but for changes it cannot notice? Is nothing sent on a closed channel, and is the channel closed when cancelled? | the four strategies, 2 contents and an unreadable one, 2 writers, a wrapper, channels of 1, 2 copies, 2 writes, 1 failure |
| `hardened` | do fallback mode and failure count agree, are the extremes right, does fallback mode always have a recovery to come, and does it end? | 2 callers, 3 calls, sizes 0 to 2, limit 2, 2 attempts, 1 token, a clipboard that breaks and works again |
| `transport` | is what is open authenticated at both ends, closed by `Close`, without gaps; does each end of a handshake get the frame it waits for, and does `Accept` go on? | 2 sessions, one dialer with the host's secret and one without, one that stops, 2 messages of which the limit lets 1 through |
| `daemon` | does a paste see what was confirmed, does the path lead to the daemon that runs, are handlers gone when the topology stops? | 2 full nodes and a client node, 2 starts, 2 commands, 1 setting |
| `engine_diverges`, `engine_rolls_back`, `stop_hangs` | the disagreements of section 5 | the smallest instances that show them |

Bounds of the engine: `MaxTime` (clock), `MaxCopies` (user copies in the mesh),
`DedupeSize`, `WatchBuffer`. Two copies are enough for properties about an earlier
and a later change; `DedupeSize` 2 with three contents makes the cache evict;
`WatchBuffer` 1 makes notifications drop. The clock bound exceeds the sum of the
windows, so both "inside" and "outside" of each window occur. With a bounded
clock an echo that needs unbounded time to go on would also stop at the bound;
that there is no echo at all is `NoEcho`.

Bounds of the topology: `MaxSpawns` (dialers of an address), `Conn`
(connections at a time). Two connections of one node are what a slot can be
fought over; a third waits for a name. With `MaxSpawns` 1 an address that is removed and
added again gets its new goroutine when the old one has ended; the safety properties and
`DialersNeverLost` are proved for any number of goroutines of one address, and without
`Stop` two of them were checked as well. The slots of different nodes share only
the mutex, and the safety properties are proved for any number of nodes. Bounds
of the pump: `MaxEvents` per node; four events overfill a ring of three and a
channel of two.

Bounds of the clipboard: `ChannelSize` (10 in the code; 1 is full sooner),
`Hops` (2 when hardened; one hop already makes a second channel that can be
full), `MaxCopies`, `MaxWrites`, `MaxFailures`. Larger ones (three contents,
channels of 2, three copies) were run one at a time with the same result. Bounds
of the hardened clipboard: `MaxTokens`, `FailureLimit`, `MaxAttempts` (100, 5 and 3
in the code), `MaxCalls`, `MaxFlips`; three failures exceed the limit of two, which
makes a second recovery. Bounds of the transport: `ReadLimit` (messages where the
code has bytes), `MaxMessages`, `MaxStopped`; what two sessions dispute is the turn
of `Accept` and a slot, which a third only disputes later. Bounds of the daemon:
`MaxSettings`, `MaxStarts`; the second start is the one that finds a port, a socket
or a stale file, and for any number of daemons, starts and settings there are the proofs.

No deadlock check where the system may stop: the engine runs when clock
and copies are used up, the topology after `Stop` (before it, `Reconnects` says that
nothing gets stuck), the pump when it is closed and its channels are empty, a clipboard when it
is cancelled, and calls, sessions and daemons when their bounds are used up.

Fairness. Engine: weak fairness of the loop, the watcher, the poll and the API
goroutines that have started: the Go scheduler runs every runnable
goroutine, TCP delivers on a connection that stays up, the watcher's ticker never
stops. Topology: weak fairness of each connection's goroutine, of `Stop`, of the
dialers, of a handshake's end and of acceptLoop's exit; strong fairness of a
dial's start, its success and the dialer's exit: the goroutine that dials, fails,
pauses and dials again is between dials only now and then, and a node that
answers is assumed to be reached on some attempt. `Reconnects` assumes in its
statement that connections stop breaking and that `Stop` is not called. Users need not copy, clocks need not
tick, remote nodes need not dial, send or close, and no fault need happen.
Clipboard: weak fairness of the watcher's steps (its ticker never stops, a tool is
killed after five seconds), of a writer's second half, and, until the context is
cancelled, of the consumer and the wrappers; strong fairness of `Return`, since
`select` chooses at random among the ready cases and takes each sooner or later.
Hardened clipboard: a sleeping recovery wakes up and gets the lock; callers may
stop at any step. Transport: weak fairness of `Accept`'s steps and, session by session, of the
dialer's while its process runs: what arrives is read, and a deadline passes when nothing
else happens. The dialer's deadlines are part of this (`ClientFails` is one of the
steps of `Connecting`), so a handshake that waits for what was swallowed ends; a dialer
whose process has stopped takes no step.
Daemon: none.

## 4. What is proved

All proofs are for arbitrary constants under the modules' named assumptions: any
number of nodes, connections, addresses and subscribers, any windows, bounds
and capacities, any set of faults.

**Cache** (`CacheAssumption`: the size is an integer, no value is the answer of
a miss; `LRUCacheProofs`). `ListMatchesMapAlways`, `CacheTypeOK`: by `LRULemmas`, each
method maps a well-formed cache to a well-formed one. The lemmas say what moving to
the front, pushing and dropping the last element do to a list without duplicates.
`CacheImplementsRecency`: the list stands for the relation "used before" of its keys
(`UsedBefore`); moving a key to the front and pushing it make it the latest
(`MoveToFrontUses`, `PushFrontUses`), removing one takes it out of the relation, and
the last element is the one that all others were used after (`LastIsOldest`), so that
each method is one step of `RecencyCache`. List and map have as many elements
(`ElementsCounted`, from the theorems on finite sets), so both are full at the same time.

**Engine** (`EngineAssumption`: nodes are numbers because the tiebreak orders
them, API connections are distinct from the two fixed goroutines, windows and
bounds are natural numbers; all in `SyncEngineProofs`). Every action is first
summarised by what it may do to its goroutine, its node and the messages (`GoStep` for
times, `DataStep` for contents, `CalmStep` for a calm mesh), so that the invariants
are checked against a handful of step kinds and not against each action.

- `EngineTypeOK`. `TypeOK` alone is not inductive: the content a goroutine is about
  to add to the cache could be `Unset`. `TypeInv` adds that every cache is well formed,
  that the engine's state is set when boot is past `bootSet`, that a goroutine that
  sends has a timestamp of a message, and that no node is its own peer.
- `CacheNeverAhead`. `AloneInv`: on a clean node at most one goroutine is busy, and boot
  comes first; the properties of the contents rest on it, too. `TimesInv` adds that the
  timestamp a goroutine loaded is not newer than the engine's, which makes
  `CacheNotAhead` inductive.
- `PasteMatchesOnCleanNodes`. `PasteMatchesOS` speaks of rest only; `FollowInv` says
  of every moment what will make it true: on a clean node the content on its way to the
  OS clipboard is the engine's (`Landed`: none is), before the watcher runs the OS
  clipboard holds the engine's content, and afterwards what the watcher noticed last is
  the engine's content unless a notification waits or the watcher is about to set it.
  `Roles` says at which sections each kind of goroutine can be.
- `CleanNodesDoNotEcho`. `EchoInv` adds to it that what the watcher has yet to notice,
  has noticed or is announcing was copied on this node, or is the engine's content
  already, which the watcher's `SetClipboard` takes for no change (`NoticesOwn`).
- `CalmCopiesReachAll`, for every set of faults without `"loss"`: a message dropped at a
  full buffer is what breaks `CalmCopiesAgree`. `CalmInv` describes the whole mesh
  while every copy was calm. Either the nodes boot with blank clipboards (`Starting`); or
  all nodes have one content and a copy was made that its node has not applied yet
  (`Copied`); or a goroutine of that node has applied it and passes it on
  (`Spreading`), and every other node is at rest and waits for it, or the change is on
  its way there (`Arriving`): the only message under way, in the hands of the loop, or
  applied. `CanReach` is why no node rejects it: its state is older than the message by
  more than the window, and since the cache is not ahead of the state
  (`CacheNotAhead`) the message is no duplicate either. A tool that fails breaks none of
  this: when the watcher's read fails its node drops the copy and the nodes still agree
  on the content before, and the engine keeps and sends what it could not write.
- `CalmChangesAccepted` and `CalmCopiesUnderWay` follow from `CalmInv` as well; both
  properties are checked by `engine_running`, and they are what makes
  `CalmCopySpreads`, a liveness property TLC checks, plausible for any number of
  nodes: no change on its way is taken for a duplicate or loses the verdict
  (`CalmNewsAccepted`), and there is always one content that every node holds or that
  something under way will bring to it (`CalmNoneForgotten`): what is left to fairness
  is that these steps are taken.
- `CalmCopiesReachClipboards`: with `CalmCopiesReachAll` and
  `PasteMatchesOnCleanNodes`, it is the OS clipboards of the clean nodes that agree when
  such a mesh is at rest, not only the engines' states.

**Topology** (`TopologyAssumption`; `TopologyProofs`). The conjunct `NamesOK`
of `TypeOK` gives every busy dialer its one connection. `MapInv` relates the map
to the goroutines: an entry belongs to a connection of that node that a
goroutine will take out again, which makes `NoDeadEntry` inductive even during
`Stop`. `SlotInv` holds until `Stop` takes the peers: every goroutine past
`AddPeer` owns its slot, is connected exactly until its `disconnect`, and the
balance of announced events follows its program counter. Hence `RemovePeer`
never meets a connected peer, which is `NoSelfDeadlock`, and hence the refinement
`TopologyImplementsPresence` (`PresenceBecomes` maps each action to one step of
`Presence` or a stutter). `StopLeavesNothing` needs `StoppedEnded`: nothing
begins any more when `Stop` has returned. `StopIsOrderly` is the safety core of
`StopReturnsOrderly`: when no connection was being made as `Stop` took the peers,
`OrderlyInv` says that each connection still open is that of a peer which `Stop` has yet to
stop, and that no goroutine is on its way to `AddPeer`; so when `Stop` waits nothing is
left that a goroutine could wait for, and no callback ran into the mutex.
`DialersNeverLost` is the safety core of `Reconnects`, beside `NoDeadEntry`: until `Stop`
a goroutine that maintains an address dials, pauses or handles a connection that is there
and has a goroutine to end it (`NoDialerLost`, inductive with `DialerInv`).

**Events** (`BufferAssumption`, `PumpAssumption`; `EventPumpProofs`). `IndexWraps`
is the arithmetic of the ring; `PushSlice`, `PopSlice` and `ClearSlice` say what
each method does to the sequence of buffered events and that head, tail and size
stay in step. `EventPumpImplementsRecent` and `PumpTypeOK` follow, the latter with
the strengthening that a channel listens only after `Events` made it
(`ListenersJoined`) and that what is being delivered was published
(`DeliveryNumbered`). `EventsInTurn`: `InTurn` is not inductive; `OrderInv` adds
that an event still to be delivered to a subscriber is newer than all that the
subscriber has of that node, and that channels not made yet are empty.
`NoEventMissed`: with `OrderInv`, for a subscriber that was never found without room, the
last event it has seen, those in its channel and the one about to be delivered to it
are all there are up to the last one published (`AllKnown`).

**Hardened clipboard** (`HardenedAssumption`: sizes are natural numbers, limits
positive; `ClipboardProofs`). `HardenedFallbackCounts` and `HardenedRecoveryComes`:
`FallbackCounts` and `RecoveryComes` are inductive with types; the latter is the safety
core of `Recovers`. `HardenedExtremesRight`: `ExtremesRight` speaks of moments at
rest only; `ExtremesInv` says of every moment that a recorded size is covered by
the extreme or is still in the hands of a caller that will compare it
(`MostCovers`, `LeastCovers`), that a prepared swap improves on what it saw
(`SwapBeyond`), and that the extremes are sizes that were recorded.

**Platform clipboards** (`ClipboardAssumption`: the marks of an unreadable content and of
a failed read of the change count, the code's -1, are no content and the latter no number, a
tool is installed, channels have room; `ClipboardProofs`). `WatcherTypeOK` bounds every
channel by its capacity. `ChannelOpenWhileListed`: the no-op clipboard's watcher leaves the
list before it closes its channel. `WatcherCatchesUp`: `CaughtUp` speaks of moments when
nothing is under way; `CaughtUpInv` says of every moment why it will hold then, in two
halves. `Noticed`: the content noticed last is what the program knows, or a notification is
on its way or about to be sent, or a `Write` of what the program knows has yet to record its
hash, or a change slipped by. `Reflected`, for the event-driven watchers: what the system
clipboard holds is known or told, or a comparison is to come (`ToCompare`), or it slipped by
or cannot be read. A clipboard whose tool for writing writes nothing (`ToolWrites`,
section 5) is exempt.

**Daemon** (`DaemonAssumption`: full nodes are daemons; `DaemonProofs`).
`DaemonSocketIsOurs`: `PortHeld` says that a full node has the port in every phase
in which it may touch the path, and `Apart` that beside a daemon that was not
overlapped there are full nodes only; so no two of them touch the path at a
time. `DaemonCleanStop`: `EarlyFree`, a daemon has no connection before it listens,
and `LeftOverdue`. `DaemonReadYourWrites`: `PasteInv` says that the state is not older
than what was confirmed (`ConfirmedKept`) or is about to be (`CopyKept`), and that
what a command found confirmed still is (`FloorConfirmed`).

**Transport** (`TransportAssumption`; `TransportProofs`). The theorems follow from
one invariant, `TransportInv`, and the last one from `UpInv` besides. `ConnectionsAgree`: `Serving` says which connection
`Accept` is busy with, `Trusted` that past the authentication the two ends have the same
secret, `InfoSent` that the host has a dialer's node information only from that dialer.
`CloseClosesAll`: a registered connection has been set up (`Listed`), and an open one is
registered or was late or replaced (`Accounted`). `NoMessageMissing`: what the host sends
on a connection has one order (`Item`: authentication, hello, node information,
messages); the frames under way are the ones that follow what the dialer has taken
(`InOrder`), and what was taken and what is under way add up to what was put there, less
the half frame of a `Send` that ran into its deadline. `HandshakeNeverStuck`, the safety
core of `AcceptGoesOn`: `InOrder` is about the host's frames, `UpInv` about the dialer's.
What the dialer has sent at its place (`Given`) and what `Accept` has read at its place
(`Gone`) differ by the frames under way, in their order, so each end either finds the frame
it waits for or the other end finds its own.

The strengthenings were checked by TLC before they were proved, that of the calm mesh
with two and three nodes, with each kind of fault but `"loss"`, and with several windows
and cache sizes.

Only model-checked: liveness (`ComesToRest`, `CalmCopySpreads`, `Reconnects`,
`StopReturnsOrderly`, `CatchesUp`, `ClosesOnCancel`, `Recovers`, `AcceptGoesOn`), which the
prover does not reach: neither fairness nor ENABLED. What each of them needs to be
true at every moment is proved where it is a property of its own: that what is awaited is
under way (`CalmNoneForgotten`, `CaughtUp`, `RecoveryComes`, `HandshakeMoves`), still tried
(`NoDialerLost`) or done (`OrderlyStop`). Every invariant and action property that a run checks and that holds is
also proved.

## 5. Where the code disagrees with its comments

Three of these are runs that TLC finds violated:

- *Divergence* (`engine_diverges`, `AgreeAtRest`): two copies in quick succession on
  one node. The receiver stamps the first with its own clock at receipt; the
  second carries an older stamp than that and is rejected. Nothing is sent again,
  so the nodes stay different, though `engine.go:467-470` promises that all nodes
  reach the same decision.
- *Roll-back* (`engine_rolls_back`, `NewestWins`): the verdict of
  `shouldApplyRemoteChange` is taken under a lock that is given up before
  `SetClipboard` updates the state, without another look at the times. A change of the
  user in between, newer than the message, is overwritten by it, against
  `engine.go:462-463` and `message.go:23-25`: the newer timestamp wins. (On a node whose
  operations do not overlap this cannot happen, which says no more than that the verdict
  is what the code compares.)
- *Stop hangs* (`stop_hangs`, `StopReturns`): a handshake that began before
  `transport.Close` ends after it; its connection is registered in the closed
  transport, added to the stopped peer manager, closed by nobody, and `wg.Wait`
  waits for its goroutine until the remote node hangs up.

Two more are stated in the modules and were seen with TLC, but no run of the
project repeats them; the instance of `topology`, with the property added, shows
them:

- *Stop deadlocks* (`NeverStuck` in `Topology`): between `peers.Stop` taking the
  map and stopping the peers, a second connection of the same node is added; the
  callback of the first one's stop finds and stops it by identity with the mutex
  held, and its callback wants that mutex.
- *Stop panics* (`NeverPanics` in `Topology`): `close(t.messages)` precedes
  `wg.Wait`; a handler in its select finds the closed channel and `ctx.Done` both
  ready, and the send on the closed channel panics.

The exceptions that properties make name what else the code does not do:

- A copy that was confirmed before the engine's initial state is set is
  overwritten by it: the API server starts first (`run.go:208`, `engine.go:351`;
  `rolledBack` in `ReadYourWrites`).
- A daemon removes whatever is at the socket path, as it starts and as it stops,
  so that a client node beside another daemon takes the path away (`overlapped`
  in `SocketIsOurs`).
- A connection that is still being set up when the transport closes, or whose slot
  another connection takes, is closed by nobody (`late` and `replaced` in
  `CloseCloses`; `transport.go:159, 236`).
- `Accept` does TLS without a deadline of its own and serves one dialer at a time. A
  dialer that hangs there, its machine still answering, holds up all others without end
  (`stopped.process` in `AcceptGoesOn`; `transport.go:145`). One whose hello went into
  the decoder of the authentication (`auth.go:125`) fails and dials again; when all of
  the hello went there it holds up the others until its own deadline passes, thirty
  seconds after it dialled (`topology.go:409`, `transport.go:222`).
- A recovery probe that fails is not repeated, and in fallback mode no call is
  made that could schedule another: it lasts (`gaveUp` in `Recovers`; `resilient.go:184`).
- The size 0 is taken for "none yet" (`ExtremesRight`; `metrics.go:148`).
- A handler that takes more than five seconds is left inside the engine while the
  topology stops (`overdue` in `CleanStop`; `server.go:141`).

Seen while reading, without a run: on Wayland `newPlatformClipboard` picks
`wl-paste` and no arguments for writing, so that `Write` (`linux.go:178-202`) runs
the reading tool and returns nil without a change (the `clipboard` run is the
instance with the X11 tools; in one with `wl-paste` an announced write never shows);
two overlapping changes of one node are stamped and sent
after the mutex was released, so that the older one may carry the later stamp
(`engine.go:286`); `linkpearl copy` does not wait for its answer by default, so that two in a row may
be applied in either order, or not at all when the daemon stops, though
`client.go:124` speaks of guaranteed delivery; when the engine ends by itself without
an error the daemon waits ten seconds for it once more (`run.go:238-256`);
`GetMetrics` reads counters one by one; what was copied while two nodes were apart is
never sent afterwards (`engine.go:554`), though `sync/interface.go:10` lists
eventual consistency; the goroutine of a removed join address goes on dialling,
though `mesh/interface.go:169-170` says that no further attempts are made;
`mesh/interface.go:208-212` says that the channel of `Events` is closed when the
topology stops and receives all events, whereas `events.go:232-236` never closes it
and `Publish` skips a full one.

## 6. Not modelled, and the plan

`PROJECT.json` has the status of every component. Left out for good: logging and
the plain counters of the metrics (no decision depends on them), configuration and
flag parsing (straight-line code), the status command (it only reads), the
clipboards and transports made for tests. Of the message router the topology uses
the handler table (`topology.go:497`): the clipboard handler, the one that
changes state, is part of `Topology` and `SyncEngine`; peer lists, pings and
pongs change nothing that is read. Not modelled yet: the reconnection backoff (arithmetic on
one goroutine's delay), and a mesh of two topologies.

What remains worth doing, the most important first:

1. `MeshLink`: two nodes that join each other, composed of `Topology`'s
   steps. Liveness: they become connected, although each may reject the other's
   connection.
2. `Backoff`: delays within bounds, reset.
