------------------------------ MODULE Topology ------------------------------
(***************************************************************************)
(* The topology of one node (pkg/mesh/topology.go) with its peer manager   *)
(* (pkg/mesh/peer.go) and the connection registry of the transport         *)
(* (pkg/transport/transport.go), amid remote nodes that come and go.       *)
(*                                                                         *)
(* Goroutines: acceptLoop; one maintainConnection per join address, here a *)
(* dialer; one goroutine per connection, whose program counter is          *)
(* handler[c] (the dialer itself runs it for an outbound connection); and  *)
(* the caller of Stop.  A section under the peer manager's mutex is one    *)
(* action.  A connection and the peer object made for it share a name,     *)
(* which is free again when their goroutine has ended.                     *)
(***************************************************************************)
EXTENDS Naturals, Integers, FiniteSets

CONSTANTS
  Remote,     \* identities of the other nodes
  Addr,       \* addresses to join
  Serves,     \* Serves[a]: the node that answers at address a
  InitJoin,   \* TopologyConfig.JoinAddrs
  Listening,  \* a full node listens, a client node does not
  MaxSpawns,  \* bound on maintainConnection goroutines of one address
  Conn,       \* names for the connections that exist at a time
  None,
  Inbound,    \* the owner of a connection that acceptLoop accepted
  MayStop     \* whether Stop is called

\* Goroutine k of address a; the second one of an address is the one that
\* AddJoinAddr starts when the address was removed and added again.
Dialer == Addr \X (1..MaxSpawns)

ASSUME TopologyAssumption ==
  /\ Serves \in [Addr -> Remote]
  /\ InitJoin \subseteq Addr
  /\ Listening \in BOOLEAN
  /\ MayStop \in BOOLEAN
  /\ MaxSpawns \in Nat \ {0}
  /\ None \notin Conn \cup Remote
  /\ Inbound \notin Dialer

VARIABLES
  started,    \* topology.started
  joinAddrs,  \* topology.joinAddrs
  acceptor,   \* where acceptLoop is
  dialer,     \* dialer[d]: where maintainConnection is
  node,       \* node[c]: the remote node of connection c, None if c is unused
  owner,      \* owner[c]: the dialer that made c, or Inbound
  open,       \* connections neither side has closed
  handler,    \* handler[c]: where the goroutine of connection c is
  connected,  \* the peers with peer.connected set
  peers,      \* peerManager.peers
  registry,   \* tcpTransport.conns
  balance,    \* balance[r]: PeerConnected less PeerDisconnected events of r
  stop,       \* where Stop is, the peers left to stop, the node of the current one
  stuck,      \* a goroutine waits for the peer manager's mutex it holds itself
  orderly     \* history: no connection was being made when the peers stopped

connVars == <<node, owner, open, handler>>
peerVars == <<connected, peers, balance, stuck>>
vars == <<started, joinAddrs, acceptor, dialer, connVars, peerVars, registry,
          stop, orderly>>

StopPcs == {"up", "cancel", "transport", "peers", "each", "publish", "remove",
            "events", "wait", "stopped", "crashed"}

HandlerPcs == {"free", "check", "add", "greet", "read", "deliver",
               "disconnect", "publish", "remove"}

\* Pcs of a goroutine whose peer is in the peer manager's map.
Managed == {"greet", "read", "deliver", "disconnect", "publish", "remove"}

StopIn(pcs) == stop.pc \in pcs

\* Mutant: Stop does not cancel the context.
NeverCancelled == FALSE

Cancelled       == ~StopIn({"up", "cancel"})
TransportClosed == ~StopIn({"up", "cancel", "transport"})
Managing        == StopIn({"up", "cancel", "transport", "peers"})
MessagesClosed  == StopIn({"events", "wait", "stopped"})
EventsClosed    == StopIn({"wait", "stopped"})

Init ==
  /\ started = FALSE
  /\ joinAddrs = InitJoin
  /\ acceptor = "off"
  /\ dialer = [d \in Dialer |-> "off"]
  /\ node = [c \in Conn |-> None]
  /\ owner = [c \in Conn |-> Inbound]
  /\ open = {}
  /\ handler = [c \in Conn |-> "free"]
  /\ connected = {}
  /\ peers = [r \in Remote |-> None]
  /\ registry = [r \in Remote |-> None]
  /\ balance = [r \in Remote |-> 0]
  /\ stop = [pc |-> "up", todo |-> {}, peer |-> None]
  /\ stuck = FALSE
  /\ orderly = FALSE

-----------------------------------------------------------------------------
(* The interface: Start, AddJoinAddr, RemoveJoinAddr. *)

\* Start marks the topology started before it listens: when listening fails
\* nothing is spawned and a second Start is refused.
Start ==
  /\ ~started
  /\ stop.pc = "up"
  /\ started' = TRUE
  /\ \/ /\ acceptor' = IF Listening THEN "accept" ELSE "off"
        /\ dialer' = [d \in Dialer |->
                        IF d[1] \in joinAddrs /\ d[2] = 1 THEN "dial" ELSE "off"]
     \/ Listening /\ UNCHANGED <<acceptor, dialer>>
  /\ UNCHANGED <<joinAddrs, connVars, peerVars, registry, stop, orderly>>

AddJoinAddr(a) ==
  /\ stop.pc = "up"
  /\ a \notin joinAddrs
  /\ joinAddrs' = joinAddrs \cup {a}
  /\ IF started
     THEN \E k \in 1..MaxSpawns :
            /\ dialer[<<a, k>>] = "off"
            /\ \A j \in 1..(k - 1) : dialer[<<a, j>>] # "off"
            /\ dialer' = [dialer EXCEPT ![<<a, k>>] = "dial"]
     ELSE UNCHANGED dialer
  /\ UNCHANGED <<started, acceptor, connVars, peerVars, registry, stop, orderly>>

\* The goroutine of the address is not told.
RemoveJoinAddr(a) ==
  /\ stop.pc = "up"
  /\ a \in joinAddrs
  /\ joinAddrs' = joinAddrs \ {a}
  /\ UNCHANGED <<started, acceptor, dialer, connVars, peerVars, registry, stop, orderly>>

-----------------------------------------------------------------------------
(* Connections come into being: transport.Accept and transport.Connect. *)

\* A handshake ended: c, so far unused, is a connection to r, and the
\* registry has it in place of an earlier one to r. Nothing looks whether
\* the transport was closed during the handshake.
Establish(c, r, o, pc) ==
  /\ handler[c] = "free"
  /\ node' = [node EXCEPT ![c] = r]
  /\ owner' = [owner EXCEPT ![c] = o]
  /\ open' = open \cup {c}
  /\ handler' = [handler EXCEPT ![c] = pc]
  /\ registry' = [registry EXCEPT ![r] = c]

AcceptConn ==
  /\ acceptor = "accept"
  /\ ~TransportClosed
  /\ acceptor' = "shake"
  /\ UNCHANGED <<started, joinAddrs, dialer, connVars, peerVars, registry, stop, orderly>>

AcceptOk ==
  /\ acceptor = "shake"
  /\ \E c \in Conn, r \in Remote : Establish(c, r, Inbound, "add")
  /\ acceptor' = "accept"
  /\ UNCHANGED <<started, joinAddrs, dialer, peerVars, stop, orderly>>

AcceptFails ==
  /\ acceptor = "shake"
  /\ acceptor' = "accept"
  /\ UNCHANGED <<started, joinAddrs, dialer, connVars, peerVars, registry, stop, orderly>>

AcceptExit ==
  /\ acceptor = "accept"
  /\ Cancelled
  /\ acceptor' = "exit"
  /\ UNCHANGED <<started, joinAddrs, dialer, connVars, peerVars, registry, stop, orderly>>

DialTo(d, old, new) ==
  /\ dialer[d] = old
  /\ dialer' = [dialer EXCEPT ![d] = new]
  /\ UNCHANGED <<started, joinAddrs, acceptor, connVars, peerVars, registry, stop, orderly>>

DialStart(d) == ~Cancelled /\ DialTo(d, "dial", "shake")

DialRefused(d) == ~Cancelled /\ DialTo(d, "dial", "pause")

DialFails(d) == DialTo(d, "shake", "pause")

\* The delay of the backoff, or the five seconds after a surplus connection.
PauseOver(d) == DialTo(d, "pause", "dial")

DialExit(d) == Cancelled /\ (DialTo(d, "dial", "exit") \/ DialTo(d, "pause", "exit"))

DialOk(d) ==
  /\ dialer[d] = "shake"
  /\ \E c \in Conn : Establish(c, Serves[d[1]], d, "check")
  /\ dialer' = [dialer EXCEPT ![d] = "handling"]
  /\ UNCHANGED <<started, joinAddrs, acceptor, peerVars, stop, orderly>>

-----------------------------------------------------------------------------
(* A connection's goroutine: handleIncomingConnection, the part of          *)
(* maintainConnection after Connect, and handleConnection.                  *)

HandlerTo(c, pc) == handler' = [handler EXCEPT ![c] = pc]

\* The goroutine of c is done with it, and c is closed; closing it again
\* through the registry or Stop would do nothing. A dialer goes on as told.
End(c, next) ==
  /\ handler' = [handler EXCEPT ![c] = "free"]
  /\ node' = [node EXCEPT ![c] = None]
  /\ owner' = [owner EXCEPT ![c] = Inbound]
  /\ open' = open \ {c}
  /\ registry' = [r \in Remote |-> IF registry[r] = c THEN None ELSE registry[r]]
  /\ stop' = [stop EXCEPT !.todo = @ \ {c}]
  /\ dialer' = IF owner[c] = Inbound THEN dialer ELSE [dialer EXCEPT ![owner[c]] = next]

\* An event for the subscribers; a closed event pump discards it.
Announce(r, change) ==
  balance' = IF EventsClosed THEN balance ELSE [balance EXCEPT ![r] = @ + change]

\* maintainConnection looks for a peer of the same identity, and waits five
\* seconds when there is one.
Check(c) ==
  /\ handler[c] = "check"
  /\ ~stuck
  /\ \/ peers[node[c]] # None /\ End(c, "pause")
     \/ /\ peers[node[c]] = None
        /\ HandlerTo(c, "add")
        /\ UNCHANGED <<dialer, node, owner, open, registry, stop>>
  /\ UNCHANGED <<started, joinAddrs, acceptor, peerVars, orderly>>

\* Mutant: the later connection takes the place of the earlier.
AddReplaces(c) ==
  /\ handler[c] = "add"
  /\ ~stuck
  /\ peers' = [peers EXCEPT ![node[c]] = c]
  /\ connected' = connected \cup {c}
  /\ Announce(node[c], 1)
  /\ HandlerTo(c, "greet")
  /\ UNCHANGED <<stuck, dialer, node, owner, open, registry, stop,
                 started, joinAddrs, acceptor, orderly>>

\* Mutant: setConnection comes after AddPeer, which sees no connection yet.
AddSilently(c) ==
  /\ handler[c] = "add"
  /\ ~stuck
  /\ \/ /\ peers[node[c]] # None
        /\ End(c, "dial")
        /\ UNCHANGED peerVars
     \/ /\ peers[node[c]] = None
        /\ peers' = [peers EXCEPT ![node[c]] = c]
        /\ connected' = connected \cup {c}
        /\ HandlerTo(c, "greet")
        /\ UNCHANGED <<balance, stuck, dialer, node, owner, open, registry, stop>>
  /\ UNCHANGED <<started, joinAddrs, acceptor, orderly>>

AddPeer(c) ==
  /\ handler[c] = "add"
  /\ ~stuck
  /\ \/ /\ peers[node[c]] # None
        /\ End(c, "dial")
        /\ UNCHANGED peerVars
     \/ /\ peers[node[c]] = None
        /\ peers' = [peers EXCEPT ![node[c]] = c]
        /\ connected' = connected \cup {c}
        /\ Announce(node[c], 1)
        /\ HandlerTo(c, "greet")
        /\ UNCHANGED <<stuck, dialer, node, owner, open, registry, stop>>
  /\ UNCHANGED <<started, joinAddrs, acceptor, orderly>>

\* sendPeerList asks the peer manager for the connected peers.
Greet(c) ==
  /\ handler[c] = "greet"
  /\ ~stuck
  /\ HandlerTo(c, "read")
  /\ UNCHANGED <<started, joinAddrs, acceptor, dialer, node, owner, open, peerVars,
                 registry, stop, orderly>>

ReadMessage(c) ==
  /\ handler[c] = "read"
  /\ c \in connected \cap open
  /\ HandlerTo(c, "deliver")
  /\ UNCHANGED <<started, joinAddrs, acceptor, dialer, node, owner, open, peerVars,
                 registry, stop, orderly>>

\* The select of the default handler: the message goes to the channel, is
\* dropped, or gives way to ctx.Done.
Deliver(c) ==
  /\ handler[c] = "deliver"
  /\ HandlerTo(c, "read")
  /\ UNCHANGED <<started, joinAddrs, acceptor, dialer, node, owner, open, peerVars,
                 registry, stop, orderly>>

\* After Stop closed the channel both the send, which panics, and ctx.Done are
\* ready, and Go takes either. A panic here ends the process.
DeliverPanics(c) ==
  /\ handler[c] = "deliver"
  /\ MessagesClosed
  /\ stop' = [pc |-> "crashed", todo |-> {}, peer |-> None]
  /\ acceptor' = "exit"
  /\ dialer' = [d \in Dialer |-> "exit"]
  /\ handler' = [k \in Conn |-> "free"]
  /\ node' = [k \in Conn |-> None]
  /\ owner' = [k \in Conn |-> Inbound]
  /\ open' = {}
  /\ connected' = {}
  /\ peers' = [r \in Remote |-> None]
  /\ registry' = [r \in Remote |-> None]
  /\ UNCHANGED <<started, joinAddrs, balance, stuck, orderly>>

ReadFails(c) ==
  /\ handler[c] = "read"
  /\ c \notin connected \cap open
  /\ HandlerTo(c, "disconnect")
  /\ UNCHANGED <<started, joinAddrs, acceptor, dialer, node, owner, open, peerVars,
                 registry, stop, orderly>>

\* peer.disconnect: only the first of its callers calls back.
Disconnect(c) ==
  /\ handler[c] = "disconnect"
  /\ connected' = connected \ {c}
  /\ IF c \in connected
     THEN /\ HandlerTo(c, "publish")
          /\ open' = open \ {c}
          /\ UNCHANGED <<dialer, node, owner, registry, stop>>
     ELSE End(c, "dial")
  /\ UNCHANGED <<started, joinAddrs, acceptor, peers, balance, stuck, orderly>>

\* Mutant: the callback publishes the event and leaves the map alone.
PublishOnly(c) ==
  /\ handler[c] = "publish"
  /\ Announce(node[c], -1)
  /\ End(c, "dial")
  /\ UNCHANGED <<started, joinAddrs, acceptor, connected, peers, stuck, orderly>>

\* handlePeerDisconnected: the event first, then RemovePeer.
Publish(c) ==
  /\ handler[c] = "publish"
  /\ Announce(node[c], -1)
  /\ HandlerTo(c, "remove")
  /\ UNCHANGED <<started, joinAddrs, acceptor, dialer, node, owner, open, connected,
                 peers, stuck, registry, stop, orderly>>

\* RemovePeer knows only the identity. It stops the peer it finds there with
\* the mutex held: when that peer is still connected, its callback comes back
\* to RemovePeer and waits for the mutex for ever.
RemovePeer(r) ==
  LET q == peers[r] IN
  /\ ~stuck
  /\ peers' = [peers EXCEPT ![r] = None]
  /\ connected' = connected \ {q}
  /\ IF q \in connected
     THEN stuck' = TRUE /\ Announce(r, -1)
     ELSE UNCHANGED <<stuck, balance>>

Remove(c) ==
  /\ handler[c] = "remove"
  /\ RemovePeer(node[c])
  /\ IF stuck'
     THEN /\ open' = open \ {peers[node[c]]}
          /\ UNCHANGED <<dialer, node, owner, handler, registry, stop>>
     ELSE End(c, "dial")
  /\ UNCHANGED <<started, joinAddrs, acceptor, orderly>>

Handle(c) ==
  \/ Check(c) \/ AddPeer(c) \/ Greet(c)
  \/ ReadMessage(c) \/ Deliver(c) \/ DeliverPanics(c)
  \/ ReadFails(c) \/ Disconnect(c) \/ Publish(c) \/ Remove(c)

\* The remote node closes the connection, or the network breaks it.
RemoteCloses(c) ==
  /\ c \in open
  /\ open' = open \ {c}
  /\ UNCHANGED <<started, joinAddrs, acceptor, dialer, node, owner, handler, peerVars,
                 registry, stop, orderly>>

-----------------------------------------------------------------------------
(* Stop, one step for each thing it does. *)

StopTo(pc) == stop' = [stop EXCEPT !.pc = pc]

StopMark(old, new) ==
  /\ stop.pc = old
  /\ StopTo(new)
  /\ UNCHANGED <<started, joinAddrs, acceptor, dialer, connVars, peerVars, registry, orderly>>

StopBegin  == MayStop /\ StopMark("up", "cancel")
StopCancel == StopMark("cancel", "transport")

StopTransport ==
  /\ stop.pc = "transport"
  /\ StopTo("peers")
  /\ open' = open \ {registry[r] : r \in Remote}
  /\ registry' = [r \in Remote |-> None]
  /\ UNCHANGED <<started, joinAddrs, acceptor, dialer, node, owner, handler, peerVars, orderly>>

BeingMade ==
  \/ acceptor = "shake"
  \/ \E d \in Dialer : dialer[d] = "shake"
  \/ \E c \in Conn : handler[c] \in {"check", "add"}

StopPeers ==
  /\ stop.pc = "peers"
  /\ ~stuck
  /\ stop' = [stop EXCEPT !.pc = "each", !.todo = {peers[r] : r \in Remote} \ {None}]
  /\ peers' = [r \in Remote |-> None]
  /\ orderly' = ~BeingMade
  /\ UNCHANGED <<started, joinAddrs, acceptor, dialer, connVars, connected, balance,
                 stuck, registry>>

\* Mutant: Stop goes through the peers without closing their connections.
StopPeerKeeps(c) ==
  /\ stop.pc = "each"
  /\ c \in stop.todo
  /\ stop' = [stop EXCEPT !.todo = @ \ {c}]
  /\ UNCHANGED <<started, joinAddrs, acceptor, dialer, connVars, peerVars, registry, orderly>>

StopPeer(c) ==
  /\ stop.pc = "each"
  /\ c \in stop.todo
  /\ connected' = connected \ {c}
  /\ open' = open \ {c}
  /\ stop' = IF c \in connected
             THEN [pc |-> "publish", todo |-> stop.todo \ {c}, peer |-> node[c]]
             ELSE [stop EXCEPT !.todo = @ \ {c}]
  /\ UNCHANGED <<started, joinAddrs, acceptor, dialer, node, owner, handler, peers,
                 balance, stuck, registry, orderly>>

StopPublish ==
  /\ stop.pc = "publish"
  /\ Announce(stop.peer, -1)
  /\ StopTo("remove")
  /\ UNCHANGED <<started, joinAddrs, acceptor, dialer, connVars, connected, peers,
                 stuck, registry, orderly>>

StopRemove ==
  /\ stop.pc = "remove"
  /\ RemovePeer(stop.peer)
  /\ open' = open \ {peers[stop.peer]}
  /\ stop' = IF stuck' THEN stop ELSE [pc |-> "each", todo |-> stop.todo, peer |-> None]
  /\ UNCHANGED <<started, joinAddrs, acceptor, dialer, node, owner, handler, registry, orderly>>

\* close(t.messages), before the goroutines that send on it have ended.
StopMessages == stop.todo = {} /\ StopMark("each", "events")
StopEvents   == StopMark("events", "wait")

\* wg.Wait: acceptLoop, the dialers and the inbound handlers have ended.
Ended ==
  /\ acceptor \in {"off", "exit"}
  /\ \A d \in Dialer : dialer[d] \in {"off", "exit"}
  /\ \A c \in Conn : handler[c] = "free"

\* Mutant: Stop does not wait for the goroutines.
StopWaitsNot == StopMark("wait", "stopped")

StopWait == Ended /\ StopMark("wait", "stopped")

StopStep ==
  \/ StopCancel \/ StopTransport \/ StopPeers \/ StopPublish \/ StopRemove
  \/ StopMessages \/ StopEvents \/ StopWait
  \/ \E c \in Conn : StopPeer(c)

-----------------------------------------------------------------------------
Dial(d) ==
  DialStart(d) \/ DialRefused(d) \/ DialFails(d) \/ DialOk(d) \/ PauseOver(d) \/ DialExit(d)

Next ==
  \/ Start
  \/ \E a \in Addr : AddJoinAddr(a) \/ RemoveJoinAddr(a)
  \/ AcceptConn \/ AcceptOk \/ AcceptFails \/ AcceptExit
  \/ \E d \in Dialer : Dial(d)
  \/ \E c \in Conn : Handle(c) \/ RemoteCloses(c)
  \/ StopBegin \/ StopStep

Spec == Init /\ [][Next]_vars

\* Goroutines that are ready run; a handshake ends (by the dialer's deadlines at
\* the latest, unless the dialer hangs in TLS: AcceptGoesOn in Transport); and a
\* dial that is tried again and again gets through some day, for a node that
\* answers. Nobody need dial us, send or close.
Fairness ==
  /\ WF_vars(StopStep)
  /\ WF_vars(AcceptOk \/ AcceptFails)
  /\ WF_vars(AcceptExit)
  /\ \A c \in Conn : WF_vars(Handle(c))
  /\ \A d \in Dialer :
       /\ WF_vars(Dial(d))
       /\ SF_vars(DialStart(d))
       /\ SF_vars(DialOk(d))
       /\ SF_vars(DialExit(d))

FairSpec == Spec /\ Fairness
-----------------------------------------------------------------------------
\* A name is in use while a goroutine has it; a dialer with a connection is
\* busy with that one; nothing dials before Start.
NamesOK ==
  /\ \A c \in Conn : node[c] = None <=> handler[c] = "free"
  /\ \A c \in Conn : owner[c] # Inbound => dialer[owner[c]] = "handling"
  /\ \A b, c \in Conn : owner[b] = owner[c] /\ owner[c] # Inbound => b = c
  /\ ~started /\ stop.pc = "up" => \A d \in Dialer : dialer[d] = "off"

TypeOK ==
  /\ started \in BOOLEAN
  /\ joinAddrs \subseteq Addr
  /\ acceptor \in {"off", "accept", "shake", "exit"}
  /\ dialer \in [Dialer -> {"off", "dial", "shake", "pause", "handling", "exit"}]
  /\ node \in [Conn -> Remote \cup {None}]
  /\ owner \in [Conn -> Dialer \cup {Inbound}]
  /\ open \subseteq Conn
  /\ handler \in [Conn -> HandlerPcs]
  /\ connected \subseteq Conn
  /\ peers \in [Remote -> Conn \cup {None}]
  /\ registry \in [Remote -> Conn \cup {None}]
  /\ balance \in [Remote -> Int]
  /\ stop \in [pc : StopPcs, todo : SUBSET Conn, peer : Remote \cup {None}]
  /\ stuck \in BOOLEAN
  /\ orderly \in BOOLEAN
  /\ NamesOK

\* A slot of the peer manager belongs to a connection to that node whose
\* goroutine will still free it: no dead entry makes maintainConnection
\* take the node for connected for ever (topology.go:433).
NoDeadEntry ==
  \A r \in Remote :
    peers[r] # None => node[peers[r]] = r /\ handler[peers[r]] \in Managed

\* Until Stop takes the peers away, a goroutine past AddPeer is the one its
\* slot belongs to, so that RemovePeer, which is told an identity and not a
\* peer, removes the peer that disconnected and no newer one.
HandlersOwnSlots ==
  Managing => \A c \in Conn : handler[c] \in Managed => peers[node[c]] = c

\* Until then RemovePeer never stops a connected peer with its mutex held,
\* which would be a deadlock (peer.go:200-213).
NoSelfDeadlock == Managing => ~stuck

\* When Stop has returned, every connection is closed, every peer
\* disconnected and no goroutine left (interface.go:156-158).
StopClosesAll ==
  stop.pc = "stopped" => open = {} /\ connected = {} /\ Ended

\* What subscribers are told about each node alternates, as Presence says.
presence ==
  [r \in Remote |-> IF ~Managing THEN "over"
                    ELSE IF peers[r] = None THEN "absent"
                    ELSE IF balance[r] = 1 THEN "connected" ELSE "disconnected"]

P == INSTANCE Presence

ImplementsPresence == P!Spec

\* A node that answers, with a goroutine that dials it, is a connected peer
\* in the end if connections stop breaking (README.md:565) and Stop is not
\* called.
Live(r) == peers[r] # None /\ peers[r] \in connected \cap open

Reconnects ==
  (<>[][\A c \in Conn : ~RemoteCloses(c)]_vars) =>
    \A d \in Dialer : [](dialer[d] # "off" => <>[](Live(Serves[d[1]]) \/ stop.pc # "up"))

\* When no connection was being made as Stop took the peers away, none is made
\* any more and no goroutine waits for its own mutex; and before Stop waits for
\* the goroutines, all that they might wait for has ended: every connection is
\* closed and every peer disconnected (topology.go:166-193).
OrderlyStop ==
  orderly =>
    /\ ~stuck
    /\ ~BeingMade
    /\ StopIn({"events", "wait", "stopped"}) => open = {} /\ connected = {}

\* Stop returns, if no connection was being made when it stopped the peers
\* and the process does not panic on its way.
StopReturnsOrderly == (stop.pc = "each" /\ orderly) ~> (StopIn({"stopped", "crashed"}))

\* Stop blocks until connections are closed and goroutines have terminated
\* (interface.go:156-158): it returns.
StopReturns == (stop.pc = "cancel") ~> (StopIn({"stopped", "crashed"}))

\* No goroutine waits for a mutex that it holds. Not so during Stop, when a node
\* has two connections: README, section 5.
NeverStuck == ~stuck

\* Shutting down does not crash the process. It may: README, section 5.
NeverPanics == stop.pc # "crashed"
=============================================================================
