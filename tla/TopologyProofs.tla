--------------------------- MODULE TopologyProofs ---------------------------
(***************************************************************************)
(* What holds of Topology for any number of remote nodes, addresses,       *)
(* dialers and connections.  TypeOK is inductive by itself; SlotInv adds   *)
(* who is in the peer manager's map, who is connected and what was         *)
(* announced, which together make the invariants and the refinement of     *)
(* Presence inductive.  OrderlyInv says what Stop has left to do when no   *)
(* connection was being made, DialerInv that no goroutine that dials is    *)
(* ever lost.                                                              *)
(***************************************************************************)
EXTENDS Topology, TLAPS

\* Pcs of a goroutine whose peer has not been disconnected by it.
Early == {"greet", "read", "deliver", "disconnect"}

\* An open connection has a goroutine that will close it.
OpenHandled == \A c \in open : handler[c] # "free"

ConnectedEarly == \A c \in connected : handler[c] \in Early

\* A peer in the map is connected until its goroutine disconnects it.
InMapConnected ==
  \A r \in Remote :
    peers[r] # None /\ handler[peers[r]] \in Early => peers[r] \in connected

\* The peers Stop has yet to stop are no longer in the map.
TodoNotInMap ==
  \A c \in stop.todo : handler[c] \in Managed /\ \A r \in Remote : peers[r] # c

\* Stop is about to remove the entry of a node.
StopKnowsPeer == stop.pc \in {"publish", "remove"} => stop.peer \in Remote

MapInv ==
  /\ NoDeadEntry
  /\ OpenHandled
  /\ ConnectedEarly
  /\ InMapConnected
  /\ TodoNotInMap
  /\ StopKnowsPeer

\* One PeerConnected event for a peer in the map that has not published its
\* PeerDisconnected event yet.
BalanceOK ==
  \A r \in Remote :
    balance[r] = IF peers[r] # None /\ handler[peers[r]] # "remove" THEN 1 ELSE 0

SlotInv == MapInv /\ (Managing => ~stuck /\ HandlersOwnSlots /\ BalanceOK)

StoppedEnded == stop.pc = "stopped" => Ended

\* When no connection was being made as Stop took the peers away, the peers it
\* has yet to stop are the only ones connected, and theirs the only connections.
OrderlyInv ==
  orderly =>
    /\ ~Managing
    /\ ~stuck
    /\ ~BeingMade
    /\ \A r \in Remote : peers[r] = None
    /\ open \subseteq stop.todo
    /\ connected \subseteq stop.todo
    /\ StopIn({"events", "wait", "stopped"}) => stop.todo = {}

-----------------------------------------------------------------------------
(* Types. *)

LEMMA AnnounceType ==
  ASSUME balance \in [Remote -> Int], NEW r, NEW k \in Int, Announce(r, k)
  PROVE  balance' \in [Remote -> Int]
<1>1. CASE r \in Remote
  <2>1. balance[r] + k \in Int
    BY <1>1
  <2> QED
    BY <1>1, <2>1 DEF Announce
<1>2. CASE r \notin Remote
  BY <1>2 DEF Announce
<1> QED
  BY <1>1, <1>2

LEMMA DialerServes == ASSUME NEW d \in Dialer PROVE Serves[d[1]] \in Remote
  BY TopologyAssumption DEF TopologyAssumption, Dialer

LEMMA TypeInit == Init => TypeOK
<1> SUFFICES ASSUME Init PROVE TypeOK
  OBVIOUS
<1>1. NamesOK
  BY DEF Init, NamesOK
<1>2. /\ dialer \in [Dialer -> {"off", "dial", "shake", "pause", "handling", "exit"}]
      /\ handler \in [Conn -> HandlerPcs]
      /\ stop \in [pc : StopPcs, todo : SUBSET Conn, peer : Remote \cup {None}]
  BY DEF Init, StopPcs, HandlerPcs
<1>3. /\ node \in [Conn -> Remote \cup {None}]
      /\ owner \in [Conn -> Dialer \cup {Inbound}]
      /\ peers \in [Remote -> Conn \cup {None}]
      /\ registry \in [Remote -> Conn \cup {None}]
      /\ balance \in [Remote -> Int]
  BY DEF Init
<1> QED
  BY <1>1, <1>2, <1>3, TopologyAssumption DEF Init, TypeOK, TopologyAssumption

\* The names are related as they should be, for every action.
LEMMA NamesStep == ASSUME TypeOK, [Next]_vars PROVE NamesOK'
<1> USE TopologyAssumption DEF TopologyAssumption
<1>1. CASE Start
  BY <1>1 DEF Start, connVars, peerVars, TypeOK, NamesOK
<1>2. ASSUME NEW a \in Addr, AddJoinAddr(a) PROVE NamesOK'
  <2>1. CASE UNCHANGED dialer
    BY <1>2, <2>1 DEF AddJoinAddr, connVars, peerVars, TypeOK, NamesOK
  <2>2. ASSUME NEW d \in Dialer, started, dialer[d] = "off",
               dialer' = [dialer EXCEPT ![d] = "dial"]
        PROVE  NamesOK'
    BY <1>2, <2>2 DEF AddJoinAddr, connVars, peerVars, TypeOK, NamesOK
  <2> QED
    BY <1>2, <2>1, <2>2 DEF AddJoinAddr, Dialer
<1>3. ASSUME NEW a \in Addr, RemoveJoinAddr(a) PROVE NamesOK'
  BY <1>3 DEF RemoveJoinAddr, connVars, peerVars, TypeOK, NamesOK
<1>4. CASE AcceptConn
  BY <1>4 DEF AcceptConn, connVars, peerVars, TypeOK, NamesOK
<1>5. CASE AcceptOk
  BY <1>5 DEF AcceptOk, Establish, peerVars, TypeOK, NamesOK
<1>6. CASE AcceptFails
  BY <1>6 DEF AcceptFails, connVars, peerVars, TypeOK, NamesOK
<1>7. CASE AcceptExit
  BY <1>7 DEF AcceptExit, connVars, peerVars, TypeOK, NamesOK
<1>8. ASSUME NEW d \in Dialer, DialStart(d) PROVE NamesOK'
  BY <1>8 DEF DialStart, DialTo, connVars, peerVars, TypeOK, NamesOK
<1>9. ASSUME NEW d \in Dialer, DialRefused(d) PROVE NamesOK'
  BY <1>9 DEF DialRefused, DialTo, connVars, peerVars, TypeOK, NamesOK
<1>10. ASSUME NEW d \in Dialer, DialFails(d) PROVE NamesOK'
  BY <1>10 DEF DialFails, DialTo, connVars, peerVars, TypeOK, NamesOK
<1>11. ASSUME NEW d \in Dialer, DialOk(d) PROVE NamesOK'
  BY <1>11, DialerServes DEF DialOk, Establish, peerVars, TypeOK, NamesOK
<1>12. ASSUME NEW d \in Dialer, PauseOver(d) PROVE NamesOK'
  BY <1>12 DEF PauseOver, DialTo, connVars, peerVars, TypeOK, NamesOK
<1>13. ASSUME NEW d \in Dialer, DialExit(d) PROVE NamesOK'
  BY <1>13 DEF DialExit, DialTo, connVars, peerVars, TypeOK, NamesOK
<1>14. ASSUME NEW c \in Conn, Check(c) PROVE NamesOK'
  BY <1>14 DEF Check, HandlerTo, End, peerVars, TypeOK, NamesOK
<1>15. ASSUME NEW c \in Conn, AddPeer(c) PROVE NamesOK'
  BY <1>15 DEF AddPeer, HandlerTo, End, peerVars, Announce, TypeOK, NamesOK
<1>16. ASSUME NEW c \in Conn, Greet(c) PROVE NamesOK'
  BY <1>16 DEF Greet, HandlerTo, peerVars, TypeOK, NamesOK
<1>17. ASSUME NEW c \in Conn, ReadMessage(c) PROVE NamesOK'
  BY <1>17 DEF ReadMessage, HandlerTo, peerVars, TypeOK, NamesOK
<1>18. ASSUME NEW c \in Conn, Deliver(c) PROVE NamesOK'
  BY <1>18 DEF Deliver, HandlerTo, peerVars, TypeOK, NamesOK
<1>19. ASSUME NEW c \in Conn, DeliverPanics(c) PROVE NamesOK'
  BY <1>19 DEF DeliverPanics, peerVars, TypeOK, NamesOK
<1>20. ASSUME NEW c \in Conn, ReadFails(c) PROVE NamesOK'
  BY <1>20 DEF ReadFails, HandlerTo, peerVars, TypeOK, NamesOK
<1>21. ASSUME NEW c \in Conn, Disconnect(c) PROVE NamesOK'
  BY <1>21 DEF Disconnect, HandlerTo, End, TypeOK, NamesOK
<1>22. ASSUME NEW c \in Conn, Publish(c) PROVE NamesOK'
  BY <1>22 DEF Publish, HandlerTo, Announce, TypeOK, NamesOK
<1>23. ASSUME NEW c \in Conn, Remove(c) PROVE NamesOK'
  BY <1>23 DEF Remove, RemovePeer, End, Announce, TypeOK, NamesOK
<1>24. ASSUME NEW c \in Conn, RemoteCloses(c) PROVE NamesOK'
  BY <1>24 DEF RemoteCloses, peerVars, TypeOK, NamesOK
<1>25. CASE StopBegin
  BY <1>25 DEF StopBegin, StopMark, StopTo, connVars, peerVars, TypeOK, NamesOK
<1>26. CASE StopCancel
  BY <1>26 DEF StopCancel, StopMark, StopTo, connVars, peerVars, TypeOK, NamesOK
<1>27. CASE StopTransport
  BY <1>27 DEF StopTransport, StopTo, peerVars, TypeOK, NamesOK
<1>28. CASE StopPeers
  BY <1>28 DEF StopPeers, connVars, TypeOK, NamesOK
<1>29. ASSUME NEW c \in Conn, StopPeer(c) PROVE NamesOK'
  BY <1>29 DEF StopPeer, TypeOK, NamesOK
<1>30. CASE StopPublish
  BY <1>30 DEF StopPublish, StopTo, Announce, connVars, TypeOK, NamesOK
<1>31. CASE StopRemove
  <2>1. stop.pc # "up" /\ stop'.pc # "up"
    BY <1>31 DEF StopRemove, TypeOK
  <2>2. UNCHANGED <<started, dialer, node, owner, handler>>
    BY <1>31 DEF StopRemove
  <2> QED
    BY <2>1, <2>2 DEF TypeOK, NamesOK
<1>32. CASE StopMessages
  BY <1>32 DEF StopMessages, StopMark, StopTo, connVars, peerVars, TypeOK, NamesOK
<1>33. CASE StopEvents
  BY <1>33 DEF StopEvents, StopMark, StopTo, connVars, peerVars, TypeOK, NamesOK
<1>34. CASE StopWait
  BY <1>34 DEF StopWait, StopMark, StopTo, connVars, peerVars, TypeOK, NamesOK
<1>35. CASE UNCHANGED vars
  BY <1>35 DEF vars, connVars, peerVars, TypeOK, NamesOK
<1> QED
  BY <1>1, <1>2, <1>3, <1>4, <1>5, <1>6, <1>7, <1>8, <1>9, <1>10, <1>11, 
     <1>12, <1>13, <1>14, <1>15, <1>16, <1>17, <1>18, <1>19, <1>20, <1>21, 
     <1>22, <1>23, <1>24, <1>25, <1>26, <1>27, <1>28, <1>29, <1>30, <1>31, 
     <1>32, <1>33, <1>34, <1>35
  DEF Next, Dial, Handle, StopStep

LEMMA TypeStep == ASSUME TypeOK, [Next]_vars PROVE TypeOK'
<1> USE TopologyAssumption, NamesStep DEF TopologyAssumption
<1>1. CASE Start
  BY <1>1 DEF Start, connVars, peerVars, TypeOK, StopPcs, HandlerPcs
<1>2. ASSUME NEW a \in Addr, AddJoinAddr(a) PROVE TypeOK'
  BY <1>2 DEF AddJoinAddr, connVars, peerVars, TypeOK, StopPcs, HandlerPcs
<1>3. ASSUME NEW a \in Addr, RemoveJoinAddr(a) PROVE TypeOK'
  BY <1>3 DEF RemoveJoinAddr, connVars, peerVars, TypeOK, StopPcs, HandlerPcs
<1>4. CASE AcceptConn
  BY <1>4 DEF AcceptConn, connVars, peerVars, TypeOK, StopPcs, HandlerPcs
<1>5. CASE AcceptOk
  BY <1>5 DEF AcceptOk, Establish, peerVars, TypeOK, StopPcs, HandlerPcs
<1>6. CASE AcceptFails
  BY <1>6 DEF AcceptFails, connVars, peerVars, TypeOK, StopPcs, HandlerPcs
<1>7. CASE AcceptExit
  BY <1>7 DEF AcceptExit, connVars, peerVars, TypeOK, StopPcs, HandlerPcs
<1>8. ASSUME NEW d \in Dialer, DialStart(d) PROVE TypeOK'
  BY <1>8 DEF DialStart, DialTo, connVars, peerVars, TypeOK, StopPcs, HandlerPcs
<1>9. ASSUME NEW d \in Dialer, DialRefused(d) PROVE TypeOK'
  BY <1>9 DEF DialRefused, DialTo, connVars, peerVars, TypeOK, StopPcs, HandlerPcs
<1>10. ASSUME NEW d \in Dialer, DialFails(d) PROVE TypeOK'
  BY <1>10 DEF DialFails, DialTo, connVars, peerVars, TypeOK, StopPcs, HandlerPcs
<1>11. ASSUME NEW d \in Dialer, DialOk(d) PROVE TypeOK'
  BY <1>11, DialerServes DEF DialOk, Establish, peerVars, TypeOK, HandlerPcs
<1>12. ASSUME NEW d \in Dialer, PauseOver(d) PROVE TypeOK'
  BY <1>12 DEF PauseOver, DialTo, connVars, peerVars, TypeOK, StopPcs, HandlerPcs
<1>13. ASSUME NEW d \in Dialer, DialExit(d) PROVE TypeOK'
  BY <1>13 DEF DialExit, DialTo, connVars, peerVars, TypeOK, StopPcs, HandlerPcs
<1>14. ASSUME NEW c \in Conn, Check(c) PROVE TypeOK'
  BY <1>14 DEF Check, HandlerTo, End, peerVars, TypeOK, StopPcs, HandlerPcs
<1>15. ASSUME NEW c \in Conn, AddPeer(c) PROVE TypeOK'
  <2>1. balance' \in [Remote -> Int]
    BY <1>15, AnnounceType DEF AddPeer, peerVars, TypeOK
  <2> QED
    BY <2>1, <1>15 DEF AddPeer, HandlerTo, End, peerVars, TypeOK, StopPcs, HandlerPcs
<1>16. ASSUME NEW c \in Conn, Greet(c) PROVE TypeOK'
  BY <1>16 DEF Greet, HandlerTo, peerVars, TypeOK, StopPcs, HandlerPcs
<1>17. ASSUME NEW c \in Conn, ReadMessage(c) PROVE TypeOK'
  BY <1>17 DEF ReadMessage, HandlerTo, peerVars, TypeOK, StopPcs, HandlerPcs
<1>18. ASSUME NEW c \in Conn, Deliver(c) PROVE TypeOK'
  BY <1>18 DEF Deliver, HandlerTo, peerVars, TypeOK, StopPcs, HandlerPcs
<1>19. ASSUME NEW c \in Conn, DeliverPanics(c) PROVE TypeOK'
  BY <1>19 DEF DeliverPanics, peerVars, TypeOK, StopPcs, HandlerPcs
<1>20. ASSUME NEW c \in Conn, ReadFails(c) PROVE TypeOK'
  BY <1>20 DEF ReadFails, HandlerTo, peerVars, TypeOK, StopPcs, HandlerPcs
<1>21. ASSUME NEW c \in Conn, Disconnect(c) PROVE TypeOK'
  BY <1>21 DEF Disconnect, HandlerTo, End, TypeOK, StopPcs, HandlerPcs
<1>22. ASSUME NEW c \in Conn, Publish(c) PROVE TypeOK'
  <2>1. balance' \in [Remote -> Int]
    BY <1>22, AnnounceType DEF Publish, TypeOK
  <2> QED
    BY <2>1, <1>22 DEF Publish, HandlerTo, TypeOK, StopPcs, HandlerPcs
<1>23. ASSUME NEW c \in Conn, Remove(c) PROVE TypeOK'
  <2>1. balance' \in [Remote -> Int]
    BY <1>23, AnnounceType DEF Remove, RemovePeer, TypeOK
  <2>2. peers' \in [Remote -> Conn \cup {None}]
    BY <1>23 DEF Remove, RemovePeer, TypeOK
  <2>3. stuck' \in BOOLEAN /\ connected' \subseteq Conn
    BY <1>23 DEF Remove, RemovePeer, TypeOK
  <2>4. CASE stuck'
    BY <2>1, <2>2, <2>3, <2>4, <1>23 DEF Remove, TypeOK
  <2>5. CASE ~stuck'
    BY <2>1, <2>2, <2>3, <2>5, <1>23 DEF Remove, End, TypeOK, HandlerPcs
  <2> QED
    BY <2>4, <2>5
<1>24. ASSUME NEW c \in Conn, RemoteCloses(c) PROVE TypeOK'
  BY <1>24 DEF RemoteCloses, peerVars, TypeOK, StopPcs, HandlerPcs
<1>25. CASE StopBegin
  BY <1>25 DEF StopBegin, StopMark, StopTo, connVars, peerVars, TypeOK, StopPcs,
      HandlerPcs
<1>26. CASE StopCancel
  BY <1>26 DEF StopCancel, StopMark, StopTo, connVars, peerVars, TypeOK, StopPcs,
      HandlerPcs
<1>27. CASE StopTransport
  BY <1>27 DEF StopTransport, StopTo, peerVars, TypeOK, StopPcs, HandlerPcs
<1>28. CASE StopPeers
  <2>1. {peers[r] : r \in Remote} \ {None} \subseteq Conn
    BY DEF TypeOK
  <2>2. stop' \in [pc : StopPcs, todo : SUBSET Conn, peer : Remote \cup {None}]
    BY <1>28, <2>1 DEF StopPeers, TypeOK, StopPcs
  <2>3. orderly' \in BOOLEAN
    BY <1>28 DEF StopPeers
  <2> QED
    BY <1>28, <2>2, <2>3 DEF StopPeers, connVars, TypeOK
<1>29. ASSUME NEW c \in Conn, StopPeer(c) PROVE TypeOK'
  BY <1>29 DEF StopPeer, TypeOK, StopPcs, HandlerPcs
<1>30. CASE StopPublish
  <2>1. balance' \in [Remote -> Int]
    BY <1>30, AnnounceType DEF StopPublish, TypeOK
  <2> QED
    BY <2>1, <1>30 DEF StopPublish, StopTo, connVars, TypeOK, StopPcs, HandlerPcs
<1>31. CASE StopRemove
  <2>1. balance' \in [Remote -> Int]
    BY <1>31, AnnounceType DEF StopRemove, RemovePeer, TypeOK
  <2>2. stop' \in [pc : StopPcs, todo : SUBSET Conn, peer : Remote \cup {None}]
    BY <1>31 DEF StopRemove, TypeOK, StopPcs
  <2>3. peers' \in [Remote -> Conn \cup {None}]
    BY <1>31 DEF StopRemove, RemovePeer, TypeOK
  <2> QED
    BY <2>1, <2>2, <2>3, <1>31 DEF StopRemove, RemovePeer, TypeOK
<1>32. CASE StopMessages
  BY <1>32 DEF StopMessages, StopMark, StopTo, connVars, peerVars, TypeOK, StopPcs,
      HandlerPcs
<1>33. CASE StopEvents
  BY <1>33 DEF StopEvents, StopMark, StopTo, connVars, peerVars, TypeOK, StopPcs,
      HandlerPcs
<1>34. CASE StopWait
  BY <1>34 DEF StopWait, StopMark, StopTo, connVars, peerVars, TypeOK, StopPcs,
      HandlerPcs
<1>35. CASE UNCHANGED vars
  BY <1>35 DEF vars, connVars, peerVars, TypeOK, StopPcs, HandlerPcs
<1> QED
  BY <1>1, <1>2, <1>3, <1>4, <1>5, <1>6, <1>7, <1>8, <1>9, <1>10, <1>11, 
     <1>12, <1>13, <1>14, <1>15, <1>16, <1>17, <1>18, <1>19, <1>20, <1>21, 
     <1>22, <1>23, <1>24, <1>25, <1>26, <1>27, <1>28, <1>29, <1>30, <1>31, 
     <1>32, <1>33, <1>34, <1>35
  DEF Next, Dial, Handle, StopStep

-----------------------------------------------------------------------------
(* The map of the peer manager. *)

LEMMA MapStep == ASSUME TypeOK, TypeOK', MapInv, [Next]_vars PROVE MapInv'
<1> USE TopologyAssumption DEF TopologyAssumption, Managed, Early
<1>1. CASE Start
  BY <1>1 DEF Start, connVars, peerVars, TypeOK, NamesOK, MapInv, NoDeadEntry,
      OpenHandled, ConnectedEarly, InMapConnected, TodoNotInMap, StopKnowsPeer
<1>2. ASSUME NEW a \in Addr, AddJoinAddr(a) PROVE MapInv'
  BY <1>2 DEF AddJoinAddr, connVars, peerVars, TypeOK, NamesOK, MapInv,
      NoDeadEntry, OpenHandled, ConnectedEarly, InMapConnected, TodoNotInMap, StopKnowsPeer
<1>3. ASSUME NEW a \in Addr, RemoveJoinAddr(a) PROVE MapInv'
  BY <1>3 DEF RemoveJoinAddr, connVars, peerVars, TypeOK, NamesOK, MapInv,
      NoDeadEntry, OpenHandled, ConnectedEarly, InMapConnected, TodoNotInMap, StopKnowsPeer
<1>4. CASE AcceptConn
  BY <1>4 DEF AcceptConn, connVars, peerVars, TypeOK, NamesOK, MapInv, NoDeadEntry,
      OpenHandled, ConnectedEarly, InMapConnected, TodoNotInMap, StopKnowsPeer
<1>5. CASE AcceptOk
  BY <1>5 DEF AcceptOk, Establish, peerVars, TypeOK, NamesOK, MapInv, NoDeadEntry,
      OpenHandled, ConnectedEarly, InMapConnected, TodoNotInMap, StopKnowsPeer
<1>6. CASE AcceptFails
  BY <1>6 DEF AcceptFails, connVars, peerVars, TypeOK, NamesOK, MapInv,
      NoDeadEntry, OpenHandled, ConnectedEarly, InMapConnected, TodoNotInMap, StopKnowsPeer
<1>7. CASE AcceptExit
  BY <1>7 DEF AcceptExit, connVars, peerVars, TypeOK, NamesOK, MapInv, NoDeadEntry,
      OpenHandled, ConnectedEarly, InMapConnected, TodoNotInMap, StopKnowsPeer
<1>8. ASSUME NEW d \in Dialer, DialStart(d) PROVE MapInv'
  BY <1>8 DEF DialStart, DialTo, connVars, peerVars, TypeOK, NamesOK, MapInv,
      NoDeadEntry, OpenHandled, ConnectedEarly, InMapConnected, TodoNotInMap, StopKnowsPeer
<1>9. ASSUME NEW d \in Dialer, DialRefused(d) PROVE MapInv'
  BY <1>9 DEF DialRefused, DialTo, connVars, peerVars, TypeOK, NamesOK, MapInv,
      NoDeadEntry, OpenHandled, ConnectedEarly, InMapConnected, TodoNotInMap, StopKnowsPeer
<1>10. ASSUME NEW d \in Dialer, DialFails(d) PROVE MapInv'
  BY <1>10 DEF DialFails, DialTo, connVars, peerVars, TypeOK, NamesOK, MapInv,
      NoDeadEntry, OpenHandled, ConnectedEarly, InMapConnected, TodoNotInMap, StopKnowsPeer
<1>11. ASSUME NEW d \in Dialer, DialOk(d) PROVE MapInv'
  BY <1>11 DEF DialOk, Establish, peerVars, TypeOK, NamesOK, MapInv, NoDeadEntry,
      OpenHandled, ConnectedEarly, InMapConnected, TodoNotInMap, StopKnowsPeer
<1>12. ASSUME NEW d \in Dialer, PauseOver(d) PROVE MapInv'
  BY <1>12 DEF PauseOver, DialTo, connVars, peerVars, TypeOK, NamesOK, MapInv,
      NoDeadEntry, OpenHandled, ConnectedEarly, InMapConnected, TodoNotInMap, StopKnowsPeer
<1>13. ASSUME NEW d \in Dialer, DialExit(d) PROVE MapInv'
  BY <1>13 DEF DialExit, DialTo, connVars, peerVars, TypeOK, NamesOK, MapInv,
      NoDeadEntry, OpenHandled, ConnectedEarly, InMapConnected, TodoNotInMap, StopKnowsPeer
<1>14. ASSUME NEW c \in Conn, Check(c) PROVE MapInv'
  BY <1>14 DEF Check, HandlerTo, End, peerVars, TypeOK, NamesOK, MapInv,
      NoDeadEntry, OpenHandled, ConnectedEarly, InMapConnected, TodoNotInMap, StopKnowsPeer
<1>15. ASSUME NEW c \in Conn, AddPeer(c) PROVE MapInv'
  BY <1>15 DEF AddPeer, HandlerTo, End, peerVars, Announce, TypeOK, NamesOK,
      MapInv, NoDeadEntry, OpenHandled, ConnectedEarly, InMapConnected, TodoNotInMap, StopKnowsPeer
<1>16. ASSUME NEW c \in Conn, Greet(c) PROVE MapInv'
  BY <1>16 DEF Greet, HandlerTo, peerVars, TypeOK, NamesOK, MapInv, NoDeadEntry,
      OpenHandled, ConnectedEarly, InMapConnected, TodoNotInMap, StopKnowsPeer
<1>17. ASSUME NEW c \in Conn, ReadMessage(c) PROVE MapInv'
  BY <1>17 DEF ReadMessage, HandlerTo, peerVars, TypeOK, NamesOK, MapInv,
      NoDeadEntry, OpenHandled, ConnectedEarly, InMapConnected, TodoNotInMap, StopKnowsPeer
<1>18. ASSUME NEW c \in Conn, Deliver(c) PROVE MapInv'
  BY <1>18 DEF Deliver, HandlerTo, peerVars, TypeOK, NamesOK, MapInv, NoDeadEntry,
      OpenHandled, ConnectedEarly, InMapConnected, TodoNotInMap, StopKnowsPeer
<1>19. ASSUME NEW c \in Conn, DeliverPanics(c) PROVE MapInv'
  BY <1>19 DEF DeliverPanics, peerVars, TypeOK, NamesOK, MapInv, NoDeadEntry,
      OpenHandled, ConnectedEarly, InMapConnected, TodoNotInMap, StopKnowsPeer
<1>20. ASSUME NEW c \in Conn, ReadFails(c) PROVE MapInv'
  BY <1>20 DEF ReadFails, HandlerTo, peerVars, TypeOK, NamesOK, MapInv,
      NoDeadEntry, OpenHandled, ConnectedEarly, InMapConnected, TodoNotInMap, StopKnowsPeer
<1>21. ASSUME NEW c \in Conn, Disconnect(c) PROVE MapInv'
  BY <1>21 DEF Disconnect, HandlerTo, End, TypeOK, NamesOK, MapInv, NoDeadEntry,
      OpenHandled, ConnectedEarly, InMapConnected, TodoNotInMap, StopKnowsPeer
<1>22. ASSUME NEW c \in Conn, Publish(c) PROVE MapInv'
  BY <1>22 DEF Publish, HandlerTo, Announce, TypeOK, NamesOK, MapInv, NoDeadEntry,
      OpenHandled, ConnectedEarly, InMapConnected, TodoNotInMap, StopKnowsPeer
<1>23. ASSUME NEW c \in Conn, Remove(c) PROVE MapInv'
  BY <1>23 DEF Remove, RemovePeer, End, Announce, TypeOK, NamesOK, MapInv,
      NoDeadEntry, OpenHandled, ConnectedEarly, InMapConnected, TodoNotInMap, StopKnowsPeer
<1>24. ASSUME NEW c \in Conn, RemoteCloses(c) PROVE MapInv'
  BY <1>24 DEF RemoteCloses, peerVars, TypeOK, NamesOK, MapInv, NoDeadEntry,
      OpenHandled, ConnectedEarly, InMapConnected, TodoNotInMap, StopKnowsPeer
<1>25. CASE StopBegin
  BY <1>25 DEF StopBegin, StopMark, StopTo, connVars, peerVars, TypeOK, NamesOK,
      MapInv, NoDeadEntry, OpenHandled, ConnectedEarly, InMapConnected, TodoNotInMap, StopKnowsPeer
<1>26. CASE StopCancel
  BY <1>26 DEF StopCancel, StopMark, StopTo, connVars, peerVars, TypeOK, NamesOK,
      MapInv, NoDeadEntry, OpenHandled, ConnectedEarly, InMapConnected, TodoNotInMap, StopKnowsPeer
<1>27. CASE StopTransport
  BY <1>27 DEF StopTransport, StopTo, peerVars, TypeOK, NamesOK, MapInv,
      NoDeadEntry, OpenHandled, ConnectedEarly, InMapConnected, TodoNotInMap, StopKnowsPeer
<1>28. CASE StopPeers
  <2>1. /\ peers' = [r \in Remote |-> None]
        /\ stop'.pc = "each"
        /\ stop'.todo = {peers[r] : r \in Remote} \ {None}
        /\ UNCHANGED <<node, owner, open, handler, connected>>
    BY <1>28 DEF StopPeers, connVars, TypeOK
  <2>2. \A c \in stop'.todo : handler[c] \in Managed
    BY <2>1 DEF MapInv, NoDeadEntry, TypeOK
  <2>3. TodoNotInMap' /\ NoDeadEntry' /\ InMapConnected'
    BY <2>1, <2>2 DEF TodoNotInMap, NoDeadEntry, InMapConnected, TypeOK
  <2> QED
    BY <2>1, <2>3 DEF MapInv, OpenHandled, ConnectedEarly, StopKnowsPeer
<1>29. ASSUME NEW c \in Conn, StopPeer(c) PROVE MapInv'
  BY <1>29 DEF StopPeer, TypeOK, NamesOK, MapInv, NoDeadEntry, OpenHandled,
      ConnectedEarly, InMapConnected, TodoNotInMap, StopKnowsPeer
<1>30. CASE StopPublish
  BY <1>30 DEF StopPublish, StopTo, Announce, connVars, TypeOK, NamesOK, MapInv,
      NoDeadEntry, OpenHandled, ConnectedEarly, InMapConnected, TodoNotInMap, StopKnowsPeer
<1>31. CASE StopRemove
  <2> DEFINE q == peers[stop.peer]
  <2>1. /\ stop.peer \in Remote
        /\ peers' = [peers EXCEPT ![stop.peer] = None]
        /\ connected' = connected \ {q}
        /\ open' = open \ {q}
        /\ UNCHANGED <<node, handler>>
    BY <1>31 DEF StopRemove, RemovePeer, MapInv, StopKnowsPeer
  <2>0. /\ stop'.todo = stop.todo
        /\ stop'.pc \in {"publish", "remove"} => stop'.peer = stop.peer
    BY <1>31 DEF StopRemove
  <2>2. \A r \in Remote : peers'[r] # None => peers'[r] = peers[r] /\ peers[r] # q
    BY <2>1 DEF TypeOK, MapInv, NoDeadEntry
  <2> HIDE DEF q
  <2>3. NoDeadEntry' /\ InMapConnected'
    BY <2>1, <2>2 DEF MapInv, NoDeadEntry, InMapConnected, TypeOK
  <2>4. OpenHandled' /\ ConnectedEarly' /\ TodoNotInMap' /\ StopKnowsPeer'
    BY <2>0, <2>1, <2>2 DEF MapInv, OpenHandled, ConnectedEarly, TodoNotInMap,
        StopKnowsPeer, TypeOK
  <2> QED
    BY <2>3, <2>4 DEF MapInv
<1>32. CASE StopMessages
  BY <1>32 DEF StopMessages, StopMark, StopTo, connVars, peerVars, TypeOK, NamesOK,
      MapInv, NoDeadEntry, OpenHandled, ConnectedEarly, InMapConnected, TodoNotInMap, StopKnowsPeer
<1>33. CASE StopEvents
  BY <1>33 DEF StopEvents, StopMark, StopTo, connVars, peerVars, TypeOK, NamesOK,
      MapInv, NoDeadEntry, OpenHandled, ConnectedEarly, InMapConnected, TodoNotInMap, StopKnowsPeer
<1>34. CASE StopWait
  BY <1>34 DEF StopWait, StopMark, StopTo, connVars, peerVars, TypeOK, NamesOK,
      MapInv, NoDeadEntry, OpenHandled, ConnectedEarly, InMapConnected, TodoNotInMap, StopKnowsPeer
<1>35. CASE UNCHANGED vars
  BY <1>35 DEF vars, connVars, peerVars, TypeOK, NamesOK, MapInv, NoDeadEntry,
      OpenHandled, ConnectedEarly, InMapConnected, TodoNotInMap, StopKnowsPeer
<1> QED
  BY <1>1, <1>2, <1>3, <1>4, <1>5, <1>6, <1>7, <1>8, <1>9, <1>10, <1>11, 
     <1>12, <1>13, <1>14, <1>15, <1>16, <1>17, <1>18, <1>19, <1>20, <1>21, 
     <1>22, <1>23, <1>24, <1>25, <1>26, <1>27, <1>28, <1>29, <1>30, <1>31, 
     <1>32, <1>33, <1>34, <1>35
  DEF Next, Dial, Handle, StopStep

LEMMA SlotStep ==
  ASSUME TypeOK, TypeOK', SlotInv, [Next]_vars
  PROVE  SlotInv'
<1> USE TopologyAssumption, MapStep DEF TopologyAssumption, Managed, Managing, StopIn
<1> SUFFICES ASSUME Managing' PROVE (~stuck /\ HandlersOwnSlots /\ BalanceOK)'
  BY DEF SlotInv
<1>1. CASE Start
  BY <1>1 DEF Start, connVars, peerVars, TypeOK, NamesOK, SlotInv, MapInv,
      NoDeadEntry, ConnectedEarly, HandlersOwnSlots, BalanceOK
<1>2. ASSUME NEW a \in Addr, AddJoinAddr(a) PROVE (~stuck /\ HandlersOwnSlots /\ BalanceOK)'
  BY <1>2 DEF AddJoinAddr, connVars, peerVars, TypeOK, NamesOK, SlotInv, MapInv,
      NoDeadEntry, ConnectedEarly, HandlersOwnSlots, BalanceOK
<1>3. ASSUME NEW a \in Addr, RemoveJoinAddr(a) PROVE (~stuck /\ HandlersOwnSlots /\ BalanceOK)'
  BY <1>3 DEF RemoveJoinAddr, connVars, peerVars, TypeOK, NamesOK, SlotInv, MapInv,
      NoDeadEntry, ConnectedEarly, HandlersOwnSlots, BalanceOK
<1>4. CASE AcceptConn
  BY <1>4 DEF AcceptConn, connVars, peerVars, TypeOK, NamesOK, SlotInv, MapInv,
      NoDeadEntry, ConnectedEarly, HandlersOwnSlots, BalanceOK
<1>5. CASE AcceptOk
  BY <1>5 DEF AcceptOk, Establish, peerVars, TypeOK, NamesOK, SlotInv, MapInv,
      NoDeadEntry, ConnectedEarly, HandlersOwnSlots, BalanceOK
<1>6. CASE AcceptFails
  BY <1>6 DEF AcceptFails, connVars, peerVars, TypeOK, NamesOK, SlotInv, MapInv,
      NoDeadEntry, ConnectedEarly, HandlersOwnSlots, BalanceOK
<1>7. CASE AcceptExit
  BY <1>7 DEF AcceptExit, connVars, peerVars, TypeOK, NamesOK, SlotInv, MapInv,
      NoDeadEntry, ConnectedEarly, HandlersOwnSlots, BalanceOK
<1>8. ASSUME NEW d \in Dialer, DialStart(d) PROVE (~stuck /\ HandlersOwnSlots /\ BalanceOK)'
  BY <1>8 DEF DialStart, DialTo, connVars, peerVars, TypeOK, NamesOK, SlotInv,
      MapInv, NoDeadEntry, ConnectedEarly, HandlersOwnSlots, BalanceOK
<1>9. ASSUME NEW d \in Dialer, DialRefused(d) PROVE (~stuck /\ HandlersOwnSlots /\ BalanceOK)'
  BY <1>9 DEF DialRefused, DialTo, connVars, peerVars, TypeOK, NamesOK, SlotInv,
      MapInv, NoDeadEntry, ConnectedEarly, HandlersOwnSlots, BalanceOK
<1>10. ASSUME NEW d \in Dialer, DialFails(d) PROVE (~stuck /\ HandlersOwnSlots /\ BalanceOK)'
  BY <1>10 DEF DialFails, DialTo, connVars, peerVars, TypeOK, NamesOK, SlotInv,
      MapInv, NoDeadEntry, ConnectedEarly, HandlersOwnSlots, BalanceOK
<1>11. ASSUME NEW d \in Dialer, DialOk(d) PROVE (~stuck /\ HandlersOwnSlots /\ BalanceOK)'
  BY <1>11 DEF DialOk, Establish, peerVars, TypeOK, NamesOK, SlotInv, MapInv,
      NoDeadEntry, ConnectedEarly, HandlersOwnSlots, BalanceOK
<1>12. ASSUME NEW d \in Dialer, PauseOver(d) PROVE (~stuck /\ HandlersOwnSlots /\ BalanceOK)'
  BY <1>12 DEF PauseOver, DialTo, connVars, peerVars, TypeOK, NamesOK, SlotInv,
      MapInv, NoDeadEntry, ConnectedEarly, HandlersOwnSlots, BalanceOK
<1>13. ASSUME NEW d \in Dialer, DialExit(d) PROVE (~stuck /\ HandlersOwnSlots /\ BalanceOK)'
  BY <1>13 DEF DialExit, DialTo, connVars, peerVars, TypeOK, NamesOK, SlotInv,
      MapInv, NoDeadEntry, ConnectedEarly, HandlersOwnSlots, BalanceOK
<1>14. ASSUME NEW c \in Conn, Check(c) PROVE (~stuck /\ HandlersOwnSlots /\ BalanceOK)'
  BY <1>14 DEF Check, HandlerTo, End, peerVars, TypeOK, NamesOK, SlotInv, MapInv,
      NoDeadEntry, ConnectedEarly, HandlersOwnSlots, BalanceOK
<1>15. ASSUME NEW c \in Conn, AddPeer(c) PROVE (~stuck /\ HandlersOwnSlots /\ BalanceOK)'
  BY <1>15 DEF AddPeer, HandlerTo, End, peerVars, Announce, TypeOK, NamesOK,
      SlotInv, MapInv, NoDeadEntry, ConnectedEarly, HandlersOwnSlots, BalanceOK, EventsClosed
<1>16. ASSUME NEW c \in Conn, Greet(c) PROVE (~stuck /\ HandlersOwnSlots /\ BalanceOK)'
  BY <1>16 DEF Greet, HandlerTo, peerVars, TypeOK, NamesOK, SlotInv, MapInv,
      NoDeadEntry, ConnectedEarly, HandlersOwnSlots, BalanceOK
<1>17. ASSUME NEW c \in Conn, ReadMessage(c) PROVE (~stuck /\ HandlersOwnSlots /\ BalanceOK)'
  BY <1>17 DEF ReadMessage, HandlerTo, peerVars, TypeOK, NamesOK, SlotInv, MapInv,
      NoDeadEntry, ConnectedEarly, HandlersOwnSlots, BalanceOK
<1>18. ASSUME NEW c \in Conn, Deliver(c) PROVE (~stuck /\ HandlersOwnSlots /\ BalanceOK)'
  BY <1>18 DEF Deliver, HandlerTo, peerVars, TypeOK, NamesOK, SlotInv, MapInv,
      NoDeadEntry, ConnectedEarly, HandlersOwnSlots, BalanceOK
<1>19. ASSUME NEW c \in Conn, DeliverPanics(c) PROVE (~stuck /\ HandlersOwnSlots /\ BalanceOK)'
  BY <1>19 DEF DeliverPanics, peerVars, TypeOK, NamesOK, SlotInv, MapInv,
      NoDeadEntry, ConnectedEarly, HandlersOwnSlots, BalanceOK
<1>20. ASSUME NEW c \in Conn, ReadFails(c) PROVE (~stuck /\ HandlersOwnSlots /\ BalanceOK)'
  BY <1>20 DEF ReadFails, HandlerTo, peerVars, TypeOK, NamesOK, SlotInv, MapInv,
      NoDeadEntry, ConnectedEarly, HandlersOwnSlots, BalanceOK
<1>21. ASSUME NEW c \in Conn, Disconnect(c) PROVE (~stuck /\ HandlersOwnSlots /\ BalanceOK)'
  BY <1>21 DEF Disconnect, HandlerTo, End, TypeOK, NamesOK, SlotInv, MapInv,
      NoDeadEntry, ConnectedEarly, HandlersOwnSlots, BalanceOK
<1>22. ASSUME NEW c \in Conn, Publish(c) PROVE (~stuck /\ HandlersOwnSlots /\ BalanceOK)'
  BY <1>22 DEF Publish, HandlerTo, Announce, TypeOK, NamesOK, SlotInv, MapInv,
      NoDeadEntry, ConnectedEarly, HandlersOwnSlots, BalanceOK, EventsClosed
<1>23. ASSUME NEW c \in Conn, Remove(c) PROVE (~stuck /\ HandlersOwnSlots /\ BalanceOK)'
  <2>0. Managing /\ ~stuck /\ HandlersOwnSlots /\ BalanceOK
    <3>1. stop'.pc = stop.pc
      BY <1>23 DEF Remove, End, TypeOK
    <3> QED
      BY <3>1 DEF SlotInv
  <2>h. handler[c] = "remove"
    BY <1>23 DEF Remove
  <2>1. c \notin connected /\ peers[node[c]] = c /\ node[c] \in Remote
    BY <2>0, <2>h DEF SlotInv, MapInv, ConnectedEarly, Early, HandlersOwnSlots,
        TypeOK, NamesOK
  <2>2. UNCHANGED <<stuck, balance>> /\ peers' = [peers EXCEPT ![node[c]] = None]
    BY <1>23, <2>0, <2>1 DEF Remove, RemovePeer
  <2>3. /\ handler' = [handler EXCEPT ![c] = "free"]
        /\ node' = [node EXCEPT ![c] = None]
    BY <1>23, <2>0, <2>2 DEF Remove, End
  <2>4. HandlersOwnSlots'
    BY <2>0, <2>1, <2>2, <2>3 DEF HandlersOwnSlots, TypeOK, NamesOK
  <2>5. BalanceOK'
    BY <2>0, <2>h, <2>1, <2>2, <2>3 DEF BalanceOK, TypeOK, SlotInv, MapInv, NoDeadEntry
  <2> QED
    BY <2>0, <2>2, <2>4, <2>5
<1>24. ASSUME NEW c \in Conn, RemoteCloses(c) PROVE (~stuck /\ HandlersOwnSlots /\ BalanceOK)'
  BY <1>24 DEF RemoteCloses, peerVars, TypeOK, NamesOK, SlotInv, MapInv,
      NoDeadEntry, ConnectedEarly, HandlersOwnSlots, BalanceOK
<1>25. CASE StopBegin
  BY <1>25 DEF StopBegin, StopMark, StopTo, connVars, peerVars, TypeOK, NamesOK,
      SlotInv, MapInv, NoDeadEntry, ConnectedEarly, HandlersOwnSlots, BalanceOK
<1>26. CASE StopCancel
  BY <1>26 DEF StopCancel, StopMark, StopTo, connVars, peerVars, TypeOK, NamesOK,
      SlotInv, MapInv, NoDeadEntry, ConnectedEarly, HandlersOwnSlots, BalanceOK
<1>27. CASE StopTransport
  BY <1>27 DEF StopTransport, StopTo, peerVars, TypeOK, NamesOK, SlotInv, MapInv,
      NoDeadEntry, ConnectedEarly, HandlersOwnSlots, BalanceOK
<1>28. CASE StopPeers
  BY <1>28 DEF StopPeers, TypeOK
<1>29. ASSUME NEW c \in Conn, StopPeer(c) PROVE (~stuck /\ HandlersOwnSlots /\ BalanceOK)'
  BY <1>29 DEF StopPeer, TypeOK, NamesOK, SlotInv, MapInv, NoDeadEntry,
      ConnectedEarly, HandlersOwnSlots, BalanceOK
<1>30. CASE StopPublish
  BY <1>30 DEF StopPublish, StopTo, Announce, connVars, TypeOK, NamesOK, SlotInv,
      MapInv, NoDeadEntry, ConnectedEarly, HandlersOwnSlots, BalanceOK
<1>31. CASE StopRemove
  BY <1>31 DEF StopRemove, TypeOK
<1>32. CASE StopMessages
  BY <1>32 DEF StopMessages, StopMark, StopTo, connVars, peerVars, TypeOK, NamesOK,
      SlotInv, MapInv, NoDeadEntry, ConnectedEarly, HandlersOwnSlots, BalanceOK
<1>33. CASE StopEvents
  BY <1>33 DEF StopEvents, StopMark, StopTo, connVars, peerVars, TypeOK, NamesOK,
      SlotInv, MapInv, NoDeadEntry, ConnectedEarly, HandlersOwnSlots, BalanceOK
<1>34. CASE StopWait
  BY <1>34 DEF StopWait, StopMark, StopTo, connVars, peerVars, TypeOK, NamesOK,
      SlotInv, MapInv, NoDeadEntry, ConnectedEarly, HandlersOwnSlots, BalanceOK
<1>35. CASE UNCHANGED vars
  BY <1>35 DEF vars, connVars, peerVars, TypeOK, NamesOK, SlotInv, MapInv,
      NoDeadEntry, ConnectedEarly, HandlersOwnSlots, BalanceOK
<1> QED
  BY <1>1, <1>2, <1>3, <1>4, <1>5, <1>6, <1>7, <1>8, <1>9, <1>10, <1>11, 
     <1>12, <1>13, <1>14, <1>15, <1>16, <1>17, <1>18, <1>19, <1>20, <1>21, 
     <1>22, <1>23, <1>24, <1>25, <1>26, <1>27, <1>28, <1>29, <1>30, <1>31, 
     <1>32, <1>33, <1>34, <1>35
  DEF Next, Dial, Handle, StopStep

-----------------------------------------------------------------------------
(* What the runs check, for every instance. *)

LEMMA StoppedStep == ASSUME TypeOK, StoppedEnded, [Next]_vars PROVE StoppedEnded'
<1> USE DEF StoppedEnded, Ended
<1>1. CASE Start
  BY <1>1 DEF Start, connVars, peerVars, TypeOK
<1>2. ASSUME NEW a \in Addr, AddJoinAddr(a) PROVE StoppedEnded'
  BY <1>2 DEF AddJoinAddr, connVars, peerVars, TypeOK
<1>3. ASSUME NEW a \in Addr, RemoveJoinAddr(a) PROVE StoppedEnded'
  BY <1>3 DEF RemoveJoinAddr, connVars, peerVars, TypeOK
<1>4. CASE AcceptConn
  BY <1>4 DEF AcceptConn, connVars, peerVars, TypeOK
<1>5. CASE AcceptOk
  BY <1>5 DEF AcceptOk, Establish, peerVars, TypeOK
<1>6. CASE AcceptFails
  BY <1>6 DEF AcceptFails, connVars, peerVars, TypeOK
<1>7. CASE AcceptExit
  BY <1>7 DEF AcceptExit, connVars, peerVars, TypeOK
<1>8. ASSUME NEW d \in Dialer, DialStart(d) PROVE StoppedEnded'
  BY <1>8 DEF DialStart, DialTo, connVars, peerVars, TypeOK
<1>9. ASSUME NEW d \in Dialer, DialRefused(d) PROVE StoppedEnded'
  BY <1>9 DEF DialRefused, DialTo, connVars, peerVars, TypeOK
<1>10. ASSUME NEW d \in Dialer, DialFails(d) PROVE StoppedEnded'
  BY <1>10 DEF DialFails, DialTo, connVars, peerVars, TypeOK
<1>11. ASSUME NEW d \in Dialer, DialOk(d) PROVE StoppedEnded'
  BY <1>11 DEF DialOk, Establish, peerVars, TypeOK
<1>12. ASSUME NEW d \in Dialer, PauseOver(d) PROVE StoppedEnded'
  BY <1>12 DEF PauseOver, DialTo, connVars, peerVars, TypeOK
<1>13. ASSUME NEW d \in Dialer, DialExit(d) PROVE StoppedEnded'
  BY <1>13 DEF DialExit, DialTo, connVars, peerVars, TypeOK
<1>14. ASSUME NEW c \in Conn, Check(c) PROVE StoppedEnded'
  BY <1>14 DEF Check, HandlerTo, End, peerVars, TypeOK
<1>15. ASSUME NEW c \in Conn, AddPeer(c) PROVE StoppedEnded'
  BY <1>15 DEF AddPeer, HandlerTo, End, peerVars, Announce, TypeOK
<1>16. ASSUME NEW c \in Conn, Greet(c) PROVE StoppedEnded'
  BY <1>16 DEF Greet, HandlerTo, peerVars, TypeOK
<1>17. ASSUME NEW c \in Conn, ReadMessage(c) PROVE StoppedEnded'
  BY <1>17 DEF ReadMessage, HandlerTo, peerVars, TypeOK
<1>18. ASSUME NEW c \in Conn, Deliver(c) PROVE StoppedEnded'
  BY <1>18 DEF Deliver, HandlerTo, peerVars, TypeOK
<1>19. ASSUME NEW c \in Conn, DeliverPanics(c) PROVE StoppedEnded'
  BY <1>19 DEF DeliverPanics, peerVars, TypeOK
<1>20. ASSUME NEW c \in Conn, ReadFails(c) PROVE StoppedEnded'
  BY <1>20 DEF ReadFails, HandlerTo, peerVars, TypeOK
<1>21. ASSUME NEW c \in Conn, Disconnect(c) PROVE StoppedEnded'
  BY <1>21 DEF Disconnect, HandlerTo, End, TypeOK
<1>22. ASSUME NEW c \in Conn, Publish(c) PROVE StoppedEnded'
  BY <1>22 DEF Publish, HandlerTo, Announce, TypeOK
<1>23. ASSUME NEW c \in Conn, Remove(c) PROVE StoppedEnded'
  BY <1>23 DEF Remove, RemovePeer, End, Announce, TypeOK, TypeOK
<1>24. ASSUME NEW c \in Conn, RemoteCloses(c) PROVE StoppedEnded'
  BY <1>24 DEF RemoteCloses, peerVars, TypeOK
<1>25. CASE StopBegin
  BY <1>25 DEF StopBegin, StopMark, StopTo, connVars, peerVars, TypeOK
<1>26. CASE StopCancel
  BY <1>26 DEF StopCancel, StopMark, StopTo, connVars, peerVars, TypeOK
<1>27. CASE StopTransport
  BY <1>27 DEF StopTransport, StopTo, peerVars, TypeOK
<1>28. CASE StopPeers
  BY <1>28 DEF StopPeers, connVars, TypeOK
<1>29. ASSUME NEW c \in Conn, StopPeer(c) PROVE StoppedEnded'
  BY <1>29 DEF StopPeer, TypeOK
<1>30. CASE StopPublish
  BY <1>30 DEF StopPublish, StopTo, Announce, connVars, TypeOK
<1>31. CASE StopRemove
  BY <1>31 DEF StopRemove, RemovePeer, Announce, TypeOK
<1>32. CASE StopMessages
  BY <1>32 DEF StopMessages, StopMark, StopTo, connVars, peerVars, TypeOK
<1>33. CASE StopEvents
  BY <1>33 DEF StopEvents, StopMark, StopTo, connVars, peerVars, TypeOK
<1>34. CASE StopWait
  BY <1>34 DEF StopWait, StopMark, StopTo, connVars, peerVars, TypeOK
<1>35. CASE UNCHANGED vars
  BY <1>35 DEF vars, connVars, peerVars, TypeOK
<1> QED
  BY <1>1, <1>2, <1>3, <1>4, <1>5, <1>6, <1>7, <1>8, <1>9, <1>10, <1>11, 
     <1>12, <1>13, <1>14, <1>15, <1>16, <1>17, <1>18, <1>19, <1>20, <1>21, 
     <1>22, <1>23, <1>24, <1>25, <1>26, <1>27, <1>28, <1>29, <1>30, <1>31, 
     <1>32, <1>33, <1>34, <1>35
  DEF Next, Dial, Handle, StopStep

\* Names, goroutines and every variable keep their types, whatever the nodes,
\* addresses and connections, and whenever Stop is called.
THEOREM TopologyTypeOK == Spec => []TypeOK
<1>1. TypeOK /\ [Next]_vars => TypeOK'
  BY TypeStep
<1> QED
  BY TypeInit, <1>1, PTL DEF Spec

LEMMA SlotInvAlways == Spec => []SlotInv
<1>1. Init => SlotInv
  BY TopologyAssumption DEF Init, SlotInv, MapInv, NoDeadEntry, OpenHandled,
      ConnectedEarly,
     InMapConnected, TodoNotInMap, StopKnowsPeer, HandlersOwnSlots, BalanceOK, Managed,
     TopologyAssumption
<1>2. TypeOK /\ TypeOK' /\ SlotInv /\ [Next]_vars => SlotInv'
  BY SlotStep
<1> QED
  BY <1>1, <1>2, TopologyTypeOK, PTL DEF Spec

\* A slot of the peer manager always belongs to a connection to that node
\* whose goroutine will free it, also while Stop runs.
THEOREM NoDeadEntryAlways == Spec => []NoDeadEntry
<1>1. SlotInv => NoDeadEntry
  BY DEF SlotInv, MapInv
<1> QED
  BY <1>1, SlotInvAlways, PTL

\* RemovePeer removes the peer that disconnected and no newer one ...
THEOREM HandlersAlwaysOwnSlots == Spec => []HandlersOwnSlots
<1>1. SlotInv => HandlersOwnSlots
  BY DEF SlotInv, HandlersOwnSlots
<1> QED
  BY <1>1, SlotInvAlways, PTL

\* ... and so never waits for the mutex it holds, before Stop takes the peers.
THEOREM NeverSelfDeadlocks == Spec => []NoSelfDeadlock
<1>1. SlotInv => NoSelfDeadlock
  BY DEF SlotInv, NoSelfDeadlock
<1> QED
  BY <1>1, SlotInvAlways, PTL

\* Whenever Stop returns, it leaves no goroutine, no open connection and no
\* connected peer behind.
THEOREM StopLeavesNothing == Spec => []StopClosesAll
<1>1. Init => StoppedEnded
  BY DEF Init, StoppedEnded
<1>2. TypeOK /\ StoppedEnded /\ [Next]_vars => StoppedEnded'
  BY StoppedStep
<1>3. TypeOK /\ SlotInv /\ StoppedEnded => StopClosesAll
  BY DEF SlotInv, MapInv, OpenHandled, ConnectedEarly, Early, StoppedEnded,
      StopClosesAll,
     Ended, TypeOK
<1> QED
  BY <1>1, <1>2, <1>3, TopologyTypeOK, SlotInvAlways, PTL DEF Spec

-----------------------------------------------------------------------------
(* A Stop that begins with no connection being made. *)

LEMMA OrderlyStep ==
  ASSUME TypeOK, TypeOK', SlotInv, OrderlyInv, [Next]_vars
  PROVE  OrderlyInv'
<1> USE TopologyAssumption DEF TopologyAssumption, Managed
<1>1. CASE Start
  BY <1>1 DEF Start, connVars, peerVars, TypeOK, NamesOK, OrderlyInv, BeingMade,
      Managing, StopIn
<1>2. ASSUME NEW a \in Addr, AddJoinAddr(a) PROVE OrderlyInv'
  BY <1>2 DEF AddJoinAddr, connVars, peerVars, TypeOK, NamesOK, OrderlyInv,
      BeingMade, Managing, StopIn
<1>3. ASSUME NEW a \in Addr, RemoveJoinAddr(a) PROVE OrderlyInv'
  BY <1>3 DEF RemoveJoinAddr, connVars, peerVars, TypeOK, NamesOK, OrderlyInv,
      BeingMade, Managing, StopIn
<1>4. CASE AcceptConn
  BY <1>4 DEF AcceptConn, TransportClosed, connVars, peerVars, TypeOK, NamesOK,
      OrderlyInv, BeingMade, Managing, StopIn
<1>5. CASE AcceptOk
  BY <1>5 DEF AcceptOk, Establish, peerVars, TypeOK, NamesOK, OrderlyInv, BeingMade,
      Managing, StopIn
<1>6. CASE AcceptFails
  BY <1>6 DEF AcceptFails, connVars, peerVars, TypeOK, NamesOK, OrderlyInv,
      BeingMade, Managing, StopIn
<1>7. CASE AcceptExit
  BY <1>7 DEF AcceptExit, connVars, peerVars, TypeOK, NamesOK, OrderlyInv,
      BeingMade, Managing, StopIn
<1>8. ASSUME NEW d \in Dialer, DialStart(d) PROVE OrderlyInv'
  BY <1>8 DEF DialStart, DialTo, Cancelled, connVars, peerVars, TypeOK, NamesOK,
      OrderlyInv, BeingMade, Managing, StopIn
<1>9. ASSUME NEW d \in Dialer, DialRefused(d) PROVE OrderlyInv'
  BY <1>9 DEF DialRefused, DialTo, Cancelled, connVars, peerVars, TypeOK, NamesOK,
      OrderlyInv, BeingMade, Managing, StopIn
<1>10. ASSUME NEW d \in Dialer, DialFails(d) PROVE OrderlyInv'
  BY <1>10 DEF DialFails, DialTo, connVars, peerVars, TypeOK, NamesOK, OrderlyInv,
      BeingMade, Managing, StopIn
<1>11. ASSUME NEW d \in Dialer, DialOk(d) PROVE OrderlyInv'
  BY <1>11 DEF DialOk, Establish, peerVars, TypeOK, NamesOK, OrderlyInv, BeingMade,
      Managing, StopIn
<1>12. ASSUME NEW d \in Dialer, PauseOver(d) PROVE OrderlyInv'
  BY <1>12 DEF PauseOver, DialTo, connVars, peerVars, TypeOK, NamesOK, OrderlyInv,
      BeingMade, Managing, StopIn
<1>13. ASSUME NEW d \in Dialer, DialExit(d) PROVE OrderlyInv'
  <2>1. /\ dialer' = [dialer EXCEPT ![d] = "exit"]
        /\ UNCHANGED <<acceptor, open, handler, connected, peers, stop, stuck, orderly>>
    BY <1>13 DEF DialExit, DialTo, connVars, peerVars
  <2>2. BeingMade' => BeingMade
    BY <2>1 DEF BeingMade, TypeOK
  <2> QED
    BY <2>1, <2>2 DEF OrderlyInv, Managing, StopIn
<1>14. ASSUME NEW c \in Conn, Check(c) PROVE OrderlyInv'
  BY <1>14 DEF Check, TypeOK, NamesOK, OrderlyInv, BeingMade, Managing, StopIn
<1>15. ASSUME NEW c \in Conn, AddPeer(c) PROVE OrderlyInv'
  BY <1>15 DEF AddPeer, TypeOK, NamesOK, OrderlyInv, BeingMade, Managing, StopIn
<1>16. ASSUME NEW c \in Conn, Greet(c) PROVE OrderlyInv'
  BY <1>16 DEF Greet, HandlerTo, peerVars, TypeOK, NamesOK, OrderlyInv, BeingMade,
      Managing, StopIn
<1>17. ASSUME NEW c \in Conn, ReadMessage(c) PROVE OrderlyInv'
  BY <1>17 DEF ReadMessage, HandlerTo, peerVars, TypeOK, NamesOK, OrderlyInv,
      BeingMade, Managing, StopIn
<1>18. ASSUME NEW c \in Conn, Deliver(c) PROVE OrderlyInv'
  BY <1>18 DEF Deliver, HandlerTo, peerVars, TypeOK, NamesOK, OrderlyInv, BeingMade,
      Managing, StopIn
<1>19. ASSUME NEW c \in Conn, DeliverPanics(c) PROVE OrderlyInv'
  BY <1>19 DEF DeliverPanics, TypeOK, NamesOK, OrderlyInv, BeingMade, Managing, StopIn
<1>20. ASSUME NEW c \in Conn, ReadFails(c) PROVE OrderlyInv'
  BY <1>20 DEF ReadFails, HandlerTo, peerVars, TypeOK, NamesOK, OrderlyInv,
      BeingMade, Managing, StopIn
<1>21. ASSUME NEW c \in Conn, Disconnect(c) PROVE OrderlyInv'
  BY <1>21 DEF Disconnect, HandlerTo, End, TypeOK, NamesOK, OrderlyInv, BeingMade,
      Managing, StopIn, SlotInv, MapInv, ConnectedEarly, Early
<1>22. ASSUME NEW c \in Conn, Publish(c) PROVE OrderlyInv'
  BY <1>22 DEF Publish, HandlerTo, TypeOK, NamesOK, OrderlyInv, BeingMade, Managing,
      StopIn
<1>23. ASSUME NEW c \in Conn, Remove(c) PROVE OrderlyInv'
  BY <1>23 DEF Remove, RemovePeer, End, TypeOK, NamesOK, OrderlyInv, BeingMade,
      Managing, StopIn, SlotInv, MapInv, ConnectedEarly, Early
<1>24. ASSUME NEW c \in Conn, RemoteCloses(c) PROVE OrderlyInv'
  BY <1>24 DEF RemoteCloses, peerVars, TypeOK, NamesOK, OrderlyInv, BeingMade,
      Managing, StopIn
<1>25. CASE StopBegin
  BY <1>25 DEF StopBegin, StopMark, StopTo, connVars, peerVars, TypeOK, NamesOK,
      OrderlyInv, BeingMade, Managing, StopIn
<1>26. CASE StopCancel
  BY <1>26 DEF StopCancel, StopMark, StopTo, connVars, peerVars, TypeOK, NamesOK,
      OrderlyInv, BeingMade, Managing, StopIn
<1>27. CASE StopTransport
  BY <1>27 DEF StopTransport, StopTo, peerVars, TypeOK, NamesOK, OrderlyInv,
      BeingMade, Managing, StopIn
<1>28. CASE StopPeers
  <2>1. /\ stop'.pc = "each"
        /\ stop'.todo = {peers[r] : r \in Remote} \ {None}
        /\ peers' = [r \in Remote |-> None]
        /\ orderly' = ~BeingMade
        /\ UNCHANGED <<acceptor, dialer, open, handler, connected, stuck>>
    BY <1>28 DEF StopPeers, connVars, TypeOK
  <2>2. BeingMade' = BeingMade
    BY <2>1 DEF BeingMade
  <2>3. ~stuck /\ HandlersOwnSlots
    BY <1>28 DEF StopPeers, SlotInv, Managing, StopIn
  <2>4. ASSUME ~BeingMade, NEW c \in open \cup connected PROVE c \in stop'.todo
    <3>1. c \in Conn /\ handler[c] \in Managed
      BY <2>4 DEF BeingMade, SlotInv, MapInv, OpenHandled, ConnectedEarly, Early,
          TypeOK, HandlerPcs
    <3>2. node[c] \in Remote /\ peers[node[c]] = c
      <4>1. node[c] \in Remote
        BY <3>1 DEF TypeOK, NamesOK
      <4>2. stop.pc = "peers"
        BY <1>28 DEF StopPeers
      <4>3. \A b \in Conn : handler[b] \in Managed => peers[node[b]] = b
        BY <2>3, <4>2 DEF HandlersOwnSlots, Managing, StopIn
      <4> QED
        BY <3>1, <4>1, <4>3
    <3>3. c # None
      BY <3>1
    <3>4. c \in {peers[r] : r \in Remote}
      BY <3>2
    <3> QED
      BY <2>1, <3>3, <3>4
  <2> QED
    BY <2>1, <2>2, <2>3, <2>4 DEF OrderlyInv, Managing, StopIn
<1>29. ASSUME NEW c \in Conn, StopPeer(c) PROVE OrderlyInv'
  BY <1>29 DEF StopPeer, TypeOK, NamesOK, OrderlyInv, BeingMade, Managing, StopIn,
      SlotInv, MapInv, ConnectedEarly, Early
<1>30. CASE StopPublish
  BY <1>30 DEF StopPublish, StopTo, connVars, TypeOK, NamesOK, OrderlyInv,
      BeingMade, Managing, StopIn
<1>31. CASE StopRemove
  BY <1>31 DEF StopRemove, RemovePeer, TypeOK, NamesOK, OrderlyInv, BeingMade,
      Managing, StopIn, SlotInv, MapInv, ConnectedEarly, Early
<1>32. CASE StopMessages
  BY <1>32 DEF StopMessages, StopMark, StopTo, connVars, peerVars, TypeOK, NamesOK,
      OrderlyInv, BeingMade, Managing, StopIn
<1>33. CASE StopEvents
  BY <1>33 DEF StopEvents, StopMark, StopTo, connVars, peerVars, TypeOK, NamesOK,
      OrderlyInv, BeingMade, Managing, StopIn
<1>34. CASE StopWait
  BY <1>34 DEF StopWait, StopMark, StopTo, connVars, peerVars, TypeOK, NamesOK,
      OrderlyInv, BeingMade, Managing, StopIn
<1>35. CASE UNCHANGED vars
  BY <1>35 DEF vars, connVars, peerVars, TypeOK, NamesOK, OrderlyInv, BeingMade,
      Managing, StopIn
<1> QED
  BY <1>1, <1>2, <1>3, <1>4, <1>5, <1>6, <1>7, <1>8, <1>9, <1>10, <1>11, <1>12,
      <1>13, <1>14, <1>15, <1>16, <1>17, <1>18, <1>19, <1>20, <1>21, <1>22, <1>23,
      <1>24, <1>25, <1>26, <1>27, <1>28, <1>29, <1>30, <1>31, <1>32, <1>33, <1>34, <1>35
  DEF Next, Dial, Handle, StopStep

\* No connection is made behind the back of a Stop that began with none being
\* made, its goroutines never wait for their own mutex, and what it waits for at
\* the end has been told to end: nothing is open or connected any more.
THEOREM StopIsOrderly == Spec => []OrderlyStop
<1>1. Init => OrderlyInv
  BY DEF Init, OrderlyInv
<1>2. TypeOK /\ TypeOK' /\ SlotInv /\ OrderlyInv /\ [Next]_vars => OrderlyInv'
  BY OrderlyStep
<1>3. OrderlyInv => OrderlyStop
  BY DEF OrderlyInv, OrderlyStop
<1> QED
  BY <1>1, <1>2, <1>3, TopologyTypeOK, SlotInvAlways, PTL DEF Spec

-----------------------------------------------------------------------------
(* The goroutines that dial. *)

\* A goroutine that maintains an address is never lost: while it waits for its
\* connection to end there is one, and it has a goroutine to end it; and it has
\* not returned before Stop cancelled it (maintainConnection, topology.go:394).
NoDialerLost == \A d \in Dialer :
  /\ dialer[d] = "handling" => \E c \in Conn : owner[c] = d /\ handler[c] # "free"
  /\ dialer[d] = "exit" => Cancelled

\* A connection without a goroutine is nobody's.
DialerInv == NoDialerLost /\ \A c \in Conn : handler[c] = "free" => owner[c] = Inbound

LEMMA DialerStep == ASSUME TypeOK, TypeOK', DialerInv, [Next]_vars PROVE DialerInv'
<1> USE TopologyAssumption DEF TopologyAssumption
<1>1. CASE Start
  BY <1>1 DEF Start, connVars, peerVars, TypeOK, NamesOK, DialerInv, NoDialerLost,
      Cancelled, StopIn
<1>2. ASSUME NEW a \in Addr, AddJoinAddr(a) PROVE DialerInv'
  <2>1. CASE UNCHANGED dialer
    BY <1>2, <2>1 DEF AddJoinAddr, connVars, TypeOK, DialerInv, NoDialerLost,
        Cancelled, StopIn
  <2>2. ASSUME NEW d \in Dialer, dialer[d] = "off",
               dialer' = [dialer EXCEPT ![d] = "dial"]
        PROVE  DialerInv'
    BY <1>2, <2>2 DEF AddJoinAddr, connVars, TypeOK, DialerInv, NoDialerLost,
        Cancelled, StopIn
  <2> QED
    BY <1>2, <2>1, <2>2 DEF AddJoinAddr, Dialer
<1>3. ASSUME NEW a \in Addr, RemoveJoinAddr(a) PROVE DialerInv'
  BY <1>3 DEF RemoveJoinAddr, connVars, peerVars, TypeOK, NamesOK, DialerInv,
      NoDialerLost, Cancelled, StopIn
<1>4. CASE AcceptConn
  BY <1>4 DEF AcceptConn, TransportClosed, connVars, peerVars, TypeOK, NamesOK,
      DialerInv, NoDialerLost, Cancelled, StopIn
<1>5. CASE AcceptOk
  BY <1>5 DEF AcceptOk, Establish, peerVars, TypeOK, NamesOK, DialerInv,
      NoDialerLost, Cancelled, StopIn
<1>6. CASE AcceptFails
  BY <1>6 DEF AcceptFails, connVars, peerVars, TypeOK, NamesOK, DialerInv,
      NoDialerLost, Cancelled, StopIn
<1>7. CASE AcceptExit
  BY <1>7 DEF AcceptExit, connVars, peerVars, TypeOK, NamesOK, DialerInv,
      NoDialerLost, Cancelled, StopIn
<1>8. ASSUME NEW d \in Dialer, DialStart(d) PROVE DialerInv'
  BY <1>8 DEF DialStart, DialTo, connVars, peerVars, TypeOK, NamesOK,
      DialerInv, NoDialerLost, Cancelled, StopIn
<1>9. ASSUME NEW d \in Dialer, DialRefused(d) PROVE DialerInv'
  BY <1>9 DEF DialRefused, DialTo, connVars, peerVars, TypeOK, NamesOK,
      DialerInv, NoDialerLost, Cancelled, StopIn
<1>10. ASSUME NEW d \in Dialer, DialFails(d) PROVE DialerInv'
  BY <1>10 DEF DialFails, DialTo, connVars, peerVars, TypeOK, NamesOK, DialerInv,
      NoDialerLost, Cancelled, StopIn
<1>11. ASSUME NEW d \in Dialer, DialOk(d) PROVE DialerInv'
  BY <1>11 DEF DialOk, Establish, peerVars, TypeOK, NamesOK, DialerInv,
      NoDialerLost, Cancelled, StopIn
<1>12. ASSUME NEW d \in Dialer, PauseOver(d) PROVE DialerInv'
  BY <1>12 DEF PauseOver, DialTo, connVars, peerVars, TypeOK, NamesOK, DialerInv,
      NoDialerLost, Cancelled, StopIn
<1>13. ASSUME NEW d \in Dialer, DialExit(d) PROVE DialerInv'
  BY <1>13 DEF DialExit, DialTo, connVars, peerVars, TypeOK, NamesOK, DialerInv,
      NoDialerLost, Cancelled, StopIn
<1>14. ASSUME NEW c \in Conn, Check(c) PROVE DialerInv'
  BY <1>14 DEF Check, HandlerTo, End, peerVars, TypeOK, NamesOK, DialerInv,
      NoDialerLost, Cancelled, StopIn
<1>15. ASSUME NEW c \in Conn, AddPeer(c) PROVE DialerInv'
  <2>1. CASE End(c, "dial")
    BY <1>15, <2>1 DEF AddPeer, End, TypeOK, NamesOK, DialerInv, NoDialerLost,
        Cancelled, StopIn
  <2>2. CASE HandlerTo(c, "greet") /\ UNCHANGED <<dialer, owner, stop>>
    BY <1>15, <2>2 DEF AddPeer, HandlerTo, TypeOK, DialerInv, NoDialerLost,
        Cancelled, StopIn
  <2> QED
    BY <1>15, <2>1, <2>2 DEF AddPeer
<1>16. ASSUME NEW c \in Conn, Greet(c) PROVE DialerInv'
  BY <1>16 DEF Greet, HandlerTo, peerVars, TypeOK, NamesOK, DialerInv, NoDialerLost,
      Cancelled, StopIn
<1>17. ASSUME NEW c \in Conn, ReadMessage(c) PROVE DialerInv'
  BY <1>17 DEF ReadMessage, HandlerTo, peerVars, TypeOK, NamesOK, DialerInv,
      NoDialerLost, Cancelled, StopIn
<1>18. ASSUME NEW c \in Conn, Deliver(c) PROVE DialerInv'
  BY <1>18 DEF Deliver, HandlerTo, peerVars, TypeOK, NamesOK, DialerInv,
      NoDialerLost, Cancelled, StopIn
<1>19. ASSUME NEW c \in Conn, DeliverPanics(c) PROVE DialerInv'
  BY <1>19 DEF DeliverPanics, MessagesClosed, TypeOK, NamesOK, DialerInv,
      NoDialerLost, Cancelled, StopIn
<1>20. ASSUME NEW c \in Conn, ReadFails(c) PROVE DialerInv'
  BY <1>20 DEF ReadFails, HandlerTo, peerVars, TypeOK, NamesOK, DialerInv,
      NoDialerLost, Cancelled, StopIn
<1>21. ASSUME NEW c \in Conn, Disconnect(c) PROVE DialerInv'
  BY <1>21 DEF Disconnect, HandlerTo, End, TypeOK, NamesOK, DialerInv, NoDialerLost,
      Cancelled, StopIn
<1>22. ASSUME NEW c \in Conn, Publish(c) PROVE DialerInv'
  BY <1>22 DEF Publish, HandlerTo, TypeOK, NamesOK, DialerInv, NoDialerLost,
      Cancelled, StopIn
<1>23. ASSUME NEW c \in Conn, Remove(c) PROVE DialerInv'
  BY <1>23 DEF Remove, End, TypeOK, NamesOK, DialerInv, NoDialerLost, Cancelled, StopIn
<1>24. ASSUME NEW c \in Conn, RemoteCloses(c) PROVE DialerInv'
  BY <1>24 DEF RemoteCloses, peerVars, TypeOK, NamesOK, DialerInv, NoDialerLost,
      Cancelled, StopIn
<1>25. CASE StopBegin
  BY <1>25 DEF StopBegin, StopMark, StopTo, connVars, peerVars, TypeOK, NamesOK,
      DialerInv, NoDialerLost, Cancelled, StopIn
<1>26. CASE StopCancel
  BY <1>26 DEF StopCancel, StopMark, StopTo, connVars, peerVars, TypeOK, NamesOK,
      DialerInv, NoDialerLost, Cancelled, StopIn
<1>27. CASE StopTransport
  BY <1>27 DEF StopTransport, StopTo, peerVars, TypeOK, NamesOK, DialerInv,
      NoDialerLost, Cancelled, StopIn
<1>28. CASE StopPeers
  <2>1. UNCHANGED <<dialer, owner, handler>>
    BY <1>28 DEF StopPeers, connVars
  <2>2. stop.pc = "peers" /\ stop'.pc = "each"
    <3>1. stop \in [pc : StopPcs, todo : SUBSET Conn, peer : Remote \cup {None}]
      BY DEF TypeOK
    <3> QED
      BY <1>28, <3>1 DEF StopPeers
  <2> QED
    BY <2>1, <2>2 DEF DialerInv, NoDialerLost, Cancelled, StopIn
<1>29. ASSUME NEW c \in Conn, StopPeer(c) PROVE DialerInv'
  BY <1>29 DEF StopPeer, TypeOK, NamesOK, DialerInv, NoDialerLost, Cancelled, StopIn
<1>30. CASE StopPublish
  BY <1>30 DEF StopPublish, StopTo, connVars, TypeOK, NamesOK, DialerInv,
      NoDialerLost, Cancelled, StopIn
<1>31. CASE StopRemove
  BY <1>31 DEF StopRemove, TypeOK, NamesOK, DialerInv, NoDialerLost, Cancelled, StopIn
<1>32. CASE StopMessages
  BY <1>32 DEF StopMessages, StopMark, StopTo, connVars, peerVars, TypeOK, NamesOK,
      DialerInv, NoDialerLost, Cancelled, StopIn
<1>33. CASE StopEvents
  BY <1>33 DEF StopEvents, StopMark, StopTo, connVars, peerVars, TypeOK, NamesOK,
      DialerInv, NoDialerLost, Cancelled, StopIn
<1>34. CASE StopWait
  BY <1>34 DEF StopWait, StopMark, StopTo, connVars, peerVars, TypeOK, NamesOK,
      DialerInv, NoDialerLost, Cancelled, StopIn
<1>35. CASE UNCHANGED vars
  BY <1>35 DEF vars, connVars, peerVars, TypeOK, NamesOK, DialerInv, NoDialerLost,
      Cancelled, StopIn
<1> QED
  BY <1>1, <1>2, <1>3, <1>4, <1>5, <1>6, <1>7, <1>8, <1>9, <1>10, <1>11, <1>12,
      <1>13, <1>14, <1>15, <1>16, <1>17, <1>18, <1>19, <1>20, <1>21, <1>22, <1>23,
      <1>24, <1>25, <1>26, <1>27, <1>28, <1>29, <1>30, <1>31, <1>32, <1>33, <1>34, <1>35
  DEF Next, Dial, Handle, StopStep

\* NoDialerLost: until Stop every goroutine that maintainConnection started
\* dials, pauses or has a connection whose end brings it back to dialling, for
\* any connections, breaks and rejections (topology.go:394-468).
THEOREM DialersNeverLost == Spec => []NoDialerLost
<1>1. Init => DialerInv
  BY DEF Init, DialerInv, NoDialerLost
<1>2. TypeOK /\ TypeOK' /\ DialerInv /\ [Next]_vars => DialerInv'
  BY DialerStep
<1>3. DialerInv => NoDialerLost
  BY DEF DialerInv
<1> QED
  BY <1>1, <1>2, <1>3, TopologyTypeOK, PTL DEF Spec

-----------------------------------------------------------------------------
(* Topology implements Presence. *)

\* Once Stop has taken the peers, they are gone for good.
LEMMA StopGoesOn == ASSUME TypeOK, ~Managing, [Next]_vars PROVE ~Managing'
<1> USE DEF Managing, StopIn
<1>1. CASE Start
  BY <1>1 DEF Start, connVars, peerVars, TypeOK
<1>2. ASSUME NEW a \in Addr, AddJoinAddr(a) PROVE ~Managing'
  BY <1>2 DEF AddJoinAddr, connVars, peerVars, TypeOK
<1>3. ASSUME NEW a \in Addr, RemoveJoinAddr(a) PROVE ~Managing'
  BY <1>3 DEF RemoveJoinAddr, connVars, peerVars, TypeOK
<1>4. CASE AcceptConn
  BY <1>4 DEF AcceptConn, connVars, peerVars, TypeOK
<1>5. CASE AcceptOk
  BY <1>5 DEF AcceptOk, Establish, peerVars, TypeOK
<1>6. CASE AcceptFails
  BY <1>6 DEF AcceptFails, connVars, peerVars, TypeOK
<1>7. CASE AcceptExit
  BY <1>7 DEF AcceptExit, connVars, peerVars, TypeOK
<1>8. ASSUME NEW d \in Dialer, DialStart(d) PROVE ~Managing'
  BY <1>8 DEF DialStart, DialTo, connVars, peerVars, TypeOK
<1>9. ASSUME NEW d \in Dialer, DialRefused(d) PROVE ~Managing'
  BY <1>9 DEF DialRefused, DialTo, connVars, peerVars, TypeOK
<1>10. ASSUME NEW d \in Dialer, DialFails(d) PROVE ~Managing'
  BY <1>10 DEF DialFails, DialTo, connVars, peerVars, TypeOK
<1>11. ASSUME NEW d \in Dialer, DialOk(d) PROVE ~Managing'
  BY <1>11 DEF DialOk, Establish, peerVars, TypeOK
<1>12. ASSUME NEW d \in Dialer, PauseOver(d) PROVE ~Managing'
  BY <1>12 DEF PauseOver, DialTo, connVars, peerVars, TypeOK
<1>13. ASSUME NEW d \in Dialer, DialExit(d) PROVE ~Managing'
  BY <1>13 DEF DialExit, DialTo, connVars, peerVars, TypeOK
<1>14. ASSUME NEW c \in Conn, Check(c) PROVE ~Managing'
  BY <1>14 DEF Check, HandlerTo, End, peerVars, TypeOK
<1>15. ASSUME NEW c \in Conn, AddPeer(c) PROVE ~Managing'
  BY <1>15 DEF AddPeer, HandlerTo, End, peerVars, Announce, TypeOK
<1>16. ASSUME NEW c \in Conn, Greet(c) PROVE ~Managing'
  BY <1>16 DEF Greet, HandlerTo, peerVars, TypeOK
<1>17. ASSUME NEW c \in Conn, ReadMessage(c) PROVE ~Managing'
  BY <1>17 DEF ReadMessage, HandlerTo, peerVars, TypeOK
<1>18. ASSUME NEW c \in Conn, Deliver(c) PROVE ~Managing'
  BY <1>18 DEF Deliver, HandlerTo, peerVars, TypeOK
<1>19. ASSUME NEW c \in Conn, DeliverPanics(c) PROVE ~Managing'
  BY <1>19 DEF DeliverPanics, peerVars, TypeOK
<1>20. ASSUME NEW c \in Conn, ReadFails(c) PROVE ~Managing'
  BY <1>20 DEF ReadFails, HandlerTo, peerVars, TypeOK
<1>21. ASSUME NEW c \in Conn, Disconnect(c) PROVE ~Managing'
  BY <1>21 DEF Disconnect, HandlerTo, End, TypeOK
<1>22. ASSUME NEW c \in Conn, Publish(c) PROVE ~Managing'
  BY <1>22 DEF Publish, HandlerTo, Announce, TypeOK
<1>23. ASSUME NEW c \in Conn, Remove(c) PROVE ~Managing'
  BY <1>23 DEF Remove, RemovePeer, End, Announce, TypeOK
<1>24. ASSUME NEW c \in Conn, RemoteCloses(c) PROVE ~Managing'
  BY <1>24 DEF RemoteCloses, peerVars, TypeOK
<1>25. CASE StopBegin
  BY <1>25 DEF StopBegin, StopMark, StopTo, connVars, peerVars, TypeOK
<1>26. CASE StopCancel
  BY <1>26 DEF StopCancel, StopMark, StopTo, connVars, peerVars, TypeOK
<1>27. CASE StopTransport
  BY <1>27 DEF StopTransport, StopTo, peerVars, TypeOK
<1>28. CASE StopPeers
  BY <1>28 DEF StopPeers, connVars, TypeOK
<1>29. ASSUME NEW c \in Conn, StopPeer(c) PROVE ~Managing'
  BY <1>29 DEF StopPeer, TypeOK
<1>30. CASE StopPublish
  BY <1>30 DEF StopPublish, StopTo, Announce, connVars, TypeOK
<1>31. CASE StopRemove
  BY <1>31 DEF StopRemove, RemovePeer, Announce, TypeOK
<1>32. CASE StopMessages
  BY <1>32 DEF StopMessages, StopMark, StopTo, connVars, peerVars, TypeOK
<1>33. CASE StopEvents
  BY <1>33 DEF StopEvents, StopMark, StopTo, connVars, peerVars, TypeOK
<1>34. CASE StopWait
  BY <1>34 DEF StopWait, StopMark, StopTo, connVars, peerVars, TypeOK
<1>35. CASE UNCHANGED vars
  BY <1>35 DEF vars, connVars, peerVars, TypeOK
<1> QED
  BY <1>1, <1>2, <1>3, <1>4, <1>5, <1>6, <1>7, <1>8, <1>9, <1>10, <1>11, 
     <1>12, <1>13, <1>14, <1>15, <1>16, <1>17, <1>18, <1>19, <1>20, <1>21, 
     <1>22, <1>23, <1>24, <1>25, <1>26, <1>27, <1>28, <1>29, <1>30, <1>31, 
     <1>32, <1>33, <1>34, <1>35
  DEF Next, Dial, Handle, StopStep

\* A step about one node that leaves the others alone, seen in presence.
LEMMA PresenceBecomes ==
  ASSUME TypeOK, Managing, Managing', NEW r \in Remote, NEW old, NEW new,
         presence[r] = old, presence'[r] = new,
         \A q \in Remote \ {r} : peers'[q] = peers[q] /\ balance'[q] = balance[q]
  PROVE  P!Becomes(r, old, new)
<1>1. \A q \in Remote \ {r} : presence'[q] = presence[q]
  BY DEF presence
<1>2. presence' = [q \in Remote |-> presence'[q]]
  BY DEF presence
<1>3. presence = [q \in Remote |-> presence[q]]
  BY DEF presence
<1> HIDE DEF presence
<1>4. presence' = [presence EXCEPT ![r] = new]
  BY <1>1, <1>2, <1>3
<1> QED
  BY <1>4 DEF P!Becomes

LEMMA PresenceStep ==
  ASSUME TypeOK, TypeOK', SlotInv, [Next]_vars
  PROVE  [P!Next]_presence
<1>0. CASE ~Managing
  <2>1. ~Managing'
    BY <1>0, StopGoesOn
  <2> QED
    BY <1>0, <2>1 DEF presence
<1> SUFFICES ASSUME Managing PROVE [P!Next]_presence
  BY <1>0
<1> USE DEF Managing, StopIn
<1>1. CASE Start
  BY <1>1 DEF Start, connVars, peerVars, presence, TypeOK
<1>2. ASSUME NEW a \in Addr, AddJoinAddr(a) PROVE [P!Next]_presence
  BY <1>2 DEF AddJoinAddr, connVars, peerVars, presence, TypeOK
<1>3. ASSUME NEW a \in Addr, RemoveJoinAddr(a) PROVE [P!Next]_presence
  BY <1>3 DEF RemoveJoinAddr, connVars, peerVars, presence, TypeOK
<1>4. CASE AcceptConn
  BY <1>4 DEF AcceptConn, connVars, peerVars, presence, TypeOK
<1>5. CASE AcceptOk
  BY <1>5 DEF AcceptOk, Establish, peerVars, presence, TypeOK
<1>6. CASE AcceptFails
  BY <1>6 DEF AcceptFails, connVars, peerVars, presence, TypeOK
<1>7. CASE AcceptExit
  BY <1>7 DEF AcceptExit, connVars, peerVars, presence, TypeOK
<1>8. ASSUME NEW d \in Dialer, DialStart(d) PROVE [P!Next]_presence
  BY <1>8 DEF DialStart, DialTo, connVars, peerVars, presence, TypeOK
<1>9. ASSUME NEW d \in Dialer, DialRefused(d) PROVE [P!Next]_presence
  BY <1>9 DEF DialRefused, DialTo, connVars, peerVars, presence, TypeOK
<1>10. ASSUME NEW d \in Dialer, DialFails(d) PROVE [P!Next]_presence
  BY <1>10 DEF DialFails, DialTo, connVars, peerVars, presence, TypeOK
<1>11. ASSUME NEW d \in Dialer, DialOk(d) PROVE [P!Next]_presence
  BY <1>11 DEF DialOk, Establish, peerVars, presence, TypeOK
<1>12. ASSUME NEW d \in Dialer, PauseOver(d) PROVE [P!Next]_presence
  BY <1>12 DEF PauseOver, DialTo, connVars, peerVars, presence, TypeOK
<1>13. ASSUME NEW d \in Dialer, DialExit(d) PROVE [P!Next]_presence
  BY <1>13 DEF DialExit, DialTo, connVars, peerVars, presence, TypeOK
<1>14. ASSUME NEW c \in Conn, Check(c) PROVE [P!Next]_presence
  BY <1>14 DEF Check, HandlerTo, End, peerVars, presence, TypeOK
<1>15. ASSUME NEW c \in Conn, AddPeer(c) PROVE [P!Next]_presence
  <2>1. CASE peers[node[c]] # None
    BY <1>15, <2>1 DEF AddPeer, End, peerVars, presence, TypeOK
  <2>2. CASE peers[node[c]] = None
    <3>1. node[c] \in Remote
      BY <1>15 DEF AddPeer, TypeOK, NamesOK
    <3>2. peers' = [peers EXCEPT ![node[c]] = c]
      BY <1>15, <2>2 DEF AddPeer
    <3>3. stop' = stop
      BY <1>15, <2>2 DEF AddPeer
    <3>4. balance' = [balance EXCEPT ![node[c]] = @ + 1]
      BY <1>15, <2>2 DEF AddPeer, Announce, EventsClosed
    <3>5. balance[node[c]] = 0
      BY <2>2, <3>1 DEF SlotInv, BalanceOK
    <3>6. peers'[node[c]] = c /\ balance'[node[c]] = 1 /\ c # None
      BY <3>1, <3>2, <3>4, <3>5, TopologyAssumption DEF TypeOK, TopologyAssumption
    <3>7. presence[node[c]] = "absent" /\ presence'[node[c]] = "connected"
      BY <2>2, <3>1, <3>3, <3>6 DEF presence
    <3>8. \A q \in Remote \ {node[c]} : peers'[q] = peers[q] /\ balance'[q] = balance[q]
      BY <3>2, <3>4 DEF TypeOK
    <3>9. P!Connected(node[c])
      BY <3>1, <3>3, <3>7, <3>8, PresenceBecomes DEF P!Connected
    <3> QED
      BY <3>1, <3>9 DEF P!Next
  <2> QED
    BY <2>1, <2>2
<1>16. ASSUME NEW c \in Conn, Greet(c) PROVE [P!Next]_presence
  BY <1>16 DEF Greet, HandlerTo, peerVars, presence, TypeOK
<1>17. ASSUME NEW c \in Conn, ReadMessage(c) PROVE [P!Next]_presence
  BY <1>17 DEF ReadMessage, HandlerTo, peerVars, presence, TypeOK
<1>18. ASSUME NEW c \in Conn, Deliver(c) PROVE [P!Next]_presence
  BY <1>18 DEF Deliver, HandlerTo, peerVars, presence, TypeOK
<1>19. ASSUME NEW c \in Conn, DeliverPanics(c) PROVE [P!Next]_presence
  BY <1>19 DEF DeliverPanics, MessagesClosed
<1>20. ASSUME NEW c \in Conn, ReadFails(c) PROVE [P!Next]_presence
  BY <1>20 DEF ReadFails, HandlerTo, peerVars, presence, TypeOK
<1>21. ASSUME NEW c \in Conn, Disconnect(c) PROVE [P!Next]_presence
  BY <1>21 DEF Disconnect, HandlerTo, End, presence, TypeOK
<1>22. ASSUME NEW c \in Conn, Publish(c) PROVE [P!Next]_presence
  <2>1. node[c] \in Remote /\ peers[node[c]] = c
    BY <1>22 DEF Publish, TypeOK, NamesOK, SlotInv, HandlersOwnSlots, Managed
  <2>2. peers' = peers /\ stop' = stop
    BY <1>22 DEF Publish
  <2>3. balance' = [balance EXCEPT ![node[c]] = @ + -1]
    BY <1>22 DEF Publish, Announce, EventsClosed
  <2>4. c # None /\ balance[node[c]] = 1
    BY <1>22, <2>1, TopologyAssumption
    DEF Publish, SlotInv, BalanceOK, TopologyAssumption
  <2>5. balance'[node[c]] = 0
    BY <2>1, <2>3, <2>4 DEF TypeOK
  <2>6. presence[node[c]] = "connected" /\ presence'[node[c]] = "disconnected"
    BY <2>1, <2>2, <2>4, <2>5 DEF presence
  <2>7. \A q \in Remote \ {node[c]} : peers'[q] = peers[q] /\ balance'[q] = balance[q]
    BY <2>2, <2>3 DEF TypeOK
  <2>8. P!Disconnected(node[c])
    BY <2>1, <2>2, <2>6, <2>7, PresenceBecomes DEF P!Disconnected
  <2> QED
    BY <2>1, <2>8 DEF P!Next
<1>23. ASSUME NEW c \in Conn, Remove(c) PROVE [P!Next]_presence
  <2>1. handler[c] = "remove" /\ ~stuck
    BY <1>23 DEF Remove, SlotInv
  <2>2. c \notin connected /\ peers[node[c]] = c /\ node[c] \in Remote
    BY <2>1 DEF SlotInv, MapInv, ConnectedEarly, Early, HandlersOwnSlots, Managed,
        TypeOK, NamesOK
  <2>3. UNCHANGED <<stuck, balance>> /\ peers' = [peers EXCEPT ![node[c]] = None]
    BY <1>23, <2>2 DEF Remove, RemovePeer
  <2>4. stop'.pc = stop.pc
    BY <1>23 DEF Remove, End, TypeOK
  <2>5. c # None /\ balance[node[c]] = 0
    BY <2>1, <2>2, TopologyAssumption DEF SlotInv, BalanceOK, TopologyAssumption
  <2>6. peers'[node[c]] = None /\ balance'[node[c]] = 0
    BY <2>2, <2>3, <2>5 DEF TypeOK
  <2>7. presence[node[c]] = "disconnected"
    BY <2>2, <2>5 DEF presence
  <2>8. presence'[node[c]] = "absent"
    BY <2>2, <2>4, <2>6 DEF presence
  <2>9. \A q \in Remote \ {node[c]} : peers'[q] = peers[q] /\ balance'[q] = balance[q]
    BY <2>3 DEF TypeOK
  <2>10. P!Vacated(node[c])
    BY <2>2, <2>4, <2>7, <2>8, <2>9, PresenceBecomes DEF P!Vacated
  <2> QED
    BY <2>2, <2>10 DEF P!Next
<1>24. ASSUME NEW c \in Conn, RemoteCloses(c) PROVE [P!Next]_presence
  BY <1>24 DEF RemoteCloses, peerVars, presence, TypeOK
<1>25. CASE StopBegin
  BY <1>25 DEF StopBegin, StopMark, StopTo, connVars, peerVars, presence, TypeOK
<1>26. CASE StopCancel
  BY <1>26 DEF StopCancel, StopMark, StopTo, connVars, peerVars, presence, TypeOK
<1>27. CASE StopTransport
  BY <1>27 DEF StopTransport, StopTo, peerVars, presence, TypeOK
<1>28. CASE StopPeers
  <2>1. presence' = [r \in Remote |-> "over"]
    BY <1>28 DEF StopPeers, presence, TypeOK
  <2> QED
    BY <2>1 DEF P!Next, P!Stopped
<1>29. ASSUME NEW c \in Conn, StopPeer(c) PROVE [P!Next]_presence
  BY <1>29 DEF StopPeer, presence, TypeOK
<1>30. CASE StopPublish
  BY <1>30 DEF StopPublish, StopTo, Announce, connVars, presence, TypeOK
<1>31. CASE StopRemove
  BY <1>31 DEF StopRemove, RemovePeer, Announce, presence, TypeOK
<1>32. CASE StopMessages
  BY <1>32 DEF StopMessages, StopMark, StopTo, connVars, peerVars, presence, TypeOK
<1>33. CASE StopEvents
  BY <1>33 DEF StopEvents, StopMark, StopTo, connVars, peerVars, presence, TypeOK
<1>34. CASE StopWait
  BY <1>34 DEF StopWait, StopMark, StopTo, connVars, peerVars, presence, TypeOK
<1>35. CASE UNCHANGED vars
  BY <1>35 DEF vars, connVars, peerVars, presence, TypeOK
<1> QED
  BY <1>1, <1>2, <1>3, <1>4, <1>5, <1>6, <1>7, <1>8, <1>9, <1>10, <1>11, 
     <1>12, <1>13, <1>14, <1>15, <1>16, <1>17, <1>18, <1>19, <1>20, <1>21, 
     <1>22, <1>23, <1>24, <1>25, <1>26, <1>27, <1>28, <1>29, <1>30, <1>31, 
     <1>32, <1>33, <1>34, <1>35
  DEF Next, Dial, Handle, StopStep

\* Subscribers are told of every node that comes and goes, in turn, and a node
\* is never taken in twice: Topology implements Presence until Stop.
THEOREM TopologyImplementsPresence == Spec => ImplementsPresence
<1>1. Init => P!Init
  BY DEF Init, P!Init, presence, Managing, StopIn
<1>2. TypeOK /\ TypeOK' /\ SlotInv /\ [Next]_vars => [P!Next]_presence
  BY PresenceStep
<1> QED
  BY <1>1, <1>2, TopologyTypeOK, SlotInvAlways, PTL DEF Spec, ImplementsPresence, P!Spec
=============================================================================
