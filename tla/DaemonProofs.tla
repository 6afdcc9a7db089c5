---------------------------- MODULE DaemonProofs ----------------------------
(***************************************************************************)
(* Proofs about Daemon, for any number of daemons and commands: types, the *)
(* ownership of the socket path, the orderly stop, and what a paste sees.  *)
(***************************************************************************)
EXTENDS Daemon, TLAPS

USE DaemonAssumption DEF DaemonAssumption, AnyState

Phases == {"off", "topology", "socket", "bind", "running", "cancelled",
           "stopServer", "wait", "remove", "stopTopology", "exit"}
Requests(n) == [at : AnyState \cup {"none"}, op : {"none", "copy", "paste"},
                to : Server \cup {Nobody}, n : 0..n, floor : 0..n]
Engines(n) == [at : {"none", "boot", "init", "run"}, read : 0..n]

\* A connection leads to a daemon.
Targeted == \A r \in Request : request[r].at # "none" => request[r].to \in Server

TypeInv == TypeOK /\ Targeted

-----------------------------------------------------------------------------
(* Types. *)

LEMMA TypeInit == Init => TypeOK
  BY DEF Init, TypeOK, NoRequest, NoEngine

\* Dropping connections keeps what the others are.
LEMMA DroppedTyped ==
  ASSUME NEW d \in Server, NEW those, NEW n \in Nat, request \in [Request -> Requests(n)]
  PROVE  Dropped(d, those) \in [Request -> Requests(n)]
  BY DEF Dropped, Requests, NoRequest

\* The steps of a daemon's process.
LEMMA ProcessTyped ==
  ASSUME TypeOK, NEW d \in Server,
         \/ Launch(d) \/ StartTopology(d) \/ RemoveOld(d) \/ Bind(d)
         \/ Signal(d) \/ EngineStops(d) \/ CloseListener(d) \/ HandlersDone(d)
         \/ RemoveSocket(d) \/ StopTopology(d) \/ Exit(d) \/ Crash(d)
  PROVE  TypeOK'
<1> USE DEF TypeOK, holdings, clipboard, history, Goes
<1>0. settings \in Nat /\ request \in [Request -> Requests(settings)]
      /\ engine \in [Server -> Engines(settings)]
  BY DEF Requests, Engines
<1>1. CASE Launch(d)
  BY <1>1 DEF Launch
<1>2. CASE StartTopology(d)
  BY <1>2 DEF StartTopology
<1>3. CASE RemoveOld(d)
  BY <1>3 DEF RemoveOld
<1>4. CASE Bind(d)
  <2>1. CASE listening' = listening \cup {d} /\ engine' = [engine EXCEPT ![d].at = "boot"]
             /\ socket' = d /\ phase' = [phase EXCEPT ![d] = "running"]
    <3>1. engine' \in [Server -> Engines(settings)]
      BY <1>0, <2>1 DEF Engines
    <3>2. listening' \subseteq {e \in Server : phase'[e] \in {"running", "cancelled", "stopServer"}}
      BY <2>1
    <3> QED BY <1>4, <2>1, <3>1, <3>2 DEF Bind, Engines
  <2>2. CASE UNCHANGED <<socket, listening, engine>> /\ phase' = [phase EXCEPT ![d] = "stopTopology"]
    BY <1>4, <2>2 DEF Bind
  <2> QED BY <1>4, <2>1, <2>2 DEF Bind
<1>5. CASE Signal(d)
  BY <1>5 DEF Signal
<1>6. CASE EngineStops(d)
  BY <1>6 DEF EngineStops, NoEngine
<1>7. CASE CloseListener(d)
  <2>1. request' \in [Request -> Requests(settings)]
    BY <1>0, <1>7, DroppedTyped DEF CloseListener
  <2> QED BY <1>7, <2>1 DEF CloseListener, Requests
<1>8. CASE HandlersDone(d)
  BY <1>8 DEF HandlersDone
<1>9. CASE RemoveSocket(d)
  BY <1>9 DEF RemoveSocket
<1>10. CASE StopTopology(d)
  BY <1>10 DEF StopTopology
<1>11. CASE Exit(d)
  <2>1. request' \in [Request -> Requests(settings)]
    BY <1>0, <1>11, DroppedTyped DEF Exit, Gone
  <2> QED BY <1>11, <2>1 DEF Exit, Gone, Requests, NoEngine
<1>12. CASE Crash(d)
  <2>1. request' \in [Request -> Requests(settings)]
    BY <1>0, <1>12, DroppedTyped DEF Crash, Gone
  <2> QED BY <1>12, <2>1 DEF Crash, Gone, Requests, NoEngine
<1> QED BY <1>1, <1>2, <1>3, <1>4, <1>5, <1>6, <1>7, <1>8, <1>9, <1>10, <1>11, <1>12

\* The steps of a daemon's engine.
LEMMA EngineTyped ==
  ASSUME TypeOK, NEW d \in Server, EngineReads(d) \/ EngineInits(d) \/ EngineSets(d)
  PROVE  TypeOK'
<1> USE DEF TypeOK, holdings, clipboard, history
<1>1. CASE EngineReads(d)
  BY <1>1 DEF EngineReads
<1>2. CASE EngineInits(d)
  BY <1>2 DEF EngineInits
<1>3. CASE EngineSets(d)
  <2>1. settings \in Nat /\ settings' = settings + 1 /\ 0..settings \subseteq 0..settings'
        /\ settings' \in 0..MaxSettings /\ settings' \in 0..settings'
    BY <1>3 DEF EngineSets
  <2>2. current' \in [Server -> 0..settings'] /\ confirmed' \in [Server -> 0..settings']
        /\ os' \in 0..settings'
    BY <1>3, <2>1 DEF EngineSets
  <2>3. engine' \in [Server -> Engines(settings)] /\ Engines(settings) \subseteq Engines(settings')
    BY <1>3, <2>1 DEF EngineSets, Engines
  <2>4. request' \in [Request -> Requests(settings)]
        /\ Requests(settings) \subseteq Requests(settings')
    BY <1>3, <2>1 DEF EngineSets, Requests
  <2> QED BY <1>3, <2>1, <2>2, <2>3, <2>4 DEF EngineSets, Engines, Requests
<1> QED BY <1>1, <1>2, <1>3

\* The steps of a command and its handler.
LEMMA RequestTyped ==
  ASSUME TypeOK, Targeted, NEW r \in Request,
         \/ \E op \in {"copy", "paste"} : Dial(r, op)
         \/ AcceptRequest(r) \/ ReadRequest(r) \/ HandleCopy(r) \/ WriteClipboard(r)
         \/ CopyUnconfirmed(r) \/ ConfirmCopy(r) \/ HandlePaste(r) \/ AnswerPaste(r)
  PROVE  TypeOK'
<1> USE DEF TypeOK, holdings, clipboard, history, RequestVars, Becomes
<1>0. settings \in Nat /\ request \in [Request -> Requests(settings)]
      /\ NoRequest \in Requests(settings)
  BY DEF Requests, NoRequest
<1>1. CASE \E op \in {"copy", "paste"} : Dial(r, op)
  <2>1. PICK op \in {"copy", "paste"} : Dial(r, op)
    BY <1>1
  <2>2. socket \in Server
    BY <2>1 DEF Dial
  <2>3. (IF op = "copy" THEN 0 ELSE confirmed[socket]) \in 0..settings
    BY <2>2, <1>0
  <2>4. [at |-> "queued", op |-> op, to |-> socket, n |-> 0,
         floor |-> IF op = "copy" THEN 0 ELSE confirmed[socket]] \in Requests(settings)
    BY <2>2, <2>3, <1>0 DEF Requests, AnyState
  <2>5. request' \in [Request -> Requests(settings)]
    BY <1>0, <2>1, <2>4 DEF Dial
  <2> HIDE DEF Dial
  <2>6. UNCHANGED <<phase, holdings, engine, starts, history, clipboard>>
    BY <2>1 DEF Dial
  <2> QED BY <2>5, <2>6 DEF Requests
<1>2. CASE AcceptRequest(r)
  BY <1>2 DEF AcceptRequest
<1>3. CASE ReadRequest(r)
  <2>1. CASE request' = [request EXCEPT ![r] = NoRequest]
    BY <1>0, <1>3, <2>1 DEF ReadRequest, Requests
  <2>2. CASE \E where \in {"set", "get"} : request' = [request EXCEPT ![r].at = where]
    <3>1. PICK where \in {"set", "get"} : request' = [request EXCEPT ![r].at = where]
      BY <2>2
    <3>2. request' \in [Request -> Requests(settings)]
      BY <1>0, <3>1 DEF Requests
    <3> QED BY <1>3, <3>2 DEF ReadRequest, Requests
  <2> QED BY <1>3, <2>1, <2>2 DEF ReadRequest
<1>4. CASE HandleCopy(r)
  <2>1. CASE settings' = settings + 1 /\ settings < MaxSettings
             /\ current' = [current EXCEPT ![request[r].to] = settings']
             /\ request' = [request EXCEPT ![r].at = "write", ![r].n = settings']
    <3>1. settings \in Nat /\ 0..settings \subseteq 0..settings'
          /\ settings' \in 0..MaxSettings /\ settings' \in 0..settings'
      BY <2>1
    <3>2. current' \in [Server -> 0..settings'] /\ confirmed' \in [Server -> 0..settings']
          /\ os' \in 0..settings'
      BY <1>4, <2>1, <3>1 DEF HandleCopy
    <3>3. engine' \in [Server -> Engines(settings)]
          /\ Engines(settings) \subseteq Engines(settings')
      BY <1>4, <3>1 DEF HandleCopy, Engines
    <3>4. Requests(settings) \subseteq Requests(settings')
      BY <3>1 DEF Requests
    <3>5. request \in [Request -> Requests(settings')]
      BY <1>0, <3>4
    <3>6. request' \in [Request -> Requests(settings')]
      BY <2>1, <3>1, <3>5 DEF Requests, AnyState
    <3> QED BY <1>4, <2>1, <3>1, <3>2, <3>3, <3>6 DEF HandleCopy, Engines, Requests
  <2>2. CASE request' = [request EXCEPT ![r] = NoRequest] /\ UNCHANGED <<current, settings>>
    BY <1>4, <2>2, <1>0 DEF HandleCopy, Requests
  <2> QED BY <1>4, <2>1, <2>2 DEF HandleCopy
<1>5. CASE WriteClipboard(r)
  <2>1. os' \in 0..settings
    BY <1>0, <1>5 DEF WriteClipboard, Requests
  <2>2. request' \in [Request -> Requests(settings)]
    BY <1>0, <1>5 DEF WriteClipboard, Requests
  <2> QED BY <1>5, <2>1, <2>2 DEF WriteClipboard, Requests
<1>6. CASE CopyUnconfirmed(r)
  BY <1>6, <1>0 DEF CopyUnconfirmed, Requests
<1>7. CASE ConfirmCopy(r)
  <2>1. confirmed' \in [Server -> 0..settings]
    <3>1. SUFFICES ASSUME request[r].to \in Server
                   PROVE  Max({confirmed[request[r].to], request[r].n}) \in 0..settings
      BY <1>7 DEF ConfirmCopy
    <3> DEFINE a == confirmed[request[r].to]
               b == request[r].n
    <3>2. a \in 0..settings /\ b \in 0..settings
      BY <3>1
    <3>3. \E x \in {a, b} : \A y \in {a, b} : x >= y
      BY <3>2
    <3> QED BY <3>2, <3>3 DEF Max
  <2> QED BY <1>7, <2>1, <1>0 DEF ConfirmCopy, Requests
<1>8. CASE HandlePaste(r)
  <2>1. current[request[r].to] \in 0..settings
    BY <1>8 DEF HandlePaste, Targeted
  <2>2. request' \in [Request -> Requests(settings)]
    BY <1>0, <1>8, <2>1 DEF HandlePaste, Requests
  <2> QED BY <1>8, <2>2 DEF HandlePaste, Requests
<1>9. CASE AnswerPaste(r)
  BY <1>9, <1>0 DEF AnswerPaste, Requests
<1> QED BY <1>1, <1>2, <1>3, <1>4, <1>5, <1>6, <1>7, <1>8, <1>9

LEMMA TargetedKept == TypeInv /\ [Next]_vars => Targeted'
<1> SUFFICES ASSUME TypeInv, [Next]_vars, NEW r \in Request, request'[r].at # "none"
             PROVE  request'[r].to \in Server
  BY DEF Targeted
<1> USE DEF TypeInv, TypeOK, Targeted, NoRequest, Becomes
<1>1. CASE UNCHANGED request
  BY <1>1
<1>2. CASE \E d \in Server : \E those : request' = Dropped(d, those)
  BY <1>2 DEF Dropped
<1>3. CASE \E q \in Request : \/ \E op \in {"copy", "paste"} : Dial(q, op)
                              \/ AcceptRequest(q) \/ ReadRequest(q) \/ HandleCopy(q)
                              \/ WriteClipboard(q) \/ CopyUnconfirmed(q) \/ ConfirmCopy(q)
                              \/ HandlePaste(q) \/ AnswerPaste(q)
  <2>1. PICK q \in Request : \/ \E op \in {"copy", "paste"} : Dial(q, op)
                             \/ AcceptRequest(q) \/ ReadRequest(q) \/ HandleCopy(q)
                             \/ WriteClipboard(q) \/ CopyUnconfirmed(q) \/ ConfirmCopy(q)
                             \/ HandlePaste(q) \/ AnswerPaste(q)
    BY <1>3
  <2>2. CASE \E op \in {"copy", "paste"} : Dial(q, op)
    BY <2>2 DEF Dial
  <2>3. CASE AcceptRequest(q)
    BY <2>3 DEF AcceptRequest
  <2>4. CASE ReadRequest(q)
    <3>1. \/ request' = [request EXCEPT ![q] = NoRequest]
          \/ /\ request[q].at # "none"
             /\ \E where \in {"set", "get"} : request' = [request EXCEPT ![q].at = where]
      BY <2>4 DEF ReadRequest
    <3>2. CASE request' = [request EXCEPT ![q] = NoRequest]
      BY <3>2
    <3>3. CASE /\ request[q].at # "none"
               /\ \E where \in {"set", "get"} : request' = [request EXCEPT ![q].at = where]
      <4>1. PICK where \in {"set", "get"} : request' = [request EXCEPT ![q].at = where]
        BY <3>3
      <4>2. request'[r].to = request[r].to /\ (r # q => request'[r] = request[r])
        BY <4>1
      <4> QED BY <3>3, <4>2
    <3> QED BY <3>1, <3>2, <3>3
  <2>5. CASE HandleCopy(q)
    BY <2>5 DEF HandleCopy
  <2>6. CASE WriteClipboard(q)
    BY <2>6 DEF WriteClipboard
  <2>7. CASE CopyUnconfirmed(q) \/ ConfirmCopy(q) \/ AnswerPaste(q)
    BY <2>7 DEF CopyUnconfirmed, ConfirmCopy, AnswerPaste
  <2>8. CASE HandlePaste(q)
    BY <2>8 DEF HandlePaste
  <2> QED BY <2>1, <2>2, <2>3, <2>4, <2>5, <2>6, <2>7, <2>8
<1> QED
  BY <1>1, <1>2, <1>3
  DEF Next, vars, clipboard, Launch, StartTopology, RemoveOld, Bind, EngineReads, EngineInits,
      EngineSets, Signal, EngineStops, CloseListener, HandlersDone, RemoveSocket, StopTopology,
      Exit, Crash, Gone

LEMMA TypeKept == TypeInv /\ [Next]_vars => TypeInv'
<1>1. TypeInv /\ Next => TypeOK'
  BY ProcessTyped, EngineTyped, RequestTyped DEF Next, TypeInv
<1>2. TypeInv /\ UNCHANGED vars => TypeOK'
  BY DEF TypeInv, TypeOK, vars
<1> QED BY <1>1, <1>2, TargetedKept DEF TypeInv

\* Every variable of the daemons keeps its type.
THEOREM DaemonTypeOK == Spec => []TypeOK
<1>1. Init => TypeInv
  BY TypeInit DEF TypeInv, Init, Targeted, NoRequest
<1> QED BY <1>1, TypeKept, PTL DEF Spec, TypeInv

-----------------------------------------------------------------------------
(* The socket path. *)

\* The phases in which a daemon may touch the path.
Holding == {"socket", "bind", "running", "cancelled", "stopServer", "wait", "remove"}

\* Meanwhile a full node has the port ...
PortHeld == \A d \in Full : phase[d] \in Holding => port = d

\* ... and beside a daemon that has not been overlapped there are full nodes only.
Apart ==
  \A d, e \in Server :
    d # e /\ Alive(d) /\ Alive(e) /\ d \notin overlapped => d \in Full /\ e \in Full

SocketInv == PortHeld /\ Apart /\ SocketIsOurs

LEMMA SocketKept ==
  ASSUME TypeInv, SocketInv, [Next]_vars
  PROVE  SocketInv'
<1> USE DEF TypeInv, TypeOK, SocketInv, PortHeld, Apart, SocketIsOurs, Alive, Holding, Goes
<1>1. CASE UNCHANGED <<phase, socket, port, overlapped>>
  BY <1>1
<1>2. ASSUME NEW d \in Server, Launch(d)
      PROVE  SocketInv'
  <2>1. PortHeld' /\ SocketIsOurs'
    BY <1>2 DEF Launch, holdings
  <2>2. Apart'
    BY <1>2 DEF Launch
  <2> QED BY <2>1, <2>2
<1>3. ASSUME NEW d \in Server, StartTopology(d)
      PROVE  SocketInv'
  BY <1>3 DEF StartTopology, history
<1>4. ASSUME NEW d \in Server, RemoveOld(d) \/ Bind(d) \/ CloseListener(d) \/ RemoveSocket(d)
      PROVE  SocketInv'
  <2>1. UNCHANGED <<port, overlapped>> /\ phase[d] \in Holding
        /\ \E where \in Holding \cup {"stopTopology"} : phase' = [phase EXCEPT ![d] = where]
        /\ (phase'[d] = "running" => socket' = d)
    BY <1>4 DEF RemoveOld, Bind, CloseListener, RemoveSocket, history
  <2>2. PortHeld' /\ Apart'
    BY <2>1
  <2>3. ASSUME NEW e \in Server, phase'[e] = "running", e \notin overlapped'
        PROVE  socket' = e
    <3>1. CASE e = d
      BY <2>1, <2>3, <3>1
    <3>2. CASE e # d
      <4>1. phase[e] = "running" /\ e \in Full /\ d \in Full
        BY <2>1, <2>3, <3>2
      <4> QED BY <2>1, <3>2, <4>1
    <3> QED BY <3>1, <3>2
  <2> QED BY <2>2, <2>3
<1>5. ASSUME NEW d \in Server, Signal(d) \/ EngineStops(d) \/ HandlersDone(d)
      PROVE  SocketInv'
  <2>1. UNCHANGED <<socket, port, overlapped>> /\ phase[d] \in Holding
        /\ \E where \in {"cancelled", "stopServer", "remove", "stopTopology"} :
             phase' = [phase EXCEPT ![d] = where]
    BY <1>5 DEF Signal, EngineStops, HandlersDone, holdings, history
  <2> QED BY <2>1
<1>6. ASSUME NEW d \in Server, StopTopology(d)
      PROVE  SocketInv'
  BY <1>6 DEF StopTopology, history
<1>7. ASSUME NEW d \in Server, Exit(d)
      PROVE  SocketInv'
  BY <1>7 DEF Exit, Gone, holdings
<1>8. ASSUME NEW d \in Server, Crash(d)
      PROVE  SocketInv'
  BY <1>8 DEF Crash, Gone
<1> QED
  BY <1>1, <1>2, <1>3, <1>4, <1>5, <1>6, <1>7, <1>8
  DEF Next, vars, holdings, history, clipboard, RequestVars, EngineReads, EngineInits, EngineSets,
      Dial, AcceptRequest, ReadRequest, HandleCopy, WriteClipboard, CopyUnconfirmed,
      ConfirmCopy, HandlePaste, AnswerPaste

\* The socket path leads to the daemon that runs, unless one without the port
\* has been beside it.
THEOREM DaemonSocketIsOurs == Spec => []SocketIsOurs
<1>1. Init => TypeInv /\ SocketInv
  <2>1. Init => SocketInv
    BY DEF Init, SocketInv, PortHeld, Apart, SocketIsOurs, Alive, Holding
  <2> QED BY <2>1, TypeInit DEF TypeInv, Init, Targeted, NoRequest
<1>2. TypeInv /\ SocketInv /\ [Next]_vars => (TypeInv /\ SocketInv)'
  BY TypeKept, SocketKept
<1> QED BY <1>1, <1>2, PTL DEF Spec, SocketInv

-----------------------------------------------------------------------------
(* The orderly stop. *)

\* A daemon has no connection before it listens.
EarlyFree ==
  \A r \in Request : request[r].at # "none" =>
    phase[request[r].to] \notin {"off", "topology", "socket", "bind"}

\* A handler that is left when its daemon goes on to the topology is overdue.
LeftOverdue ==
  \A r \in Request :
    request[r].at \notin {"none", "queued"}
      /\ phase[request[r].to] \in {"remove", "stopTopology", "exit"}
    => request[r].to \in overdue

StopInv == EarlyFree /\ LeftOverdue

\* The steps of commands and handlers.
Serving ==
  \E r \in Request :
    \/ \E op \in {"copy", "paste"} : Dial(r, op)
    \/ AcceptRequest(r) \/ ReadRequest(r) \/ HandleCopy(r) \/ WriteClipboard(r)
    \/ CopyUnconfirmed(r) \/ ConfirmCopy(r) \/ HandlePaste(r) \/ AnswerPaste(r)

\* What a handler does starts from a connection that listens or is handled, and
\* leaves the daemons alone.
LEMMA ServingStep ==
  ASSUME TypeInv, Serving
  PROVE  /\ UNCHANGED <<phase, socket, port, listening, engine, starts,
                        overlapped, rolledBack, overdue>>
         /\ \A r \in Request :
              request'[r].at # "none" =>
                \/ /\ request'[r].to \in listening
                   /\ request[r].at \in {"none", "queued"}
                   /\ request[r].at = "queued" => request'[r].to = request[r].to
                \/ /\ request'[r].to = request[r].to
                   /\ request[r].at # "none"
                   /\ request'[r].at = "queued" <=> request[r].at = "queued"
<1> USE DEF TypeInv, TypeOK, holdings, history, RequestVars, NoRequest
<1>1. PICK q \in Request :
        \/ \E op \in {"copy", "paste"} : Dial(q, op)
        \/ AcceptRequest(q) \/ ReadRequest(q) \/ HandleCopy(q) \/ WriteClipboard(q)
        \/ CopyUnconfirmed(q) \/ ConfirmCopy(q) \/ HandlePaste(q) \/ AnswerPaste(q)
  BY DEF Serving
<1>2. UNCHANGED <<phase, socket, port, listening, engine, starts, overlapped, rolledBack, overdue>>
  BY <1>1 DEF Dial, AcceptRequest, ReadRequest, HandleCopy, WriteClipboard, CopyUnconfirmed,
              ConfirmCopy, HandlePaste, AnswerPaste
<1>3. CASE \E op \in {"copy", "paste"} : Dial(q, op)
  BY <1>2, <1>3 DEF Dial
<1>4. CASE AcceptRequest(q)
  BY <1>2, <1>4 DEF AcceptRequest, Becomes
<1>5. CASE ReadRequest(q)
  <2>1. CASE request' = [request EXCEPT ![q] = NoRequest]
    BY <1>2, <2>1
  <2>2. CASE \E where \in {"set", "get"} : request' = [request EXCEPT ![q].at = where]
    BY <1>2, <1>5, <2>2 DEF ReadRequest
  <2> QED BY <1>5, <2>1, <2>2 DEF ReadRequest, Becomes
<1>6. CASE HandleCopy(q)
  BY <1>2, <1>6 DEF HandleCopy
<1>7. CASE WriteClipboard(q)
  BY <1>2, <1>7 DEF WriteClipboard, Becomes
<1>8. CASE CopyUnconfirmed(q) \/ ConfirmCopy(q) \/ AnswerPaste(q)
  BY <1>2, <1>8 DEF CopyUnconfirmed, ConfirmCopy, AnswerPaste
<1>9. CASE HandlePaste(q)
  BY <1>2, <1>9 DEF HandlePaste
<1> QED BY <1>1, <1>3, <1>4, <1>5, <1>6, <1>7, <1>8, <1>9

LEMMA StopKept ==
  ASSUME TypeInv, StopInv, [Next]_vars
  PROVE  StopInv'
<1> USE DEF TypeInv, TypeOK, StopInv, EarlyFree, LeftOverdue, Goes, Targeted
<1>1. CASE UNCHANGED <<phase, request, overdue>>
  BY <1>1
<1>2. CASE Serving
  BY <1>2, ServingStep
<1>3. ASSUME NEW d \in Server,
             \/ Launch(d) \/ StartTopology(d) \/ RemoveOld(d) \/ Bind(d)
             \/ Signal(d) \/ EngineStops(d) \/ RemoveSocket(d) \/ StopTopology(d)
      PROVE  StopInv'
  <2>1. UNCHANGED <<request, overdue>>
        /\ \E where : /\ phase' = [phase EXCEPT ![d] = where]
                      /\ \/ phase[d] \in {"off", "topology", "socket", "bind"}
                         \/ phase[d] = "running" /\ where = "cancelled"
                         \/ phase[d] = "cancelled" /\ where = "stopServer"
                         \/ phase[d] \in {"remove", "stopTopology"}
                            /\ where \in {"stopTopology", "exit"}
    BY <1>3 DEF Launch, StartTopology, RemoveOld, Bind, Signal, EngineStops, RemoveSocket,
                StopTopology, history, clipboard
  <2> QED BY <2>1
<1>4. ASSUME NEW d \in Server, CloseListener(d)
      PROVE  StopInv'
  BY <1>4 DEF CloseListener, Dropped, NoRequest, history
<1>5. ASSUME NEW d \in Server, HandlersDone(d)
      PROVE  StopInv'
  BY <1>5 DEF HandlersDone, Handlers, Handled
<1>6. ASSUME NEW d \in Server, Exit(d) \/ Crash(d)
      PROVE  StopInv'
  <2>1. request' = Dropped(d, AnyState) /\ overdue' = overdue \ {d}
        /\ phase' = [phase EXCEPT ![d] = "off"]
    BY <1>6 DEF Exit, Crash, Gone
  <2>2. ASSUME NEW r \in Request, request'[r].at # "none"
        PROVE  request'[r] = request[r] /\ request[r].to # d
    BY <2>1, <2>2 DEF Dropped, NoRequest
  <2> QED BY <2>1, <2>2
<1> QED
  BY <1>1, <1>2, <1>3, <1>4, <1>5, <1>6
  DEF Next, vars, history, Serving, EngineReads, EngineInits, EngineSets

\* No handler is inside the engine when the topology stops, but overdue ones.
THEOREM DaemonCleanStop == Spec => []CleanStop
<1>1. Init => TypeInv /\ StopInv
  <2>1. Init => StopInv
    BY DEF Init, StopInv, EarlyFree, LeftOverdue, NoRequest
  <2> QED BY <2>1, TypeInit DEF TypeInv, Init, Targeted, NoRequest
<1>2. TypeInv /\ StopInv /\ [Next]_vars => (TypeInv /\ StopInv)'
  BY TypeKept, StopKept
<1>3. StopInv => CleanStop
  BY DEF StopInv, LeftOverdue, CleanStop, Handlers, Handled
<1> QED BY <1>1, <1>2, <1>3, PTL DEF Spec

-----------------------------------------------------------------------------
(* What a paste sees. *)

\* What was confirmed is in the state, or something newer ...
ConfirmedKept == \A d \in Server : d \notin rolledBack => current[d] >= confirmed[d]

\* ... as is what is about to be confirmed.
CopyKept ==
  \A r \in Request :
    /\ request[r].at \in {"write", "reply"} /\ request[r].op = "copy"
    /\ request[r].to \notin rolledBack
    => current[request[r].to] >= request[r].n

\* What a command found confirmed still is.
FloorConfirmed ==
  \A r \in Request : request[r].at # "none" => request[r].floor <= confirmed[request[r].to]

\* The handler of a copy sets the clipboard, and of no other command.
OpMatches == \A r \in Request : request[r].at \in {"set", "write"} => request[r].op = "copy"

PasteInv == ConfirmedKept /\ CopyKept /\ FloorConfirmed /\ ReadYourWrites

\* A daemon that goes takes its connections along.
LEMMA GoneKept ==
  ASSUME TypeInv, PasteInv, NEW d \in Server, Gone(d)
  PROVE  PasteInv'
<1> USE DEF TypeInv, TypeOK, PasteInv, Targeted
<1>1. \A r \in Request : request'[r].at # "none" => request'[r] = request[r] /\ request[r].to # d
  BY DEF Gone, Dropped, NoRequest
<1>2. \A e \in Server : e # d => current'[e] = current[e] /\ confirmed'[e] = confirmed[e]
                                /\ (e \in rolledBack' <=> e \in rolledBack)
  BY DEF Gone
<1>3. ConfirmedKept'
  BY <1>2 DEF Gone, ConfirmedKept
<1>4. CopyKept'
  BY <1>1, <1>2 DEF CopyKept
<1>5. FloorConfirmed'
  BY <1>1, <1>2 DEF FloorConfirmed
<1>6. ReadYourWrites'
  BY <1>1, <1>2 DEF ReadYourWrites
<1> QED BY <1>3, <1>4, <1>5, <1>6

LEMMA OpKept == TypeInv /\ OpMatches /\ [Next]_vars => OpMatches'
<1> SUFFICES ASSUME TypeInv, OpMatches, [Next]_vars
             PROVE  OpMatches'
  OBVIOUS
<1> USE DEF TypeInv, TypeOK, OpMatches, NoRequest
<1>1. CASE UNCHANGED request
  BY <1>1
<1>2. CASE \E d \in Server : \E those : request' = Dropped(d, those)
  BY <1>2 DEF Dropped
<1>3. ASSUME NEW r \in Request, ReadRequest(r)
      PROVE  OpMatches'
  <2>1. CASE request' = [request EXCEPT ![r] = NoRequest]
    BY <2>1
  <2>2. PICK where : /\ where = IF request[r].op = "copy" THEN "set" ELSE "get"
                     /\ request' = [request EXCEPT ![r].at = where] \/ request' = [request EXCEPT ![r] = NoRequest]
    BY <1>3 DEF ReadRequest, Becomes
  <2>3. CASE request' = [request EXCEPT ![r].at = where]
    BY <2>2, <2>3
  <2> QED BY <2>1, <2>2, <2>3
<1>4. ASSUME NEW r \in Request,
             \/ \E op \in {"copy", "paste"} : Dial(r, op)
             \/ AcceptRequest(r) \/ HandleCopy(r) \/ WriteClipboard(r)
             \/ CopyUnconfirmed(r) \/ ConfirmCopy(r) \/ HandlePaste(r) \/ AnswerPaste(r)
      PROVE  OpMatches'
  <2>1. \A q \in Request : q # r => request'[q] = request[q]
    BY <1>4 DEF Dial, AcceptRequest, HandleCopy, WriteClipboard, CopyUnconfirmed, ConfirmCopy,
                HandlePaste, AnswerPaste, Becomes
  <2>2. request'[r].at \in {"set", "write"} => request'[r].op = "copy"
    BY <1>4 DEF Dial, AcceptRequest, HandleCopy, WriteClipboard, CopyUnconfirmed, ConfirmCopy,
                HandlePaste, AnswerPaste, Becomes
  <2> QED BY <2>1, <2>2
<1> QED
  BY <1>1, <1>2, <1>3, <1>4
  DEF Next, vars, clipboard, Launch, StartTopology, RemoveOld, Bind, EngineReads, EngineInits,
      EngineSets, Signal, EngineStops, CloseListener, HandlersDone, RemoveSocket, StopTopology,
      Exit, Crash, Gone

LEMMA MaxOfTwo ==
  ASSUME NEW a \in Nat, NEW b \in Nat
  PROVE  Max({a, b}) \in {a, b} /\ Max({a, b}) >= a /\ Max({a, b}) >= b
<1>1. \E x \in {a, b} : \A y \in {a, b} : x >= y
  OBVIOUS
<1> QED BY <1>1 DEF Max

LEMMA PasteKept ==
  ASSUME TypeInv, OpMatches, PasteInv, [Next]_vars
  PROVE  PasteInv'
<1> USE DEF TypeInv, TypeOK, PasteInv, Targeted
<1>0. /\ settings \in Nat
      /\ \A d \in Server : current[d] \in Nat /\ confirmed[d] \in Nat
                          /\ current[d] <= settings /\ confirmed[d] <= settings
      /\ \A r \in Request : request[r].n \in Nat /\ request[r].floor \in Nat
                           /\ request[r].n <= settings
  OBVIOUS
<1>1. CASE UNCHANGED <<current, confirmed, request, rolledBack>>
  BY <1>1 DEF ConfirmedKept, CopyKept, FloorConfirmed, ReadYourWrites
<1>2. ASSUME NEW d \in Server, CloseListener(d)
      PROVE  PasteInv'
  <2>1. UNCHANGED <<current, confirmed, rolledBack>>
        /\ \A r \in Request : request'[r].at # "none" => request'[r] = request[r]
    BY <1>2 DEF CloseListener, clipboard, history, Dropped, NoRequest
  <2> QED BY <2>1 DEF ConfirmedKept, CopyKept, FloorConfirmed, ReadYourWrites
<1>3. ASSUME NEW d \in Server, Exit(d) \/ Crash(d)
      PROVE  PasteInv'
  BY <1>3, GoneKept DEF Exit, Crash
<1>4. ASSUME NEW d \in Server, EngineInits(d)
      PROVE  PasteInv'
  <2>1. UNCHANGED <<confirmed, request>> /\ engine[d].read \in Nat
        /\ current' = [current EXCEPT ![d] = engine[d].read]
        /\ rolledBack' = IF current[d] > engine[d].read THEN rolledBack \cup {d} ELSE rolledBack
    BY <1>4 DEF EngineInits
  <2>2. \A e \in Server : e \notin rolledBack' => e \notin rolledBack /\ current'[e] >= current[e]
                                                /\ current'[e] \in Nat
    BY <2>1, <1>0
  <2>3. rolledBack \subseteq rolledBack'
    BY <2>1
  <2>4. ConfirmedKept'
    BY <2>1, <2>2, <1>0 DEF ConfirmedKept
  <2>5. CopyKept'
    BY <2>1, <2>2, <2>3, <1>0 DEF CopyKept
  <2> QED BY <2>1, <2>3, <2>4, <2>5 DEF FloorConfirmed, ReadYourWrites
<1>5. ASSUME NEW d \in Server, EngineSets(d)
      PROVE  PasteInv'
  <2>1. UNCHANGED <<confirmed, request, rolledBack>>
        /\ current' = [current EXCEPT ![d] = settings + 1]
    BY <1>5 DEF EngineSets, history
  <2>2. \A e \in Server : current'[e] >= current[e] /\ current'[e] \in Nat
    BY <2>1, <1>0
  <2> QED BY <2>1, <2>2, <1>0 DEF ConfirmedKept, CopyKept, FloorConfirmed, ReadYourWrites
<1>6. ASSUME NEW r \in Request, NEW op \in {"copy", "paste"}, Dial(r, op)
      PROVE  PasteInv'
  <2> DEFINE k == IF op = "copy" THEN 0 ELSE confirmed[socket]
  <2>1. /\ UNCHANGED <<current, confirmed, rolledBack>>
        /\ socket \in Server
        /\ request' = [request EXCEPT ![r] = [at |-> "queued", op |-> op, to |-> socket,
                                              n |-> 0, floor |-> k]]
    BY <1>6 DEF Dial, RequestVars, clipboard, history
  <2>2. k \in Nat /\ k <= confirmed[socket]
    BY <2>1, <1>0
  <2> HIDE DEF k
  <2> QED BY <2>1, <2>2, <1>0 DEF ConfirmedKept, CopyKept, FloorConfirmed, ReadYourWrites
<1>7. ASSUME NEW r \in Request,
             AcceptRequest(r) \/ ReadRequest(r) \/ CopyUnconfirmed(r) \/ AnswerPaste(r)
      PROVE  PasteInv'
  <2>1. /\ UNCHANGED <<current, confirmed, rolledBack>>
        /\ \/ request' = [request EXCEPT ![r] = NoRequest]
           \/ /\ request[r].at # "none"
              /\ \E where \in {"read", "set", "get"} : request' = [request EXCEPT ![r].at = where]
    BY <1>7 DEF AcceptRequest, ReadRequest, CopyUnconfirmed, AnswerPaste, Becomes, RequestVars,
                clipboard, history
  <2>2. \A q \in Request :
          request'[q].at # "none" =>
            /\ request[q].at # "none" /\ request'[q].floor = request[q].floor
            /\ request'[q].to = request[q].to
            /\ request'[q].at \in {"write", "reply"} => request'[q] = request[q]
    <3>1. CASE request' = [request EXCEPT ![r] = NoRequest]
      BY <3>1 DEF NoRequest
    <3>2. CASE /\ request[r].at # "none"
               /\ \E where \in {"read", "set", "get"} : request' = [request EXCEPT ![r].at = where]
      BY <3>2
    <3> QED BY <2>1, <3>1, <3>2
  <2> QED BY <2>1, <2>2 DEF ConfirmedKept, CopyKept, FloorConfirmed, ReadYourWrites
<1>8. ASSUME NEW r \in Request, HandleCopy(r)
      PROVE  PasteInv'
  <2>1. CASE request' = [request EXCEPT ![r] = NoRequest] /\ UNCHANGED <<current, settings>>
    BY <1>8, <2>1 DEF HandleCopy, RequestVars, history, NoRequest,
                      ConfirmedKept, CopyKept, FloorConfirmed, ReadYourWrites
  <2>2. CASE /\ current' = [current EXCEPT ![request[r].to] = settings + 1]
             /\ request' = [request EXCEPT ![r].at = "write", ![r].n = settings + 1]
    <3>1. UNCHANGED <<confirmed, rolledBack>> /\ request[r].to \in Server
          /\ request[r].at # "none" /\ request[r].at # "reply"
      BY <1>8 DEF HandleCopy, RequestVars, history
    <3>2. \A e \in Server : current'[e] >= current[e] /\ current'[e] \in Nat
      BY <2>2, <1>0
    <3>3. current'[request[r].to] = settings + 1
      BY <2>2, <3>1
    <3>4. request'[r].n = settings + 1 /\ request'[r].to = request[r].to
          /\ request'[r].floor = request[r].floor /\ request'[r].at = "write"
          /\ \A q \in Request : q # r => request'[q] = request[q]
      BY <2>2
    <3>5. ConfirmedKept'
      BY <3>1, <3>2, <1>0 DEF ConfirmedKept
    <3>6. CopyKept'
      BY <3>1, <3>2, <3>3, <3>4, <1>0 DEF CopyKept
    <3> QED BY <3>1, <3>4, <3>5, <3>6 DEF FloorConfirmed, ReadYourWrites
  <2> QED BY <1>8, <2>1, <2>2 DEF HandleCopy
<1>9. ASSUME NEW r \in Request, WriteClipboard(r)
      PROVE  PasteInv'
  <2>1. UNCHANGED <<current, confirmed, rolledBack>> /\ request[r].at = "write"
        /\ request' = [request EXCEPT ![r].at = "reply"]
    BY <1>9 DEF WriteClipboard, RequestVars, history, Becomes
  <2> QED BY <2>1 DEF OpMatches, ConfirmedKept, CopyKept, FloorConfirmed, ReadYourWrites
<1>10. ASSUME NEW r \in Request, ConfirmCopy(r)
       PROVE  PasteInv'
  <2> DEFINE d == request[r].to
             m == Max({confirmed[d], request[r].n})
  <2>1. /\ UNCHANGED <<current, rolledBack>> /\ d \in Server
        /\ request[r].at = "reply" /\ request[r].op = "copy"
        /\ confirmed' = [confirmed EXCEPT ![d] = m]
        /\ request' = [request EXCEPT ![r] = NoRequest]
    BY <1>10 DEF ConfirmCopy, RequestVars, history
  <2>2. m \in {confirmed[d], request[r].n} /\ m >= confirmed[d]
    BY <1>0, <2>1, MaxOfTwo
  <2>3. d \notin rolledBack => current[d] >= m
    BY <2>1, <2>2, <1>0 DEF ConfirmedKept, CopyKept
  <2>4. m \in Nat
    BY <2>1, <2>2, <1>0
  <2> HIDE DEF m
  <2>5. ConfirmedKept'
    BY <2>1, <2>3 DEF ConfirmedKept
  <2>6. \A q \in Request : request'[q].at # "none" => request'[q] = request[q]
    BY <2>1 DEF NoRequest
  <2>7. \A e \in Server : confirmed'[e] \in Nat /\ confirmed'[e] >= confirmed[e]
    BY <2>1, <2>2, <2>4, <1>0
  <2>8. FloorConfirmed'
    BY <2>6, <2>7, <1>0 DEF FloorConfirmed
  <2> QED BY <2>1, <2>5, <2>6, <2>8 DEF CopyKept, ReadYourWrites
<1>11. ASSUME NEW r \in Request, HandlePaste(r)
       PROVE  PasteInv'
  <2> DEFINE d == request[r].to
  <2>1. /\ UNCHANGED <<current, confirmed, rolledBack>> /\ d \in Server
        /\ request[r].at = "get"
        /\ request' = [request EXCEPT ![r].at = "reply", ![r].n = current[d]]
    BY <1>11 DEF HandlePaste, RequestVars, clipboard, history
  <2>2. d \notin rolledBack => current[d] >= request[r].floor
    BY <2>1, <1>0 DEF ConfirmedKept, FloorConfirmed
  <2>3. request'[r].n = current[d] /\ request'[r].to = d /\ request'[r].floor = request[r].floor
        /\ \A q \in Request : q # r => request'[q] = request[q]
    BY <2>1
  <2> HIDE DEF d
  <2>4. ReadYourWrites'
    BY <2>1, <2>2, <2>3 DEF ReadYourWrites
  <2>5. CopyKept' /\ FloorConfirmed'
    BY <2>1, <2>3, <1>0 DEF CopyKept, FloorConfirmed, d
  <2> QED BY <2>1, <2>4, <2>5 DEF ConfirmedKept
<1> QED
  BY <1>1, <1>2, <1>3, <1>4, <1>5, <1>6, <1>7, <1>8, <1>9, <1>10, <1>11
  DEF Next, vars, clipboard, history, Launch, StartTopology, RemoveOld, Bind, EngineReads,
      Signal, EngineStops, HandlersDone, RemoveSocket, StopTopology

\* What was copied, and confirmed, before a paste began is what it returns, or
\* something newer, unless the engine's initial state came in between.
THEOREM DaemonReadYourWrites == Spec => []ReadYourWrites
<1>1. Init => TypeInv /\ OpMatches /\ PasteInv
  <2>1. Init => OpMatches /\ PasteInv
    BY DEF Init, OpMatches, PasteInv, ConfirmedKept, CopyKept, FloorConfirmed, ReadYourWrites, NoRequest
  <2> QED BY <2>1, TypeInit DEF TypeInv, Init, Targeted, NoRequest
<1>2. TypeInv /\ OpMatches /\ PasteInv /\ [Next]_vars => (TypeInv /\ OpMatches /\ PasteInv)'
  BY TypeKept, OpKept, PasteKept
<1> QED BY <1>1, <1>2, PTL DEF Spec, PasteInv
=============================================================================
