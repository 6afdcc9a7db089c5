------------------------------- MODULE Daemon -------------------------------
(***************************************************************************)
(* The daemon (cmd/linkpearl/run.go), its API server (pkg/api/server.go)   *)
(* and the commands that talk to it (pkg/client): how a daemon starts and  *)
(* stops, what it holds meanwhile -- a socket path that is the same for    *)
(* every daemon of the user and, as a full node, a TCP port -- and what a  *)
(* sequence of copies and pastes sees.                                     *)
(*                                                                         *)
(* A setting of the clipboard is known by its number, the order in which   *)
(* the engine's mutex is taken: what the settings contain, and which of    *)
(* them the engine makes by itself, is SyncEngine's subject.               *)
(***************************************************************************)
EXTENDS Naturals, FiniteSets, FiniteSetsExt

CONSTANTS
  Server,      \* daemons that run, or are run again, on one machine
  Full,        \* those that are full nodes, all of one TCP address
  Request,     \* connections of commands to a socket
  Nobody,      \* no owner
  Stale,       \* a socket file whose listener is gone
  MaxSettings, \* bound on the settings of the clipboard
  MaxStarts    \* bound on the starts of daemons

ASSUME DaemonAssumption ==
  /\ Full \subseteq Server
  /\ {Nobody, Stale} \cap Server = {} /\ Nobody # Stale
  /\ {MaxSettings, MaxStarts} \subseteq Nat

VARIABLES
  phase,      \* phase[d]: where runDaemonWithConfig is
  socket,     \* whose socket the path leads to
  port,       \* who listens on the TCP address
  listening,  \* the daemons whose API listener is open
  engine,     \* engine[d]: where engine.Run is, and what it has read
  current,    \* current[d]: the setting in the engine's state
  os,         \* the setting the system clipboard holds
  request,    \* request[r]: a connection: its command, its daemon, its state
  confirmed,  \* confirmed[d]: the last setting d's clients got an OK for
  settings,   \* settings made so far (bounded)
  starts,     \* starts so far (bounded)
  overlapped, \* history: daemons beside which one ran that does not use the port
  rolledBack, \* history: daemons whose initial state came after a setting
  overdue     \* history: daemons that stopped waiting for their handlers

vars == <<phase, socket, port, listening, engine, current, os, request, confirmed,
          settings, starts, overlapped, rolledBack, overdue>>

NoRequest == [at |-> "none", op |-> "none", to |-> Nobody, n |-> 0, floor |-> 0]
NoEngine == [at |-> "none", read |-> 0]

Init ==
  /\ phase = [d \in Server |-> "off"]
  /\ socket = Nobody
  /\ port = Nobody
  /\ listening = {}
  /\ engine = [d \in Server |-> NoEngine]
  /\ current = [d \in Server |-> 0]
  /\ os = 0
  /\ request = [r \in Request |-> NoRequest]
  /\ confirmed = [d \in Server |-> 0]
  /\ settings = 0
  /\ starts = 0
  /\ overlapped = {} /\ rolledBack = {} /\ overdue = {}

holdings == <<socket, port, listening>>
clipboard == <<current, os, settings, confirmed>>
history == <<overlapped, rolledBack, overdue>>

Alive(d) == phase[d] # "off"
Goes(d, where) == phase' = [phase EXCEPT ![d] = where]

\* d's handler of r is at work: the WaitGroup counts it.
Handled(d, r) == request[r].to = d /\ request[r].at \notin {"none", "queued"}
Handlers(d) == {r \in Request : Handled(d, r)}

\* The connections of d that are in one of the states `those` end.
Dropped(d, those) ==
  [r \in Request |-> IF request[r].to = d /\ request[r].at \in those
                     THEN NoRequest ELSE request[r]]

AnyState == {"queued", "read", "set", "write", "get", "reply"}

-----------------------------------------------------------------------------
(* runDaemonWithConfig: starting. *)

\* The process starts. A daemon without the port is stopped by nothing.
Launch(d) ==
  /\ phase[d] = "off" /\ starts < MaxStarts
  /\ starts' = starts + 1
  /\ Goes(d, "topology")
  /\ LET others == {e \in Server \ {d} : Alive(e)} IN
     overlapped' = IF others = {} \/ (d \in Full /\ others \subseteq Full)
                   THEN overlapped ELSE overlapped \cup others \cup {d}
  /\ UNCHANGED <<holdings, engine, clipboard, request, rolledBack, overdue>>

\* topo.Start: a full node listens; if it cannot, the daemon stops what it has.
StartTopology(d) ==
  /\ phase[d] = "topology"
  /\ IF d \notin Full
     THEN Goes(d, "socket") /\ UNCHANGED port
     ELSE IF port = Nobody
          THEN Goes(d, "socket") /\ port' = d
          ELSE Goes(d, "stopTopology") /\ UNCHANGED port
  /\ UNCHANGED <<socket, listening, engine, clipboard, request, starts, history>>

\* Server.Start removes what is at the path ...
RemoveOld(d) ==
  /\ phase[d] = "socket"
  /\ socket' = Nobody
  /\ Goes(d, "bind")
  /\ UNCHANGED <<port, listening, engine, clipboard, request, starts, history>>

\* ... and listens there; engine.Run is started after it. The path may be taken
\* again by now, and the call may fail otherwise.
Bind(d) ==
  /\ phase[d] = "bind"
  /\ \/ /\ socket = Nobody
        /\ socket' = d
        /\ listening' = listening \cup {d}
        /\ engine' = [engine EXCEPT ![d].at = "boot"]
        /\ Goes(d, "running")
     \/ Goes(d, "stopTopology") /\ UNCHANGED <<socket, listening, engine>>
  /\ UNCHANGED <<port, clipboard, request, starts, history>>

\* initializeState: the clipboard is read (a clipboard that fails counts as
\* empty), and becomes the state, whatever has been set meanwhile.
EngineReads(d) ==
  /\ engine[d].at = "boot"
  /\ \E n \in {os, 0} : engine' = [engine EXCEPT ![d] = [at |-> "init", read |-> n]]
  /\ UNCHANGED <<phase, holdings, clipboard, request, starts, history>>

EngineInits(d) ==
  /\ engine[d].at = "init"
  /\ current' = [current EXCEPT ![d] = engine[d].read]
  /\ engine' = [engine EXCEPT ![d] = [at |-> "run", read |-> 0]]
  /\ rolledBack' = IF current[d] > engine[d].read THEN rolledBack \cup {d} ELSE rolledBack
  /\ UNCHANGED <<phase, holdings, os, settings, confirmed, request, starts, overlapped, overdue>>

\* The engine sets the clipboard because of the user or of a peer; one step,
\* for it is not told apart from later ones.
EngineSets(d) ==
  /\ engine[d].at = "run" /\ settings < MaxSettings
  /\ settings' = settings + 1
  /\ current' = [current EXCEPT ![d] = settings']
  /\ os' = settings'
  /\ UNCHANGED <<phase, holdings, engine, confirmed, request, starts, history>>

-----------------------------------------------------------------------------
(* runDaemonWithConfig: stopping. *)

\* A signal cancels the context.
Signal(d) ==
  /\ phase[d] = "running"
  /\ Goes(d, "cancelled")
  /\ UNCHANGED <<holdings, engine, clipboard, request, starts, history>>

\* Mutant: the port is given up before the API server stops.
PortFirst(d) ==
  /\ phase[d] = "cancelled"
  /\ Goes(d, "stopServer")
  /\ engine' = [engine EXCEPT ![d] = NoEngine]
  /\ port' = IF port = d THEN Nobody ELSE port
  /\ UNCHANGED <<socket, listening, clipboard, request, starts, history>>

\* The engine has returned, or ten seconds have passed.
EngineStops(d) ==
  /\ phase[d] = "cancelled"
  /\ Goes(d, "stopServer")
  /\ \/ engine' = [engine EXCEPT ![d] = NoEngine]
     \/ engine[d].at # "none" /\ UNCHANGED engine
  /\ UNCHANGED <<holdings, clipboard, request, starts, history>>

\* Mutant: the accept loop goes on with a listener that is closed.
ListenerForgotten(d) ==
  /\ phase[d] = "stopServer"
  /\ socket' = Nobody
  /\ request' = Dropped(d, {"queued"})
  /\ Goes(d, "wait")
  /\ UNCHANGED <<port, listening, engine, clipboard, starts, history>>

\* Server.Stop closes its listener, which removes the file at its path, whoever
\* made it; connections not accepted yet are reset.
CloseListener(d) ==
  /\ phase[d] = "stopServer"
  /\ listening' = listening \ {d}
  /\ socket' = Nobody
  /\ request' = Dropped(d, {"queued"})
  /\ Goes(d, "wait")
  /\ UNCHANGED <<port, engine, clipboard, starts, history>>

\* Mutant: handlers are not in the WaitGroup.
HandlersForgotten(d) ==
  /\ phase[d] = "wait"
  /\ \/ Goes(d, "remove") /\ UNCHANGED overdue
     \/ Handlers(d) # {} /\ Goes(d, "stopTopology") /\ overdue' = overdue \cup {d}
  /\ UNCHANGED <<holdings, engine, clipboard, request, starts, overlapped, rolledBack>>

\* It waits for its handlers, or five seconds; then it leaves out the rest.
HandlersDone(d) ==
  /\ phase[d] = "wait"
  /\ \/ Handlers(d) = {} /\ Goes(d, "remove") /\ UNCHANGED overdue
     \/ Handlers(d) # {} /\ Goes(d, "stopTopology") /\ overdue' = overdue \cup {d}
  /\ UNCHANGED <<holdings, engine, clipboard, request, starts, overlapped, rolledBack>>

RemoveSocket(d) ==
  /\ phase[d] = "remove"
  /\ socket' = Nobody
  /\ Goes(d, "stopTopology")
  /\ UNCHANGED <<port, listening, engine, clipboard, request, starts, history>>

\* topo.Stop, which closes the transport (trans.Close finds it closed).
StopTopology(d) ==
  /\ phase[d] = "stopTopology"
  /\ port' = IF port = d THEN Nobody ELSE port
  /\ Goes(d, "exit")
  /\ UNCHANGED <<socket, listening, engine, clipboard, request, starts, history>>

\* A process has gone: its goroutines and its memory go with it.
Gone(d) ==
  /\ Goes(d, "off")
  /\ engine' = [engine EXCEPT ![d] = NoEngine]
  /\ request' = Dropped(d, AnyState)
  /\ current' = [current EXCEPT ![d] = 0]
  /\ confirmed' = [confirmed EXCEPT ![d] = 0]
  /\ overlapped' = overlapped \ {d}
  /\ rolledBack' = rolledBack \ {d}
  /\ overdue' = overdue \ {d}
  /\ UNCHANGED <<os, settings, starts>>

Exit(d) == phase[d] = "exit" /\ Gone(d) /\ UNCHANGED holdings

\* The process is killed: the file of its socket stays.
Crash(d) ==
  /\ Alive(d) /\ Gone(d)
  /\ listening' = listening \ {d}
  /\ socket' = IF socket = d THEN Stale ELSE socket
  /\ port' = IF port = d THEN Nobody ELSE port

-----------------------------------------------------------------------------
(* Commands and their handlers. *)

RequestVars == <<phase, holdings, engine, starts, history>>

Becomes(r, where) == request' = [request EXCEPT ![r].at = where]

\* A command dials and sends its request: copy, with --sync or without, or
\* paste. `floor` is what has been confirmed by then. (status only reads.)
Dial(r, op) ==
  /\ request[r].at = "none"
  /\ socket \in listening
  /\ request' = [request EXCEPT ![r] =
                   [at |-> "queued", op |-> op, to |-> socket, n |-> 0,
                    floor |-> IF op = "copy" THEN 0 ELSE confirmed[socket]]]
  /\ UNCHANGED <<RequestVars, clipboard>>

\* acceptLoop accepts; a goroutine of its own handles the connection.
AcceptRequest(r) ==
  /\ request[r].at = "queued" /\ request[r].to \in listening
  /\ Becomes(r, "read")
  /\ UNCHANGED <<RequestVars, clipboard>>

\* The request has been read, or is no good, or took too long.
ReadRequest(r) ==
  /\ request[r].at = "read"
  /\ \/ Becomes(r, IF request[r].op = "copy" THEN "set" ELSE "get")
     \/ request' = [request EXCEPT ![r] = NoRequest]
  /\ UNCHANGED <<RequestVars, clipboard>>

\* handleCopy: SetClipboard updates the state under the engine's mutex, unless
\* it refuses the content ...
HandleCopy(r) ==
  LET d == request[r].to IN
  /\ request[r].at = "set"
  /\ \/ /\ settings < MaxSettings
        /\ settings' = settings + 1
        /\ current' = [current EXCEPT ![d] = settings']
        /\ request' = [request EXCEPT ![r].at = "write", ![r].n = settings']
     \/ request' = [request EXCEPT ![r] = NoRequest] /\ UNCHANGED <<current, settings>>
  /\ UNCHANGED <<RequestVars, os, confirmed>>

\* ... and writes the system clipboard, which may fail: that is logged.
WriteClipboard(r) ==
  /\ request[r].at = "write"
  /\ os' \in {os, request[r].n}
  /\ Becomes(r, "reply")
  /\ UNCHANGED <<RequestVars, current, settings, confirmed>>

\* A command that does not wait for the OK (the default), or no longer does.
CopyUnconfirmed(r) ==
  /\ request[r].at = "reply" /\ request[r].op = "copy"
  /\ request' = [request EXCEPT ![r] = NoRequest]
  /\ UNCHANGED <<RequestVars, clipboard>>

\* The command has its OK.
ConfirmCopy(r) ==
  LET d == request[r].to IN
  /\ request[r].at = "reply" /\ request[r].op = "copy"
  /\ confirmed' = [confirmed EXCEPT ![d] = Max({@, request[r].n})]
  /\ request' = [request EXCEPT ![r] = NoRequest]
  /\ UNCHANGED <<RequestVars, current, os, settings>>

\* Mutant: a paste reads the system clipboard.
HandlePasteFromOS(r) ==
  /\ request[r].at = "get"
  /\ request' = [request EXCEPT ![r].at = "reply", ![r].n = os]
  /\ UNCHANGED <<RequestVars, clipboard>>

\* handlePaste reads the engine's state.
HandlePaste(r) ==
  /\ request[r].at = "get"
  /\ request' = [request EXCEPT ![r].at = "reply", ![r].n = current[request[r].to]]
  /\ UNCHANGED <<RequestVars, clipboard>>

AnswerPaste(r) ==
  /\ request[r].at = "reply" /\ request[r].op # "copy"
  /\ request' = [request EXCEPT ![r] = NoRequest]
  /\ UNCHANGED <<RequestVars, clipboard>>

-----------------------------------------------------------------------------
Next ==
  \/ \E d \in Server :
       \/ Launch(d) \/ StartTopology(d) \/ RemoveOld(d) \/ Bind(d)
       \/ EngineReads(d) \/ EngineInits(d) \/ EngineSets(d)
       \/ Signal(d) \/ EngineStops(d) \/ CloseListener(d) \/ HandlersDone(d)
       \/ RemoveSocket(d) \/ StopTopology(d) \/ Exit(d) \/ Crash(d)
  \/ \E r \in Request :
       \/ \E op \in {"copy", "paste"} : Dial(r, op)
       \/ AcceptRequest(r) \/ ReadRequest(r) \/ HandleCopy(r) \/ WriteClipboard(r)
       \/ CopyUnconfirmed(r) \/ ConfirmCopy(r) \/ HandlePaste(r) \/ AnswerPaste(r)

Spec == Init /\ [][Next]_vars

-----------------------------------------------------------------------------
TypeOK ==
  /\ phase \in [Server -> {"off", "topology", "socket", "bind", "running", "cancelled",
                           "stopServer", "wait", "remove", "stopTopology", "exit"}]
  /\ socket \in Server \cup {Nobody, Stale}
  /\ port \in Full \cup {Nobody}
  /\ listening \subseteq {d \in Server : phase[d] \in {"running", "cancelled", "stopServer"}}
  /\ engine \in [Server -> [at : {"none", "boot", "init", "run"}, read : 0..settings]]
  /\ current \in [Server -> 0..settings] /\ confirmed \in [Server -> 0..settings]
  /\ os \in 0..settings
  /\ request \in [Request -> [at : AnyState \cup {"none"}, op : {"none", "copy", "paste"},
                              to : Server \cup {Nobody}, n : 0..settings, floor : 0..settings]]
  /\ settings \in 0..MaxSettings /\ starts \in 0..MaxStarts
  /\ overlapped \subseteq Server /\ rolledBack \subseteq Server /\ overdue \subseteq Server

\* A paste that begins after a copy was confirmed by the same daemon returns
\* what was copied or something newer -- unless the copy came so early that the
\* engine's initial state replaced it (run.go:208, engine.go:351).
ReadYourWrites ==
  \A r \in Request :
    request[r].op = "paste" /\ request[r].at = "reply" =>
      \/ request[r].n >= request[r].floor
      \/ request[r].to \in rolledBack

\* The commands reach the daemon that runs, as long as no other has run beside
\* it that does without the TCP port: the port, which a daemon takes before it
\* touches the path and gives up after it has let go of it, is what keeps two
\* full nodes apart.
SocketIsOurs ==
  \A d \in Server : phase[d] = "running" /\ d \notin overlapped => socket = d

\* When the topology stops no handler is inside the engine any more, unless
\* five seconds were not enough.
CleanStop ==
  \A d \in Server : phase[d] \in {"stopTopology", "exit"} /\ d \notin overdue => Handlers(d) = {}
=============================================================================
