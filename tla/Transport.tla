----------------------------- MODULE Transport -----------------------------
(***************************************************************************)
(* Setting up and using connections (pkg/transport): Accept, which the     *)
(* topology's acceptLoop calls over and over, one connection at a time;    *)
(* Connect in the dialling nodes; the authentication, TLS and node         *)
(* information between them; Send, Receive and Close.                      *)
(*                                                                         *)
(* A session is one TCP connection; its two directions deliver in order.   *)
(* TLS is reduced to its flights: hello, the server's answer, finished.    *)
(* Messages are modelled in one direction, from the accepting node: Send   *)
(* and Receive are the same code at both ends.                             *)
(***************************************************************************)
EXTENDS Naturals, Sequences, FiniteSets

CONSTANTS
  Session,      \* TCP connections
  Client,       \* the nodes that dial
  Host,         \* the node that listens
  SameSecret,   \* dialers whose secret and clock agree with the host's
  None,         \* no session
  ReadLimit,    \* messages a connection can carry: LimitReader's bytes, in all
  MaxMessages,  \* bound on the messages of a session
  MaxStopped    \* bound on the dialers that stop

Node == Client \cup {Host}

ASSUME TransportAssumption ==
  /\ Host \notin Client /\ SameSecret \subseteq Client /\ None \notin Session
  /\ {ReadLimit, MaxMessages, MaxStopped} \subseteq Nat

VARIABLES
  dialer,    \* dialer[s]: the node that dials s
  closed,    \* closed[n]: n's transport is closed
  conns,     \* conns[n]: sessions n's transport has registered, by remote node
  acceptor,  \* the call of Accept: where it is, its session, what it has done
  client,    \* client[s]: where the dialer's end of s is
  server,    \* server[s]: the host's end of s
  up, down,  \* frames under way to the host, and to the dialer
  stopped,   \* dialers' processes that hang; those whose machine is gone
  swallowed, \* sessions whose hello the decoder of the authentication took
  sent, got, \* messages Send took, and Receive delivered
  broken,    \* sessions on which a Send ran into its deadline
  late,      \* history: <<node, session>> registered after the node's Close
  replaced   \* history: <<node, session>> whose slot another session took

vars == <<dialer, closed, conns, acceptor, client, server, up, down, stopped, swallowed,
          sent, got, broken, late, replaced>>

Frame(k, n) == [kind |-> k, n |-> n]
Auth == Frame("auth", 0)
Hello == Frame("hello", 0)
Finished == Frame("finished", 0)
Info == Frame("info", 0)
Rest == Frame("rest", 0)   \* the end of a hello whose beginning is lost

Ready == [at |-> "accept", s |-> None, sent |-> FALSE, read |-> FALSE]

Init ==
  /\ dialer \in [Session -> Client]
  /\ closed = [n \in Node |-> FALSE]
  /\ conns = [n \in Node |-> [m \in Node |-> None]]
  /\ acceptor = Ready
  /\ client = [s \in Session |-> "idle"]
  /\ server = [s \in Session |-> "none"]
  /\ up = [s \in Session |-> <<>>] /\ down = [s \in Session |-> <<>>]
  /\ stopped = [process |-> {}, machine |-> {}]
  /\ swallowed = {}
  /\ sent = [s \in Session |-> 0] /\ got = [s \in Session |-> 0]
  /\ broken = {}
  /\ late = {} /\ replaced = {}

wires == <<up, down>>
messages == <<sent, got, broken>>
registry == <<conns, late, replaced>>
surroundings == <<dialer, stopped, swallowed>>

Runs(s) == s \notin stopped.process \cup stopped.machine

\* Mutant: the message is not verified.
Trusting(s) == TRUE

\* verifyAuthMessage, at either end: the timestamps and the HMAC.
Verified(s) == dialer[s] \in SameSecret

\* The connection is stored under the remote node, over another one of its;
\* whether the transport was closed meanwhile is not looked at.
Register(n, m, s) ==
  /\ conns' = [conns EXCEPT ![n][m] = s]
  /\ replaced' = IF conns[n][m] = None THEN replaced
                 ELSE replaced \cup {<<n, conns[n][m]>>}
  /\ late' = IF closed[n] THEN late \cup {<<n, s>>} ELSE late

-----------------------------------------------------------------------------
(* Connect. *)

\* Dial; the kernel accepts before Accept does.
Dial(s) ==
  /\ client[s] = "idle"
  /\ ~closed[dialer[s]] /\ ~closed[Host]
  /\ client' = [client EXCEPT ![s] = "dialled"]
  /\ UNCHANGED <<closed, registry, acceptor, server, wires, surroundings, messages>>

ClientSends(s, where, frame, next) ==
  /\ client[s] = where /\ Runs(s)
  /\ up' = [up EXCEPT ![s] = Append(@, frame)]
  /\ client' = [client EXCEPT ![s] = next]
  /\ UNCHANGED <<closed, registry, acceptor, server, down, surroundings, messages>>

\* The dialer sends its authentication message and, later, the node information.
ClientSendAuth(s) == ClientSends(s, "dialled", Auth, "auth")
ClientSendInfo(s) == ClientSends(s, "secure", Info, "info")

ClientGets(s, where, frame) ==
  /\ client[s] = where /\ Runs(s)
  /\ down[s] # <<>> /\ Head(down[s]) = frame
  /\ down' = [down EXCEPT ![s] = Tail(@)]

\* The host's authentication message arrives; TLS begins.
ClientAuth(s) ==
  /\ ClientGets(s, "auth", Auth)
  /\ IF Verified(s)
     THEN /\ client' = [client EXCEPT ![s] = "tls"]
          /\ up' = [up EXCEPT ![s] = Append(@, Hello)]
     ELSE client' = [client EXCEPT ![s] = "closed"] /\ UNCHANGED up
  /\ UNCHANGED <<closed, registry, acceptor, server, surroundings, messages>>

\* The dialer's TLS handshake is done.
ClientTLS(s) ==
  /\ ClientGets(s, "tls", Hello)
  /\ client' = [client EXCEPT ![s] = "secure"]
  /\ up' = [up EXCEPT ![s] = Append(@, Finished)]
  /\ UNCHANGED <<closed, registry, acceptor, server, surroundings, messages>>

ClientInfo(s) ==
  /\ ClientGets(s, "info", Info)
  /\ client' = [client EXCEPT ![s] = "track"]
  /\ UNCHANGED <<closed, registry, acceptor, server, up, surroundings, messages>>

ClientTrack(s) ==
  /\ client[s] = "track" /\ Runs(s)
  /\ Register(dialer[s], Host, s)
  /\ client' = [client EXCEPT ![s] = "open"]
  /\ UNCHANGED <<closed, acceptor, server, wires, surroundings, messages>>

\* Mutant: TLS is done without the context, and so without a deadline.
ClientFailsWithoutContext(s) ==
  /\ client[s] \in {"dialled", "auth", "tls", "secure", "info"} /\ Runs(s)
  /\ client[s] = "tls" => server[s] = "closed"
  /\ client' = [client EXCEPT ![s] = "closed"]
  /\ UNCHANGED <<closed, registry, acceptor, server, wires, surroundings, messages>>

\* Connect fails wherever it is: the host hangs up, the context is cancelled, or
\* a deadline passes. The authentication and the node information have one of ten
\* seconds each, TLS that of the caller's context, thirty (topology.go:409).
ClientFails(s) ==
  /\ client[s] \in {"dialled", "auth", "tls", "secure", "info"} /\ Runs(s)
  /\ client' = [client EXCEPT ![s] = "closed"]
  /\ UNCHANGED <<closed, registry, acceptor, server, wires, surroundings, messages>>

-----------------------------------------------------------------------------
(* Accept. *)

Accept(s) ==
  /\ acceptor.at = "accept" /\ ~closed[Host]
  /\ client[s] # "idle" /\ server[s] = "none"
  /\ acceptor' = [Ready EXCEPT !.at = "auth", !.s = s]
  /\ server' = [server EXCEPT ![s] = "handshake"]
  /\ UNCHANGED <<closed, registry, client, wires, surroundings, messages>>

\* Once the transport is closed Accept returns ErrClosed, and acceptLoop ends.
AcceptEnds ==
  /\ acceptor.at = "accept" /\ closed[Host]
  /\ acceptor' = [acceptor EXCEPT !.at = "done"]
  /\ UNCHANGED <<closed, registry, client, server, wires, surroundings, messages>>

\* The authentication: one goroutine sends, ...
SendAuth ==
  LET s == acceptor.s IN
  /\ acceptor.at = "auth" /\ ~acceptor.sent
  /\ acceptor' = [acceptor EXCEPT !.sent = TRUE]
  /\ down' = [down EXCEPT ![s] = Append(@, Auth)]
  /\ UNCHANGED <<closed, registry, client, server, up, surroundings, messages>>

\* ... another receives. Its decoder reads what there is, up to 1024 bytes: a
\* hello that has arrived may go with the message, or the beginning of it, and
\* is lost to TLS.
ReadAuth ==
  LET s == acceptor.s IN
  /\ acceptor.at = "auth" /\ ~acceptor.read
  /\ up[s] # <<>>
  /\ acceptor' = [acceptor EXCEPT !.read = TRUE]
  /\ \/ up' = [up EXCEPT ![s] = Tail(@)] /\ UNCHANGED swallowed
     \/ /\ Len(up[s]) > 1
        /\ \E left \in {<<>>, <<Rest>>} : up' = [up EXCEPT ![s] = left]
        /\ swallowed' = swallowed \cup {s}
  /\ UNCHANGED <<closed, registry, client, server, down, dialer, stopped, messages>>

\* Accept fails with the session it serves, and is called again.
HangUp ==
  /\ server' = [server EXCEPT ![acceptor.s] = "closed"]
  /\ acceptor' = Ready

\* Mutant: the dialer's message is enough, whether or not the host's was sent.
AuthenticatedUnsent ==
  LET s == acceptor.s IN
  /\ acceptor.at = "auth" /\ acceptor.read
  /\ IF Verified(s)
     THEN acceptor' = [acceptor EXCEPT !.at = "tls"] /\ UNCHANGED server
     ELSE HangUp
  /\ UNCHANGED <<closed, registry, client, wires, surroundings, messages>>

Authenticated ==
  LET s == acceptor.s IN
  /\ acceptor.at = "auth" /\ acceptor.sent /\ acceptor.read
  /\ IF Verified(s)
     THEN acceptor' = [acceptor EXCEPT !.at = "tls"] /\ UNCHANGED server
     ELSE HangUp
  /\ UNCHANGED <<closed, registry, client, wires, surroundings, messages>>

HostGets(where, frame) ==
  LET s == acceptor.s IN
  /\ acceptor.at = where
  /\ up[s] # <<>> /\ Head(up[s]) = frame
  /\ up' = [up EXCEPT ![s] = Tail(@)]

ServerHello ==
  /\ HostGets("tls", Hello)
  /\ down' = [down EXCEPT ![acceptor.s] = Append(@, Hello)]
  /\ acceptor' = [acceptor EXCEPT !.at = "finish"]
  /\ UNCHANGED <<closed, registry, client, server, surroundings, messages>>

ServerFinish ==
  /\ HostGets("finish", Finished)
  /\ acceptor' = [acceptor EXCEPT !.at = "info"]
  /\ UNCHANGED <<closed, registry, client, server, down, surroundings, messages>>

\* exchangeNodeInfo: the host receives first, then sends.
ServerInfo ==
  /\ HostGets("info", Info)
  /\ down' = [down EXCEPT ![acceptor.s] = Append(@, Info)]
  /\ acceptor' = [acceptor EXCEPT !.at = "track"]
  /\ UNCHANGED <<closed, registry, client, server, surroundings, messages>>

\* The connection is registered and returned; acceptLoop calls Accept again.
ServerTrack ==
  /\ acceptor.at = "track"
  /\ Register(Host, dialer[acceptor.s], acceptor.s)
  /\ server' = [server EXCEPT ![acceptor.s] = "open"]
  /\ acceptor' = Ready
  /\ UNCHANGED <<closed, client, wires, surroundings, messages>>

\* Accept fails: authentication and node information have ten seconds; TLS has
\* no deadline at this end, there it takes the end of the connection -- the dialer
\* closed it, or keepalive probes go unanswered -- or what is no TLS record.
AcceptFails ==
  LET s == acceptor.s IN
  /\ acceptor.at \in {"auth", "tls", "finish", "info"}
  /\ acceptor.at \in {"tls", "finish"} =>
       \/ client[s] = "closed" \/ s \in stopped.machine
       \/ up[s] # <<>> /\ Head(up[s]) = Rest
  /\ HangUp
  /\ UNCHANGED <<closed, registry, client, wires, surroundings, messages>>

-----------------------------------------------------------------------------
(* Open connections. *)

\* Mutant: Send goes on after a deadline, in mid-message, as if it were whole.
SendOn(s) ==
  /\ server[s] = "open" /\ sent[s] < MaxMessages
  /\ sent' = [sent EXCEPT ![s] = @ + 1]
  /\ \/ /\ down' = [down EXCEPT ![s] = Append(@, Frame("message", sent[s] + 1))]
        /\ UNCHANGED broken
     \/ broken' = broken \cup {s} /\ UNCHANGED down
  /\ UNCHANGED <<closed, registry, acceptor, client, server, up, surroundings, got>>

\* Send, or its deadline in mid-message: the encoder fails from then on.
Send(s) ==
  /\ server[s] = "open" /\ s \notin broken /\ sent[s] < MaxMessages
  /\ sent' = [sent EXCEPT ![s] = @ + 1]
  /\ \/ /\ down' = [down EXCEPT ![s] = Append(@, Frame("message", sent[s] + 1))]
        /\ UNCHANGED broken
     \/ broken' = broken \cup {s} /\ UNCHANGED down
  /\ UNCHANGED <<closed, registry, acceptor, client, server, up, surroundings, got>>

\* Receive delivers the next message, while the reader's limit lasts.
Receive(s) ==
  /\ client[s] = "open" /\ Runs(s)
  /\ down[s] # <<>> /\ got[s] < ReadLimit
  /\ got' = [got EXCEPT ![s] = Head(down[s]).n]
  /\ down' = [down EXCEPT ![s] = Tail(@)]
  /\ UNCHANGED <<closed, registry, acceptor, client, server, up, surroundings, sent, broken>>

\* Receive fails for good -- the other end is closed (what was under way may be
\* lost), the machine gone, the limit used up -- and the topology closes.
ClientEnds(s) ==
  /\ client[s] = "open" /\ Runs(s)
  /\ server[s] = "closed" \/ (got[s] = ReadLimit /\ down[s] # <<>>)
  /\ client' = [client EXCEPT ![s] = "closed"]
  /\ UNCHANGED <<closed, registry, acceptor, server, wires, surroundings, messages>>

ServerEnds(s) ==
  /\ server[s] = "open"
  /\ client[s] = "closed" \/ s \in stopped.machine
  /\ server' = [server EXCEPT ![s] = "closed"]
  /\ UNCHANGED <<closed, registry, acceptor, client, wires, surroundings, messages>>

\* Mutant: the map is replaced before its connections are closed.
CloseForgets(n) ==
  /\ ~closed[n]
  /\ closed' = [closed EXCEPT ![n] = TRUE]
  /\ conns' = [conns EXCEPT ![n] = [m \in Node |-> None]]
  /\ UNCHANGED <<client, server, acceptor, wires, surroundings, messages, late, replaced>>

\* Close closes the connections registered, and the listener.
Close(n) ==
  LET registered == {conns[n][m] : m \in Node} IN
  /\ ~closed[n]
  /\ closed' = [closed EXCEPT ![n] = TRUE]
  /\ conns' = [conns EXCEPT ![n] = [m \in Node |-> None]]
  /\ IF n = Host
     THEN /\ server' = [s \in Session |-> IF s \in registered THEN "closed" ELSE server[s]]
          /\ UNCHANGED client
     ELSE /\ client' = [s \in Session |-> IF s \in registered THEN "closed" ELSE client[s]]
          /\ UNCHANGED server
  /\ UNCHANGED <<acceptor, wires, surroundings, messages, late, replaced>>

\* A dialer hangs, or its machine is gone: neither says so.
Stop(s, how) ==
  /\ client[s] \notin {"idle", "closed"} /\ Runs(s)
  /\ Cardinality(stopped.process \cup stopped.machine) < MaxStopped
  /\ stopped' = [stopped EXCEPT ![how] = @ \cup {s}]
  /\ UNCHANGED <<dialer, closed, registry, acceptor, client, server, wires, swallowed,
                 messages>>

-----------------------------------------------------------------------------
Acceptor == SendAuth \/ ReadAuth \/ Authenticated \/ ServerHello \/ ServerFinish
            \/ ServerInfo \/ ServerTrack \/ AcceptFails

Connecting(s) == \/ ClientSendAuth(s) \/ ClientAuth(s) \/ ClientTLS(s)
                 \/ ClientSendInfo(s) \/ ClientInfo(s) \/ ClientTrack(s)
                 \/ ClientFails(s)

Next ==
  \/ \E s \in Session :
       \/ Dial(s) \/ Connecting(s)
       \/ Accept(s)
       \/ Send(s) \/ Receive(s) \/ ClientEnds(s) \/ ServerEnds(s)
       \/ Stop(s, "process") \/ Stop(s, "machine")
  \/ Acceptor
  \/ AcceptEnds
  \/ \E n \in Node : Close(n)

Spec == Init /\ [][Next]_vars

\* The goroutines run, and what the network carries arrives. A deadline passes
\* when nothing else happens, where there is one: everywhere in Connect, and in
\* Accept but for TLS.
FairSpec == Spec /\ WF_vars(Acceptor) /\ \A s \in Session : WF_vars(Connecting(s))

-----------------------------------------------------------------------------
TypeOK ==
  /\ dialer \in [Session -> Client]
  /\ closed \in [Node -> BOOLEAN]
  /\ conns \in [Node -> [Node -> Session \cup {None}]]
  /\ \A n, m \in Node : conns[n][m] # None => {n, m} = {Host, dialer[conns[n][m]]}
  /\ acceptor \in [at : {"accept", "auth", "tls", "finish", "info", "track", "done"},
                   s : Session \cup {None}, sent : BOOLEAN, read : BOOLEAN]
  /\ client \in [Session -> {"idle", "dialled", "auth", "tls", "secure", "info", "track",
                           "open", "closed"}]
  /\ server \in [Session -> {"none", "handshake", "open", "closed"}]
  /\ stopped \in [process : SUBSET Session, machine : SUBSET Session]
  /\ swallowed \subseteq Session /\ broken \subseteq Session
  /\ sent \in [Session -> 0..MaxMessages] /\ got \in [Session -> 0..MaxMessages]
  /\ late \subseteq Node \X Session /\ replaced \subseteq Node \X Session

\* Connections are mutually authenticated, and both ends are there: what Accept
\* or Connect returns has the same secret at its other end; and whoever Connect
\* is connected to has got its node information and answered.
Agreed ==
  \A s \in Session :
    /\ server[s] = "open" =>
         dialer[s] \in SameSecret /\ client[s] \in {"info", "track", "open", "closed"}
    /\ client[s] \in {"track", "open"} =>
         /\ dialer[s] \in SameSecret
         /\ server[s] \in {"open", "closed"} \/ (acceptor.s = s /\ acceptor.at = "track")

\* Where the host has no deadline, the handshake is not stuck between its two
\* ends: as long as the hello is not swallowed and both are there, one of them
\* has the frame it waits for (auth.go:103, transport.go:145).
HandshakeMoves ==
  LET s == acceptor.s IN
  acceptor.at \in {"tls", "finish"} /\ s \notin swallowed /\ client[s] # "closed" =>
    \/ up[s] # <<>> /\ Head(up[s]) = IF acceptor.at = "tls" THEN Hello ELSE Finished
    \/ client[s] = "auth" /\ down[s] # <<>> /\ Head(down[s]) = Auth
    \/ client[s] = "tls" /\ down[s] # <<>> /\ Head(down[s]) = Hello

\* What Receive has delivered are the first messages Send took, none missing,
\* whatever Send timed out: a connection loses at most what comes last.
NoGaps ==
  [][\A s \in Session : got'[s] \in {got[s], got[s] + 1}]_vars

\* After Close no connection of the node is open but one that was still being
\* set up then, and one whose slot another had taken (transport.go:159, 236).
CloseCloses ==
  \A s \in Session :
    /\ closed[Host] /\ server[s] = "open" => <<Host, s>> \in late \cup replaced
    /\ closed[dialer[s]] /\ client[s] = "open" => <<dialer[s], s>> \in late \cup replaced

\* Accept is done with every dialer, so that the next one gets its turn: though it
\* does TLS without a deadline of its own (transport.go:145), the dialer's ends
\* that (transport.go:222), even for a hello that was swallowed. Only a dialer
\* whose process hangs there, with its machine still answering, is never done.
AcceptGoesOn ==
  acceptor.at \in {"auth", "tls", "finish", "info", "track"} ~>
    \/ acceptor.at \in {"accept", "done"}
    \/ acceptor.at \in {"tls", "finish"} /\ acceptor.s \in stopped.process
=============================================================================
