-------------------------- MODULE TransportProofs --------------------------
(***************************************************************************)
(* What holds of Transport for any number of connections and dialers, any  *)
(* limit of the reader and any number of messages and of dialers that      *)
(* stop.  The invariant says where the one connection Accept serves is,    *)
(* and that the frames under way to a dialer are those it waits for next,  *)
(* in the order the host sent them; UpInv says the same of the frames from *)
(* the dialer until it is connected.                                       *)
(***************************************************************************)
EXTENDS Transport, SequenceTheorems, TLAPS

\* Where Accept has a connection that is not yet registered.
Handshaking == {"auth", "tls", "finish", "info", "track"}

Frames == [kind : {"auth", "hello", "finished", "info", "rest", "message"}, n : Nat]

WireTypes == up \in [Session -> Seq(Frames)] /\ down \in [Session -> Seq(Frames)]

\* Accept serves one connection at a time, and knows which.
Serving ==
  /\ acceptor.at \in Handshaking =>
       acceptor.s \in Session /\ server[acceptor.s] = "handshake"
  /\ acceptor.at \notin Handshaking => acceptor.s = None
  /\ \A s \in Session : server[s] = "handshake" => acceptor.at \in Handshaking /\ acceptor.s = s

\* Past the authentication the two ends have the same secret.
Trusted ==
  /\ acceptor.at \in Handshaking \ {"auth"} => Verified(acceptor.s)
  /\ \A s \in Session :
       server[s] = "open" \/ client[s] \in {"tls", "secure", "info", "track", "open"} => Verified(s)

\* The host has the dialer's node information only if the dialer sent it.
InfoSent ==
  \A s \in Session :
    \/ client[s] \in {"info", "track", "open", "closed"}
    \/ /\ \A i \in DOMAIN up[s] : up[s][i] # Info
       /\ ~(acceptor.at = "track" /\ acceptor.s = s)
       /\ server[s] # "open"

\* A registered connection has been set up.
Listed ==
  \A s \in Session, m \in Node :
    /\ conns[Host][m] = s => server[s] \in {"open", "closed"}
    /\ \A d \in Client : conns[d][m] = s => client[s] \in {"open", "closed"}

\* An open connection is registered, or the history says why it is not.
Accounted ==
  \A s \in Session :
    /\ server[s] = "open" =>
         \/ <<Host, s>> \in late \cup replaced
         \/ ~closed[Host] /\ conns[Host][dialer[s]] = s
    /\ client[s] = "open" =>
         \/ <<dialer[s], s>> \in late \cup replaced
         \/ ~closed[dialer[s]] /\ conns[dialer[s]][Host] = s

\* What the host sends on a connection, in its order.
Item(k) ==
  CASE k = 1 -> Auth [] k = 2 -> Hello [] k = 3 -> Info [] OTHER -> Frame("message", k - 3)

\* How many of these the dialer has taken ...
Taken(s) ==
  CASE client[s] \in {"idle", "dialled", "auth"} -> 0
    [] client[s] = "tls" -> 1
    [] client[s] \in {"secure", "info"} -> 2
    [] OTHER -> 3 + got[s]

\* ... and how many the host has sent.
Served ==
  CASE acceptor.at = "auth" -> IF acceptor.sent THEN 1 ELSE 0
    [] acceptor.at = "tls" -> 1
    [] acceptor.at \in {"finish", "info"} -> 2
    [] OTHER -> 3

Put(s) ==
  CASE server[s] = "none" -> 0
    [] server[s] = "handshake" -> Served
    [] OTHER -> 3 + sent[s] - (IF s \in broken THEN 1 ELSE 0)

\* d holds the items after the k-th.
Carries(d, k) == \A i \in DOMAIN d : d[i] = Item(k + i)

InOrder(s) ==
  client[s] # "closed" =>
    /\ Carries(down[s], Taken(s))
    /\ Taken(s) + Len(down[s]) <= 3 + sent[s]
    /\ server[s] # "closed" => Taken(s) + Len(down[s]) = Put(s)

\* No message is sent or delivered before the connection is set up.
NotYet ==
  \A s \in Session :
    /\ client[s] \notin {"open", "closed"} => got[s] = 0
    /\ server[s] \in {"none", "handshake"} => sent[s] = 0 /\ s \notin broken

TransportInv ==
  /\ TypeOK /\ WireTypes
  /\ Serving /\ Trusted /\ InfoSent
  /\ Listed /\ Accounted
  /\ NotYet /\ \A s \in Session : InOrder(s)

\* The steps of a dialer up to the registered connection, and of an end of it.
ClientStep(s) == Dial(s) \/ Connecting(s)
OpenStep(s) == Send(s) \/ Receive(s) \/ ClientEnds(s) \/ ServerEnds(s)
HostStep == Acceptor \/ AcceptEnds \/ \E s \in Session : Accept(s)

LEMMA Steps ==
  ASSUME [Next]_vars
  PROVE  \/ \E s \in Session : ClientStep(s) \/ OpenStep(s)
         \/ \E s \in Session : Stop(s, "process") \/ Stop(s, "machine")
         \/ HostStep \/ UNCHANGED vars
         \/ \E n \in Node : Close(n)
  BY DEF Next, ClientStep, OpenStep, HostStep

-----------------------------------------------------------------------------
(* Frames under way. *)

LEMMA FrameTypes ==
  /\ Auth \in Frames /\ Hello \in Frames /\ Finished \in Frames /\ Info \in Frames
  /\ \A k \in Nat : Frame("message", k) \in Frames /\ Frame("message", k).n = k
  /\ Auth # Info /\ Hello # Info /\ Finished # Info
  /\ Rest \in Frames /\ Rest # Info
  BY DEF Frames, Frame, Auth, Hello, Finished, Info, Rest

LEMMA Items ==
  /\ Item(1) = Auth /\ Item(2) = Hello /\ Item(3) = Info
  /\ \A k \in Nat : Item(3 + k + 1) = Frame("message", k + 1)
  BY DEF Item

\* Taking the first frame, and putting one at the end.
LEMMA TakeOne ==
  ASSUME NEW d \in Seq(Frames), d # <<>>
  PROVE  /\ Tail(d) \in Seq(Frames) /\ Head(d) \in Frames
         /\ Len(d) \in Nat /\ Len(Tail(d)) = Len(d) - 1 /\ Len(d) >= 1
         /\ \A k \in Nat : Carries(d, k) => Head(d) = Item(k + 1) /\ Carries(Tail(d), k + 1)
         /\ \A f : (\A i \in DOMAIN d : d[i] # f) => \A i \in DOMAIN Tail(d) : Tail(d)[i] # f
<1> DEFINE r == Tail(d)
<1>1. /\ r \in Seq(Frames) /\ Head(d) \in Frames /\ Len(r) = Len(d) - 1
      /\ \A i \in 1..Len(r) : r[i] = d[i + 1]
  BY HeadTailProperties
<1>2. /\ Len(d) \in Nat /\ Len(r) \in Nat
      /\ DOMAIN d = 1..Len(d) /\ DOMAIN r = 1..Len(r)
  BY <1>1, LenProperties
<1>3. Head(d) = d[1]
  OBVIOUS
<1> HIDE DEF r
<1>4. Len(d) >= 1
  BY <1>1, <1>2
<1>5. \A i \in DOMAIN r : i \in Nat /\ i + 1 \in DOMAIN d /\ r[i] = d[i + 1]
  BY <1>1, <1>2
<1>6. ASSUME NEW k \in Nat, Carries(d, k)
      PROVE  Head(d) = Item(k + 1) /\ Carries(r, k + 1)
  <2>1. Head(d) = Item(k + 1)
    BY <1>2, <1>3, <1>4, <1>6 DEF Carries
  <2>2. ASSUME NEW i \in DOMAIN r
        PROVE  r[i] = Item(k + 1 + i)
    <3>1. k + (i + 1) = k + 1 + i
      BY <1>5
    <3> QED  BY <1>5, <1>6, <3>1 DEF Carries
  <2> QED  BY <2>1, <2>2 DEF Carries
<1> QED  BY <1>1, <1>2, <1>4, <1>5, <1>6 DEF r

LEMMA PutOne ==
  ASSUME NEW d \in Seq(Frames), NEW f \in Frames
  PROVE  /\ Append(d, f) \in Seq(Frames)
         /\ Len(d) \in Nat /\ Len(Append(d, f)) = Len(d) + 1
         /\ \A k \in Nat : Carries(d, k) /\ f = Item(k + Len(d) + 1) => Carries(Append(d, f), k)
         /\ \A g : (\A i \in DOMAIN d : d[i] # g) /\ f # g
                     => \A i \in DOMAIN Append(d, f) : Append(d, f)[i] # g
<1> DEFINE r == Append(d, f)
           x == Len(d)
<1>1. /\ r \in Seq(Frames) /\ Len(r) = x + 1 /\ x \in Nat /\ DOMAIN d = 1..x
      /\ \A i \in 1..x : r[i] = d[i]
      /\ r[x + 1] = f
  BY AppendProperties, LenProperties
<1>2. DOMAIN r = 1..(x + 1)
  BY <1>1, LenProperties
<1> HIDE DEF r, x
<1>3. \A i \in DOMAIN r : (i \in DOMAIN d /\ r[i] = d[i]) \/ (i = x + 1 /\ r[i] = f)
  BY <1>1, <1>2
<1>4. ASSUME NEW k \in Nat, Carries(d, k), f = Item(k + x + 1)
      PROVE  Carries(r, k)
  <2>1. k + (x + 1) = k + x + 1
    BY <1>1
  <2> QED  BY <1>3, <1>4, <2>1 DEF Carries
<1> QED  BY <1>1, <1>3, <1>4 DEF r, x

-----------------------------------------------------------------------------
(* Every step keeps the invariant. *)

LEMMA TransportTypes ==
  ASSUME TransportInv
  PROVE  /\ dialer \in [Session -> Client]
         /\ closed \in [Node -> BOOLEAN]
         /\ conns \in [Node -> [Node -> Session \cup {None}]]
         /\ client \in [Session -> {"idle", "dialled", "auth", "tls", "secure", "info",
                                    "track", "open", "closed"}]
         /\ server \in [Session -> {"none", "handshake", "open", "closed"}]
         /\ up \in [Session -> Seq(Frames)] /\ down \in [Session -> Seq(Frames)]
         /\ sent \in [Session -> Nat] /\ got \in [Session -> Nat]
         /\ Host \in Node /\ Host \notin Client
         /\ \A s \in Session : dialer[s] \in Node /\ dialer[s] # Host
<1>1. MaxMessages \in Nat
  BY TransportAssumption
<1>2. 0..MaxMessages \subseteq Nat
  BY <1>1
<1>3. TypeOK /\ WireTypes
  BY DEF TransportInv
<1>4. sent \in [Session -> 0..MaxMessages] /\ got \in [Session -> 0..MaxMessages]
  BY <1>3 DEF TypeOK
<1>5. sent \in [Session -> Nat] /\ got \in [Session -> Nat]
  BY <1>2, <1>4
<1>6. Host \in Node /\ Host \notin Client /\ \A s \in Session : dialer[s] \in Node /\ dialer[s] # Host
  BY <1>3, TransportAssumption DEF TypeOK, Node
<1> QED  BY <1>3, <1>5, <1>6 DEF TypeOK, WireTypes

\* Receive delivers the message after the last one it delivered.
LEMMA NextMessage ==
  ASSUME TransportInv, NEW s \in Session, Receive(s)
  PROVE  got' = [got EXCEPT ![s] = got[s] + 1] /\ got[s] + 1 <= sent[s]
<1>1. /\ client[s] = "open" /\ down[s] # <<>> /\ got' = [got EXCEPT ![s] = Head(down[s]).n]
      /\ got[s] \in Nat /\ sent[s] \in Nat /\ down[s] \in Seq(Frames)
  BY TransportTypes DEF Receive
<1>2. /\ Taken(s) = 3 + got[s] /\ Carries(down[s], Taken(s))
      /\ Taken(s) + Len(down[s]) <= 3 + sent[s]
  BY <1>1 DEF TransportInv, InOrder, Taken
<1>3. Head(down[s]) = Item(3 + got[s] + 1) /\ Len(down[s]) \in Nat /\ Len(down[s]) >= 1
  <2> DEFINE k == 3 + got[s]
             d == down[s]
  <2>1. k \in Nat /\ Carries(d, k) /\ d \in Seq(Frames) /\ d # <<>>
    BY <1>1, <1>2
  <2> HIDE DEF k, d
  <2>2. Head(d) = Item(k + 1) /\ Len(d) \in Nat /\ Len(d) >= 1
    BY <2>1, TakeOne
  <2> QED  BY <2>2 DEF k, d
<1>4. Head(down[s]).n = got[s] + 1
  BY <1>1, <1>3, Items, FrameTypes
<1>5. got[s] + 1 <= sent[s]
  <2> DEFINE k == Len(down[s])
  <2>1. k \in Nat /\ k >= 1 /\ 3 + got[s] + k <= 3 + sent[s]
    BY <1>2, <1>3
  <2> HIDE DEF k
  <2> QED  BY <1>1, <2>1
<1> QED  BY <1>1, <1>4, <1>5

LEMMA TransportInit == Init => TransportInv
<1> SUFFICES ASSUME Init  PROVE TransportInv
  OBVIOUS
<1> USE TransportAssumption
<1>0. MaxMessages \in Nat
  OBVIOUS
<1>1. TypeOK
  BY <1>0 DEF Init, TypeOK, Ready
<1>2. WireTypes
  BY EmptySeq DEF Init, WireTypes
<1>3. Serving /\ Trusted /\ InfoSent
  BY DEF Init, Ready, Serving, Trusted, InfoSent, Handshaking
<1>4. Listed /\ Accounted
  <2>1. \A n, m \in Node : conns[n][m] = None
    BY DEF Init
  <2>2. Host \in Node /\ \A d \in Client : d \in Node
    BY DEF Node
  <2> QED  BY <2>1, <2>2 DEF Init, Listed, Accounted
<1>5. NotYet
  BY DEF Init, NotYet
<1>6. \A s \in Session : InOrder(s)
  <2>1. \A s \in Session : down[s] = <<>> /\ client[s] = "idle" /\ server[s] = "none" /\ sent[s] = 0
    BY DEF Init
  <2>2. Len(<<>>) = 0 /\ \A k : Carries(<<>>, k)
    BY DEF Carries
  <2> QED  BY <2>1, <2>2 DEF InOrder, Taken, Put
<1> QED  BY <1>1, <1>2, <1>3, <1>4, <1>5, <1>6 DEF TransportInv

\* A registration puts a connection where TypeOK wants it.
LEMMA RegisterTypes ==
  ASSUME TransportInv, NEW s \in Session, NEW n \in Node, NEW m \in Node, Register(n, m, s),
         {n, m} = {Host, dialer[s]}, dialer' = dialer
  PROVE  /\ conns' \in [Node -> [Node -> Session \cup {None}]]
         /\ \A i, j \in Node : conns'[i][j] # None => {i, j} = {Host, dialer'[conns'[i][j]]}
         /\ late' \subseteq Node \X Session /\ replaced' \subseteq Node \X Session
<1>1. /\ conns \in [Node -> [Node -> Session \cup {None}]]
      /\ conns' = [conns EXCEPT ![n][m] = s]
  BY TransportTypes DEF Register
<1>2. \A i, j \in Node : conns'[i][j] = IF i = n /\ j = m THEN s ELSE conns[i][j]
  BY <1>1
<1>3. conns' \in [Node -> [Node -> Session \cup {None}]]
  BY <1>1
<1>4. \A i, j \in Node : conns'[i][j] # None => {i, j} = {Host, dialer[conns'[i][j]]}
  <2> SUFFICES ASSUME NEW i \in Node, NEW j \in Node, conns'[i][j] # None
               PROVE  {i, j} = {Host, dialer[conns'[i][j]]}
    OBVIOUS
  <2>1. CASE i = n /\ j = m
    BY <1>2, <2>1
  <2>2. CASE ~(i = n /\ j = m)
    <3>1. conns'[i][j] = conns[i][j]
      BY <1>2, <2>2
    <3>2. \A a, b \in Node : conns[a][b] # None => {a, b} = {Host, dialer[conns[a][b]]}
      BY DEF TransportInv, TypeOK
    <3> QED  BY <3>1, <3>2
  <2> QED  BY <2>1, <2>2
<1>5. late' \subseteq Node \X Session
  BY DEF Register, TransportInv, TypeOK
<1>6. replaced' \subseteq Node \X Session
  <2>1. conns[n][m] # None => conns[n][m] \in Session
    BY <1>1
  <2> QED  BY <2>1 DEF Register, TransportInv, TypeOK
<1> QED  BY <1>3, <1>4, <1>5, <1>6

LEMMA TypeOfClient ==
  ASSUME TransportInv, NEW s \in Session, ClientStep(s)
  PROVE  TypeOK' /\ WireTypes'
<1>0. /\ TypeOK /\ WireTypes /\ up[s] \in Seq(Frames) /\ down[s] \in Seq(Frames)
  BY TransportTypes DEF TransportInv
<1>1. UNCHANGED <<closed, acceptor, server, surroundings, messages>>
  BY DEF ClientStep, Dial, Connecting, ClientSendAuth, ClientSendInfo, ClientSends, ClientAuth,
         ClientTLS, ClientInfo, ClientTrack, ClientFails
<1>2. client' \in [Session -> {"idle", "dialled", "auth", "tls", "secure", "info", "track",
                               "open", "closed"}]
  <2>1. \E x \in {"dialled", "auth", "tls", "secure", "info", "track", "open", "closed"} :
          client' = [client EXCEPT ![s] = x]
    BY DEF ClientStep, Dial, Connecting, ClientSendAuth, ClientSendInfo, ClientSends,
           ClientAuth, ClientTLS, ClientInfo, ClientTrack, ClientFails
  <2> QED  BY <1>0, <2>1 DEF TypeOK
<1>3. /\ conns' \in [Node -> [Node -> Session \cup {None}]]
      /\ \A i, j \in Node : conns'[i][j] # None => {i, j} = {Host, dialer'[conns'[i][j]]}
      /\ late' \subseteq Node \X Session /\ replaced' \subseteq Node \X Session
  <2>1. CASE ClientTrack(s)
    <3>1. Register(dialer[s], Host, s) /\ dialer[s] \in Node /\ Host \in Node /\ dialer' = dialer
      BY <1>1, <2>1, TransportTypes DEF ClientTrack, surroundings
    <3> QED  BY <3>1, RegisterTypes
  <2>2. CASE ~ClientTrack(s)
    <3>1. UNCHANGED <<registry, dialer>>
      BY <1>1, <2>2
        DEF ClientStep, Dial, Connecting, ClientSendAuth, ClientSendInfo, ClientSends, ClientAuth,
            ClientTLS, ClientInfo, ClientFails, surroundings
    <3> QED  BY <1>0, <3>1 DEF TypeOK, registry
  <2> QED  BY <2>1, <2>2
<1>4. WireTypes'
  <2>1. \/ up' = up
        \/ \E f \in {Auth, Hello, Finished, Info} : up' = [up EXCEPT ![s] = Append(@, f)]
    BY DEF ClientStep, Dial, Connecting, ClientSendAuth, ClientSendInfo, ClientSends, ClientAuth,
           ClientTLS, ClientInfo, ClientTrack, ClientFails, wires
  <2>2. down' = down \/ (down[s] # <<>> /\ down' = [down EXCEPT ![s] = Tail(@)])
    BY DEF ClientStep, Dial, Connecting, ClientSendAuth, ClientSendInfo, ClientSends, ClientAuth,
           ClientTLS, ClientInfo, ClientTrack, ClientFails, wires, ClientGets
  <2>3. \A f \in {Auth, Hello, Finished, Info} : Append(up[s], f) \in Seq(Frames)
    BY <1>0, PutOne, FrameTypes
  <2>4. down[s] # <<>> => Tail(down[s]) \in Seq(Frames)
    BY <1>0, TakeOne
  <2>5. up' \in [Session -> Seq(Frames)]
    BY <1>0, <2>1, <2>3 DEF WireTypes
  <2>6. down' \in [Session -> Seq(Frames)]
    BY <1>0, <2>2, <2>4 DEF WireTypes
  <2> QED  BY <2>5, <2>6 DEF WireTypes
<1> QED  BY <1>0, <1>1, <1>2, <1>3, <1>4 DEF TypeOK, surroundings, messages

LEMMA AcceptorTypes ==
  ASSUME TransportInv
  PROVE  /\ acceptor \in [at : Handshaking \cup {"accept", "done"}, s : Session \cup {None},
                          sent : BOOLEAN, read : BOOLEAN]
         /\ acceptor.at \in Handshaking => acceptor.s \in Session
  BY DEF TransportInv, TypeOK, Serving, Handshaking

\* What a step of Accept does to its call, and to the ends of the connection.
LEMMA HostMoves ==
  ASSUME TransportInv, HostStep
  PROVE  /\ \/ /\ acceptor.at = "accept" /\ acceptor'.at = "auth" /\ ~acceptor'.sent
               /\ acceptor'.s \in Session /\ server[acceptor'.s] = "none"
               /\ client[acceptor'.s] # "idle"
               /\ server' = [server EXCEPT ![acceptor'.s] = "handshake"]
            \/ /\ acceptor.at \in Handshaking /\ acceptor'.s = acceptor.s /\ server' = server
               /\ \/ acceptor.at = "auth" /\ acceptor'.at = "auth"
                  \/ /\ acceptor.at = "auth" /\ acceptor'.at = "tls"
                     /\ acceptor.sent /\ Verified(acceptor.s)
                  \/ acceptor.at = "tls" /\ acceptor'.at = "finish"
                  \/ acceptor.at = "finish" /\ acceptor'.at = "info"
                  \/ /\ acceptor.at = "info" /\ acceptor'.at = "track"
                     /\ up[acceptor.s] # <<>> /\ Head(up[acceptor.s]) = Info
            \/ /\ acceptor.at \in Handshaking /\ acceptor'.at = "accept" /\ acceptor'.s = None
               /\ server' = [server EXCEPT ![acceptor.s] = "closed"]
            \/ /\ acceptor.at = "track" /\ acceptor'.at = "accept" /\ acceptor'.s = None
               /\ server' = [server EXCEPT ![acceptor.s] = "open"]
            \/ /\ acceptor.at = "accept" /\ acceptor'.at = "done" /\ acceptor'.s = acceptor.s
               /\ server' = server
         /\ acceptor' \in [at : Handshaking \cup {"accept", "done"}, s : Session \cup {None},
                           sent : BOOLEAN, read : BOOLEAN]
         /\ UNCHANGED <<closed, client, messages, dialer, stopped>>
<1>0. /\ acceptor \in [at : Handshaking \cup {"accept", "done"}, s : Session \cup {None},
                       sent : BOOLEAN, read : BOOLEAN]
      /\ acceptor.at \in Handshaking => acceptor.s \in Session
  BY AcceptorTypes
<1> USE DEF Handshaking
<1>1. ASSUME NEW s \in Session, Accept(s)
      PROVE  /\ acceptor' = [at |-> "auth", s |-> s, sent |-> FALSE, read |-> FALSE]
             /\ acceptor.at = "accept" /\ server[s] = "none" /\ client[s] # "idle"
             /\ server' = [server EXCEPT ![s] = "handshake"]
             /\ UNCHANGED <<closed, client, messages, dialer, stopped>>
  BY <1>1 DEF Accept, Ready, surroundings
<1>2. CASE AcceptEnds
  BY <1>0, <1>2 DEF AcceptEnds, surroundings
<1>3. CASE SendAuth
  BY <1>0, <1>3 DEF SendAuth, surroundings
<1>4. CASE ReadAuth
  BY <1>0, <1>4 DEF ReadAuth
<1>5. CASE Authenticated
  <2>1. CASE Verified(acceptor.s)
    BY <1>0, <1>5, <2>1 DEF Authenticated, surroundings
  <2>2. CASE ~Verified(acceptor.s)
    <3>1. /\ acceptor.at = "auth" /\ acceptor' = Ready
          /\ server' = [server EXCEPT ![acceptor.s] = "closed"]
          /\ UNCHANGED <<closed, client, messages, dialer, stopped>>
      BY <1>5, <2>2 DEF Authenticated, HangUp, surroundings
    <3> QED  BY <3>1 DEF Ready
  <2> QED  BY <2>1, <2>2
<1>6. CASE ServerHello \/ ServerFinish
  BY <1>0, <1>6 DEF ServerHello, ServerFinish, HostGets, surroundings
<1>10. CASE ServerInfo
  BY <1>0, <1>10 DEF ServerInfo, HostGets, surroundings
<1>7. CASE ServerTrack
  BY <1>0, <1>7 DEF ServerTrack, Ready, surroundings
<1>8. CASE AcceptFails
  BY <1>0, <1>8 DEF AcceptFails, HangUp, Ready, surroundings
<1>9. CASE \E s \in Session : Accept(s)
  <2>1. PICK s \in Session : Accept(s)
    BY <1>9
  <2>2. /\ acceptor'.at = "auth" /\ ~acceptor'.sent /\ acceptor'.s = s
        /\ acceptor' \in [at : Handshaking \cup {"accept", "done"}, s : Session \cup {None},
                          sent : BOOLEAN, read : BOOLEAN]
    <3>1. acceptor' = [at |-> "auth", s |-> s, sent |-> FALSE, read |-> FALSE]
      BY <1>1, <2>1
    <3> QED  BY <3>1
  <2>3. /\ acceptor.at = "accept" /\ server[s] = "none" /\ client[s] # "idle"
        /\ server' = [server EXCEPT ![s] = "handshake"]
        /\ UNCHANGED <<closed, client, messages, dialer, stopped>>
    BY <1>1, <2>1
  <2>4. /\ acceptor.at = "accept" /\ acceptor'.at = "auth" /\ ~acceptor'.sent
        /\ acceptor'.s \in Session /\ server[acceptor'.s] = "none"
        /\ client[acceptor'.s] # "idle"
        /\ server' = [server EXCEPT ![acceptor'.s] = "handshake"]
    <3>1. acceptor'.s = s /\ s \in Session
      BY <2>2
    <3>2. server' = [server EXCEPT ![acceptor'.s] = "handshake"]
      BY <2>3, <3>1
    <3> QED  BY <2>2, <2>3, <3>1, <3>2
  <2> QED  BY <2>2, <2>3, <2>4, Zenon
<1> QED  BY <1>2, <1>3, <1>4, <1>5, <1>6, <1>7, <1>8, <1>9, <1>10 DEF HostStep, Acceptor

LEMMA TypeOfHost ==
  ASSUME TransportInv, HostStep
  PROVE  TypeOK' /\ WireTypes'
<1>0. /\ TypeOK /\ WireTypes /\ Host \in Node
      /\ server \in [Session -> {"none", "handshake", "open", "closed"}]
  BY TransportTypes DEF TransportInv
<1>1. /\ acceptor' \in [at : Handshaking \cup {"accept", "done"}, s : Session \cup {None},
                        sent : BOOLEAN, read : BOOLEAN]
      /\ UNCHANGED <<closed, client, messages, dialer, stopped>>
  BY HostMoves
<1>2. server' \in [Session -> {"none", "handshake", "open", "closed"}]
  <2>1. \/ server' = server
        \/ \E s \in Session, x \in {"handshake", "open", "closed"} :
             server' = [server EXCEPT ![s] = x]
    BY HostMoves, AcceptorTypes DEF Handshaking
  <2> QED  BY <1>0, <2>1
<1>3. /\ conns' \in [Node -> [Node -> Session \cup {None}]]
      /\ \A i, j \in Node : conns'[i][j] # None => {i, j} = {Host, dialer'[conns'[i][j]]}
      /\ late' \subseteq Node \X Session /\ replaced' \subseteq Node \X Session
  <2>1. CASE ServerTrack
    <3>1. /\ acceptor.s \in Session /\ dialer[acceptor.s] \in Node /\ dialer' = dialer
          /\ Register(Host, dialer[acceptor.s], acceptor.s)
      BY <1>1, <2>1, TransportTypes, AcceptorTypes DEF ServerTrack, Handshaking
    <3>2. {Host, dialer[acceptor.s]} = {Host, dialer[acceptor.s]}
      OBVIOUS
    <3> QED  BY <1>0, <3>1, <3>2, RegisterTypes
  <2>2. CASE ~ServerTrack
    <3>1. UNCHANGED <<registry, dialer>>
      BY <1>1, <2>2
        DEF HostStep, Acceptor, Accept, AcceptEnds, SendAuth, ReadAuth, Authenticated, ServerHello,
            ServerFinish, ServerInfo, AcceptFails
    <3> QED  BY <1>0, <3>1 DEF TypeOK, registry
  <2> QED  BY <2>1, <2>2
<1>4. WireTypes' /\ swallowed' \subseteq Session
  <2>1. \/ up' = up
        \/ \E s \in Session : \/ up[s] # <<>> /\ up' = [up EXCEPT ![s] = Tail(@)]
                              \/ up' = [up EXCEPT ![s] = <<>>]
                              \/ up' = [up EXCEPT ![s] = <<Rest>>]
    BY AcceptorTypes
      DEF HostStep, Acceptor, Accept, AcceptEnds, SendAuth, ReadAuth, Authenticated, ServerHello,
          ServerFinish, ServerInfo, ServerTrack, AcceptFails, HostGets, wires, Handshaking
  <2>2. \/ down' = down
        \/ \E s \in Session, f \in {Auth, Hello, Info} : down' = [down EXCEPT ![s] = Append(@, f)]
    BY AcceptorTypes
      DEF HostStep, Acceptor, Accept, AcceptEnds, SendAuth, ReadAuth, Authenticated, ServerHello,
          ServerFinish, ServerInfo, ServerTrack, AcceptFails, HostGets, wires, Handshaking
  <2>3. \A s \in Session : /\ up[s] # <<>> => Tail(up[s]) \in Seq(Frames)
                           /\ \A f \in {Auth, Hello, Info} : Append(down[s], f) \in Seq(Frames)
    BY TransportTypes, TakeOne, PutOne, FrameTypes
  <2>4. up' \in [Session -> Seq(Frames)]
    <3>1. <<Rest>> \in Seq(Frames)
      BY FrameTypes
    <3> QED  BY <1>0, <2>1, <2>3, <3>1, EmptySeq DEF WireTypes
  <2>5. down' \in [Session -> Seq(Frames)]
    BY <1>0, <2>2, <2>3 DEF WireTypes
  <2>6. swallowed' = swallowed \/ \E s \in Session : swallowed' = swallowed \cup {s}
    BY AcceptorTypes
      DEF HostStep, Acceptor, Accept, AcceptEnds, SendAuth, ReadAuth, Authenticated, ServerHello,
          ServerFinish, ServerInfo, ServerTrack, AcceptFails, HostGets, surroundings, Handshaking
  <2> QED  BY <1>0, <2>4, <2>5, <2>6 DEF WireTypes, TypeOK
<1>5. UNCHANGED <<closed, client, sent, got, broken, dialer, stopped>>
  BY <1>1 DEF messages
<1> QED  BY <1>0, <1>1, <1>2, <1>3, <1>4, <1>5 DEF TypeOK, Handshaking

LEMMA TypeOfOpen ==
  ASSUME TransportInv, NEW s \in Session, OpenStep(s)
  PROVE  TypeOK' /\ WireTypes'
<1>0. /\ TypeOK /\ WireTypes /\ down[s] \in Seq(Frames) /\ MaxMessages \in Nat
  BY TransportTypes, TransportAssumption DEF TransportInv
<1>1. CASE Send(s)
  <2>1. sent[s] \in 0..MaxMessages /\ sent[s] < MaxMessages
    BY <1>0, <1>1 DEF Send, TypeOK
  <2>2. sent[s] + 1 \in 0..MaxMessages /\ sent[s] + 1 \in Nat
    BY <1>0, <2>1
  <2>3. Append(down[s], Frame("message", sent[s] + 1)) \in Seq(Frames)
    BY <1>0, <2>2, PutOne, FrameTypes
  <2>4. down' \in [Session -> Seq(Frames)] /\ broken' \subseteq Session
    <3>1. \/ down' = down
          \/ down' = [down EXCEPT ![s] = Append(down[s], Frame("message", sent[s] + 1))]
      BY <1>1 DEF Send
    <3>2. broken' = broken \/ broken' = broken \cup {s}
      BY <1>1 DEF Send
    <3>3. down' \in [Session -> Seq(Frames)]
      BY <1>0, <2>3, <3>1 DEF WireTypes
    <3>4. broken' \subseteq Session
      BY <1>0, <3>2 DEF TypeOK
    <3> QED  BY <3>3, <3>4
  <2>5. sent' \in [Session -> 0..MaxMessages]
    BY <1>0, <1>1, <2>2 DEF Send, TypeOK
  <2> QED  BY <1>0, <1>1, <2>4, <2>5 DEF Send, TypeOK, WireTypes, registry, surroundings
<1>2. CASE Receive(s)
  <2>1. got' = [got EXCEPT ![s] = got[s] + 1] /\ got[s] + 1 <= sent[s]
    BY <1>2, NextMessage
  <2>2. got[s] + 1 \in 0..MaxMessages
    <3>1. got[s] \in 0..MaxMessages /\ sent[s] \in 0..MaxMessages
      BY <1>0 DEF TypeOK
    <3> QED  BY <1>0, <2>1, <3>1
  <2>3. got' \in [Session -> 0..MaxMessages]
    BY <1>0, <2>1, <2>2 DEF TypeOK
  <2>4. down' \in [Session -> Seq(Frames)]
    <3>1. Tail(down[s]) \in Seq(Frames)
      BY <1>0, <1>2, TakeOne DEF Receive
    <3> QED  BY <1>0, <1>2, <3>1 DEF Receive, WireTypes
  <2> QED  BY <1>0, <1>2, <2>3, <2>4 DEF Receive, TypeOK, WireTypes, registry, surroundings
<1>3. CASE ClientEnds(s) \/ ServerEnds(s)
  <2>1. client' = client \/ client' = [client EXCEPT ![s] = "closed"]
    BY <1>3 DEF ClientEnds, ServerEnds
  <2>2. server' = server \/ server' = [server EXCEPT ![s] = "closed"]
    BY <1>3 DEF ClientEnds, ServerEnds
  <2>3. UNCHANGED <<closed, registry, acceptor, wires, surroundings, messages>>
    BY <1>3 DEF ClientEnds, ServerEnds
  <2>4. client' \in [Session -> {"idle", "dialled", "auth", "tls", "secure", "info", "track",
                                 "open", "closed"}]
    BY <1>0, <2>1 DEF TypeOK
  <2>5. server' \in [Session -> {"none", "handshake", "open", "closed"}]
    BY <1>0, <2>2 DEF TypeOK
  <2> QED  BY <1>0, <2>3, <2>4, <2>5 DEF TypeOK, WireTypes, registry, surroundings, wires, messages
<1> QED  BY <1>1, <1>2, <1>3 DEF OpenStep

LEMMA TypeOfRest ==
  ASSUME TransportInv,
         \/ UNCHANGED vars
         \/ \E n \in Node : Close(n)
         \/ \E s \in Session : Stop(s, "process") \/ Stop(s, "machine")
  PROVE  TypeOK' /\ WireTypes'
<1>0. TypeOK /\ WireTypes
  BY DEF TransportInv
<1>1. CASE UNCHANGED vars
  BY <1>0, <1>1 DEF TypeOK, WireTypes, vars
<1>2. ASSUME NEW n \in Node, Close(n)
      PROVE  TypeOK' /\ WireTypes'
  <2>1. /\ client' \in [Session -> {"idle", "dialled", "auth", "tls", "secure", "info", "track",
                                    "open", "closed"}]
        /\ server' \in [Session -> {"none", "handshake", "open", "closed"}]
    BY <1>0, <1>2 DEF Close, TypeOK
  <2>2. closed' \in [Node -> BOOLEAN]
    BY <1>0, <1>2 DEF Close, TypeOK
  <2>3. /\ conns' \in [Node -> [Node -> Session \cup {None}]]
        /\ \A i, j \in Node : conns'[i][j] # None => conns'[i][j] = conns[i][j]
    BY <1>0, <1>2 DEF Close, TypeOK
  <2>4. /\ UNCHANGED <<dialer, acceptor, wires, stopped, swallowed, messages, late, replaced>>
    BY <1>2 DEF Close, surroundings
  <2>5. \A i, j \in Node : conns'[i][j] # None => {i, j} = {Host, dialer'[conns'[i][j]]}
    <3>1. \A i, j \in Node : conns[i][j] # None => {i, j} = {Host, dialer[conns[i][j]]}
      BY <1>0 DEF TypeOK
    <3>2. dialer' = dialer
      BY <2>4
    <3> SUFFICES ASSUME NEW i \in Node, NEW j \in Node, conns'[i][j] # None
                 PROVE  {i, j} = {Host, dialer[conns'[i][j]]}
      BY <3>2
    <3>3. conns'[i][j] = conns[i][j]
      BY <2>3
    <3> QED  BY <3>1, <3>3
  <2> QED  BY <1>0, <2>1, <2>2, <2>3, <2>4, <2>5 DEF TypeOK, WireTypes, wires, messages
<1>3. ASSUME NEW s \in Session, NEW how \in {"process", "machine"}, Stop(s, how)
      PROVE  TypeOK' /\ WireTypes'
  <2>1. stopped' \in [process : SUBSET Session, machine : SUBSET Session]
    BY <1>0, <1>3 DEF Stop, TypeOK
  <2>2. UNCHANGED <<dialer, closed, registry, acceptor, client, server, wires, swallowed, messages>>
    BY <1>3 DEF Stop
  <2> QED  BY <1>0, <2>1, <2>2 DEF TypeOK, WireTypes, registry, wires, messages
<1> QED  BY <1>1, <1>2, <1>3

\* What no step of Accept touches: its call, and connections being set up.
LEMMA OtherServers ==
  ASSUME TransportInv,
         \/ \E s \in Session : ClientStep(s) \/ OpenStep(s)
         \/ \E s \in Session : Stop(s, "process") \/ Stop(s, "machine")
         \/ UNCHANGED vars
         \/ \E n \in Node : Close(n)
  PROVE  /\ acceptor' = acceptor /\ dialer' = dialer
         /\ \A s \in Session :
              \/ server'[s] = server[s]
              \/ server[s] \in {"open", "closed"} /\ server'[s] = "closed"
<1>0. server \in [Session -> {"none", "handshake", "open", "closed"}] /\ Host \in Node
  BY TransportTypes
<1>1. ASSUME NEW s \in Session, ClientStep(s)
      PROVE  UNCHANGED <<acceptor, dialer, server>>
  BY <1>1 DEF ClientStep, Dial, Connecting, ClientSendAuth, ClientSendInfo, ClientSends, ClientAuth,
         ClientTLS, ClientInfo, ClientTrack, ClientFails, surroundings
<1>2. ASSUME NEW s \in Session, OpenStep(s)
      PROVE  /\ UNCHANGED <<acceptor, dialer>>
             /\ server' = server \/ (server[s] = "open" /\ server' = [server EXCEPT ![s] = "closed"])
  BY <1>2 DEF OpenStep, Send, Receive, ClientEnds, ServerEnds, surroundings
<1>3. ASSUME NEW s \in Session, NEW how, Stop(s, how)
      PROVE  UNCHANGED <<acceptor, dialer, server>>
  BY <1>3 DEF Stop
<1>4. ASSUME NEW n \in Node, Close(n)
      PROVE  /\ UNCHANGED <<acceptor, dialer>>
             /\ \A s \in Session : \/ server'[s] = server[s]
                                   \/ server[s] \in {"open", "closed"} /\ server'[s] = "closed"
  <2>1. UNCHANGED <<acceptor, dialer>>
    BY <1>4 DEF Close, surroundings
  <2>2. CASE n # Host
    BY <1>4, <2>1, <2>2 DEF Close
  <2>3. CASE n = Host
    <3>1. server' = [s \in Session |-> IF s \in {conns[Host][m] : m \in Node} THEN "closed"
                                        ELSE server[s]]
      BY <1>4, <2>3 DEF Close
    <3>2. \A s \in Session, m \in Node : conns[Host][m] = s => server[s] \in {"open", "closed"}
      BY DEF TransportInv, Listed
    <3>3. \A s \in Session : s \in {conns[Host][m] : m \in Node} => server[s] \in {"open", "closed"}
      BY <3>2
    <3> QED  BY <2>1, <3>1, <3>3
  <2> QED  BY <2>2, <2>3
<1>5. CASE UNCHANGED vars
  BY <1>5 DEF vars
<1> QED  BY <1>0, <1>1, <1>2, <1>3, <1>4, <1>5

\* What no step of Connect touches: a dialer that is being set up.
LEMMA OtherClients ==
  ASSUME TransportInv,
         \/ \E s \in Session : OpenStep(s)
         \/ \E s \in Session : Stop(s, "process") \/ Stop(s, "machine")
         \/ UNCHANGED vars
         \/ \E n \in Node : Close(n)
  PROVE  /\ up' = up
         /\ \A s \in Session :
              \/ client'[s] = client[s]
              \/ client[s] \in {"open", "closed"} /\ client'[s] = "closed"
<1>0. client \in [Session -> {"idle", "dialled", "auth", "tls", "secure", "info", "track",
                              "open", "closed"}]
  BY TransportTypes
<1>1. ASSUME NEW s \in Session, OpenStep(s)
      PROVE  /\ up' = up
             /\ client' = client \/ (client[s] = "open" /\ client' = [client EXCEPT ![s] = "closed"])
  BY <1>1 DEF OpenStep, Send, Receive, ClientEnds, ServerEnds, wires
<1>2. ASSUME NEW s \in Session, NEW how, Stop(s, how)
      PROVE  UNCHANGED <<up, client>>
  BY <1>2 DEF Stop, wires
<1>3. ASSUME NEW n \in Node, Close(n)
      PROVE  /\ up' = up
             /\ \A s \in Session : \/ client'[s] = client[s]
                                   \/ client[s] \in {"open", "closed"} /\ client'[s] = "closed"
  <2>1. up' = up
    BY <1>3 DEF Close, wires
  <2>2. CASE n = Host
    BY <1>3, <2>1, <2>2 DEF Close
  <2>3. CASE n # Host
    <3>1. /\ client' = [s \in Session |-> IF s \in {conns[n][m] : m \in Node} THEN "closed"
                                           ELSE client[s]]
          /\ n \in Client
      BY <1>3, <2>3 DEF Close, Node
    <3>2. \A s \in Session, m \in Node : conns[n][m] = s => client[s] \in {"open", "closed"}
      BY <3>1 DEF TransportInv, Listed
    <3>3. \A s \in Session : s \in {conns[n][m] : m \in Node} => client[s] \in {"open", "closed"}
      BY <3>2
    <3> QED  BY <2>1, <3>1, <3>3
  <2> QED  BY <2>2, <2>3
<1>4. CASE UNCHANGED vars
  BY <1>4 DEF vars, wires
<1> QED  BY <1>0, <1>1, <1>2, <1>3, <1>4

\* A step of Connect: where it leads, what it takes, what it sends.
LEMMA ClientMoves ==
  ASSUME TransportInv, NEW s \in Session, ClientStep(s)
  PROVE  /\ UNCHANGED <<closed, acceptor, server, dialer, messages>>
         /\ \/ /\ down' = down
               /\ \/ /\ client[s] = "idle" /\ client' = [client EXCEPT ![s] = "dialled"]
                     /\ up' = up
                  \/ /\ client[s] = "dialled" /\ client' = [client EXCEPT ![s] = "auth"]
                     /\ up' = [up EXCEPT ![s] = Append(up[s], Auth)]
                  \/ /\ client[s] = "secure" /\ client' = [client EXCEPT ![s] = "info"]
                     /\ up' = [up EXCEPT ![s] = Append(up[s], Info)]
                  \/ /\ client[s] = "track" /\ client' = [client EXCEPT ![s] = "open"]
                     /\ up' = up
            \/ /\ down[s] # <<>> /\ down' = [down EXCEPT ![s] = Tail(down[s])]
               /\ \/ /\ client[s] = "auth" /\ client' = [client EXCEPT ![s] = "tls"]
                     /\ Verified(s) /\ up' = [up EXCEPT ![s] = Append(up[s], Hello)]
                  \/ /\ client[s] = "tls" /\ client' = [client EXCEPT ![s] = "secure"]
                     /\ up' = [up EXCEPT ![s] = Append(up[s], Finished)]
                  \/ /\ client[s] = "info" /\ client' = [client EXCEPT ![s] = "track"]
                     /\ up' = up
            \/ /\ client[s] \in {"dialled", "auth", "tls", "secure", "info"} /\ up' = up
               /\ client' = [client EXCEPT ![s] = "closed"]
               /\ down' = down \/ (down[s] # <<>> /\ down' = [down EXCEPT ![s] = Tail(down[s])])
  BY DEF ClientStep, Dial, Connecting, ClientSendAuth, ClientSendInfo, ClientSends, ClientAuth,
         ClientTLS, ClientInfo, ClientTrack, ClientFails, ClientGets, surroundings, wires

LEMMA KeepsServing == TransportInv /\ [Next]_vars => Serving'
<1> SUFFICES ASSUME TransportInv, [Next]_vars  PROVE Serving'
  OBVIOUS
<1>0. /\ Serving /\ None \notin Session
      /\ server \in [Session -> {"none", "handshake", "open", "closed"}]
  BY TransportTypes, TransportAssumption DEF TransportInv
<1>1. CASE HostStep
  <2>1. acceptor.at \in Handshaking => acceptor.s \in Session
    BY AcceptorTypes
  <2>2. acceptor.at = "accept" => acceptor.at \notin Handshaking
    BY DEF Handshaking
  <2> QED  BY <1>0, <1>1, <2>1, <2>2, HostMoves DEF Serving, Handshaking
<1>2. CASE ~HostStep
  <2>1. /\ acceptor' = acceptor
        /\ \A s \in Session : \/ server'[s] = server[s]
                              \/ server[s] \in {"open", "closed"} /\ server'[s] = "closed"
    BY <1>2, Steps, OtherServers
  <2> QED  BY <1>0, <2>1 DEF Serving
<1> QED  BY <1>1, <1>2

LEMMA KeepsTrusted == TransportInv /\ [Next]_vars => Trusted'
<1> SUFFICES ASSUME TransportInv, [Next]_vars  PROVE Trusted'
  OBVIOUS
<1>0. /\ Trusted /\ Serving
      /\ server \in [Session -> {"none", "handshake", "open", "closed"}]
      /\ client \in [Session -> {"idle", "dialled", "auth", "tls", "secure", "info", "track",
                                 "open", "closed"}]
  BY TransportTypes DEF TransportInv
<1>1. dialer' = dialer
  BY Steps, OtherServers, HostMoves
<1>2. \A s \in Session : Verified(s)' <=> Verified(s)
  BY <1>1 DEF Verified
<1>3. acceptor'.at \in Handshaking \ {"auth"} => Verified(acceptor'.s)
  <2>1. CASE HostStep
    BY <1>0, <2>1, HostMoves DEF Trusted, Handshaking
  <2>2. CASE ~HostStep
    BY <1>0, <2>2, Steps, OtherServers DEF Trusted
  <2> QED  BY <2>1, <2>2
<1>4. acceptor'.at \in Handshaking \ {"auth"} => Verified(acceptor.s)'
  BY <1>1, <1>3 DEF Verified
<1>5. ASSUME NEW s \in Session, server'[s] = "open"
      PROVE  Verified(s)
  <2>1. CASE HostStep
    <3>1. \/ server[s] = "open"
          \/ acceptor.at = "track" /\ s = acceptor.s
      BY <1>0, <1>5, <2>1, HostMoves, AcceptorTypes DEF Handshaking
    <3> QED  BY <1>0, <3>1 DEF Trusted, Handshaking
  <2>2. CASE ~HostStep
    <3>1. server[s] = "open"
      BY <1>5, <2>2, Steps, OtherServers
    <3> QED  BY <1>0, <3>1 DEF Trusted
  <2> QED  BY <2>1, <2>2
<1>6. ASSUME NEW s \in Session, client'[s] \in {"tls", "secure", "info", "track", "open"}
      PROVE  Verified(s)
  <2>1. CASE \E c \in Session : ClientStep(c)
    <3>1. PICK c \in Session : ClientStep(c)
      BY <2>1
    <3>2. client[s] \in {"tls", "secure", "info", "track", "open"} \/ (s = c /\ Verified(c))
      BY <1>0, <1>6, <3>1, ClientMoves
    <3> QED  BY <1>0, <3>2 DEF Trusted
  <2>2. CASE ~\E c \in Session : ClientStep(c)
    <3>1. client'[s] = client[s] \/ client'[s] = "closed"
      BY <2>2, Steps, OtherClients, HostMoves
    <3> QED  BY <1>0, <1>6, <3>1 DEF Trusted
  <2> QED  BY <2>1, <2>2
<1> QED  BY <1>2, <1>4, <1>5, <1>6 DEF Trusted

\* What a step of Accept takes from a dialer's frames.
LEMMA HostTakes ==
  ASSUME TransportInv, HostStep
  PROVE  \/ up' = up
         \/ /\ acceptor.at \in Handshaking /\ up[acceptor.s] # <<>>
            /\ \/ up' = [up EXCEPT ![acceptor.s] = Tail(up[acceptor.s])]
               \/ up' = [up EXCEPT ![acceptor.s] = <<>>]
               \/ up' = [up EXCEPT ![acceptor.s] = <<Rest>>]
<1>1. ReadAuth => acceptor.at \in Handshaking /\ up[acceptor.s] # <<>>
                  /\ \/ up' = [up EXCEPT ![acceptor.s] = Tail(up[acceptor.s])]
                     \/ up' = [up EXCEPT ![acceptor.s] = <<>>]
                     \/ up' = [up EXCEPT ![acceptor.s] = <<Rest>>]
  BY DEF ReadAuth, Handshaking
<1>2. ServerHello \/ ServerFinish \/ ServerInfo
        => acceptor.at \in Handshaking /\ up[acceptor.s] # <<>>
           /\ up' = [up EXCEPT ![acceptor.s] = Tail(up[acceptor.s])]
  BY DEF ServerHello, ServerFinish, ServerInfo, HostGets, Handshaking
<1>3. AcceptEnds \/ SendAuth \/ Authenticated \/ ServerTrack \/ AcceptFails
        \/ (\E s \in Session : Accept(s)) => up' = up
  BY DEF AcceptEnds, SendAuth, Authenticated, ServerTrack, AcceptFails, Accept, wires
<1> QED  BY <1>1, <1>2, <1>3 DEF HostStep, Acceptor

LEMMA KeepsInfoSent == TransportInv /\ [Next]_vars => InfoSent'
<1> SUFFICES ASSUME TransportInv, [Next]_vars, NEW s \in Session,
                    client'[s] \notin {"info", "track", "open", "closed"}
             PROVE  /\ \A i \in DOMAIN up'[s] : up'[s][i] # Info
                    /\ ~(acceptor'.at = "track" /\ acceptor'.s = s)
                    /\ server'[s] # "open"
  BY DEF InfoSent
<1>0. /\ Serving /\ up \in [Session -> Seq(Frames)] /\ up[s] \in Seq(Frames)
      /\ server \in [Session -> {"none", "handshake", "open", "closed"}]
      /\ client \in [Session -> {"idle", "dialled", "auth", "tls", "secure", "info", "track",
                                 "open", "closed"}]
  BY TransportTypes DEF TransportInv
<1>1. client[s] \notin {"info", "track", "open", "closed"}
  <2>1. CASE \E c \in Session : ClientStep(c)
    <3>1. PICK c \in Session : ClientStep(c)
      BY <2>1
    <3> QED  BY <1>0, <3>1, ClientMoves
  <2>2. CASE ~\E c \in Session : ClientStep(c)
    <3>1. client'[s] = client[s] \/ client'[s] = "closed"
      BY <2>2, Steps, OtherClients, HostMoves
    <3> QED  BY <3>1
  <2> QED  BY <2>1, <2>2
<1>2. /\ \A i \in DOMAIN up[s] : up[s][i] # Info
      /\ ~(acceptor.at = "track" /\ acceptor.s = s)
      /\ server[s] # "open"
  BY <1>1 DEF TransportInv, InfoSent
<1>3. CASE HostStep
  <2>1. acceptor.at \in Handshaking => acceptor.s \in Session
    BY AcceptorTypes
  <2>2. \A i \in DOMAIN up'[s] : up'[s][i] # Info
    <3>1. \/ up'[s] = up[s]
          \/ up[s] # <<>> /\ up'[s] = Tail(up[s])
          \/ up'[s] = <<>> \/ up'[s] = <<Rest>>
      BY <1>0, <1>3, <2>1, HostTakes
    <3>2. DOMAIN <<>> = {} /\ \A i \in DOMAIN <<Rest>> : <<Rest>>[i] # Info
      BY FrameTypes
    <3> QED  BY <1>0, <1>2, <3>1, <3>2, TakeOne
  <2>3. up[s] # <<>> => Head(up[s]) # Info
    <3> SUFFICES ASSUME up[s] # <<>>  PROVE Head(up[s]) # Info
      OBVIOUS
    <3>1. Head(up[s]) = up[s][1] /\ Len(up[s]) \in Nat /\ Len(up[s]) >= 1 /\ DOMAIN up[s] = 1..Len(up[s])
      BY <1>0, TakeOne, LenProperties
    <3>2. 1 \in DOMAIN up[s]
      BY <3>1
    <3> QED  BY <1>2, <3>1, <3>2
  <2>4. ~(acceptor'.at = "track" /\ acceptor'.s = s)
    BY <1>2, <1>3, <2>3, HostMoves DEF Handshaking
  <2>5. server'[s] # "open"
    BY <1>0, <1>2, <1>3, <2>1, HostMoves DEF Handshaking
  <2> QED  BY <2>2, <2>4, <2>5
<1>4. CASE ~HostStep
  <2>1. acceptor' = acceptor /\ (server'[s] = server[s] \/ server'[s] = "closed")
    BY <1>4, Steps, OtherServers
  <2>2. \A i \in DOMAIN up'[s] : up'[s][i] # Info
    <3>1. CASE \E c \in Session : ClientStep(c)
      <4>1. PICK c \in Session : ClientStep(c)
        BY <3>1
      <4>2. up'[s] = up[s] \/ \E f \in {Auth, Hello, Finished} : up'[s] = Append(up[s], f)
        BY <1>0, <1>1, <4>1, ClientMoves
      <4>3. ASSUME NEW f \in {Auth, Hello, Finished}, up'[s] = Append(up[s], f)
            PROVE  \A i \in DOMAIN up'[s] : up'[s][i] # Info
        <5>1. f \in Frames /\ f # Info
          BY FrameTypes
        <5>2. \A i \in DOMAIN Append(up[s], f) : Append(up[s], f)[i] # Info
          BY <1>0, <1>2, <5>1, PutOne
        <5> QED  BY <4>3, <5>2
      <4> QED  BY <1>2, <4>2, <4>3
    <3>2. CASE ~\E c \in Session : ClientStep(c)
      <4>1. up' = up
        BY <1>4, <3>2, Steps, OtherClients
      <4> QED  BY <1>2, <4>1
    <3> QED  BY <3>1, <3>2
  <2> QED  BY <1>2, <2>1, <2>2
<1> QED  BY <1>3, <1>4

\* A registration: whom it puts where, and what it leaves or writes down.
LEMMA RegisterKeeps ==
  ASSUME TransportInv, NEW c \in Session, NEW n \in Node, NEW m \in Node, Register(n, m, c)
  PROVE  /\ late \subseteq late' /\ replaced \subseteq replaced'
         /\ conns'[n][m] = c /\ (closed[n] => <<n, c>> \in late')
         /\ \A s \in Session, i, j \in Node :
              /\ conns[i][j] = s => conns'[i][j] = s \/ <<i, s>> \in replaced'
              /\ conns'[i][j] = s => conns[i][j] = s \/ (i = n /\ j = m /\ s = c)
<1>1. conns \in [Node -> [Node -> Session \cup {None}]] /\ None \notin Session
  BY TransportTypes, TransportAssumption
<1>2. \A i, j \in Node : conns'[i][j] = IF i = n /\ j = m THEN c ELSE conns[i][j]
  BY <1>1 DEF Register
<1>3. late \subseteq late' /\ replaced \subseteq replaced' /\ (closed[n] => <<n, c>> \in late')
  BY DEF Register
<1>4. conns[n][m] # None => <<n, conns[n][m]>> \in replaced'
  BY DEF Register
<1> QED  BY <1>1, <1>2, <1>3, <1>4

\* Which steps touch the registry, and which steps open an end.
LEMMA RegistryMoves ==
  ASSUME TransportInv, [Next]_vars
  PROVE  /\ \/ UNCHANGED <<registry, closed>>
            \/ /\ HostStep /\ acceptor.at = "track" /\ acceptor.s \in Session /\ closed' = closed
               /\ Register(Host, dialer[acceptor.s], acceptor.s)
               /\ server' = [server EXCEPT ![acceptor.s] = "open"]
            \/ \E c \in Session : /\ ClientStep(c) /\ Register(dialer[c], Host, c)
                                  /\ client' = [client EXCEPT ![c] = "open"] /\ closed' = closed
            \/ \E n \in Node : Close(n)
         /\ \A s \in Session : server'[s] = "open" =>
              \/ server[s] = "open"
              \/ s = acceptor.s /\ Register(Host, dialer[s], s) /\ closed' = closed
         /\ \A s \in Session : client'[s] = "open" =>
              \/ client[s] = "open"
              \/ Register(dialer[s], Host, s) /\ closed' = closed
<1>0. /\ server \in [Session -> {"none", "handshake", "open", "closed"}]
      /\ client \in [Session -> {"idle", "dialled", "auth", "tls", "secure", "info", "track",
                                 "open", "closed"}]
      /\ acceptor.at \in Handshaking => acceptor.s \in Session
  BY TransportTypes, AcceptorTypes
<1>1. CASE HostStep
  <2>1. client' = client
    BY <1>1, HostMoves
  <2>2. CASE ServerTrack
    <3>1. /\ acceptor.at = "track" /\ acceptor.s \in Session
          /\ Register(Host, dialer[acceptor.s], acceptor.s) /\ closed' = closed
          /\ server' = [server EXCEPT ![acceptor.s] = "open"]
      BY <1>0, <2>2 DEF ServerTrack, Handshaking
    <3> QED  BY <1>0, <1>1, <2>1, <3>1
  <2>3. CASE ~ServerTrack
    <3>1. UNCHANGED <<registry, closed>>
      BY <1>1, <2>3
        DEF HostStep, Acceptor, Accept, AcceptEnds, SendAuth, ReadAuth, Authenticated, ServerHello,
            ServerFinish, ServerInfo, AcceptFails
    <3>2. \/ server' = server
          \/ \E s \in Session, x \in {"handshake", "closed"} : server' = [server EXCEPT ![s] = x]
      BY <1>0, <1>1, <2>3
        DEF HostStep, Acceptor, Accept, AcceptEnds, SendAuth, ReadAuth, Authenticated, ServerHello,
            ServerFinish, ServerInfo, AcceptFails, HangUp, Handshaking
    <3>3. \A s \in Session : server'[s] = "open" => server[s] = "open"
      BY <1>0, <3>2
    <3> QED  BY <2>1, <3>1, <3>3
  <2> QED  BY <2>2, <2>3
<1>2. ASSUME NEW c \in Session, ClientStep(c)
      PROVE  /\ server' = server
             /\ \/ /\ UNCHANGED <<registry, closed>>
                   /\ \A s \in Session : client'[s] = "open" => client[s] = "open"
                \/ /\ Register(dialer[c], Host, c) /\ closed' = closed
                   /\ client' = [client EXCEPT ![c] = "open"]
                   /\ \A s \in Session : client'[s] = "open" => client[s] = "open" \/ s = c
  <2>1. server' = server
    BY <1>2, ClientMoves
  <2>2. CASE ClientTrack(c)
    BY <1>0, <2>1, <2>2 DEF ClientTrack
  <2>3. CASE ~ClientTrack(c)
    <3>1. UNCHANGED <<registry, closed>>
      BY <1>2, <2>3 DEF ClientStep, Dial, Connecting, ClientSendAuth, ClientSendInfo, ClientSends,
                        ClientAuth, ClientTLS, ClientInfo, ClientFails
    <3>2. \E x \in {"dialled", "auth", "tls", "secure", "info", "track", "closed"} :
            client' = [client EXCEPT ![c] = x]
      BY <1>2, <2>3 DEF ClientStep, Dial, Connecting, ClientSendAuth, ClientSendInfo, ClientSends,
                        ClientAuth, ClientTLS, ClientInfo, ClientFails
    <3>3. \A s \in Session : client'[s] = "open" => client[s] = "open"
      BY <1>0, <3>2
    <3> QED  BY <2>1, <3>1, <3>3
  <2> QED  BY <2>2, <2>3
<1>3. CASE ~HostStep /\ ~\E c \in Session : ClientStep(c)
  <2>1. \A s \in Session : /\ server'[s] = "open" => server[s] = "open"
                           /\ client'[s] = "open" => client[s] = "open"
    BY <1>3, Steps, OtherServers, OtherClients
  <2>2. UNCHANGED <<registry, closed>> \/ \E n \in Node : Close(n)
    <3>1. \A s \in Session : OpenStep(s) => UNCHANGED <<registry, closed>>
      BY DEF OpenStep, Send, Receive, ClientEnds, ServerEnds
    <3>2. \A s, how : Stop(s, how) => UNCHANGED <<registry, closed>>
      BY DEF Stop
    <3>3. UNCHANGED vars => UNCHANGED <<registry, closed>>
      BY DEF vars, registry
    <3> QED  BY <1>3, <3>1, <3>2, <3>3, Steps
  <2> QED  BY <2>1, <2>2
<1> QED  BY <1>1, <1>2, <1>3

LEMMA KeepsListed == TransportInv /\ [Next]_vars => Listed'
<1> SUFFICES ASSUME TransportInv, [Next]_vars, NEW s \in Session, NEW m \in Node
             PROVE  /\ conns'[Host][m] = s => server'[s] \in {"open", "closed"}
                    /\ \A d \in Client : conns'[d][m] = s => client'[s] \in {"open", "closed"}
  BY DEF Listed
<1>0. /\ Serving /\ Host \in Node /\ Host \notin Client /\ \A d \in Client : d \in Node
      /\ server \in [Session -> {"none", "handshake", "open", "closed"}]
      /\ client \in [Session -> {"idle", "dialled", "auth", "tls", "secure", "info", "track",
                                 "open", "closed"}]
      /\ conns \in [Node -> [Node -> Session \cup {None}]] /\ None \notin Session
      /\ \A c \in Session : dialer[c] \in Node /\ dialer[c] # Host
  BY TransportTypes, TransportAssumption DEF TransportInv, Node
<1>1. server[s] \in {"open", "closed"} => server'[s] \in {"open", "closed"}
  <2>1. CASE HostStep
    BY <1>0, <2>1, HostMoves, AcceptorTypes DEF Serving, Handshaking
  <2>2. CASE ~HostStep
    BY <2>2, Steps, OtherServers
  <2> QED  BY <2>1, <2>2
<1>2. client[s] \in {"open", "closed"} => client'[s] \in {"open", "closed"}
  <2>1. CASE \E c \in Session : ClientStep(c)
    <3>1. PICK c \in Session : ClientStep(c)
      BY <2>1
    <3> QED  BY <1>0, <3>1, ClientMoves
  <2>2. CASE ~\E c \in Session : ClientStep(c)
    <3>1. client'[s] = client[s] \/ client'[s] = "closed"
      BY <2>2, Steps, OtherClients, HostMoves
    <3> QED  BY <3>1
  <2> QED  BY <2>1, <2>2
<1>3. /\ conns[Host][m] = s => server[s] \in {"open", "closed"}
      /\ \A d \in Client : conns[d][m] = s => client[s] \in {"open", "closed"}
  BY DEF TransportInv, Listed
<1>4. CASE UNCHANGED registry
  BY <1>1, <1>2, <1>3, <1>4 DEF registry
<1>5. CASE /\ acceptor.s \in Session /\ Register(Host, dialer[acceptor.s], acceptor.s)
           /\ server' = [server EXCEPT ![acceptor.s] = "open"]
  <2>1. conns'[Host][m] = s => conns[Host][m] = s \/ s = acceptor.s
    BY <1>0, <1>5, RegisterKeeps
  <2>2. \A d \in Client : conns'[d][m] = s => conns[d][m] = s
    BY <1>0, <1>5, RegisterKeeps
  <2>3. server'[acceptor.s] = "open"
    BY <1>0, <1>5
  <2> QED  BY <1>1, <1>2, <1>3, <2>1, <2>2, <2>3
<1>6. CASE \E c \in Session : Register(dialer[c], Host, c) /\ client' = [client EXCEPT ![c] = "open"]
  <2>1. PICK c \in Session : Register(dialer[c], Host, c) /\ client' = [client EXCEPT ![c] = "open"]
    BY <1>6
  <2>2. conns'[Host][m] = s => conns[Host][m] = s
    BY <1>0, <2>1, RegisterKeeps
  <2>3. \A d \in Client : conns'[d][m] = s => conns[d][m] = s \/ s = c
    BY <1>0, <2>1, RegisterKeeps
  <2>4. client'[c] = "open"
    BY <1>0, <2>1
  <2> QED  BY <1>1, <1>2, <1>3, <2>2, <2>3, <2>4
<1>7. CASE \E n \in Node : Close(n)
  <2>1. PICK n \in Node : Close(n)
    BY <1>7
  <2>2. \A i, j \in Node : conns'[i][j] = s => conns[i][j] = s
    BY <1>0, <2>1 DEF Close
  <2> QED  BY <1>0, <1>1, <1>2, <1>3, <2>2
<1> QED  BY <1>4, <1>5, <1>6, <1>7, RegistryMoves

\* What closing a node's transport does to the connections it had registered.
LEMMA CloseMoves ==
  ASSUME TransportInv, NEW n \in Node, Close(n)
  PROVE  /\ late' = late /\ replaced' = replaced
         /\ \A i \in Node, s \in Session :
              i # n => /\ closed'[i] = closed[i] /\ \A j \in Node : conns'[i][j] = conns[i][j]
         /\ \A s \in Session, j \in Node :
              /\ n = Host /\ conns[n][j] = s => server'[s] = "closed"
              /\ n # Host /\ conns[n][j] = s => client'[s] = "closed"
<1>1. /\ conns \in [Node -> [Node -> Session \cup {None}]]
      /\ closed \in [Node -> BOOLEAN]
  BY TransportTypes
<1>2. late' = late /\ replaced' = replaced
  BY DEF Close
<1>3. closed' = [closed EXCEPT ![n] = TRUE] /\ conns' = [conns EXCEPT ![n] = [m \in Node |-> None]]
  BY DEF Close
<1>4. \A i \in Node : i # n => /\ closed'[i] = closed[i]
                               /\ \A j \in Node : conns'[i][j] = conns[i][j]
  BY <1>1, <1>3
<1>5. \A s \in Session, j \in Node :
        /\ n = Host /\ conns[n][j] = s => server'[s] = "closed"
        /\ n # Host /\ conns[n][j] = s => client'[s] = "closed"
  BY DEF Close
<1> QED  BY <1>2, <1>4, <1>5

LEMMA KeepsAccounted == TransportInv /\ [Next]_vars => Accounted'
<1>8. TransportInv /\ [Next]_vars => dialer' = dialer
  BY Steps, OtherServers, HostMoves
<1> SUFFICES ASSUME TransportInv, [Next]_vars, NEW s \in Session
             PROVE  /\ server'[s] = "open" =>
                         \/ <<Host, s>> \in late' \cup replaced'
                         \/ ~closed'[Host] /\ conns'[Host][dialer[s]] = s
                    /\ client'[s] = "open" =>
                         \/ <<dialer[s], s>> \in late' \cup replaced'
                         \/ ~closed'[dialer[s]] /\ conns'[dialer[s]][Host] = s
  BY <1>8 DEF Accounted
<1>0. /\ Host \in Node /\ dialer[s] \in Node /\ dialer[s] # Host
      /\ \A c \in Session : dialer[c] \in Node
  BY TransportTypes
<1>1. /\ server[s] = "open" =>
           \/ <<Host, s>> \in late \cup replaced
           \/ ~closed[Host] /\ conns[Host][dialer[s]] = s
      /\ client[s] = "open" =>
           \/ <<dialer[s], s>> \in late \cup replaced
           \/ ~closed[dialer[s]] /\ conns[dialer[s]][Host] = s
  BY DEF TransportInv, Accounted
<1>2. ASSUME NEW c \in Session, NEW n \in Node, NEW m \in Node, Register(n, m, c), closed' = closed
      PROVE  /\ server[s] = "open" =>
                  \/ <<Host, s>> \in late' \cup replaced'
                  \/ ~closed'[Host] /\ conns'[Host][dialer[s]] = s
             /\ client[s] = "open" =>
                  \/ <<dialer[s], s>> \in late' \cup replaced'
                  \/ ~closed'[dialer[s]] /\ conns'[dialer[s]][Host] = s
             /\ n = Host /\ m = dialer[s] /\ c = s =>
                  \/ <<Host, s>> \in late' \cup replaced'
                  \/ ~closed'[Host] /\ conns'[Host][dialer[s]] = s
             /\ n = dialer[s] /\ m = Host /\ c = s =>
                  \/ <<dialer[s], s>> \in late' \cup replaced'
                  \/ ~closed'[dialer[s]] /\ conns'[dialer[s]][Host] = s
  <2>1. /\ late \subseteq late' /\ replaced \subseteq replaced'
        /\ conns'[n][m] = c /\ (closed[n] => <<n, c>> \in late')
        /\ \A i, j \in Node : conns[i][j] = s => conns'[i][j] = s \/ <<i, s>> \in replaced'
    BY <1>2, RegisterKeeps
  <2> QED  BY <1>0, <1>1, <1>2, <2>1
<1>3. /\ server'[s] = "open" =>
           \/ server[s] = "open"
           \/ Register(Host, dialer[s], s) /\ closed' = closed
      /\ client'[s] = "open" =>
           \/ client[s] = "open"
           \/ Register(dialer[s], Host, s) /\ closed' = closed
  BY RegistryMoves
<1>4. CASE \E c \in Session, n, m \in Node : Register(n, m, c) /\ closed' = closed
  <2>1. PICK c \in Session, n \in Node, m \in Node : Register(n, m, c) /\ closed' = closed
    BY <1>4
  <2>2. /\ server[s] = "open" =>
             \/ <<Host, s>> \in late' \cup replaced'
             \/ ~closed'[Host] /\ conns'[Host][dialer[s]] = s
        /\ client[s] = "open" =>
             \/ <<dialer[s], s>> \in late' \cup replaced'
             \/ ~closed'[dialer[s]] /\ conns'[dialer[s]][Host] = s
    BY <1>2, <2>1
  <2>3. /\ Register(Host, dialer[s], s) /\ closed' = closed =>
             \/ <<Host, s>> \in late' \cup replaced'
             \/ ~closed'[Host] /\ conns'[Host][dialer[s]] = s
        /\ Register(dialer[s], Host, s) /\ closed' = closed =>
             \/ <<dialer[s], s>> \in late' \cup replaced'
             \/ ~closed'[dialer[s]] /\ conns'[dialer[s]][Host] = s
    BY <1>0, <1>2
  <2> QED  BY <1>3, <2>2, <2>3
<1>5. CASE UNCHANGED <<registry, closed>> /\ ~\E c \in Session, n, m \in Node : Register(n, m, c) /\ closed' = closed
  <2>1. /\ server'[s] = "open" => server[s] = "open"
        /\ client'[s] = "open" => client[s] = "open"
    BY <1>0, <1>3, <1>5
  <2> QED  BY <1>1, <1>5, <2>1 DEF registry
<1>6. ASSUME NEW n \in Node, Close(n)
      PROVE  /\ server'[s] = "open" =>
                  \/ <<Host, s>> \in late' \cup replaced'
                  \/ ~closed'[Host] /\ conns'[Host][dialer[s]] = s
             /\ client'[s] = "open" =>
                  \/ <<dialer[s], s>> \in late' \cup replaced'
                  \/ ~closed'[dialer[s]] /\ conns'[dialer[s]][Host] = s
  <2>1. /\ server'[s] = "open" => server[s] = "open"
        /\ client'[s] = "open" => client[s] = "open"
    BY <1>6, OtherServers, OtherClients
  <2> QED  BY <1>0, <1>1, <1>6, <2>1, CloseMoves
<1>7. \/ UNCHANGED <<registry, closed>>
      \/ \E c \in Session, n, m \in Node : Register(n, m, c) /\ closed' = closed
      \/ \E n \in Node : Close(n)
  <2>1. \A c \in Session : dialer[c] \in Node /\ Host \in Node
    BY <1>0
  <2> QED  BY <2>1, RegistryMoves
<1> QED  BY <1>4, <1>5, <1>6, <1>7

LEMMA KeepsNotYet == TransportInv /\ [Next]_vars => NotYet'
<1> SUFFICES ASSUME TransportInv, [Next]_vars, NEW s \in Session
             PROVE  /\ client'[s] \notin {"open", "closed"} => got'[s] = 0
                    /\ server'[s] \in {"none", "handshake"} => sent'[s] = 0 /\ s \notin broken'
  BY DEF NotYet
<1>0. /\ Serving
      /\ server \in [Session -> {"none", "handshake", "open", "closed"}]
      /\ client \in [Session -> {"idle", "dialled", "auth", "tls", "secure", "info", "track",
                                 "open", "closed"}]
      /\ sent \in [Session -> Nat] /\ got \in [Session -> Nat]
      /\ client[s] \notin {"open", "closed"} => got[s] = 0
      /\ server[s] \in {"none", "handshake"} => sent[s] = 0 /\ s \notin broken
  BY TransportTypes DEF TransportInv, NotYet
<1>1. ASSUME NEW c \in Session, Send(c) \/ Receive(c)
      PROVE  /\ client' = client /\ server' = server
             /\ got'[s] = got[s] \/ client[s] = "open"
             /\ (sent'[s] = sent[s] /\ (s \in broken' <=> s \in broken)) \/ server[s] = "open"
  <2>1. client' = client /\ server' = server
    BY <1>1 DEF Send, Receive
  <2>2. got'[s] = got[s] \/ client[s] = "open"
    BY <1>0, <1>1 DEF Send, Receive
  <2>3. (sent'[s] = sent[s] /\ (s \in broken' <=> s \in broken)) \/ server[s] = "open"
    BY <1>0, <1>1 DEF Send, Receive
  <2> QED  BY <2>1, <2>2, <2>3
<1>2. CASE \E c \in Session : Send(c) \/ Receive(c)
  BY <1>0, <1>1, <1>2
<1>3. CASE ~\E c \in Session : Send(c) \/ Receive(c)
  <2>1. UNCHANGED messages
    <3>1. \A c \in Session : ClientStep(c) => UNCHANGED messages
      BY ClientMoves
    <3>2. HostStep => UNCHANGED messages
      BY HostMoves
    <3>3. \A c \in Session : ClientEnds(c) \/ ServerEnds(c) => UNCHANGED messages
      BY DEF ClientEnds, ServerEnds
    <3>4. \A c, how : Stop(c, how) => UNCHANGED messages
      BY DEF Stop
    <3>5. \A n \in Node : Close(n) => UNCHANGED messages
      BY DEF Close
    <3>6. UNCHANGED vars => UNCHANGED messages
      BY DEF vars, messages
    <3> QED  BY <1>3, <3>1, <3>2, <3>3, <3>4, <3>5, <3>6, Steps DEF OpenStep
  <2>2. client'[s] \notin {"open", "closed"} => client[s] \notin {"open", "closed"}
    <3>1. CASE \E c \in Session : ClientStep(c)
      <4>1. PICK c \in Session : ClientStep(c)
        BY <3>1
      <4> QED  BY <1>0, <4>1, ClientMoves
    <3>2. CASE ~\E c \in Session : ClientStep(c)
      <4>1. client'[s] = client[s] \/ client'[s] = "closed"
        BY <3>2, Steps, OtherClients, HostMoves
      <4> QED  BY <4>1
    <3> QED  BY <3>1, <3>2
  <2>3. server'[s] \in {"none", "handshake"} => server[s] \in {"none", "handshake"}
    <3>1. CASE HostStep
      BY <1>0, <3>1, HostMoves, AcceptorTypes DEF Serving, Handshaking
    <3>2. CASE ~HostStep
      BY <3>2, Steps, OtherServers
    <3> QED  BY <3>1, <3>2
  <2> QED  BY <1>0, <2>1, <2>2, <2>3 DEF messages
<1> QED  BY <1>2, <1>3

-----------------------------------------------------------------------------
(* The frames on the way to a dialer stay the next ones, in order. *)

LEMMA Counts ==
  ASSUME TransportInv, NEW s \in Session
  PROVE  /\ Taken(s) \in Nat /\ Served \in 0..3 /\ Put(s) \in Int /\ Put(s) <= 3 + sent[s]
         /\ sent[s] \in Nat /\ got[s] \in Nat /\ down[s] \in Seq(Frames) /\ Len(down[s]) \in Nat
<1>1. /\ sent[s] \in Nat /\ got[s] \in Nat /\ down[s] \in Seq(Frames)
      /\ server[s] \in {"none", "handshake", "open", "closed"}
      /\ client[s] \in {"idle", "dialled", "auth", "tls", "secure", "info", "track", "open",
                        "closed"}
  BY TransportTypes
<1>2. Taken(s) \in Nat
  BY <1>1 DEF Taken
<1>3. Served \in 0..3
  BY DEF Served
<1>4. Put(s) \in Int /\ Put(s) <= 3 + sent[s]
  BY <1>1, <1>3 DEF Put
<1> QED  BY <1>1, <1>2, <1>3, <1>4, LenProperties

\* Nothing happens on a connection, or an end of it closes.
LEMMA InOrderStays ==
  ASSUME TransportInv, NEW s \in Session, down'[s] = down[s], sent'[s] = sent[s],
         client'[s] = "closed" \/ (Taken(s)' = Taken(s) /\ client[s] # "closed"),
         server'[s] = "closed" \/ (Put(s)' = Put(s) /\ server[s] # "closed")
  PROVE  InOrder(s)'
<1>1. InOrder(s)
  BY DEF TransportInv
<1>2. CASE client'[s] = "closed"
  BY <1>2 DEF InOrder
<1>3. CASE client'[s] # "closed"
  <2>1. /\ Taken(s)' = Taken(s) /\ client[s] # "closed"
        /\ Carries(down[s], Taken(s)) /\ Taken(s) + Len(down[s]) <= 3 + sent[s]
        /\ server[s] # "closed" => Taken(s) + Len(down[s]) = Put(s)
    BY <1>1, <1>3 DEF InOrder
  <2>2. Carries(down[s], Taken(s))'
    BY <2>1 DEF Carries
  <2>3. (Taken(s) + Len(down[s]) <= 3 + sent[s])'
    BY <2>1
  <2>4. server'[s] # "closed" => Taken(s)' + Len(down'[s]) = Put(s)'
    BY <2>1
  <2> QED  BY <2>2, <2>3, <2>4 DEF InOrder
<1> QED  BY <1>2, <1>3

\* The dialer takes the next frame.
LEMMA InOrderTaken ==
  ASSUME TransportInv, NEW s \in Session, client[s] # "closed",
         down[s] # <<>>, down'[s] = Tail(down[s]), sent'[s] = sent[s],
         Taken(s)' = Taken(s) + 1, server' = server, Put(s)' = Put(s)
  PROVE  InOrder(s)'
<1> DEFINE d == down[s]
           k == Taken(s)
           x == Len(Tail(d))
<1>1. /\ Carries(d, k) /\ k + Len(d) <= 3 + sent[s]
      /\ server[s] # "closed" => k + Len(d) = Put(s)
  BY DEF TransportInv, InOrder
<1>2. k \in Nat /\ Put(s) \in Int /\ sent[s] \in Nat /\ d \in Seq(Frames) /\ d # <<>> /\ Len(d) \in Nat
  BY Counts
<1>3. Carries(Tail(d), k + 1) /\ x = Len(d) - 1
  BY <1>1, <1>2, TakeOne
<1>4. (k + 1) + x = k + Len(d)
  BY <1>2, <1>3
<1>5. Carries(down[s], Taken(s))'
  BY <1>3 DEF Carries
<1>6. Taken(s)' + Len(down'[s]) <= 3 + sent'[s]
  BY <1>1, <1>4
<1>7. server'[s] # "closed" => Taken(s)' + Len(down'[s]) = Put(s)'
  BY <1>1, <1>4
<1> QED  BY <1>5, <1>6, <1>7 DEF InOrder

\* The host puts the next one.
LEMMA InOrderPut ==
  ASSUME TransportInv, NEW s \in Session, server[s] # "closed", client' = client,
         down'[s] = Append(down[s], Item(Put(s) + 1)), Item(Put(s) + 1) \in Frames,
         Taken(s)' = Taken(s), Put(s)' = Put(s) + 1, Put(s) + 1 <= 3 + sent'[s]
  PROVE  InOrder(s)'
<1> SUFFICES ASSUME client[s] # "closed"  PROVE InOrder(s)'
  BY DEF InOrder
<1> DEFINE d == down[s]
           k == Taken(s)
           f == Item(Put(s) + 1)
           r == Append(d, f)
<1>1. Carries(d, k) /\ k + Len(d) = Put(s)
  BY DEF TransportInv, InOrder
<1>2. k \in Nat /\ d \in Seq(Frames) /\ Len(d) \in Nat /\ f \in Frames
  BY Counts
<1>3. f = Item(k + Len(d) + 1)
  BY <1>1
<1> HIDE DEF f
<1>4. Carries(r, k) /\ Len(r) = Len(d) + 1
  BY <1>1, <1>2, <1>3, PutOne
<1>5. k + Len(r) = Put(s) + 1
  BY <1>1, <1>2, <1>4
<1>6. down'[s] = r
  BY DEF f
<1>7. Carries(down[s], Taken(s))'
  BY <1>4, <1>6 DEF Carries
<1>8. Taken(s)' + Len(down'[s]) = Put(s)' /\ Taken(s)' + Len(down'[s]) <= 3 + sent'[s]
  BY <1>5, <1>6
<1> QED  BY <1>7, <1>8 DEF InOrder

\* What Accept puts on the connection it serves is what comes next there.
LEMMA HostPuts ==
  ASSUME TransportInv, HostStep, NEW s \in Session
  PROVE  \/ down'[s] = down[s] /\ server'[s] = "closed"
         \/ down'[s] = down[s] /\ server[s] # "closed" /\ Put(s)' = Put(s)
         \/ /\ down'[s] = Append(down[s], Item(Put(s) + 1)) /\ Item(Put(s) + 1) \in Frames
            /\ server[s] # "closed" /\ Put(s)' = Put(s) + 1 /\ Put(s) + 1 <= 3 + sent[s]
<1>0. /\ Serving
      /\ server \in [Session -> {"none", "handshake", "open", "closed"}]
      /\ down \in [Session -> Seq(Frames)]
      /\ sent[s] \in Nat
      /\ server[s] \in {"none", "handshake"} => sent[s] = 0 /\ s \notin broken
  BY TransportTypes DEF TransportInv, NotYet
<1>1. sent' = sent /\ broken' = broken
  BY HostMoves DEF messages
<1>2. acceptor.at \in Handshaking =>
        acceptor.s \in Session /\ server[acceptor.s] = "handshake"
  BY <1>0 DEF Serving
<1>3. acceptor \in [at : Handshaking \cup {"accept", "done"}, s : Session \cup {None},
                    sent : BOOLEAN, read : BOOLEAN]
  BY AcceptorTypes
<1>4. CASE acceptor.at \in Handshaking /\ s = acceptor.s
  <2>1. server[s] = "handshake" /\ Put(s) = Served /\ sent[s] = 0 /\ s \notin broken
    BY <1>0, <1>2, <1>4 DEF Put
  <2>2. CASE SendAuth
    <3>1. /\ down'[s] = Append(down[s], Auth) /\ server' = server
          /\ acceptor.at = "auth" /\ ~acceptor.sent /\ acceptor'.at = "auth" /\ acceptor'.sent
      BY <1>0, <1>3, <1>4, <2>2 DEF SendAuth
    <3>2. Put(s) = 0 /\ Put(s)' = 1
      BY <2>1, <3>1 DEF Served, Put
    <3> QED  BY <2>1, <3>1, <3>2, Items, FrameTypes
  <2>3. CASE ReadAuth
    <3>1. /\ down' = down /\ server' = server
          /\ acceptor.at = "auth" /\ acceptor'.at = "auth" /\ acceptor'.sent = acceptor.sent
      BY <1>3, <2>3 DEF ReadAuth
    <3> QED  BY <2>1, <3>1 DEF Put, Served
  <2>4. CASE Authenticated
    <3>1. CASE Verified(acceptor.s)
      <4>1. /\ down' = down /\ server' = server
            /\ acceptor.at = "auth" /\ acceptor.sent /\ acceptor'.at = "tls"
        BY <1>3, <2>4, <3>1 DEF Authenticated, wires
      <4>2. Put(s) = 1 /\ Put(s)' = 1
        BY <2>1, <4>1 DEF Put, Served
      <4> QED  BY <2>1, <4>1, <4>2
    <3>2. CASE ~Verified(acceptor.s)
      <4>1. down' = down /\ server' = [server EXCEPT ![acceptor.s] = "closed"]
        BY <2>4, <3>2 DEF Authenticated, HangUp, wires
      <4> QED  BY <1>0, <1>4, <4>1
    <3> QED  BY <3>1, <3>2
  <2>5. CASE ServerHello
    <3>1. /\ down'[s] = Append(down[s], Hello) /\ server' = server
          /\ acceptor.at = "tls" /\ acceptor'.at = "finish"
      BY <1>0, <1>3, <1>4, <2>5 DEF ServerHello, HostGets
    <3>2. Put(s) = 1 /\ Put(s)' = 2
      BY <2>1, <3>1 DEF Served, Put
    <3> QED  BY <2>1, <3>1, <3>2, Items, FrameTypes
  <2>6. CASE ServerFinish
    <3>1. /\ down' = down /\ server' = server
          /\ acceptor.at = "finish" /\ acceptor'.at = "info"
      BY <1>3, <2>6 DEF ServerFinish, HostGets
    <3>2. Put(s) = 2 /\ Put(s)' = 2
      BY <2>1, <3>1 DEF Put, Served
    <3> QED  BY <2>1, <3>1, <3>2
  <2>7. CASE ServerInfo
    <3>1. /\ down'[s] = Append(down[s], Info) /\ server' = server
          /\ acceptor.at = "info" /\ acceptor'.at = "track"
      BY <1>0, <1>3, <1>4, <2>7 DEF ServerInfo, HostGets
    <3>2. Put(s) = 2 /\ Put(s)' = 3
      BY <2>1, <3>1 DEF Served, Put
    <3> QED  BY <2>1, <3>1, <3>2, Items, FrameTypes
  <2>8. CASE ServerTrack
    <3>1. /\ down' = down /\ acceptor.at = "track" /\ server' = [server EXCEPT ![acceptor.s] = "open"]
      BY <2>8 DEF ServerTrack, wires
    <3>2. Put(s) = 3 /\ server'[s] = "open"
      BY <1>0, <1>4, <2>1, <3>1 DEF Served
    <3>3. Put(s)' = 3
      BY <1>1, <2>1, <3>2 DEF Put
    <3> QED  BY <2>1, <3>1, <3>2, <3>3
  <2>9. CASE AcceptFails
    <3>1. down' = down /\ server' = [server EXCEPT ![acceptor.s] = "closed"]
      BY <2>9 DEF AcceptFails, HangUp, wires
    <3> QED  BY <1>0, <1>4, <3>1
  <2>10. ~AcceptEnds /\ ~\E c \in Session : Accept(c)
    BY <1>4 DEF AcceptEnds, Accept, Handshaking
  <2> QED  BY <2>2, <2>3, <2>4, <2>5, <2>6, <2>7, <2>8, <2>9, <2>10 DEF HostStep, Acceptor
<1>5. CASE ~(acceptor.at \in Handshaking /\ s = acceptor.s)
  <2>1. server[s] # "handshake"
    BY <1>0, <1>5 DEF Serving
  <2>2. down'[s] = down[s]
    <3>1. SendAuth => /\ acceptor.at \in Handshaking
                      /\ down' = [down EXCEPT ![acceptor.s] = Append(@, Auth)]
      BY DEF SendAuth, Handshaking
    <3>2. ServerHello => /\ acceptor.at \in Handshaking
                         /\ down' = [down EXCEPT ![acceptor.s] = Append(@, Hello)]
      BY DEF ServerHello, HostGets, Handshaking
    <3>3. ServerInfo => /\ acceptor.at \in Handshaking
                        /\ down' = [down EXCEPT ![acceptor.s] = Append(@, Info)]
      BY DEF ServerInfo, HostGets, Handshaking
    <3>4. ~SendAuth /\ ~ServerHello /\ ~ServerInfo => down' = down
      BY DEF HostStep, Acceptor, Accept, AcceptEnds, ReadAuth, Authenticated, ServerFinish,
             ServerTrack, AcceptFails, wires
    <3> QED  BY <1>0, <1>2, <1>5, <3>1, <3>2, <3>3, <3>4
  <2>3. \/ server'[s] = server[s]
        \/ /\ server[s] = "none" /\ server'[s] = "handshake"
           /\ acceptor'.at = "auth" /\ ~acceptor'.sent
    <3>1. CASE acceptor.at \in Handshaking
      <4>1. server' = server \/ \E x : server' = [server EXCEPT ![acceptor.s] = x]
        BY <3>1, HostMoves DEF Handshaking
      <4> QED  BY <1>0, <1>2, <1>5, <3>1, <4>1
    <3>2. CASE acceptor.at \notin Handshaking
      <4>1. \/ server' = server
            \/ /\ acceptor'.at = "auth" /\ ~acceptor'.sent
               /\ acceptor'.s \in Session /\ server[acceptor'.s] = "none"
               /\ server' = [server EXCEPT ![acceptor'.s] = "handshake"]
        BY <3>2, HostMoves DEF Handshaking
      <4> QED  BY <1>0, <4>1
    <3> QED  BY <3>1, <3>2
  <2>4. server'[s] = server[s] => server[s] = "closed" \/ Put(s)' = Put(s)
    BY <1>1, <2>1 DEF Put
  <2>5. server[s] = "none" /\ server'[s] = "handshake" /\ acceptor'.at = "auth" /\ ~acceptor'.sent
          => Put(s) = 0 /\ Put(s)' = 0
    BY DEF Put, Served
  <2> QED  BY <2>2, <2>3, <2>4, <2>5
<1> QED  BY <1>4, <1>5

LEMMA ClientKeepsOrder ==
  ASSUME TransportInv, NEW c \in Session, ClientStep(c), NEW s \in Session
  PROVE  InOrder(s)'
<1>0. /\ client \in [Session -> {"idle", "dialled", "auth", "tls", "secure", "info", "track",
                                 "open", "closed"}]
      /\ down \in [Session -> Seq(Frames)]
      /\ got[s] \in Nat
      /\ client[s] \notin {"open", "closed"} => got[s] = 0
      /\ server[s] = "closed" \/ server[s] # "closed"
  BY TransportTypes DEF TransportInv, NotYet
<1>1. UNCHANGED <<acceptor, server, sent, got, broken>>
  BY ClientMoves DEF messages
<1>2. Put(s)' = Put(s)
  BY <1>1 DEF Put, Served
<1>3. CASE s # c
  <2>1. client'[s] = client[s] /\ down'[s] = down[s]
    BY <1>0, <1>3, ClientMoves
  <2>2. Taken(s)' = Taken(s)
    BY <1>1, <2>1 DEF Taken
  <2> QED  BY <1>1, <1>2, <2>1, <2>2, InOrderStays
<1>4. CASE s = c
  <2>1. CASE client'[s] = "closed"
    BY <2>1 DEF InOrder
  <2>2. CASE client'[s] # "closed" /\ down' = down
    <3>1. \/ client[s] = "idle" /\ client'[s] = "dialled"
          \/ client[s] = "dialled" /\ client'[s] = "auth"
          \/ client[s] = "secure" /\ client'[s] = "info"
          \/ client[s] = "track" /\ client'[s] = "open"
          \/ /\ down[s] # <<>> /\ down' = [down EXCEPT ![s] = Tail(down[s])]
      BY <1>0, <1>4, <2>2, ClientMoves
    <3>2. ~(down[s] # <<>> /\ down' = [down EXCEPT ![s] = Tail(down[s])])
      <4> SUFFICES ASSUME down[s] # <<>>, down' = [down EXCEPT ![s] = Tail(down[s])]  PROVE FALSE
        OBVIOUS
      <4>1. down[s] = Tail(down[s])
        BY <1>0, <2>2
      <4> QED  BY <1>0, <4>1, TakeOne
    <3>3. Taken(s)' = Taken(s) /\ client[s] # "closed"
      BY <1>1, <3>1, <3>2 DEF Taken
    <3> QED  BY <1>1, <1>2, <2>2, <3>3, InOrderStays
  <2>3. CASE client'[s] # "closed" /\ down' # down
    <3>1. /\ \/ client[s] = "auth" /\ client'[s] = "tls"
             \/ client[s] = "tls" /\ client'[s] = "secure"
             \/ client[s] = "info" /\ client'[s] = "track"
          /\ down[s] # <<>> /\ down'[s] = Tail(down[s])
      BY <1>0, <1>4, <2>3, ClientMoves
    <3>2. Taken(s)' = Taken(s) + 1
      BY <1>0, <1>1, <3>1 DEF Taken
    <3>3. client[s] # "closed"
      BY <3>1
    <3> QED  BY <1>1, <1>2, <3>1, <3>2, <3>3, InOrderTaken
  <2> QED  BY <2>1, <2>2, <2>3
<1> QED  BY <1>3, <1>4

LEMMA HostKeepsOrder ==
  ASSUME TransportInv, HostStep, NEW s \in Session
  PROVE  InOrder(s)'
<1>1. client' = client /\ sent' = sent /\ got' = got
  BY HostMoves DEF messages
<1>2. Taken(s)' = Taken(s)
  BY <1>1 DEF Taken
<1>3. CASE client[s] = "closed"
  BY <1>1, <1>3 DEF InOrder
<1>4. CASE client[s] # "closed"
  <2>1. CASE down'[s] = down[s]
    <3>1. server'[s] = "closed" \/ (Put(s)' = Put(s) /\ server[s] # "closed")
      <4>1. Append(down[s], Item(Put(s) + 1)) # down[s] \/ Item(Put(s) + 1) \notin Frames
        BY Counts, PutOne
      <4> QED  BY <2>1, <4>1, HostPuts
    <3> QED  BY <1>1, <1>2, <1>4, <2>1, <3>1, InOrderStays
  <2>2. CASE down'[s] # down[s]
    <3>1. /\ down'[s] = Append(down[s], Item(Put(s) + 1)) /\ Item(Put(s) + 1) \in Frames
          /\ server[s] # "closed" /\ Put(s)' = Put(s) + 1 /\ Put(s) + 1 <= 3 + sent[s]
      BY <2>2, HostPuts
    <3>2. Put(s) + 1 <= 3 + sent'[s]
      BY <1>1, <3>1
    <3> QED  BY <1>1, <1>2, <3>1, <3>2, InOrderPut
  <2> QED  BY <2>1, <2>2
<1> QED  BY <1>3, <1>4

LEMMA OpenKeepsOrder ==
  ASSUME TransportInv, NEW c \in Session, OpenStep(c), NEW s \in Session
  PROVE  InOrder(s)'
<1>0. /\ client \in [Session -> {"idle", "dialled", "auth", "tls", "secure", "info", "track",
                                 "open", "closed"}]
      /\ server \in [Session -> {"none", "handshake", "open", "closed"}]
      /\ down \in [Session -> Seq(Frames)]
      /\ sent \in [Session -> Nat] /\ got \in [Session -> Nat]
      /\ sent[s] \in Nat /\ got[s] \in Nat
      /\ InOrder(s)
  BY TransportTypes DEF TransportInv
<1>1. acceptor' = acceptor
  BY DEF OpenStep, Send, Receive, ClientEnds, ServerEnds
<1>2. CASE Send(c)
  <2>1. /\ client' = client /\ server' = server /\ got' = got
        /\ c \notin broken /\ server[c] = "open"
        /\ sent' = [sent EXCEPT ![c] = sent[c] + 1]
    BY <1>2 DEF Send
  <2>2. \/ /\ down' = [down EXCEPT ![c] = Append(down[c], Frame("message", sent[c] + 1))]
           /\ broken' = broken
        \/ broken' = broken \cup {c} /\ down' = down
    BY <1>2 DEF Send
  <2>3. Taken(s)' = Taken(s)
    BY <2>1 DEF Taken
  <2>4. CASE s # c
    <3>1. /\ down'[s] = down[s] /\ sent'[s] = sent[s] /\ (s \in broken' <=> s \in broken)
      BY <1>0, <2>1, <2>2, <2>4
    <3>2. Put(s)' = Put(s)
      BY <1>1, <2>1, <3>1 DEF Put, Served
    <3>3. client'[s] = "closed" \/ (Taken(s)' = Taken(s) /\ client[s] # "closed")
      BY <2>1, <2>3
    <3>4. CASE server[s] = "closed"
      BY <2>1, <3>1, <3>3, <3>4, InOrderStays
    <3>5. CASE server[s] # "closed"
      BY <3>1, <3>2, <3>3, <3>5, InOrderStays
    <3> QED  BY <3>4, <3>5
  <2>5. CASE s = c
    <3>1. Put(s) = 3 + sent[s] /\ sent'[s] = sent[s] + 1 /\ server[s] = "open" /\ server'[s] = "open"
      BY <1>0, <2>1, <2>5 DEF Put
    <3>2. CASE broken' = broken /\ down' = [down EXCEPT ![c] = Append(down[c], Frame("message", sent[c] + 1))]
      <4>1. Put(s)' = Put(s) + 1
        BY <1>0, <2>1, <2>5, <3>1, <3>2 DEF Put
      <4>2. /\ Item(Put(s) + 1) = Frame("message", sent[s] + 1)
            /\ Frame("message", sent[s] + 1) \in Frames
        BY <1>0, <3>1, Items, FrameTypes
      <4>3. down'[s] = Append(down[s], Item(Put(s) + 1))
        BY <1>0, <2>5, <3>2, <4>2
      <4>4. Put(s) + 1 <= 3 + sent'[s]
        BY <1>0, <3>1
      <4> QED  BY <2>1, <2>3, <3>1, <4>1, <4>2, <4>3, <4>4, InOrderPut
    <3>3. CASE broken' = broken \cup {c} /\ down' = down
      <4>1. Put(s)' = Put(s)
        BY <1>0, <2>5, <3>1, <3>3 DEF Put
      <4> SUFFICES ASSUME client'[s] # "closed"  PROVE InOrder(s)'
        BY DEF InOrder
      <4>2. /\ Carries(down[s], Taken(s)) /\ Taken(s) + Len(down[s]) <= 3 + sent[s]
            /\ Taken(s) + Len(down[s]) = Put(s)
        BY <1>0, <2>1, <3>1 DEF InOrder
      <4>3. Carries(down[s], Taken(s))'
        BY <2>3, <3>3, <4>2 DEF Carries
      <4>4. Taken(s)' + Len(down'[s]) = Put(s)' /\ Taken(s)' + Len(down'[s]) = 3 + sent[s]
        BY <2>3, <3>1, <3>3, <4>1, <4>2
      <4>5. Taken(s)' + Len(down'[s]) <= 3 + sent'[s]
        BY <1>0, <3>1, <4>4
      <4> QED  BY <4>3, <4>4, <4>5 DEF InOrder
    <3> QED  BY <2>2, <3>2, <3>3
  <2> QED  BY <2>4, <2>5
<1>3. CASE Receive(c)
  <2>1. /\ client' = client /\ server' = server /\ sent' = sent /\ broken' = broken
        /\ client[c] = "open" /\ down[c] # <<>>
        /\ down' = [down EXCEPT ![c] = Tail(down[c])]
    BY <1>3 DEF Receive
  <2>2. got' = [got EXCEPT ![c] = got[c] + 1]
    BY <1>3, NextMessage
  <2>3. Put(s)' = Put(s)
    BY <1>1, <2>1 DEF Put, Served
  <2>4. CASE s # c
    <3>1. down'[s] = down[s] /\ got'[s] = got[s] /\ sent'[s] = sent[s]
      BY <1>0, <2>1, <2>2, <2>4
    <3>2. client'[s] = "closed" \/ (Taken(s)' = Taken(s) /\ client[s] # "closed")
      BY <2>1, <3>1 DEF Taken
    <3>3. server'[s] = "closed" \/ (Put(s)' = Put(s) /\ server[s] # "closed")
      BY <2>1, <2>3
    <3> QED  BY <3>1, <3>2, <3>3, InOrderStays
  <2>5. CASE s = c
    <3>1. client[s] = "open" /\ client'[s] = "open" /\ got'[s] = got[s] + 1
      BY <1>0, <2>1, <2>2, <2>5
    <3>2. Taken(s)' = Taken(s) + 1
      BY <1>0, <3>1 DEF Taken
    <3>3. client[s] # "closed" /\ down[s] # <<>> /\ down'[s] = Tail(down[s])
      BY <1>0, <2>1, <2>5
    <3> QED  BY <2>1, <2>3, <3>2, <3>3, InOrderTaken
  <2> QED  BY <2>4, <2>5
<1>4. CASE ClientEnds(c) \/ ServerEnds(c)
  <2>1. UNCHANGED <<down, sent, got, broken>>
    BY <1>4 DEF ClientEnds, ServerEnds, wires, messages
  <2>2. client'[s] = client[s] \/ client'[s] = "closed"
    BY <1>0, <1>4 DEF ClientEnds, ServerEnds
  <2>3. server'[s] = server[s] \/ server'[s] = "closed"
    BY <1>0, <1>4 DEF ClientEnds, ServerEnds
  <2>4. client'[s] = "closed" \/ (Taken(s)' = Taken(s) /\ client[s] # "closed")
    BY <2>1, <2>2 DEF Taken
  <2>5. server'[s] = "closed" \/ (Put(s)' = Put(s) /\ server[s] # "closed")
    BY <1>1, <2>1, <2>3 DEF Put, Served
  <2> QED  BY <2>1, <2>4, <2>5, InOrderStays
<1> QED  BY <1>2, <1>3, <1>4 DEF OpenStep

LEMMA RestKeepsOrder ==
  ASSUME TransportInv, NEW s \in Session,
         \/ UNCHANGED vars
         \/ \E n \in Node : Close(n)
         \/ \E c \in Session : Stop(c, "process") \/ Stop(c, "machine")
  PROVE  InOrder(s)'
<1>1. UNCHANGED <<down, sent, got, broken>>
  BY DEF vars, Close, Stop, wires, messages
<1>2. /\ acceptor' = acceptor
      /\ client'[s] = client[s] \/ client'[s] = "closed"
      /\ server'[s] = server[s] \/ server'[s] = "closed"
  BY OtherServers, OtherClients
<1>3. client'[s] = "closed" \/ (Taken(s)' = Taken(s) /\ client[s] # "closed")
  BY <1>1, <1>2 DEF Taken
<1>4. server'[s] = "closed" \/ (Put(s)' = Put(s) /\ server[s] # "closed")
  BY <1>1, <1>2 DEF Put, Served
<1> QED  BY <1>1, <1>3, <1>4, InOrderStays

LEMMA TransportNext == TransportInv /\ [Next]_vars => TransportInv'
<1> SUFFICES ASSUME TransportInv, [Next]_vars  PROVE TransportInv'
  OBVIOUS
<1>1. TypeOK' /\ WireTypes'
  BY Steps, TypeOfClient, TypeOfHost, TypeOfOpen, TypeOfRest
<1>2. \A s \in Session : InOrder(s)'
  BY Steps, ClientKeepsOrder, HostKeepsOrder, OpenKeepsOrder, RestKeepsOrder
<1> QED  BY <1>1, <1>2, KeepsServing, KeepsTrusted, KeepsInfoSent, KeepsListed, KeepsAccounted,
            KeepsNotYet DEF TransportInv

LEMMA TransportInvariant == Spec => []TransportInv
  BY TransportInit, TransportNext, PTL DEF Spec

-----------------------------------------------------------------------------
\* The type invariant of Transport, whatever its constants.
THEOREM TransportTypeOK == Spec => []TypeOK
<1>1. TransportInv => TypeOK
  BY DEF TransportInv
<1> QED  BY <1>1, TransportInvariant, PTL

LEMMA InvAgreed == TransportInv => Agreed
<1> SUFFICES ASSUME TransportInv, NEW s \in Session
             PROVE  /\ server[s] = "open" =>
                         dialer[s] \in SameSecret /\ client[s] \in {"info", "track", "open", "closed"}
                    /\ client[s] \in {"track", "open"} =>
                         /\ dialer[s] \in SameSecret
                         /\ \/ server[s] \in {"open", "closed"}
                            \/ acceptor.s = s /\ acceptor.at = "track"
  BY DEF Agreed
<1>1. server[s] = "open" => dialer[s] \in SameSecret /\ client[s] \in {"info", "track", "open", "closed"}
  BY DEF TransportInv, Trusted, InfoSent, Verified
<1>2. ASSUME client[s] \in {"track", "open"}
      PROVE  /\ dialer[s] \in SameSecret
             /\ \/ server[s] \in {"open", "closed"}
                \/ acceptor.s = s /\ acceptor.at = "track"
  <2>1. dialer[s] \in SameSecret
    BY <1>2 DEF TransportInv, Trusted, Verified
  <2>2. CASE server[s] = "closed"
    BY <2>1, <2>2
  <2>3. CASE server[s] # "closed"
    <3>1. Taken(s) + Len(down[s]) = Put(s)
      BY <1>2, <2>3 DEF TransportInv, InOrder
    <3>2. Taken(s) = 3 + got[s] /\ got[s] \in Nat /\ Len(down[s]) \in Nat
      BY <1>2, Counts DEF Taken
    <3>3. Put(s) >= 3
      BY <3>1, <3>2
    <3>4. server[s] \in {"none", "handshake", "open"}
      BY <2>3, TransportTypes
    <3>5. server[s] = "handshake" => acceptor.at \in Handshaking /\ acceptor.s = s
      BY DEF TransportInv, Serving
    <3>6. server[s] = "open" \/ (server[s] = "handshake" /\ Served >= 3)
      BY <3>3, <3>4 DEF Put
    <3> QED  BY <2>1, <3>5, <3>6 DEF Served, Handshaking
  <2> QED  BY <2>2, <2>3
<1> QED  BY <1>1, <1>2

\* Both ends of a connection that Accept or Connect returned have the same
\* secret, and both have been there (Accept, transport.go:97; Connect, :179).
THEOREM ConnectionsAgree == Spec => []Agreed
  BY InvAgreed, TransportInvariant, PTL

\* Close closes every connection but those registered after it, and those whose
\* slot in the map another connection had taken (transport.go:306).
THEOREM CloseClosesAll == Spec => []CloseCloses
<1>1. TransportInv => CloseCloses
  BY DEF TransportInv, Accounted, CloseCloses
<1> QED  BY <1>1, TransportInvariant, PTL

\* Receive delivers the messages Send took, in order and none missing, whatever
\* deadlines Send ran into (conn.go:91 and :123).
THEOREM NoMessageMissing == Spec => NoGaps
<1>1. TransportInv /\ [Next]_vars => [\A s \in Session : got'[s] \in {got[s], got[s] + 1}]_vars
  <2> SUFFICES ASSUME TransportInv, [Next]_vars, NEW s \in Session
               PROVE  got'[s] \in {got[s], got[s] + 1}
    OBVIOUS
  <2>0. got \in [Session -> Nat]
    BY TransportTypes
  <2>1. CASE \E c \in Session : Receive(c)
    <3>1. PICK c \in Session : Receive(c)
      BY <2>1
    <3>2. got' = [got EXCEPT ![c] = got[c] + 1]
      BY <3>1, NextMessage
    <3> QED  BY <2>0, <3>2
  <2>2. CASE ~\E c \in Session : Receive(c)
    <3>1. \A c \in Session : ClientStep(c) => got' = got
      BY ClientMoves DEF messages
    <3>2. HostStep => got' = got
      BY HostMoves DEF messages
    <3>3. \A c \in Session : OpenStep(c) => got' = got
      BY <2>2 DEF OpenStep, Send, ClientEnds, ServerEnds, messages
    <3>4. \A c, how : Stop(c, how) => got' = got
      BY DEF Stop, messages
    <3>5. \A n \in Node : Close(n) => got' = got
      BY DEF Close, messages
    <3>6. UNCHANGED vars => got' = got
      BY DEF vars
    <3> QED  BY <3>1, <3>2, <3>3, <3>4, <3>5, <3>6, Steps
  <2> QED  BY <2>1, <2>2
<1> QED  BY <1>1, TransportInvariant, PTL DEF Spec, NoGaps
-----------------------------------------------------------------------------
(* The frames under way to the host, and the host's handshake in TLS.      *)

\* What a dialer sends until it is connected, in its order.
Sends(k) == CASE k = 1 -> Auth [] k = 2 -> Hello [] k = 3 -> Finished [] OTHER -> Info

\* How many of these the dialer has sent ...
Given(s) ==
  CASE client[s] \in {"idle", "dialled"} -> 0
    [] client[s] = "auth" -> 1
    [] client[s] = "tls" -> 2
    [] client[s] = "secure" -> 3
    [] OTHER -> 4

\* ... and how many Accept has read.
HasRead ==
  CASE acceptor.at = "auth" -> IF acceptor.read THEN 1 ELSE 0
    [] acceptor.at = "tls" -> 1
    [] acceptor.at = "finish" -> 2
    [] acceptor.at = "info" -> 3
    [] OTHER -> 4

Gone(s) == IF server[s] = "handshake" THEN HasRead ELSE 0

FromThere(u, k) == \A i \in DOMAIN u : u[i] = Sends(k + i)

UpOrder(s) ==
  client[s] # "closed" /\ server[s] \in {"none", "handshake"} /\ s \notin swallowed =>
    FromThere(up[s], Gone(s)) /\ Gone(s) + Len(up[s]) = Given(s)

UpInv == \A s \in Session : UpOrder(s)

LEMMA SendsFrames ==
  /\ Sends(1) = Auth /\ Sends(2) = Hello /\ Sends(3) = Finished /\ Sends(4) = Info
  /\ \A k \in Nat : Sends(k) \in Frames
  BY FrameTypes DEF Sends

LEMMA UpCounts ==
  ASSUME TransportInv, NEW s \in Session
  PROVE  /\ Gone(s) \in 0..4 /\ Given(s) \in 0..4
         /\ up[s] \in Seq(Frames) /\ Len(up[s]) \in Nat
<1>1. Gone(s) \in 0..4
  BY DEF Gone, HasRead
<1>2. Given(s) \in 0..4
  BY DEF Given
<1>3. up[s] \in Seq(Frames)
  BY TransportTypes
<1> QED  BY <1>1, <1>2, <1>3, LenProperties

LEMMA TakeSent ==
  ASSUME NEW u \in Seq(Frames), u # <<>>, NEW k \in Nat, FromThere(u, k)
  PROVE  Head(u) = Sends(k + 1) /\ FromThere(Tail(u), k + 1)
<1> DEFINE r == Tail(u)
<1>1. r \in Seq(Frames) /\ Len(r) = Len(u) - 1 /\ \A i \in 1..Len(r) : r[i] = u[i + 1]
  BY HeadTailProperties
<1>2. /\ Len(u) \in Nat /\ Len(r) \in Nat
      /\ DOMAIN u = 1..Len(u) /\ DOMAIN r = 1..Len(r)
  BY <1>1, LenProperties
<1>3. Head(u) = u[1]
  OBVIOUS
<1> HIDE DEF r
<1>4. 1 \in DOMAIN u /\ \A i \in DOMAIN r : i \in Nat /\ i + 1 \in DOMAIN u /\ r[i] = u[i + 1]
  BY <1>1, <1>2
<1>5. Head(u) = Sends(k + 1)
  BY <1>3, <1>4 DEF FromThere
<1>6. ASSUME NEW i \in DOMAIN r
      PROVE  r[i] = Sends(k + 1 + i)
  <2>1. k + (i + 1) = k + 1 + i
    BY <1>4
  <2> QED  BY <1>4, <2>1 DEF FromThere
<1> QED  BY <1>5, <1>6 DEF FromThere, r

LEMMA PutSent ==
  ASSUME NEW u \in Seq(Frames), NEW f \in Frames, NEW k \in Nat, FromThere(u, k),
         f = Sends(k + Len(u) + 1)
  PROVE  FromThere(Append(u, f), k) /\ Len(Append(u, f)) = Len(u) + 1
<1> DEFINE r == Append(u, f)
           x == Len(u)
<1>1. /\ r \in Seq(Frames) /\ Len(r) = x + 1 /\ x \in Nat /\ DOMAIN u = 1..x
      /\ \A i \in 1..x : r[i] = u[i]
      /\ r[x + 1] = f
  BY AppendProperties, LenProperties
<1>2. DOMAIN r = 1..(x + 1)
  BY <1>1, LenProperties
<1>3. f = Sends(k + x + 1)
  OBVIOUS
<1> HIDE DEF r, x
<1>4. \A i \in DOMAIN r : (i \in DOMAIN u /\ r[i] = u[i]) \/ (i = x + 1 /\ r[i] = f)
  BY <1>1, <1>2
<1>5. k + (x + 1) = k + x + 1
  BY <1>1
<1>6. FromThere(r, k)
  BY <1>3, <1>4, <1>5 DEF FromThere
<1> QED  BY <1>1, <1>6 DEF r, x

\* Nothing happens to the frames, or an end of the connection is done with them.
LEMMA UpStays ==
  ASSUME NEW s \in Session, UpOrder(s), up'[s] = up[s], swallowed \subseteq swallowed',
         client'[s] = "closed" \/ (Given(s)' = Given(s) /\ client[s] # "closed"),
         \/ server'[s] \notin {"none", "handshake"}
         \/ Gone(s)' = Gone(s) /\ server[s] \in {"none", "handshake"}
  PROVE  UpOrder(s)'
<1> SUFFICES ASSUME client'[s] # "closed", server'[s] \in {"none", "handshake"}, s \notin swallowed'
             PROVE  FromThere(up'[s], Gone(s)') /\ Gone(s)' + Len(up'[s]) = Given(s)'
  BY DEF UpOrder, FromThere
<1>1. /\ Given(s)' = Given(s) /\ Gone(s)' = Gone(s)
      /\ FromThere(up[s], Gone(s)) /\ Gone(s) + Len(up[s]) = Given(s)
  BY DEF UpOrder
<1> QED  BY <1>1

LEMMA ClientKeepsUp ==
  ASSUME TransportInv, NEW c \in Session, ClientStep(c), NEW s \in Session, UpOrder(s)
  PROVE  UpOrder(s)'
<1>0. /\ client \in [Session -> {"idle", "dialled", "auth", "tls", "secure", "info", "track",
                                 "open", "closed"}]
      /\ up \in [Session -> Seq(Frames)]
  BY TransportTypes
<1>1. acceptor' = acceptor /\ server' = server
  BY ClientMoves
<1>2. swallowed' = swallowed
  BY DEF ClientStep, Dial, Connecting, ClientSendAuth, ClientSendInfo, ClientSends, ClientAuth,
         ClientTLS, ClientInfo, ClientTrack, ClientFails, surroundings
<1>3. Gone(s)' = Gone(s)
  BY <1>1 DEF Gone, HasRead
<1>4. CASE client'[s] = "closed" \/ server[s] \notin {"none", "handshake"} \/ s \in swallowed
  BY <1>1, <1>2, <1>4 DEF UpOrder
<1>5. CASE up'[s] = up[s] /\ Given(s)' = Given(s) /\ client[s] # "closed"
  <2>1. CASE server[s] \in {"none", "handshake"}
    BY <1>2, <1>3, <1>5, <2>1, UpStays
  <2>2. CASE server[s] \notin {"none", "handshake"}
    BY <1>4, <2>2
  <2> QED  BY <2>1, <2>2
<1>6. CASE s # c
  <2>1. client'[s] = client[s] /\ up'[s] = up[s]
    BY <1>0, <1>6, ClientMoves
  <2>2. Given(s)' = Given(s)
    BY <2>1 DEF Given
  <2> QED  BY <1>4, <1>5, <2>1, <2>2
<1>7. ASSUME NEW k \in 0..3, NEW f, f = Sends(k + 1), up'[s] = Append(up[s], f),
             Given(s) = k, Given(s)' = k + 1, client[s] # "closed",
             server[s] \in {"none", "handshake"}, s \notin swallowed
      PROVE  UpOrder(s)'
  <2>1. /\ FromThere(up[s], Gone(s)) /\ Gone(s) + Len(up[s]) = k
        /\ Gone(s) \in Nat /\ up[s] \in Seq(Frames) /\ Len(up[s]) \in Nat
    BY <1>7, UpCounts DEF UpOrder
  <2>2. f \in Frames /\ f = Sends(Gone(s) + Len(up[s]) + 1)
    <3>1. k + 1 \in Nat
      BY <1>7
    <3> QED  BY <1>7, <2>1, <3>1, SendsFrames
  <2>3. FromThere(Append(up[s], f), Gone(s)) /\ Len(Append(up[s], f)) = Len(up[s]) + 1
    BY <2>1, <2>2, PutSent
  <2>4. FromThere(up'[s], Gone(s)') /\ Gone(s)' + Len(up'[s]) = Given(s)'
    BY <1>3, <1>7, <2>1, <2>3
  <2> QED  BY <2>4 DEF UpOrder, FromThere
<1>8. CASE s = c
  <2>1. \/ client'[s] = "closed"
        \/ /\ up'[s] = up[s]
           /\ \/ client[s] = "idle" /\ client'[s] = "dialled"
              \/ client[s] = "track" /\ client'[s] = "open"
              \/ client[s] = "info" /\ client'[s] = "track"
        \/ client[s] = "dialled" /\ client'[s] = "auth" /\ up'[s] = Append(up[s], Auth)
        \/ client[s] = "auth" /\ client'[s] = "tls" /\ up'[s] = Append(up[s], Hello)
        \/ client[s] = "tls" /\ client'[s] = "secure" /\ up'[s] = Append(up[s], Finished)
        \/ client[s] = "secure" /\ client'[s] = "info" /\ up'[s] = Append(up[s], Info)
    BY <1>0, <1>8, ClientMoves
  <2>2. ASSUME up'[s] = up[s],
               \/ client[s] = "idle" /\ client'[s] = "dialled"
               \/ client[s] = "track" /\ client'[s] = "open"
               \/ client[s] = "info" /\ client'[s] = "track"
        PROVE  UpOrder(s)'
    <3>1. Given(s)' = Given(s) /\ client[s] # "closed"
      BY <2>2 DEF Given
    <3> QED  BY <1>5, <2>2, <3>1
  <2>3. ASSUME client[s] = "dialled" /\ client'[s] = "auth" /\ up'[s] = Append(up[s], Auth)
        PROVE  UpOrder(s)'
    <3>1. Given(s) = 0 /\ Given(s)' = 1 /\ Auth = Sends(0 + 1)
      BY <2>3, SendsFrames DEF Given
    <3> QED  BY <1>4, <1>7, <2>3, <3>1
  <2>4. ASSUME client[s] = "auth" /\ client'[s] = "tls" /\ up'[s] = Append(up[s], Hello)
        PROVE  UpOrder(s)'
    <3>1. Given(s) = 1 /\ Given(s)' = 2 /\ Hello = Sends(1 + 1)
      BY <2>4, SendsFrames DEF Given
    <3> QED  BY <1>4, <1>7, <2>4, <3>1
  <2>5. ASSUME client[s] = "tls" /\ client'[s] = "secure" /\ up'[s] = Append(up[s], Finished)
        PROVE  UpOrder(s)'
    <3>1. Given(s) = 2 /\ Given(s)' = 3 /\ Finished = Sends(2 + 1)
      BY <2>5, SendsFrames DEF Given
    <3> QED  BY <1>4, <1>7, <2>5, <3>1
  <2>6. ASSUME client[s] = "secure" /\ client'[s] = "info" /\ up'[s] = Append(up[s], Info)
        PROVE  UpOrder(s)'
    <3>1. Given(s) = 3 /\ Given(s)' = 4 /\ Info = Sends(3 + 1)
      BY <2>6, SendsFrames DEF Given
    <3> QED  BY <1>4, <1>7, <2>6, <3>1
  <2> QED  BY <1>4, <2>1, <2>2, <2>3, <2>4, <2>5, <2>6
<1> QED  BY <1>6, <1>8

\* A step of Accept reads what comes next on the connection it serves.
LEMMA HostReads ==
  ASSUME TransportInv, HostStep, NEW s \in Session
  PROVE  /\ swallowed \subseteq swallowed'
         /\ \/ server'[s] \notin {"none", "handshake"}
            \/ s \in swallowed'
            \/ up'[s] = up[s] /\ Gone(s)' = Gone(s) /\ server[s] \in {"none", "handshake"}
            \/ /\ up[s] # <<>> /\ up'[s] = Tail(up[s]) /\ Gone(s)' = Gone(s) + 1
               /\ server[s] = "handshake"
<1>0. /\ server \in [Session -> {"none", "handshake", "open", "closed"}]
      /\ up \in [Session -> Seq(Frames)]
      /\ server[s] = "handshake" => acceptor.at \in Handshaking /\ acceptor.s = s
      /\ acceptor.at \in Handshaking => acceptor.s \in Session /\ server[acceptor.s] = "handshake"
  BY TransportTypes DEF TransportInv, Serving
<1>00. acceptor \in [at : Handshaking \cup {"accept", "done"}, s : Session \cup {None},
                     sent : BOOLEAN, read : BOOLEAN]
  BY AcceptorTypes
<1>1. swallowed \subseteq swallowed'
  <2>1. ReadAuth => swallowed \subseteq swallowed'
    BY DEF ReadAuth
  <2>2. ~ReadAuth => swallowed' = swallowed
    BY DEF HostStep, Acceptor, AcceptEnds, SendAuth, Authenticated, ServerHello, ServerFinish,
           ServerInfo, ServerTrack, AcceptFails, Accept, surroundings
  <2> QED  BY <2>1, <2>2
<1>2. ASSUME NEW c \in Session, Accept(c)
      PROVE  \/ server'[s] \notin {"none", "handshake"}
             \/ up'[s] = up[s] /\ Gone(s)' = Gone(s) /\ server[s] \in {"none", "handshake"}
  <2>1. /\ acceptor'.at = "auth" /\ acceptor'.read = FALSE /\ up' = up
        /\ acceptor.at = "accept" /\ server[c] = "none"
        /\ server' = [server EXCEPT ![c] = "handshake"]
    BY <1>2 DEF Accept, Ready, wires
  <2>2. server[s] # "handshake"
    BY <1>0, <2>1 DEF Handshaking
  <2>3. HasRead' = 0
    BY <2>1 DEF HasRead
  <2>4. Gone(s) = 0 /\ Gone(s)' = 0
    BY <2>2, <2>3 DEF Gone
  <2>5. server[s] = "none" \/ server'[s] \notin {"none", "handshake"}
    BY <1>0, <2>1, <2>2
  <2> QED  BY <2>1, <2>4, <2>5
<1>3. ASSUME HostStep, ~\E c \in Session : Accept(c), server[s] # "handshake"
      PROVE  \/ server'[s] \notin {"none", "handshake"}
             \/ up'[s] = up[s] /\ Gone(s)' = Gone(s) /\ server[s] \in {"none", "handshake"}
  <2>1. server' = server \/ \E x \in {"closed", "open"} : server' = [server EXCEPT ![acceptor.s] = x]
    BY <1>3 DEF HostStep, Acceptor, AcceptEnds, SendAuth, ReadAuth, Authenticated, ServerHello,
                ServerFinish, ServerInfo, ServerTrack, AcceptFails, HangUp
  <2>2. server'[s] = server[s] \/ server'[s] \in {"closed", "open"}
    BY <1>0, <2>1
  <2>3. up' = up \/ \E x : acceptor.at \in Handshaking /\ up' = [up EXCEPT ![acceptor.s] = x]
    BY HostTakes
  <2>4. up'[s] = up[s]
    BY <1>0, <1>3, <2>3
  <2>5. server'[s] = server[s] => Gone(s)' = Gone(s)
    BY <1>3 DEF Gone
  <2> QED  BY <1>0, <1>3, <2>2, <2>4, <2>5
<1>4. ASSUME HostStep, ~\E c \in Session : Accept(c), server[s] = "handshake"
      PROVE  \/ server'[s] \notin {"none", "handshake"}
             \/ s \in swallowed'
             \/ up'[s] = up[s] /\ Gone(s)' = Gone(s)
             \/ up[s] # <<>> /\ up'[s] = Tail(up[s]) /\ Gone(s)' = Gone(s) + 1
  <2>0. acceptor.at \in Handshaking /\ acceptor.s = s /\ Gone(s) = HasRead
    BY <1>0, <1>4 DEF Gone
  <2>1. CASE SendAuth
    <3>1. acceptor'.at = acceptor.at /\ acceptor'.read = acceptor.read /\ server' = server /\ up' = up
      BY <1>00, <2>1 DEF SendAuth
    <3>2. Gone(s)' = Gone(s)
      BY <3>1 DEF Gone, HasRead
    <3> QED  BY <3>1, <3>2
  <2>2. CASE ReadAuth
    <3>1. /\ acceptor'.at = "auth" /\ acceptor'.read = TRUE /\ server' = server
          /\ acceptor.at = "auth" /\ ~acceptor.read /\ up[s] # <<>>
          /\ up' = [up EXCEPT ![s] = Tail(up[s])] \/ s \in swallowed'
      BY <1>00, <2>0, <2>2 DEF ReadAuth
    <3>2. Gone(s) = 0 /\ Gone(s)' = 1
      BY <1>4, <3>1 DEF Gone, HasRead
    <3> QED  BY <1>0, <3>1, <3>2
  <2>3. CASE Authenticated /\ Verified(s)
    <3>1. /\ acceptor'.at = "tls" /\ server' = server /\ up' = up
          /\ acceptor.at = "auth" /\ acceptor.read
      BY <1>00, <2>0, <2>3 DEF Authenticated, wires
    <3>2. Gone(s) = 1 /\ Gone(s)' = 1
      BY <1>4, <3>1 DEF Gone, HasRead
    <3> QED  BY <3>1, <3>2
  <2>4. CASE (Authenticated /\ ~Verified(s)) \/ AcceptFails \/ ServerTrack
    <3>1. \E x \in {"closed", "open"} : server' = [server EXCEPT ![s] = x]
      BY <2>0, <2>4 DEF Authenticated, AcceptFails, ServerTrack, HangUp
    <3> QED  BY <1>0, <3>1
  <2>5. CASE ServerHello \/ ServerFinish \/ ServerInfo
    <3>1. /\ server' = server /\ up[s] # <<>> /\ up' = [up EXCEPT ![s] = Tail(up[s])]
          /\ \/ acceptor.at = "tls" /\ acceptor'.at = "finish"
             \/ acceptor.at = "finish" /\ acceptor'.at = "info"
             \/ acceptor.at = "info" /\ acceptor'.at = "track"
      BY <1>00, <2>0, <2>5 DEF ServerHello, ServerFinish, ServerInfo, HostGets
    <3>2. Gone(s)' = Gone(s) + 1
      BY <1>4, <3>1 DEF Gone, HasRead
    <3> QED  BY <1>0, <3>1, <3>2
  <2>6. ~AcceptEnds
    BY <2>0 DEF AcceptEnds, Handshaking
  <2> QED  BY <1>4, <2>1, <2>2, <2>3, <2>4, <2>5, <2>6 DEF HostStep, Acceptor
<1> QED  BY <1>1, <1>2, <1>3, <1>4

LEMMA HostKeepsUp ==
  ASSUME TransportInv, HostStep, NEW s \in Session, UpOrder(s)
  PROVE  UpOrder(s)'
<1>1. client' = client /\ Given(s)' = Given(s) /\ swallowed \subseteq swallowed'
  BY HostMoves, HostReads DEF Given
<1>2. CASE client[s] = "closed" \/ server'[s] \notin {"none", "handshake"} \/ s \in swallowed'
  BY <1>1, <1>2 DEF UpOrder
<1>3. CASE /\ client[s] # "closed"
           /\ up'[s] = up[s] /\ Gone(s)' = Gone(s) /\ server[s] \in {"none", "handshake"}
  BY <1>1, <1>3, UpStays
<1>4. CASE /\ client[s] # "closed" /\ s \notin swallowed'
           /\ up[s] # <<>> /\ up'[s] = Tail(up[s]) /\ Gone(s)' = Gone(s) + 1
           /\ server[s] = "handshake"
  <2>1. /\ FromThere(up[s], Gone(s)) /\ Gone(s) + Len(up[s]) = Given(s)
        /\ Gone(s) \in Nat /\ up[s] \in Seq(Frames) /\ Len(up[s]) \in Nat /\ up[s] # <<>>
    BY <1>1, <1>4, UpCounts DEF UpOrder
  <2>2. FromThere(Tail(up[s]), Gone(s) + 1) /\ Len(Tail(up[s])) = Len(up[s]) - 1
    BY <2>1, TakeSent, TakeOne
  <2>3. FromThere(up'[s], Gone(s)')
    BY <1>4, <2>2
  <2>4. Gone(s)' + Len(up'[s]) = Given(s)'
    BY <1>1, <1>4, <2>1, <2>2
  <2> QED  BY <2>3, <2>4 DEF UpOrder, FromThere
<1> QED  BY <1>2, <1>3, <1>4, HostReads

LEMMA RestKeepsUp ==
  ASSUME TransportInv, NEW s \in Session, UpOrder(s),
         \/ \E c \in Session : OpenStep(c)
         \/ \E c \in Session : Stop(c, "process") \/ Stop(c, "machine")
         \/ UNCHANGED vars
         \/ \E n \in Node : Close(n)
  PROVE  UpOrder(s)'
<1>1. /\ acceptor' = acceptor /\ up' = up
      /\ server'[s] = server[s] \/ server'[s] = "closed"
      /\ client'[s] = client[s] \/ client'[s] = "closed"
  BY OtherServers, OtherClients
<1>2. swallowed' = swallowed
  BY DEF vars, Close, Stop, OpenStep, Send, Receive, ClientEnds, ServerEnds, surroundings
<1>3. server'[s] = server[s] => Gone(s)' = Gone(s)
  BY <1>1 DEF Gone, HasRead
<1>4. client'[s] = client[s] => Given(s)' = Given(s)
  BY DEF Given
<1>5. CASE client'[s] = "closed" \/ server'[s] \notin {"none", "handshake"}
  BY <1>5 DEF UpOrder
<1>6. CASE client'[s] # "closed" /\ server'[s] \in {"none", "handshake"}
  BY <1>1, <1>2, <1>3, <1>4, <1>6, UpStays
<1> QED  BY <1>5, <1>6

LEMMA InvHandshake == TransportInv /\ UpInv => HandshakeMoves
<1> SUFFICES ASSUME TransportInv, UpInv, NEW s, s = acceptor.s, acceptor.at \in {"tls", "finish"},
                    s \notin swallowed, client[s] # "closed"
             PROVE  \/ /\ up[s] # <<>>
                       /\ Head(up[s]) = IF acceptor.at = "tls" THEN Hello ELSE Finished
                    \/ client[s] = "auth" /\ down[s] # <<>> /\ Head(down[s]) = Auth
                    \/ client[s] = "tls" /\ down[s] # <<>> /\ Head(down[s]) = Hello
  BY DEF HandshakeMoves
<1>1. s \in Session /\ server[s] = "handshake"
  BY DEF TransportInv, Serving, Handshaking
<1>2. /\ FromThere(up[s], Gone(s)) /\ Gone(s) + Len(up[s]) = Given(s)
      /\ up[s] \in Seq(Frames) /\ Len(up[s]) \in Nat
  BY <1>1, UpCounts DEF UpInv, UpOrder
<1>3. /\ Carries(down[s], Taken(s)) /\ Taken(s) + Len(down[s]) = Served
      /\ down[s] \in Seq(Frames) /\ Len(down[s]) \in Nat /\ Taken(s) \in Nat /\ got[s] \in Nat
  BY <1>1, Counts DEF TransportInv, InOrder, Put
<1>4. client[s] \in {"idle", "dialled", "auth", "tls", "secure", "info", "track", "open", "closed"}
  BY <1>1, TransportTypes
<1>5. ASSUME Len(up[s]) > 0
      PROVE  up[s] # <<>> /\ Head(up[s]) = Sends(Gone(s) + 1)
  <2>1. up[s] # <<>>
    BY <1>5
  <2> QED  BY <1>1, <1>2, <2>1, TakeSent, UpCounts
<1>6. ASSUME Len(down[s]) > 0
      PROVE  down[s] # <<>> /\ Head(down[s]) = Item(Taken(s) + 1)
  <2>1. down[s] # <<>>
    BY <1>6
  <2> QED  BY <1>3, <2>1, TakeOne
<1>7. CASE acceptor.at = "tls"
  <2>1. Gone(s) = 1 /\ Served = 1
    BY <1>1, <1>7 DEF Gone, HasRead, Served
  <2>2. Given(s) >= 1
    BY <1>2, <2>1
  <2>3. client[s] \in {"auth", "tls"}
    <3>1. Taken(s) <= 1
      BY <1>3, <2>1
    <3>2. client[s] \notin {"idle", "dialled"}
      BY <2>2 DEF Given
    <3>3. client[s] \notin {"secure", "info", "track", "open"}
      BY <1>3, <3>1 DEF Taken
    <3> QED  BY <1>4, <3>2, <3>3
  <2>4. CASE client[s] = "auth"
    <3>1. Taken(s) = 0 /\ Len(down[s]) > 0
      <4>1. Taken(s) = 0
        BY <2>4 DEF Taken
      <4>2. Taken(s) + Len(down[s]) = 1 /\ Len(down[s]) \in Nat
        BY <1>3, <2>1
      <4>3. Len(down[s]) = 1
        BY <4>1, <4>2
      <4> QED  BY <4>1, <4>3
    <3> QED  BY <1>6, <2>4, <3>1, Items
  <2>5. CASE client[s] = "tls"
    <3>1. Given(s) = 2
      BY <2>5 DEF Given
    <3>2. Len(up[s]) > 0
      BY <1>2, <2>1, <3>1
    <3> QED  BY <1>5, <1>7, <2>1, <3>2, SendsFrames
  <2> QED  BY <2>3, <2>4, <2>5
<1>8. CASE acceptor.at = "finish"
  <2>1. Gone(s) = 2 /\ Served = 2
    BY <1>1, <1>8 DEF Gone, HasRead, Served
  <2>2. CASE Len(up[s]) > 0
    BY <1>5, <1>8, <2>1, <2>2, SendsFrames
  <2>3. CASE Len(up[s]) = 0
    <3>1. Given(s) = 2
      BY <1>2, <2>1, <2>3
    <3>2. client[s] = "tls"
      BY <1>4, <3>1 DEF Given
    <3>3. Taken(s) = 1
      BY <3>2 DEF Taken
    <3>4. Len(down[s]) > 0
      BY <1>3, <2>1, <3>3
    <3> QED  BY <1>6, <3>2, <3>3, <3>4, Items
  <2> QED  BY <1>2, <2>2, <2>3
<1> QED  BY <1>7, <1>8

\* The handshake in which the host has no deadline is never stuck between its
\* ends: what one waits for the other has sent, or can send (Accept,
\* transport.go:97; Handshake, auth.go:103), unless the authentication's decoder
\* swallowed it.
THEOREM HandshakeNeverStuck == Spec => []HandshakeMoves
<1>1. Init => UpInv
  <2> SUFFICES ASSUME Init, NEW s \in Session  PROVE UpOrder(s)
    BY DEF UpInv
  <2>1. up[s] = <<>> /\ client[s] = "idle" /\ server[s] = "none"
    BY DEF Init
  <2>2. Len(<<>>) = 0 /\ \A k : FromThere(<<>>, k)
    BY DEF FromThere
  <2> QED  BY <2>1, <2>2 DEF UpOrder, Gone, Given
<1>2. TransportInv /\ UpInv /\ [Next]_vars => UpInv'
  <2> SUFFICES ASSUME TransportInv, UpInv, [Next]_vars, NEW s \in Session  PROVE UpOrder(s)'
    BY DEF UpInv
  <2>1. UpOrder(s)
    BY DEF UpInv
  <2> QED  BY <2>1, Steps, ClientKeepsUp, HostKeepsUp, RestKeepsUp
<1> QED  BY <1>1, <1>2, InvHandshake, TransportInvariant, PTL DEF Spec
=============================================================================
