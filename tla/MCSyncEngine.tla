---------------------------- MODULE MCSyncEngine ----------------------------
(***************************************************************************)
(* Instances of SyncEngine for TLC.  The contents other than Blank are     *)
(* interchangeable.  RunningInit is the state Init leads to when every     *)
(* node boots, undisturbed, within the first tick; the runs that are not   *)
(* about booting start there.                                              *)
(***************************************************************************)
EXTENDS SyncEngine

Symmetry == Permutations(Clip \ {Blank})

RunningInit ==
  /\ now = 1
  /\ os = [n \in Node |-> Blank]
  /\ lastHash = [n \in Node |-> Blank]
  /\ notify = [n \in Node |-> 0]
  /\ current = [n \in Node |-> Blank]
  /\ timestamp = [n \in Node |-> 1]
  /\ lastRemote = [n \in Node |-> 0]
  /\ dedupe = [n \in Node |-> CacheAdd(EmptyCache, Blank, 1, DedupeSize)]
  /\ thread = [n \in Node |-> [g \in Goroutine |-> Parked("idle")]]
  /\ peers = [n \in Node |-> Node \ {n}]
  /\ net = [m \in Node |-> [n \in Node |-> <<>>]]
  /\ copies = 0
  /\ calm = TRUE
  /\ clean = Node
  /\ owned = {}

RunningSpec == RunningInit /\ [][Next]_vars

FairRunningSpec == RunningSpec /\ Fairness

\* Behaviours in which no two readings of the clock that end up in a state
\* or a message are equal, so that no tie ever has to be broken.
Fresh ==
  \A n \in Node :
    /\ timestamp[n] < now
    /\ \A g \in Goroutine : thread[n][g].ts < now
    /\ \A m \in Node : \A i \in DOMAIN net[n][m] : net[n][m][i].ts < now

ReadsClock ==
  \/ timestamp' # timestamp
  \/ \E n \in Node, g \in Goroutine : ~At(n, g, "send") /\ thread'[n][g].pc = "send"

NoTiesSpec == RunningInit /\ [][Next /\ (ReadsClock => Fresh)]_vars
=============================================================================
