----------------------------- MODULE MCTopology -----------------------------
(* Instances of Topology for TLC. *)
EXTENDS Topology

CONSTANT r1

\* Every address leads to the same node; it may dial us, too.
OneNode == [a \in Addr |-> r1]
=============================================================================
