----------------------------- MODULE MCEventPump -----------------------------
(* Instances of EventPump for TLC. *)
EXTENDS EventPump, TLC

TopologyEvents == [node : Remote, seq : 1..MaxEvents]

Symmetry == Permutations(Remote) \cup Permutations(Subscriber)
=============================================================================
