------------------------------ MODULE MCDaemon ------------------------------
(* Daemons of one machine, as TLC checks them. *)
EXTENDS Daemon, TLC

Symmetry == Permutations(Full) \cup Permutations(Request)
=============================================================================
