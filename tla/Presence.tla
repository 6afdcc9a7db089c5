------------------------------ MODULE Presence ------------------------------
(***************************************************************************)
(* What a node's topology promises about every other node, whoever dials   *)
(* whom and however often: one PeerConnected event when a peer comes, one  *)
(* PeerDisconnected event when it goes, and no second peer of the same     *)
(* identity before that.  Stopping the topology ends the promise.          *)
(***************************************************************************)
CONSTANTS Remote  \* identities of the other nodes

VARIABLE presence \* presence[r]: the last thing that happened to r

Init == presence = [r \in Remote |-> "absent"]

Becomes(r, old, new) ==
  /\ presence[r] = old
  /\ presence' = [presence EXCEPT ![r] = new]

Connected(r) == Becomes(r, "absent", "connected")

Disconnected(r) == Becomes(r, "connected", "disconnected")

Vacated(r) == Becomes(r, "disconnected", "absent")

Stopped == presence' = [r \in Remote |-> "over"]

Next ==
  \/ Stopped
  \/ \E r \in Remote : Connected(r) \/ Disconnected(r) \/ Vacated(r)

Spec == Init /\ [][Next]_presence
=============================================================================
