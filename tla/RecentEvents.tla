---------------------------- MODULE RecentEvents ----------------------------
(***************************************************************************)
(* What the event buffer promises: a queue of the most recent events, at   *)
(* most Capacity of them, oldest first.                                    *)
(***************************************************************************)
EXTENDS Naturals, Sequences

CONSTANTS Event, Capacity

VARIABLE recent

Init == recent = <<>>

Remember(e) ==
  recent' = IF Len(recent) < Capacity THEN Append(recent, e)
                                      ELSE Append(Tail(recent), e)

ForgetOldest == recent # <<>> /\ recent' = Tail(recent)

ForgetAll == recent' = <<>>

Next == ForgetOldest \/ ForgetAll \/ \E e \in Event : Remember(e)

Spec == Init /\ [][Next]_recent
=============================================================================
