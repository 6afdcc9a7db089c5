---------------------------- MODULE EventBuffer ----------------------------
(***************************************************************************)
(* The ring buffer of topology events (pkg/mesh/events.go).  A buffer is a *)
(* record of the slots and of head, tail and size; each operator is one    *)
(* method, which holds the buffer's mutex from beginning to end.           *)
(***************************************************************************)
EXTENDS Integers, Sequences

CONSTANTS
  Event,       \* topology events
  NoEvent,     \* what a slot holds before it is used
  BufferSize   \* TopologyConfig.EventBufferSize as newEventBuffer is given it

DefaultSize == 1000

Capacity == IF BufferSize <= 0 THEN DefaultSize ELSE BufferSize

ASSUME BufferAssumption == BufferSize \in Int /\ NoEvent \notin Event

Slot == 0..(Capacity - 1)

Buffers == [slots : [Slot -> Event \cup {NoEvent}], head : Slot, tail : Slot,
            size : 0..Capacity]

\* The slot at a distance from the first one, once round the ring.
Index(i) == i % Capacity

EmptyBuffer == [slots |-> [i \in Slot |-> NoEvent], head |-> 0, tail |-> 0, size |-> 0]

\* Mutant: a full buffer forgets to move its head.
PushKeepsHead(b, e) ==
  [slots |-> [b.slots EXCEPT ![b.tail] = e],
   head  |-> b.head,
   tail  |-> Index(b.tail + 1),
   size  |-> IF b.size < Capacity THEN b.size + 1 ELSE b.size]

Push(b, e) ==
  [slots |-> [b.slots EXCEPT ![b.tail] = e],
   head  |-> IF b.size < Capacity THEN b.head ELSE Index(b.head + 1),
   tail  |-> Index(b.tail + 1),
   size  |-> IF b.size < Capacity THEN b.size + 1 ELSE b.size]

Pop(b) ==
  [slots |-> b.slots,
   head  |-> Index(b.head + 1),
   tail  |-> b.tail,
   size  |-> b.size - 1]

Clear(b) == [slots |-> b.slots, head |-> 0, tail |-> 0, size |-> 0]

ToSlice(b) == [i \in 1..b.size |-> b.slots[Index(b.head + i - 1)]]

\* Head and tail enclose the slots in use, which all hold events.
WellFormed(b) ==
  /\ b \in Buffers
  /\ b.tail = Index(b.head + b.size)
  /\ \A i \in 1..b.size : ToSlice(b)[i] \in Event
=============================================================================
