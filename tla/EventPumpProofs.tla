--------------------------- MODULE EventPumpProofs ---------------------------
(***************************************************************************)
(* What holds of the event buffer and the event pump for any capacities,   *)
(* nodes and subscribers: the arithmetic of the ring, and from it that the *)
(* buffer is a queue of the most recent events; and the order in which     *)
(* events reach a subscriber.                                              *)
(***************************************************************************)
EXTENDS EventPump, SequenceTheorems, TLAPS

-----------------------------------------------------------------------------
(* The ring. *)

LEMMA CapacityType == Capacity \in Nat \ {0}
  BY BufferAssumption DEF BufferAssumption, Capacity, DefaultSize

\* An index past the end of the slots comes back at their beginning.
LEMMA IndexWraps ==
  ASSUME NEW x \in Nat, x < Capacity + Capacity
  PROVE  Index(x) = IF x < Capacity THEN x ELSE x - Capacity
<1>1. CASE x < Capacity
  BY <1>1, CapacityType DEF Index
<1>2. CASE x >= Capacity
  <2>1. x - Capacity \in 0..(Capacity - 1)
    BY <1>2, CapacityType
  <2> QED
    BY <1>2, <2>1, CapacityType DEF Index
<1> QED
  BY <1>1, <1>2, CapacityType

LEMMA EmptySlice == WellFormed(EmptyBuffer) /\ ToSlice(EmptyBuffer) = <<>>
<1>1. EmptyBuffer \in Buffers
  BY CapacityType DEF EmptyBuffer, Buffers, Slot
<1>2. Index(0) = 0
  BY CapacityType, IndexWraps
<1>3. ToSlice(EmptyBuffer) = <<>>
  BY DEF ToSlice, EmptyBuffer
<1> QED
  BY <1>1, <1>2, <1>3 DEF WellFormed, EmptyBuffer

LEMMA SliceType ==
  ASSUME NEW b, WellFormed(b)
  PROVE  /\ ToSlice(b) \in Seq(Event)
         /\ Len(ToSlice(b)) = b.size
         /\ b.size \in Nat
<1>1. b.size \in Nat
  BY CapacityType DEF WellFormed, Buffers
<1>2. \A i \in 1..b.size : ToSlice(b)[i] \in Event
  BY DEF WellFormed
<1>3. ToSlice(b) \in [1..b.size -> Event]
  BY <1>2 DEF ToSlice
<1> QED
  BY <1>1, <1>3

LEMMA ClearSlice ==
  ASSUME NEW b, WellFormed(b)
  PROVE  WellFormed(Clear(b)) /\ ToSlice(Clear(b)) = <<>>
<1>1. Clear(b) \in Buffers
  BY CapacityType DEF Clear, WellFormed, Buffers, Slot
<1>2. Index(0) = 0
  BY CapacityType, IndexWraps
<1>3. ToSlice(Clear(b)) = <<>>
  BY DEF ToSlice, Clear
<1> QED
  BY <1>1, <1>2, <1>3 DEF WellFormed, Clear

LEMMA PopSlice ==
  ASSUME NEW b, WellFormed(b), b.size > 0
  PROVE  WellFormed(Pop(b)) /\ ToSlice(Pop(b)) = Tail(ToSlice(b))
<1> DEFINE p == Pop(b)
<1>1. /\ b.head \in 0..(Capacity - 1) /\ b.tail \in Slot /\ b.size \in 1..Capacity
      /\ b.slots \in [Slot -> Event \cup {NoEvent}]
      /\ b.tail = Index(b.head + b.size)
  BY CapacityType DEF WellFormed, Buffers, Slot
<1>2. Index(b.head + 1) = IF b.head + 1 < Capacity THEN b.head + 1 ELSE 0
  BY <1>1, CapacityType, IndexWraps
<1>3. /\ p.head = Index(b.head + 1) /\ p.size = b.size - 1
      /\ p.slots = b.slots /\ p.tail = b.tail
  BY DEF Pop
<1>4. Index(b.head + 1) \in Slot
  BY <1>1, <1>2, CapacityType DEF Slot
<1>5. p \in Buffers
  BY <1>1, <1>4, CapacityType DEF Pop, Buffers
<1> HIDE DEF p
<1>6. \A i \in 0..p.size : Index(p.head + i) = Index(b.head + i + 1)
  <2> SUFFICES ASSUME NEW i \in 0..p.size PROVE Index(p.head + i) = Index(b.head + i + 1)
    OBVIOUS
  <2>1. Index(p.head + i) = IF p.head + i < Capacity THEN p.head + i ELSE p.head + i - Capacity
    BY <1>1, <1>2, <1>3, CapacityType, IndexWraps
  <2>2. Index(b.head + i + 1) =
          IF b.head + i + 1 < Capacity THEN b.head + i + 1 ELSE b.head + i + 1 - Capacity
    BY <1>1, <1>3, CapacityType, IndexWraps
  <2> QED
    BY <1>1, <1>2, <1>3, <2>1, <2>2, CapacityType
<1>7. p.tail = Index(p.head + p.size)
  BY <1>1, <1>3, <1>6
<1>8. \A i \in 1..p.size : ToSlice(p)[i] = ToSlice(b)[i + 1]
  <2> SUFFICES ASSUME NEW i \in 1..p.size PROVE ToSlice(p)[i] = ToSlice(b)[i + 1]
    OBVIOUS
  <2>1. i - 1 \in 0..p.size /\ i + 1 \in 1..b.size /\ i \in Int
    BY <1>1, <1>3
  <2>2. p.head + i - 1 = p.head + (i - 1) /\ b.head + (i + 1) - 1 = b.head + (i - 1) + 1
    BY <1>1, <1>2, <1>3, <2>1, CapacityType
  <2>3. Index(p.head + i - 1) = Index(b.head + (i + 1) - 1)
    BY <1>6, <2>1, <2>2
  <2> QED
    BY <1>3, <2>1, <2>3 DEF ToSlice
<1>9. \A i \in 1..p.size : ToSlice(p)[i] \in Event
  BY <1>1, <1>3, <1>8 DEF WellFormed
<1>10. WellFormed(p)
  BY <1>5, <1>7, <1>9 DEF WellFormed
<1>11. ToSlice(b) \in Seq(Event) /\ ToSlice(b) # <<>> /\ Len(ToSlice(b)) = b.size
  BY <1>1, SliceType
<1>12. ToSlice(p) \in Seq(Event) /\ Len(ToSlice(p)) = b.size - 1
  BY <1>3, <1>10, SliceType
<1>13. ToSlice(p) = Tail(ToSlice(b))
  BY <1>3, <1>8, <1>11, <1>12, HeadTailProperties, SeqEqual
<1> QED
  BY <1>10, <1>13 DEF p

LEMMA PushSlice ==
  ASSUME NEW b, WellFormed(b), NEW e \in Event
  PROVE  /\ WellFormed(Push(b, e))
         /\ ToSlice(Push(b, e)) =
              IF b.size < Capacity THEN Append(ToSlice(b), e)
                                   ELSE Append(Tail(ToSlice(b)), e)
<1> DEFINE p == Push(b, e)
<1>1. /\ b.head \in 0..(Capacity - 1) /\ b.tail \in Slot /\ b.size \in 0..Capacity
      /\ b.slots \in [Slot -> Event \cup {NoEvent}]
      /\ b.tail = Index(b.head + b.size)
  BY CapacityType DEF WellFormed, Buffers, Slot
<1>2. /\ p.slots = [b.slots EXCEPT ![b.tail] = e]
      /\ p.head = IF b.size < Capacity THEN b.head ELSE Index(b.head + 1)
      /\ p.tail = Index(b.tail + 1)
      /\ p.size = IF b.size < Capacity THEN b.size + 1 ELSE b.size
  BY DEF Push
<1>3. Index(b.head + 1) = IF b.head + 1 < Capacity THEN b.head + 1 ELSE 0
  BY <1>1, CapacityType, IndexWraps
<1>4. Index(b.head + 1) \in Slot
  BY <1>1, <1>3, CapacityType DEF Slot
<1>5. Index(b.tail + 1) = IF b.tail + 1 < Capacity THEN b.tail + 1 ELSE 0
  BY <1>1, CapacityType, IndexWraps DEF Slot
<1>6. Index(b.tail + 1) \in Slot
  BY <1>1, <1>5, CapacityType DEF Slot
<1>7. p.size \in 1..Capacity /\ p.head \in 0..(Capacity - 1)
  BY <1>1, <1>2, <1>4, CapacityType DEF Slot
<1>8. p.slots \in [Slot -> Event \cup {NoEvent}]
  BY <1>1, <1>2
<1>9. p \in Buffers
  <2>1. p = [slots |-> p.slots, head |-> p.head, tail |-> p.tail, size |-> p.size]
    BY DEF Push
  <2>2. p.head \in Slot
    BY <1>7 DEF Slot
  <2>3. p.size \in 0..Capacity
    BY <1>7, CapacityType
  <2> HIDE DEF p
  <2> QED
    BY <1>2, <1>6, <2>1, <2>2, <2>3, <1>8 DEF Buffers
<1> HIDE DEF p
\* The slots after the push, counted from the head before it.
<1>10. \A x \in 0..(b.size - 1) :
         x > 0 \/ b.size < Capacity => p.slots[Index(b.head + x)] = b.slots[Index(b.head + x)]
  <2> SUFFICES ASSUME NEW x \in 0..(b.size - 1), x > 0 \/ b.size < Capacity
               PROVE  p.slots[Index(b.head + x)] = b.slots[Index(b.head + x)]
    OBVIOUS
  <2>1. Index(b.head + x) = IF b.head + x < Capacity THEN b.head + x ELSE b.head + x - Capacity
    BY <1>1, CapacityType, IndexWraps
  <2>2. b.tail = IF b.head + b.size < Capacity THEN b.head + b.size ELSE b.head + b.size - Capacity
    BY <1>1, CapacityType, IndexWraps
  <2>3. Index(b.head + x) # b.tail /\ Index(b.head + x) \in Slot
    BY <1>1, <2>1, <2>2, CapacityType DEF Slot
  <2> QED
    BY <1>1, <1>2, <2>3
<1>11. p.slots[Index(b.head + b.size)] = e
  BY <1>1, <1>2
<1>12. ToSlice(b) \in Seq(Event) /\ Len(ToSlice(b)) = b.size /\ b.size \in Nat
  BY SliceType
<1>13. CASE b.size < Capacity
  <2>1. p.head = b.head /\ p.size = b.size + 1
    BY <1>2, <1>13
  <2>2. ASSUME NEW i \in 1..b.size PROVE ToSlice(p)[i] = ToSlice(b)[i]
    <3>1. i - 1 \in 0..(b.size - 1) /\ i \in 1..p.size /\ b.head + i - 1 = b.head + (i - 1)
      BY <1>1, <2>1
    <3> QED
      BY <1>10, <1>13, <2>1, <3>1 DEF ToSlice
  <2>3. ToSlice(p)[b.size + 1] = e
    <3>1. b.size + 1 \in 1..p.size /\ b.head + (b.size + 1) - 1 = b.head + b.size
      BY <1>1, <2>1
    <3> QED
      BY <1>11, <2>1, <3>1 DEF ToSlice
  <2>4. p.tail = Index(p.head + p.size)
    <3>1. Index(b.head + b.size) =
            IF b.head + b.size < Capacity THEN b.head + b.size ELSE b.head + b.size - Capacity
      BY <1>1, CapacityType, IndexWraps
    <3>2. Index(b.head + (b.size + 1)) =
            IF b.head + (b.size + 1) < Capacity THEN b.head + (b.size + 1)
                                                ELSE b.head + (b.size + 1) - Capacity
      BY <1>1, <1>13, CapacityType, IndexWraps
    <3> QED
      BY <1>1, <1>2, <1>5, <1>13, <2>1, <3>1, <3>2, CapacityType
  <2>5. \A i \in 1..p.size : ToSlice(p)[i] \in Event
    <3> SUFFICES ASSUME NEW i \in 1..p.size PROVE ToSlice(p)[i] \in Event
      OBVIOUS
    <3>1. CASE i \in 1..b.size
      BY <2>2, <3>1 DEF WellFormed
    <3>2. CASE i = b.size + 1
      BY <2>3, <3>2
    <3> QED
      BY <1>1, <2>1, <3>1, <3>2
  <2>6. WellFormed(p)
    BY <1>9, <2>4, <2>5 DEF WellFormed
  <2>7. ToSlice(p) \in Seq(Event) /\ Len(ToSlice(p)) = b.size + 1
    BY <2>1, <2>6, SliceType
  <2>8. ToSlice(p) = Append(ToSlice(b), e)
    <3>1. /\ Append(ToSlice(b), e) \in Seq(Event)
          /\ Len(Append(ToSlice(b), e)) = b.size + 1
          /\ \A i \in 1..b.size : Append(ToSlice(b), e)[i] = ToSlice(b)[i]
          /\ Append(ToSlice(b), e)[b.size + 1] = e
      BY <1>12, AppendProperties
    <3>2. \A i \in 1..(b.size + 1) : ToSlice(p)[i] = Append(ToSlice(b), e)[i]
      BY <1>12, <2>2, <2>3, <3>1
    <3> QED
      BY <2>7, <3>1, <3>2, SeqEqual
  <2> QED
    BY <1>1, <1>13, <2>6, <2>8, CapacityType DEF p
<1>14. CASE b.size = Capacity
  <2>1. p.head = Index(b.head + 1) /\ p.size = Capacity
    BY <1>2, <1>14, CapacityType
  <2>2. Index(b.head + 1) = IF b.head + 1 < Capacity THEN b.head + 1 ELSE 0
    BY <1>3
  <2>3. \A x \in 0..(Capacity - 1) : Index(p.head + x) = Index(b.head + (x + 1))
    <3> SUFFICES ASSUME NEW x \in 0..(Capacity - 1)
                 PROVE  Index(p.head + x) = Index(b.head + (x + 1))
      OBVIOUS
    <3>1. Index(p.head + x) = IF p.head + x < Capacity THEN p.head + x ELSE p.head + x - Capacity
      BY <1>7, CapacityType, IndexWraps
    <3>2. Index(b.head + (x + 1)) =
            IF b.head + (x + 1) < Capacity THEN b.head + (x + 1) ELSE b.head + (x + 1) - Capacity
      BY <1>1, CapacityType, IndexWraps
    <3> QED
      BY <1>1, <2>1, <2>2, <3>1, <3>2, CapacityType
  <2>4. ASSUME NEW i \in 1..(Capacity - 1) PROVE ToSlice(p)[i] = ToSlice(b)[i + 1]
    <3>1. /\ i - 1 \in 0..(Capacity - 1) /\ i \in 0..(b.size - 1) /\ i > 0
          /\ i \in 1..p.size /\ i + 1 \in 1..b.size
          /\ p.head + i - 1 = p.head + (i - 1) /\ b.head + (i + 1) - 1 = b.head + i
          /\ b.head + ((i - 1) + 1) = b.head + i
      BY <1>1, <1>7, <1>14, <2>1, CapacityType
    <3>2. p.slots[Index(p.head + i - 1)] = b.slots[Index(b.head + (i + 1) - 1)]
      BY <1>10, <2>3, <3>1
    <3> QED
      BY <3>1, <3>2 DEF ToSlice
  <2>5. ToSlice(p)[Capacity] = e
    <3>1. /\ Capacity - 1 \in 0..(Capacity - 1) /\ Capacity \in 1..p.size
          /\ p.head + Capacity - 1 = p.head + (Capacity - 1)
          /\ b.head + ((Capacity - 1) + 1) = b.head + b.size
      BY <1>1, <1>7, <1>14, <2>1, CapacityType
    <3>2. p.slots[Index(p.head + Capacity - 1)] = e
      BY <1>11, <2>3, <3>1
    <3> QED
      BY <3>1, <3>2 DEF ToSlice
  <2>6. p.tail = Index(p.head + p.size)
    <3>1. b.tail = b.head
      BY <1>1, <1>14, CapacityType, IndexWraps
    <3>2. p.tail = p.head
      BY <1>2, <2>1, <3>1
    <3>3. Index(p.head + Capacity) = p.head
      BY <1>7, CapacityType, IndexWraps
    <3> QED
      BY <2>1, <3>2, <3>3
  <2>7. \A i \in 1..p.size : ToSlice(p)[i] \in Event
    <3> SUFFICES ASSUME NEW i \in 1..p.size PROVE ToSlice(p)[i] \in Event
      OBVIOUS
    <3>1. CASE i \in 1..(Capacity - 1)
      <4>1. i + 1 \in 1..b.size
        BY <1>14, <3>1, CapacityType
      <4> QED
        BY <2>4, <3>1, <4>1 DEF WellFormed
    <3>2. CASE i = Capacity
      BY <2>5, <3>2
    <3> QED
      BY <2>1, <3>1, <3>2, CapacityType
  <2>8. WellFormed(p)
    BY <1>9, <2>6, <2>7 DEF WellFormed
  <2>9. ToSlice(p) \in Seq(Event) /\ Len(ToSlice(p)) = Capacity
    BY <2>1, <2>8, SliceType
  <2>10. ToSlice(p) = Append(Tail(ToSlice(b)), e)
    <3>1. ToSlice(b) # <<>>
      BY <1>12, <1>14, CapacityType
    <3>2. /\ Tail(ToSlice(b)) \in Seq(Event)
          /\ Len(Tail(ToSlice(b))) = Capacity - 1
          /\ \A i \in 1..(Capacity - 1) : Tail(ToSlice(b))[i] = ToSlice(b)[i + 1]
      BY <1>12, <1>14, <3>1, HeadTailProperties
    <3>3. /\ Append(Tail(ToSlice(b)), e) \in Seq(Event)
          /\ Len(Append(Tail(ToSlice(b)), e)) = Capacity
          /\ \A i \in 1..(Capacity - 1) :
               Append(Tail(ToSlice(b)), e)[i] = Tail(ToSlice(b))[i]
          /\ Append(Tail(ToSlice(b)), e)[Capacity] = e
      BY <3>2, AppendProperties, CapacityType
    <3>4. \A i \in 1..Capacity : ToSlice(p)[i] = Append(Tail(ToSlice(b)), e)[i]
      BY <2>4, <2>5, <3>2, <3>3, CapacityType
    <3> QED
      BY <2>9, <3>3, <3>4, SeqEqual
  <2> QED
    BY <1>14, <2>8, <2>10, CapacityType DEF p
<1> QED
  BY <1>1, <1>13, <1>14, CapacityType

-----------------------------------------------------------------------------
(* Types. *)

\* A channel is subscribed once, by the call of Events that made it.
ListenersJoined ==
  \A i \in DOMAIN listeners : listeners[i] \in joined

\* What Deliver sends is the event just published.
DeliveryNumbered ==
  \A r \in Remote : pending[r] # <<>> => published[r] > 0

TypeInv == TypeOK /\ ListenersJoined /\ DeliveryNumbered

\* Leaving out one element of a list without repetitions.
LEMMA DropOne ==
  ASSUME NEW S, NEW q \in Seq(S), NoRepeats(q), NEW i \in DOMAIN q,
         NEW t, t = [j \in 1..(Len(q) - 1) |-> IF j < i THEN q[j] ELSE q[j + 1]]
  PROVE  /\ t \in Seq(S) /\ NoRepeats(t)
         /\ \A j \in DOMAIN t : \E k \in DOMAIN q : k # i /\ t[j] = q[k]
         /\ \A k \in DOMAIN q : k # i => \E j \in DOMAIN t : t[j] = q[k]
<1>1. Len(q) \in Nat /\ DOMAIN q = 1..Len(q) /\ i \in 1..Len(q)
  OBVIOUS
<1>2. \A j \in 1..(Len(q) - 1) : q[j] \in S /\ q[j + 1] \in S
  BY <1>1
<1>3. t \in [1..(Len(q) - 1) -> S]
  BY <1>2
<1>4. t \in Seq(S)
  BY <1>1, <1>3
<1>5. DOMAIN t = 1..(Len(q) - 1)
  BY <1>3
<1>6. NoRepeats(t)
  BY <1>1, <1>5 DEF NoRepeats
<1>7. \A j \in DOMAIN t : \E k \in DOMAIN q : k # i /\ t[j] = q[k]
  BY <1>1, <1>5
<1>8. ASSUME NEW k \in DOMAIN q, k # i PROVE \E j \in DOMAIN t : t[j] = q[k]
  <2>1. CASE k < i
    <3>1. k \in DOMAIN t /\ t[k] = q[k]
      BY <1>1, <1>5, <2>1
    <3> QED
      BY <3>1
  <2>2. CASE k > i
    <3>1. k - 1 \in DOMAIN t /\ t[k - 1] = q[k]
      BY <1>1, <1>5, <2>2
    <3> QED
      BY <3>1
  <2> QED
    BY <1>1, <1>8, <2>1, <2>2
<1> QED
  BY <1>4, <1>6, <1>7, <1>8

LEMMA TailNoRepeats ==
  ASSUME NEW S, NEW q \in Seq(S), q # <<>>, NoRepeats(q)
  PROVE  Tail(q) \in Seq(S) /\ NoRepeats(Tail(q))
<1>1. /\ Tail(q) \in Seq(S) /\ Len(Tail(q)) = Len(q) - 1
      /\ \A i \in 1..Len(Tail(q)) : Tail(q)[i] = q[i + 1]
  BY HeadTailProperties
<1>2. DOMAIN Tail(q) = 1..Len(Tail(q)) /\ DOMAIN q = 1..Len(q) /\ Len(q) \in Nat
  BY <1>1
<1> QED
  BY <1>1, <1>2 DEF NoRepeats

LEMMA PumpTypeInit == Init => TypeInv
<1> SUFFICES ASSUME Init PROVE TypeInv
  OBVIOUS
<1>1. WellFormed(buffer)
  BY EmptySlice DEF Init
<1>2. TypeOK
  <2>1. listeners \in Seq(Subscriber) /\ NoRepeats(listeners)
    BY DEF Init, NoRepeats
  <2>2. pending \in [Remote -> Seq(Subscriber)] /\ \A r \in Remote : NoRepeats(pending[r])
    BY DEF Init, NoRepeats
  <2>3. /\ channel \in [Subscriber -> Seq(Event)]
        /\ \A s \in Subscriber : Len(channel[s]) <= ChannelSize
    BY PumpAssumption DEF Init, PumpAssumption
  <2>4. /\ published \in [Remote -> 0..MaxEvents]
        /\ seen \in [Subscriber -> [Remote -> 0..MaxEvents]]
    BY PumpAssumption DEF Init, PumpAssumption
  <2>5. closed \in BOOLEAN /\ missed \subseteq Subscriber /\ joined \subseteq Subscriber
    BY DEF Init
  <2> QED
    BY <1>1, <2>1, <2>2, <2>3, <2>4, <2>5 DEF TypeOK
<1>3. ListenersJoined
  BY DEF Init, ListenersJoined
<1>4. DeliveryNumbered
  BY DEF Init, DeliveryNumbered
<1> QED
  BY <1>2, <1>3, <1>4 DEF TypeInv

LEMMA PumpTypeStep == TypeInv /\ [Next]_vars => TypeInv'
<1> SUFFICES ASSUME TypeInv, [Next]_vars PROVE TypeInv'
  OBVIOUS
<1> USE DEF TypeInv
<1>1. ASSUME NEW r \in Remote, Publish(r) PROVE TypeInv'
  <2>1. published' \in [Remote -> 0..MaxEvents] /\ published'[r] \in 1..MaxEvents
    <3>1. published[r] + 1 \in 1..MaxEvents
      BY <1>1, PumpAssumption DEF Publish, TypeOK, PumpAssumption
    <3> QED
      BY <1>1, <3>1 DEF Publish, TypeOK
  <2>2. [node |-> r, seq |-> published'[r]] \in Event
    BY <2>1, PumpAssumption DEF PumpAssumption
  <2>3. WellFormed(buffer')
    BY <1>1, <2>2, PushSlice DEF Publish, TypeOK
  <2>4. pending' \in [Remote -> Seq(Subscriber)] /\ \A q \in Remote : NoRepeats(pending'[q])
    BY <1>1 DEF Publish, TypeOK
  <2>5. DeliveryNumbered'
    BY <1>1, <2>1 DEF Publish, TypeOK, DeliveryNumbered
  <2> QED
    BY <1>1, <2>1, <2>3, <2>4, <2>5 DEF Publish, TypeOK, ListenersJoined
<1>2. ASSUME NEW r \in Remote, Deliver(r) PROVE TypeInv'
  <2> DEFINE s == Head(pending[r])  e == [node |-> r, seq |-> published[r]]
  <2>1. pending[r] \in Seq(Subscriber) /\ pending[r] # <<>> /\ NoRepeats(pending[r])
    BY <1>2 DEF Deliver, TypeOK
  <2>2. s \in Subscriber /\ Tail(pending[r]) \in Seq(Subscriber) /\ NoRepeats(Tail(pending[r]))
    BY <2>1, TailNoRepeats, HeadTailProperties
  <2>3. pending' \in [Remote -> Seq(Subscriber)] /\ \A q \in Remote : NoRepeats(pending'[q])
    BY <1>2, <2>2 DEF Deliver, TypeOK
  <2>4. UNCHANGED <<buffer, listeners, closed, published, seen, joined>>
    BY <1>2 DEF Deliver
  <2>5. published[r] \in 1..MaxEvents
    BY <2>1, PumpAssumption DEF TypeOK, DeliveryNumbered, PumpAssumption
  <2>6. e \in Event
    BY <2>1, <2>5, PumpAssumption DEF PumpAssumption
  <2>7. /\ channel' \in [Subscriber -> Seq(Event)]
        /\ \A t \in Subscriber : Len(channel'[t]) <= ChannelSize
        /\ missed' \subseteq Subscriber
    <3>1. CASE Len(channel[s]) < ChannelSize
      <4>1. channel' = [channel EXCEPT ![s] = Append(@, e)] /\ missed' = missed
        BY <1>2, <3>1 DEF Deliver
      <4>2. channel[s] \in Seq(Event) /\ Len(channel[s]) \in Nat
        BY <2>2 DEF TypeOK
      <4>3. Append(channel[s], e) \in Seq(Event) /\ Len(Append(channel[s], e)) = Len(channel[s]) + 1
        BY <2>6, <4>2, AppendProperties
      <4>4. Len(Append(channel[s], e)) <= ChannelSize
        BY <3>1, <4>2, <4>3, PumpAssumption DEF PumpAssumption
      <4> HIDE DEF s, e
      <4> QED
        BY <2>2, <4>1, <4>3, <4>4 DEF TypeOK
    <3>2. CASE ~(Len(channel[s]) < ChannelSize)
      BY <1>2, <2>2, <3>2 DEF Deliver, TypeOK
    <3> QED
      BY <3>1, <3>2
  <2>8. TypeOK'
    BY <2>3, <2>4, <2>7 DEF TypeOK
  <2>9. ListenersJoined'
    BY <2>4 DEF ListenersJoined
  <2>10. DeliveryNumbered'
    BY <1>2, <2>1, <2>4, <2>5 DEF Deliver, DeliveryNumbered, TypeOK
  <2> QED
    BY <2>8, <2>9, <2>10
<1>3. ASSUME NEW s \in Subscriber, Subscribe(s) PROVE TypeInv'
  <2>1. UNCHANGED <<buffer, closed, channel, pending, published, missed>> /\ s \notin joined
    BY <1>3 DEF Subscribe
  <2>2. joined' = joined \cup {s} /\ joined' \subseteq Subscriber
    BY <1>3 DEF Subscribe, TypeOK
  <2>3. seen' \in [Subscriber -> [Remote -> 0..MaxEvents]]
    BY <1>3 DEF Subscribe, TypeOK
  <2>4. /\ listeners' \in Seq(Subscriber) /\ NoRepeats(listeners')
        /\ \A i \in DOMAIN listeners' : listeners'[i] \in joined'
    <3>1. CASE closed
      BY <1>3, <2>2, <3>1 DEF Subscribe, TypeOK, ListenersJoined
    <3>2. CASE ~closed
      <4>1. listeners' = Append(listeners, s) /\ listeners \in Seq(Subscriber)
        BY <1>3, <3>2 DEF Subscribe, TypeOK
      <4>2. /\ Append(listeners, s) \in Seq(Subscriber)
            /\ Len(Append(listeners, s)) = Len(listeners) + 1
            /\ \A i \in 1..Len(listeners) : Append(listeners, s)[i] = listeners[i]
            /\ Append(listeners, s)[Len(listeners) + 1] = s
        BY <4>1, AppendProperties
      <4>3. DOMAIN listeners = 1..Len(listeners) /\ Len(listeners) \in Nat
        BY <4>1
      <4>4. DOMAIN listeners' = 1..(Len(listeners) + 1)
        BY <4>1, <4>2, <4>3
      <4>5. \A i \in 1..Len(listeners) : listeners'[i] = listeners[i] /\ listeners[i] # s
        <5> SUFFICES ASSUME NEW i \in 1..Len(listeners)
                     PROVE  listeners'[i] = listeners[i] /\ listeners[i] # s
          OBVIOUS
        <5>1. listeners[i] \in joined
          BY <4>3 DEF ListenersJoined
        <5> QED
          BY <2>1, <4>1, <4>2, <5>1
      <4>6. listeners'[Len(listeners) + 1] = s
        BY <4>1, <4>2
      <4>7. NoRepeats(listeners')
        <5> SUFFICES ASSUME NEW i \in DOMAIN listeners', NEW j \in DOMAIN listeners',
                            listeners'[i] = listeners'[j]
                     PROVE  i = j
          BY DEF NoRepeats
        <5>1. \A k, l \in 1..Len(listeners) : listeners[k] = listeners[l] => k = l
          BY <4>3 DEF NoRepeats, TypeOK
        <5>2. /\ i \in 1..Len(listeners) \/ i = Len(listeners) + 1
              /\ j \in 1..Len(listeners) \/ j = Len(listeners) + 1
          BY <4>3, <4>4
        <5> QED
          BY <4>5, <4>6, <5>1, <5>2
      <4>8. \A i \in DOMAIN listeners' : listeners'[i] \in joined'
        BY <2>2, <4>3, <4>4, <4>5, <4>6 DEF ListenersJoined
      <4> QED
        BY <4>1, <4>2, <4>7, <4>8
    <3> QED
      BY <3>1, <3>2
  <2>5. TypeOK'
    BY <2>1, <2>2, <2>3, <2>4 DEF TypeOK
  <2> QED
    BY <2>1, <2>4, <2>5 DEF ListenersJoined, DeliveryNumbered
<1>4. ASSUME NEW s \in Subscriber, Unsubscribe(s) PROVE TypeInv'
  <2>1. PICK i \in DOMAIN listeners :
          listeners' = [j \in 1..(Len(listeners) - 1) |->
                          IF j < i THEN listeners[j] ELSE listeners[j + 1]]
    BY <1>4 DEF Unsubscribe
  <2>2. UNCHANGED <<buffer, closed, channel, pending, published, seen, missed, joined>>
    BY <1>4 DEF Unsubscribe
  <2>3. listeners \in Seq(Subscriber) /\ NoRepeats(listeners)
    BY DEF TypeOK
  <2>4. /\ listeners' \in Seq(Subscriber) /\ NoRepeats(listeners')
        /\ \A j \in DOMAIN listeners' : \E k \in DOMAIN listeners : listeners'[j] = listeners[k]
    BY <2>1, <2>3, DropOne
  <2> QED
    BY <2>2, <2>4 DEF TypeOK, ListenersJoined, DeliveryNumbered
<1>5. ASSUME NEW s \in Subscriber, Take(s) PROVE TypeInv'
  <2>1. UNCHANGED <<buffer, listeners, closed, pending, published, missed, joined>>
    BY <1>5 DEF Take
  <2>2. channel[s] \in Seq(Event) /\ channel[s] # <<>>
    BY <1>5 DEF Take, TypeOK
  <2>3. /\ Tail(channel[s]) \in Seq(Event) /\ Head(channel[s]) \in Event
        /\ Len(Tail(channel[s])) = Len(channel[s]) - 1 /\ Len(channel[s]) \in Nat
    BY <2>2, HeadTailProperties
  <2>4. Head(channel[s]).node \in Remote /\ Head(channel[s]).seq \in 0..MaxEvents
    BY <2>3, PumpAssumption DEF PumpAssumption
  <2>5. seen' \in [Subscriber -> [Remote -> 0..MaxEvents]]
    BY <1>5, <2>4 DEF Take, TypeOK
  <2>6. Len(Tail(channel[s])) <= ChannelSize
    BY <2>3, PumpAssumption DEF TypeOK, PumpAssumption
  <2>7. /\ channel' \in [Subscriber -> Seq(Event)]
        /\ \A t \in Subscriber : Len(channel'[t]) <= ChannelSize
    BY <1>5, <2>3, <2>6 DEF Take, TypeOK
  <2>8. TypeOK'
    BY <2>1, <2>5, <2>7 DEF TypeOK
  <2> QED
    BY <2>1, <2>8 DEF ListenersJoined, DeliveryNumbered
<1>6. CASE PopEvent
  <2>1. WellFormed(buffer')
    BY <1>6, PopSlice DEF PopEvent, TypeOK
  <2> QED
    BY <1>6, <2>1 DEF PopEvent, TypeOK, ListenersJoined, DeliveryNumbered
<1>7. CASE Close
  <2>1. WellFormed(buffer')
    BY <1>7, ClearSlice DEF Close, TypeOK
  <2>2. listeners' = <<>> /\ closed' = TRUE
    BY <1>7 DEF Close
  <2>3. listeners' \in Seq(Subscriber) /\ NoRepeats(listeners') /\ DOMAIN listeners' = {}
    BY <2>2 DEF NoRepeats
  <2> QED
    BY <1>7, <2>1, <2>2, <2>3 DEF Close, TypeOK, ListenersJoined, DeliveryNumbered
<1>8. CASE UNCHANGED vars
  BY <1>8 DEF vars, TypeOK, ListenersJoined, DeliveryNumbered
<1> QED
  BY <1>1, <1>2, <1>3, <1>4, <1>5, <1>6, <1>7, <1>8 DEF Next

\* The buffer and the lists of the pump keep their types and bounds, a channel
\* is subscribed at most once and served at most once for an event
\* (events.go:69-237).
THEOREM PumpTypeOK == Spec => []TypeOK
<1>1. TypeInv => TypeOK
  BY DEF TypeInv
<1> QED
  BY PumpTypeInit, PumpTypeStep, <1>1, PTL DEF Spec

-----------------------------------------------------------------------------
(* The buffer implements a bounded queue of the most recent events. *)

\* What the pump does with its buffer, Publish and Close and the reader's Pop,
\* is what a queue of at most Capacity recent events does: the ring's head and
\* tail never get out of step, however often they go round (events.go:83-147).
THEOREM EventPumpImplementsRecent == Spec => ImplementsRecent
<1>1. Init => R!Init
  BY EmptySlice DEF Init, R!Init
<1>2. TypeInv /\ [Next]_vars => [R!Next]_(ToSlice(buffer))
  <2> SUFFICES ASSUME TypeInv, [Next]_vars PROVE R!Next \/ UNCHANGED ToSlice(buffer)
    OBVIOUS
  <2>1. WellFormed(buffer) /\ Len(ToSlice(buffer)) = buffer.size /\ buffer.size \in Nat
    BY SliceType DEF TypeInv, TypeOK
  <2>2. ASSUME NEW r \in Remote, Publish(r) PROVE R!Next
    <3> DEFINE e == [node |-> r, seq |-> published'[r]]
    <3>1. published[r] + 1 \in 1..MaxEvents /\ published'[r] = published[r] + 1
      BY <2>2, PumpAssumption DEF Publish, TypeInv, TypeOK, PumpAssumption
    <3>2. e \in Event /\ buffer' = Push(buffer, e)
      BY <2>2, <3>1, PumpAssumption DEF Publish, PumpAssumption
    <3> HIDE DEF e
    <3>3. ToSlice(buffer') = IF Len(ToSlice(buffer)) < Capacity
                             THEN Append(ToSlice(buffer), e)
                             ELSE Append(Tail(ToSlice(buffer)), e)
      BY <2>1, <3>2, PushSlice
    <3>4. R!Remember(e)
      BY <3>3 DEF R!Remember
    <3> QED
      BY <3>2, <3>4 DEF R!Next
  <2>3. CASE PopEvent
    <3>1. ToSlice(buffer') = Tail(ToSlice(buffer)) /\ ToSlice(buffer) # <<>>
      BY <2>1, <2>3, PopSlice DEF PopEvent
    <3> QED
      BY <3>1 DEF R!Next, R!ForgetOldest
  <2>4. CASE Close
    <3>1. ToSlice(buffer') = <<>>
      BY <2>1, <2>4, ClearSlice DEF Close
    <3> QED
      BY <3>1 DEF R!Next, R!ForgetAll
  <2>5. CASE UNCHANGED buffer
    BY <2>5
  <2>6. ASSUME NEW r \in Remote, Deliver(r) PROVE UNCHANGED buffer
    BY <2>6 DEF Deliver
  <2>7. ASSUME NEW s \in Subscriber, Subscribe(s) \/ Unsubscribe(s) \/ Take(s)
        PROVE  UNCHANGED buffer
    BY <2>7 DEF Subscribe, Unsubscribe, Take
  <2>8. CASE UNCHANGED vars
    BY <2>8 DEF vars
  <2> QED
    BY <2>2, <2>3, <2>4, <2>5, <2>6, <2>7, <2>8 DEF Next
<1> QED
  BY PumpTypeInit, PumpTypeStep, <1>1, <1>2, PTL DEF Spec, ImplementsRecent, R!Spec

-----------------------------------------------------------------------------
(* Events arrive in order. *)

\* No event is known or queued before it is published, and the one a Publish
\* still has for s is not among those s knows or has queued.
NotAhead ==
  \A s \in Subscriber, r \in Remote :
    /\ seen[s][r] <= published[r]
    /\ Due(s, r) => seen[s][r] < published[r]

QueuedNotAhead ==
  \A s \in Subscriber, r \in Remote : \A i \in DOMAIN channel[s] :
    channel[s][i].node = r =>
      /\ channel[s][i].seq <= published[r]
      /\ Due(s, r) => channel[s][i].seq < published[r]

\* A channel that Events has not made is empty and nobody sends to it.
NewcomersEmpty ==
  \A s \in Subscriber \ joined :
    channel[s] = <<>> /\ \A r \in Remote : ~Due(s, r)

OrderInv == NotAhead /\ QueuedNotAhead /\ NewcomersEmpty /\ InTurn

LEMMA EventFields ==
  ASSUME NEW e \in Event
  PROVE  e.node \in Remote /\ e.seq \in Nat /\ e.seq \in 0..MaxEvents
  BY PumpAssumption DEF PumpAssumption

\* The steps that leave the channels and what is known alone keep the order if
\* nobody is served a second time.
LEMMA OrderKept ==
  ASSUME TypeInv, OrderInv,
         UNCHANGED <<channel, seen, published, joined>>,
         \A s \in Subscriber, r \in Remote : Due(s, r)' => Due(s, r)
  PROVE  OrderInv'
<1>2. NotAhead' /\ NewcomersEmpty'
  BY DEF OrderInv, NotAhead, NewcomersEmpty
<1>3. QueuedNotAhead'
  BY DEF OrderInv, QueuedNotAhead
<1>4. InTurn'
  BY DEF OrderInv, InTurn
<1> QED
  BY <1>2, <1>3, <1>4 DEF OrderInv

LEMMA OrderInit == Init => OrderInv
  BY PumpAssumption DEF Init, OrderInv, NotAhead, QueuedNotAhead, NewcomersEmpty, InTurn, Due,
     PumpAssumption

LEMMA OrderStep == TypeInv /\ OrderInv /\ [Next]_vars => OrderInv'
<1> SUFFICES ASSUME TypeInv, OrderInv, [Next]_vars PROVE OrderInv'
  OBVIOUS
<1>0. /\ published \in [Remote -> Nat] /\ seen \in [Subscriber -> [Remote -> Nat]]
      /\ channel \in [Subscriber -> Seq(Event)]
      /\ \A e \in Event : e.node \in Remote /\ e.seq \in Nat
  <2>1. published \in [Remote -> Nat] /\ seen \in [Subscriber -> [Remote -> Nat]]
    BY PumpAssumption DEF TypeInv, TypeOK, PumpAssumption
  <2>2. channel \in [Subscriber -> Seq(Event)]
    BY DEF TypeInv, TypeOK
  <2> QED
    BY <2>1, <2>2, EventFields
<1>1. ASSUME NEW r \in Remote, Publish(r) PROVE OrderInv'
  <2>1. /\ published' = [published EXCEPT ![r] = @ + 1]
        /\ pending' = [pending EXCEPT ![r] = listeners]
        /\ UNCHANGED <<channel, seen, joined>>
    BY <1>1 DEF Publish
  <2>2. \A s \in Subscriber, q \in Remote : q # r => (Due(s, q)' <=> Due(s, q))
    BY <2>1 DEF Due, TypeInv, TypeOK
  <2>3. /\ published'[r] = published[r] + 1
        /\ \A q \in Remote : q # r => published'[q] = published[q]
    BY <1>0, <2>1
  <2>4. \A s \in Subscriber : Due(s, r)' => s \in joined
    BY <2>1 DEF Due, TypeInv, TypeOK, ListenersJoined
  <2>5. NotAhead'
    <3> SUFFICES ASSUME NEW s \in Subscriber, NEW q \in Remote
                 PROVE  /\ seen[s][q] <= published'[q]
                        /\ Due(s, q)' => seen[s][q] < published'[q]
      BY <2>1 DEF NotAhead
    <3>1. seen[s][q] <= published[q] /\ (Due(s, q) => seen[s][q] < published[q])
      BY DEF OrderInv, NotAhead
    <3>2. seen[s][q] \in Nat /\ published[q] \in Nat
      BY <1>0
    <3> QED
      BY <2>2, <2>3, <3>1, <3>2
  <2>6. QueuedNotAhead'
    <3> SUFFICES ASSUME NEW s \in Subscriber, NEW q \in Remote, NEW i \in DOMAIN channel[s],
                        channel[s][i].node = q
                 PROVE  /\ channel[s][i].seq <= published'[q]
                        /\ Due(s, q)' => channel[s][i].seq < published'[q]
      BY <2>1 DEF QueuedNotAhead
    <3>1. channel[s][i].seq \in Nat /\ published[q] \in Nat
      BY <1>0
    <3>2. channel[s][i].seq <= published[q] /\ (Due(s, q) => channel[s][i].seq < published[q])
      BY DEF OrderInv, QueuedNotAhead
    <3> QED
      BY <2>2, <2>3, <3>1, <3>2
  <2>7. NewcomersEmpty'
    BY <2>1, <2>2, <2>4 DEF OrderInv, NewcomersEmpty
  <2>8. InTurn'
    BY <2>1 DEF OrderInv, InTurn
  <2> QED
    BY <2>5, <2>6, <2>7, <2>8 DEF OrderInv
<1>2. ASSUME NEW r \in Remote, Deliver(r) PROVE OrderInv'
  <2>0. pending[r] \in Seq(Subscriber) /\ pending[r] # <<>>
    BY <1>2 DEF Deliver, TypeInv, TypeOK
  <2>s. PICK s \in Subscriber : s = Head(pending[r])
    BY <2>0, HeadTailProperties
  <2>e. PICK e \in Event : e = [node |-> r, seq |-> published[r]]
    <3>1. published[r] \in 1..MaxEvents
      BY <2>0, PumpAssumption DEF TypeInv, TypeOK, DeliveryNumbered, PumpAssumption
    <3> QED
      BY <3>1, PumpAssumption DEF PumpAssumption
  <2>1. /\ pending[r] \in Seq(Subscriber) /\ pending[r] # <<>> /\ NoRepeats(pending[r])
        /\ pending' = [pending EXCEPT ![r] = Tail(@)]
        /\ UNCHANGED <<published, seen, joined>>
    BY <1>2 DEF Deliver, TypeInv, TypeOK
  <2>2. /\ s \in Subscriber /\ s = pending[r][1] /\ Len(pending[r]) \in Nat \ {0}
        /\ Tail(pending[r]) \in Seq(Subscriber)
        /\ Len(Tail(pending[r])) = Len(pending[r]) - 1
        /\ \A i \in 1..Len(Tail(pending[r])) : Tail(pending[r])[i] = pending[r][i + 1]
        /\ DOMAIN Tail(pending[r]) = 1..Len(Tail(pending[r]))
        /\ DOMAIN pending[r] = 1..Len(pending[r])
    BY <2>1, <2>s, HeadTailProperties
  <2>3. Due(s, r)
    BY <2>2 DEF Due
  <2>4. pending'[r] = Tail(pending[r]) /\ \A q \in Remote : q # r => pending'[q] = pending[q]
    BY <2>1 DEF TypeInv, TypeOK
  <2>5. ~Due(s, r)'
    <3> SUFFICES ASSUME NEW i \in DOMAIN pending'[r], pending'[r][i] = s PROVE FALSE
      BY DEF Due
    <3>1. i \in 1..Len(Tail(pending[r])) /\ pending[r][i + 1] = pending[r][1]
      BY <2>2, <2>4
    <3>2. i + 1 \in DOMAIN pending[r] /\ 1 \in DOMAIN pending[r] /\ i + 1 # 1
      BY <2>2, <3>1
    <3> QED
      BY <2>1, <3>1, <3>2 DEF NoRepeats
  <2>6. \A t \in Subscriber, q \in Remote : Due(t, q)' => Due(t, q)
    <3> SUFFICES ASSUME NEW t \in Subscriber, NEW q \in Remote,
                        NEW i \in DOMAIN pending'[q], pending'[q][i] = t
                 PROVE  Due(t, q)
      BY DEF Due
    <3>1. CASE q # r
      BY <2>4, <3>1 DEF Due
    <3>2. CASE q = r
      <4>0. i \in 1..Len(Tail(pending[r])) /\ Tail(pending[r])[i] = t
        BY <2>2, <2>4, <3>2
      <4>1. i + 1 \in DOMAIN pending[r] /\ pending[r][i + 1] = t
        BY <2>2, <4>0
      <4> QED
        BY <3>2, <4>1 DEF Due
    <3> QED
      BY <3>1, <3>2
  <2>7. CASE channel' = channel
    BY <2>1, <2>6, <2>7, OrderKept
  <2>8. CASE channel' = [channel EXCEPT ![s] = Append(@, e)]
    <3>1. e.node = r /\ e.seq = published[r] /\ published[r] \in Nat /\ s \in joined
      BY <1>0, <2>e, <2>3 DEF OrderInv, NewcomersEmpty
    <3>3. /\ \A t \in Subscriber : t # s => channel'[t] = channel[t]
          /\ channel'[s] = Append(channel[s], e)
      BY <1>0, <2>2, <2>8
    <3>n. PICK n \in Nat : n = Len(channel[s])
      BY <1>0
    <3>4. /\ n \in Nat /\ DOMAIN channel[s] = 1..n /\ DOMAIN channel'[s] = 1..(n + 1)
          /\ \A i \in 1..n : channel'[s][i] = channel[s][i]
          /\ channel'[s][n + 1] = e
      BY <1>0, <3>3, <3>n, AppendProperties
    <3>5. \A i \in 1..n : channel[s][i].node = r => channel[s][i].seq < published[r]
      BY <2>2, <2>3, <3>4 DEF OrderInv, QueuedNotAhead
    <3>6. seen[s][r] < published[r]
      BY <2>2, <2>3 DEF OrderInv, NotAhead
    <3>7. NotAhead'
      BY <2>1, <2>6 DEF OrderInv, NotAhead
    <3>8. QueuedNotAhead'
      <4> SUFFICES ASSUME NEW t \in Subscriber, NEW q \in Remote, NEW i \in DOMAIN channel'[t],
                          channel'[t][i].node = q
                   PROVE  /\ channel'[t][i].seq <= published[q]
                          /\ Due(t, q)' => channel'[t][i].seq < published[q]
        BY <2>1 DEF QueuedNotAhead
      <4>1. CASE i \in DOMAIN channel[t] /\ channel'[t][i] = channel[t][i]
        BY <2>6, <4>1 DEF OrderInv, QueuedNotAhead
      <4>2. CASE t = s /\ i = n + 1
        BY <2>5, <3>1, <3>4, <4>2
      <4> QED
        BY <3>3, <3>4, <4>1, <4>2
    <3>9. NewcomersEmpty'
      BY <2>1, <2>6, <3>1, <3>3 DEF OrderInv, NewcomersEmpty
    <3>10. InTurn'
      <4> SUFFICES ASSUME NEW t \in Subscriber, NEW i \in DOMAIN channel'[t]
                   PROVE  /\ seen[t][channel'[t][i].node] < channel'[t][i].seq
                          /\ \A j \in DOMAIN channel'[t] :
                               i < j /\ channel'[t][j].node = channel'[t][i].node =>
                                 channel'[t][i].seq < channel'[t][j].seq
        BY <2>1 DEF InTurn
      <4>1. CASE t # s
        BY <3>3, <4>1 DEF OrderInv, InTurn
      <4>2. CASE t = s /\ i \in 1..n
        <5>1. channel'[s][i] = channel[s][i] /\ i \in DOMAIN channel[s]
          BY <3>4, <4>2
        <5>2. seen[s][channel[s][i].node] < channel[s][i].seq
          BY <2>2, <5>1 DEF OrderInv, InTurn
        <5>3. ASSUME NEW j \in DOMAIN channel'[s], i < j,
                     channel'[s][j].node = channel'[s][i].node
              PROVE  channel'[s][i].seq < channel'[s][j].seq
          <6>1. CASE j \in 1..n
            BY <2>2, <3>4, <5>1, <5>3, <6>1 DEF OrderInv, InTurn
          <6>2. CASE j = n + 1
            BY <3>1, <3>4, <3>5, <4>2, <5>1, <5>3, <6>2
          <6> QED
            BY <3>4, <6>1, <6>2
        <5> QED
          BY <4>2, <5>1, <5>2, <5>3
      <4>3. CASE t = s /\ i = n + 1
        BY <3>1, <3>4, <3>6, <4>3
      <4> QED
        BY <3>4, <4>1, <4>2, <4>3
    <3> QED
      BY <3>7, <3>8, <3>9, <3>10 DEF OrderInv
  <2> QED
    BY <1>2, <2>s, <2>e, <2>7, <2>8 DEF Deliver
<1>3. ASSUME NEW s \in Subscriber, Subscribe(s) PROVE OrderInv'
  <2>1. /\ UNCHANGED <<channel, pending, published>> /\ s \notin joined
        /\ joined' = joined \cup {s} /\ seen' = [seen EXCEPT ![s] = published]
    BY <1>3 DEF Subscribe
  <2>2. channel[s] = <<>> /\ \A r \in Remote : ~Due(s, r)
    BY <2>1 DEF OrderInv, NewcomersEmpty
  <2>3. seen'[s] = published /\ \A t \in Subscriber : t # s => seen'[t] = seen[t]
    BY <1>0, <2>1
  <2>4. \A t \in Subscriber, r \in Remote : Due(t, r)' <=> Due(t, r)
    BY <2>1 DEF Due
  <2>5. \A t \in Subscriber : \A i \in DOMAIN channel[t] :
          t # s /\ channel[t][i].node \in Remote
    BY <1>0, <2>2
  <2>6. NotAhead'
    BY <1>0, <2>1, <2>2, <2>3, <2>4 DEF OrderInv, NotAhead
  <2>7. QueuedNotAhead'
    BY <2>1, <2>4, <2>5 DEF OrderInv, QueuedNotAhead
  <2>8. NewcomersEmpty'
    BY <2>1, <2>4 DEF OrderInv, NewcomersEmpty
  <2>9. InTurn'
    BY <2>1, <2>3, <2>5 DEF OrderInv, InTurn
  <2> QED
    BY <2>6, <2>7, <2>8, <2>9 DEF OrderInv
<1>4. ASSUME NEW s \in Subscriber, Unsubscribe(s) PROVE OrderInv'
  BY <1>4, OrderKept DEF Unsubscribe, Due
<1>5. ASSUME NEW s \in Subscriber, Take(s) PROVE OrderInv'
  <2>0. channel[s] \in Seq(Event) /\ channel[s] # <<>>
    BY <1>0, <1>5 DEF Take
  <2>e. PICK e \in Event : e = Head(channel[s])
    BY <2>0, HeadTailProperties
  <2>n. PICK n \in Nat : n = Len(channel[s])
    BY <2>0
  <2>1. /\ UNCHANGED <<pending, published, joined>> /\ channel[s] # <<>>
        /\ channel' = [channel EXCEPT ![s] = Tail(@)]
        /\ seen' = [seen EXCEPT ![s][e.node] = e.seq]
    BY <1>5, <2>e DEF Take
  <2>2. /\ e = channel[s][1] /\ e \in Event /\ n \in Nat \ {0}
        /\ DOMAIN channel[s] = 1..n /\ DOMAIN Tail(channel[s]) = 1..(n - 1)
        /\ \A i \in 1..(n - 1) : Tail(channel[s])[i] = channel[s][i + 1]
    BY <2>0, <2>e, <2>n, HeadTailProperties
  <2>3. /\ channel'[s] = Tail(channel[s])
        /\ \A t \in Subscriber : t # s => channel'[t] = channel[t] /\ seen'[t] = seen[t]
        /\ seen'[s] = [seen[s] EXCEPT ![e.node] = e.seq]
    BY <1>0, <2>1
  <2>4. /\ e.node \in Remote /\ e.seq \in Nat /\ seen'[s][e.node] = e.seq
        /\ \A r \in Remote : r # e.node => seen'[s][r] = seen[s][r]
    BY <1>0, <2>2, <2>3
  <2>5. \A t \in Subscriber, r \in Remote : Due(t, r)' <=> Due(t, r)
    BY <2>1 DEF Due
  <2>6. 1 \in DOMAIN channel[s]
    BY <2>2
  <2>7. NotAhead'
    <3>1. e.seq <= published[e.node] /\ (Due(s, e.node) => e.seq < published[e.node])
      BY <2>2, <2>4, <2>6 DEF OrderInv, QueuedNotAhead
    <3> QED
      BY <2>1, <2>3, <2>4, <2>5, <3>1 DEF OrderInv, NotAhead
  <2>8. ASSUME NEW t \in Subscriber, NEW i \in DOMAIN channel'[t]
        PROVE  \E k \in DOMAIN channel[t] :
                 /\ channel'[t][i] = channel[t][k]
                 /\ k = IF t = s THEN i + 1 ELSE i
    <3>1. CASE t # s
      BY <2>3, <2>8, <3>1
    <3>2. CASE t = s
      <4>0. i \in DOMAIN channel'[s]
        BY <2>8, <3>2
      <4>1. i \in 1..(n - 1) /\ i \in Int
        BY <2>2, <2>3, <4>0
      <4>2. i + 1 \in DOMAIN channel[s]
        BY <2>2, <4>1
      <4> QED
        BY <2>2, <2>3, <3>2, <4>1, <4>2
    <3> QED
      BY <3>1, <3>2
  <2>9. QueuedNotAhead'
    <3> SUFFICES ASSUME NEW t \in Subscriber, NEW q \in Remote, NEW i \in DOMAIN channel'[t],
                        channel'[t][i].node = q
                 PROVE  /\ channel'[t][i].seq <= published[q]
                        /\ Due(t, q)' => channel'[t][i].seq < published[q]
      BY <2>1 DEF QueuedNotAhead
    <3>1. PICK k \in DOMAIN channel[t] : channel'[t][i] = channel[t][k]
      BY <2>8
    <3> QED
      BY <2>5, <3>1 DEF OrderInv, QueuedNotAhead
  <2>10. NewcomersEmpty'
    <3>1. s \in joined
      BY <2>1 DEF OrderInv, NewcomersEmpty
    <3> QED
      BY <2>1, <2>3, <2>5, <3>1 DEF OrderInv, NewcomersEmpty
  <2>11. InTurn'
    <3> SUFFICES ASSUME NEW t \in Subscriber, NEW i \in DOMAIN channel'[t]
                 PROVE  /\ seen'[t][channel'[t][i].node] < channel'[t][i].seq
                        /\ \A j \in DOMAIN channel'[t] :
                             i < j /\ channel'[t][j].node = channel'[t][i].node =>
                               channel'[t][i].seq < channel'[t][j].seq
      BY DEF InTurn
    <3>1. CASE t # s
      BY <2>3, <3>1 DEF OrderInv, InTurn
    <3>2. CASE t = s
      <4>1. i \in 1..(n - 1) /\ i + 1 \in DOMAIN channel[s] /\ channel'[s][i] = channel[s][i + 1]
        <5>1. i \in 1..(n - 1)
          BY <2>2, <2>3, <3>2
        <5> QED
          BY <2>2, <2>3, <5>1
      <4> DEFINE f == channel[s][i + 1]
      <4>2. f.node \in Remote
        BY <1>0, <4>1
      <4>3. /\ seen[s][f.node] < f.seq
            /\ 1 < i + 1 /\ f.node = e.node => e.seq < f.seq
        BY <2>2, <2>6, <4>1 DEF OrderInv, InTurn
      <4>4. seen'[s][f.node] < f.seq
        BY <2>4, <4>1, <4>2, <4>3
      <4>5. ASSUME NEW j \in DOMAIN channel'[s], i < j, channel'[s][j].node = f.node
            PROVE  f.seq < channel'[s][j].seq
        <5>1. j + 1 \in DOMAIN channel[s] /\ channel'[s][j] = channel[s][j + 1] /\ i + 1 < j + 1
          BY <2>2, <2>3, <4>1, <4>5
        <5> QED
          BY <4>1, <4>5, <5>1 DEF OrderInv, InTurn
      <4> QED
        BY <3>2, <4>1, <4>4, <4>5
    <3> QED
      BY <3>1, <3>2
  <2> QED
    BY <2>7, <2>9, <2>10, <2>11 DEF OrderInv
<1>6. CASE PopEvent
  BY <1>6, OrderKept DEF PopEvent, Due
<1>7. CASE Close
  BY <1>7, OrderKept DEF Close, Due
<1>8. CASE UNCHANGED vars
  BY <1>8, OrderKept DEF vars, Due
<1> QED
  BY <1>1, <1>2, <1>3, <1>4, <1>5, <1>6, <1>7, <1>8 DEF Next

\* However Publish, which sends without the pump's lock, interleaves with other
\* publishers, with subscribers that come, go or are slow, and with Close, the
\* events of a node reach each subscriber in the order they were published and
\* none of them twice (events.go:198-220).
THEOREM EventsInTurn == Spec => []InTurn
<1>1. OrderInv => InTurn
  BY DEF OrderInv
<1> QED
  BY PumpTypeInit, PumpTypeStep, OrderInit, OrderStep, <1>1, PTL DEF Spec

-----------------------------------------------------------------------------
(* Nothing is missed. *)

\* The numbers of r's events in a channel.
SeqsOf(q, r) == {q[i].seq : i \in {j \in DOMAIN q : q[j].node = r}}

LEMMA SeqsMembers ==
  ASSUME NEW q, NEW r, NEW k
  PROVE  k \in SeqsOf(q, r) <=> \E i \in DOMAIN q : q[i].node = r /\ q[i].seq = k
  BY DEF SeqsOf

LEMMA SeqsAppend ==
  ASSUME NEW q \in Seq(Event), NEW e \in Event, NEW r
  PROVE  SeqsOf(Append(q, e), r) = SeqsOf(q, r) \cup (IF e.node = r THEN {e.seq} ELSE {})
<1> DEFINE t == Append(q, e)
<1>1. /\ DOMAIN q = 1..Len(q) /\ Len(q) \in Nat
      /\ DOMAIN t = 1..(Len(q) + 1)
      /\ \A i \in 1..Len(q) : t[i] = q[i]
      /\ t[Len(q) + 1] = e
  BY AppendProperties, LenProperties
<1> HIDE DEF t
<1>2. \A i \in DOMAIN t : (i \in DOMAIN q /\ t[i] = q[i]) \/ (i = Len(q) + 1 /\ t[i] = e)
  BY <1>1
<1>3. \A i \in DOMAIN q : i \in DOMAIN t /\ t[i] = q[i]
  BY <1>1
<1>4. Len(q) + 1 \in DOMAIN t /\ t[Len(q) + 1] = e
  BY <1>1
<1>5. \A k : k \in SeqsOf(t, r) <=> k \in SeqsOf(q, r) \/ (e.node = r /\ k = e.seq)
  BY <1>2, <1>3, <1>4, SeqsMembers
<1> QED  BY <1>5 DEF t

LEMMA SeqsTail ==
  ASSUME NEW q \in Seq(Event), q # <<>>, NEW r
  PROVE  SeqsOf(q, r) = SeqsOf(Tail(q), r) \cup (IF Head(q).node = r THEN {Head(q).seq} ELSE {})
<1> DEFINE t == Tail(q)
<1>1. /\ DOMAIN q = 1..Len(q) /\ Len(q) \in Nat \ {0}
      /\ DOMAIN t = 1..(Len(q) - 1)
      /\ \A i \in 1..(Len(q) - 1) : t[i] = q[i + 1]
      /\ Head(q) = q[1]
  BY HeadTailProperties, LenProperties
<1> HIDE DEF t
<1>2. \A i \in DOMAIN t : i + 1 \in DOMAIN q /\ t[i] = q[i + 1]
  BY <1>1
<1>3. \A i \in DOMAIN q : (i = 1 /\ q[i] = Head(q)) \/ (i - 1 \in DOMAIN t /\ t[i - 1] = q[i])
  BY <1>1
<1>4. 1 \in DOMAIN q /\ q[1] = Head(q)
  BY <1>1
<1>5. \A k : k \in SeqsOf(q, r) <=> k \in SeqsOf(t, r) \/ (Head(q).node = r /\ k = Head(q).seq)
  BY <1>2, <1>3, <1>4, SeqsMembers
<1> QED  BY <1>5 DEF t

\* What s has or gets of r.
Known(s, r) ==
  {seen[s][r]} \cup Coming(s, r) \cup (IF Due(s, r) THEN {published[r]} ELSE {})

Listens(s) == \E i \in DOMAIN listeners : listeners[i] = s

AllKnown ==
  \A s \in Subscriber, r \in Remote :
    Listens(s) /\ s \notin missed => Known(s, r) = seen[s][r]..published[r]

LEMMA KnownInit == Init => AllKnown
  BY DEF Init, AllKnown, Listens

LEMMA KnownSame ==
  ASSUME NEW s \in Subscriber, NEW r \in Remote,
         channel'[s] = channel[s], seen'[s][r] = seen[s][r], published'[r] = published[r],
         Due(s, r)' <=> Due(s, r), Known(s, r) = seen[s][r]..published[r]
  PROVE  (Known(s, r) = seen[s][r]..published[r])'
<1>1. Coming(s, r)' = Coming(s, r)
  BY DEF Coming
<1> QED  BY <1>1 DEF Known

LEMMA KnownStep == TypeInv /\ OrderInv /\ AllKnown /\ [Next]_vars => AllKnown'
<1> SUFFICES ASSUME TypeInv, OrderInv, AllKnown, [Next]_vars,
                    NEW s \in Subscriber, NEW r \in Remote, Listens(s)', s \notin missed'
             PROVE  (Known(s, r) = seen[s][r]..published[r])'
  BY DEF AllKnown
<1>0. /\ published \in [Remote -> Nat] /\ seen \in [Subscriber -> [Remote -> Nat]]
      /\ channel \in [Subscriber -> Seq(Event)]
      /\ pending \in [Remote -> Seq(Subscriber)]
      /\ \A e \in Event : e.node \in Remote /\ e.seq \in Nat
  <2>1. published \in [Remote -> Nat] /\ seen \in [Subscriber -> [Remote -> Nat]]
    BY PumpAssumption DEF TypeInv, TypeOK, PumpAssumption
  <2>2. channel \in [Subscriber -> Seq(Event)] /\ pending \in [Remote -> Seq(Subscriber)]
    BY DEF TypeInv, TypeOK
  <2> QED
    BY <2>1, <2>2, EventFields
<1>1. Listens(s) /\ s \notin missed => Known(s, r) = seen[s][r]..published[r]
  BY DEF AllKnown
<1>2. ASSUME NEW q \in Remote, Publish(q)
      PROVE  (Known(s, r) = seen[s][r]..published[r])'
  <2>1. /\ published' = [published EXCEPT ![q] = @ + 1]
        /\ pending' = [pending EXCEPT ![q] = listeners]
        /\ pending[q] = <<>>
        /\ UNCHANGED <<channel, seen, listeners, missed>>
    BY <1>2 DEF Publish
  <2>2. Known(s, r) = seen[s][r]..published[r] /\ Listens(s)
    BY <1>1, <2>1 DEF Listens
  <2>3. CASE r # q
    <3>1. published'[r] = published[r] /\ (Due(s, r)' <=> Due(s, r))
      BY <1>0, <2>1, <2>3 DEF Due
    <3> QED  BY <2>1, <2>2, <3>1, KnownSame
  <2>4. CASE r = q
    <3>1. published'[r] = published[r] + 1 /\ pending'[r] = listeners
      BY <1>0, <2>1, <2>4
    <3>2. Due(s, r)' /\ ~Due(s, r)
      BY <2>1, <2>2, <2>4, <3>1 DEF Due, Listens
    <3>3. Coming(s, r)' = Coming(s, r)
      BY <2>1 DEF Coming
    <3>4. seen[s][r] <= published[r] /\ seen[s][r] \in Nat /\ published[r] \in Nat
      BY <1>0 DEF OrderInv, NotAhead
    <3>5. Known(s, r)' = Known(s, r) \cup {published[r] + 1}
      BY <2>1, <3>1, <3>2, <3>3 DEF Known
    <3>6. (seen[s][r]..published[r]) \cup {published[r] + 1} = seen[s][r]..(published[r] + 1)
      BY <3>4
    <3> QED  BY <2>1, <2>2, <3>1, <3>5, <3>6
  <2> QED  BY <2>3, <2>4
<1>3. ASSUME NEW q \in Remote, Deliver(q)
      PROVE  (Known(s, r) = seen[s][r]..published[r])'
  <2>1. /\ pending[q] \in Seq(Subscriber) /\ pending[q] # <<>> /\ NoRepeats(pending[q])
        /\ pending' = [pending EXCEPT ![q] = Tail(@)]
        /\ UNCHANGED <<listeners, published, seen, joined>>
    BY <1>3 DEF Deliver, TypeInv, TypeOK
  <2>h. PICK h \in Subscriber : h = Head(pending[q])
    BY <2>1, HeadTailProperties
  <2>e. PICK e \in Event : e = [node |-> q, seq |-> published[q]]
    <3>1. published[q] \in 1..MaxEvents
      BY <2>1, PumpAssumption DEF TypeInv, TypeOK, DeliveryNumbered, PumpAssumption
    <3> QED
      BY <3>1, PumpAssumption DEF PumpAssumption
  <2>2. \/ channel' = [channel EXCEPT ![h] = Append(@, e)] /\ missed' = missed
        \/ channel' = channel /\ missed' = missed \cup {h}
    BY <1>3, <2>h, <2>e DEF Deliver
  <2>3. Known(s, r) = seen[s][r]..published[r]
    BY <1>1, <2>1, <2>2 DEF Listens
  <2>4. /\ pending'[q] = Tail(pending[q])
        /\ \A p \in Remote : p # q => pending'[p] = pending[p]
    BY <1>0, <2>1
  <2>5. /\ h = pending[q][1] /\ Len(pending[q]) \in Nat \ {0}
        /\ \A i \in 1..(Len(pending[q]) - 1) : Tail(pending[q])[i] = pending[q][i + 1]
        /\ DOMAIN Tail(pending[q]) = 1..(Len(pending[q]) - 1)
        /\ DOMAIN pending[q] = 1..Len(pending[q])
    BY <2>1, <2>h, HeadTailProperties, LenProperties
  <2>6. \A p \in Remote : p # q => (Due(s, p)' <=> Due(s, p))
    BY <2>4 DEF Due
  <2>7. s # h => (Due(s, q)' <=> Due(s, q))
    <3> SUFFICES ASSUME s # h  PROVE Due(s, q)' <=> Due(s, q)
      OBVIOUS
    <3>1. ASSUME NEW i \in DOMAIN pending[q], pending[q][i] = s
          PROVE  i - 1 \in DOMAIN pending'[q] /\ pending'[q][i - 1] = s
      <4>1. i # 1 /\ i \in 1..Len(pending[q])
        BY <2>5, <3>1
      <4>2. i - 1 \in 1..(Len(pending[q]) - 1) /\ (i - 1) + 1 = i
        BY <2>5, <4>1
      <4> QED  BY <2>4, <2>5, <3>1, <4>2
    <3>2. ASSUME NEW i \in DOMAIN pending'[q], pending'[q][i] = s
          PROVE  i + 1 \in DOMAIN pending[q] /\ pending[q][i + 1] = s
      BY <2>4, <2>5, <3>2
    <3> QED  BY <3>1, <3>2 DEF Due
  <2>8. Due(h, q) /\ ~Due(h, q)'
    <3>1. Due(h, q)
      BY <2>5 DEF Due
    <3>2. ASSUME NEW i \in DOMAIN pending'[q], pending'[q][i] = h
          PROVE  FALSE
      <4>1. i + 1 \in DOMAIN pending[q] /\ pending[q][i + 1] = pending[q][1] /\ i + 1 # 1
            /\ 1 \in DOMAIN pending[q]
        BY <2>4, <2>5, <3>2
      <4> QED  BY <2>1, <4>1 DEF NoRepeats
    <3> QED  BY <3>1, <3>2 DEF Due
  <2>9. CASE s # h
    <3>1. channel'[s] = channel[s]
      BY <1>0, <2>2, <2>9
    <3>2. Due(s, r)' <=> Due(s, r)
      BY <2>6, <2>7, <2>9
    <3> QED  BY <2>1, <2>3, <3>1, <3>2, KnownSame
  <2>10. CASE s = h
    <3>1. channel'[s] = Append(channel[s], e) /\ channel[s] \in Seq(Event)
      BY <1>0, <2>2, <2>10
    <3>2. Coming(s, r)' = Coming(s, r) \cup (IF q = r THEN {published[q]} ELSE {})
      <4>1. SeqsOf(channel'[s], r) = SeqsOf(channel[s], r) \cup (IF e.node = r THEN {e.seq} ELSE {})
        BY <3>1, SeqsAppend
      <4>2. e.node = q /\ e.seq = published[q]
        BY <2>e
      <4> QED  BY <4>1, <4>2 DEF Coming, SeqsOf
    <3>3. CASE r # q
      <4>1. Coming(s, r)' = Coming(s, r) /\ (Due(s, r)' <=> Due(s, r))
        BY <2>6, <3>2, <3>3
      <4> QED  BY <2>1, <2>3, <4>1 DEF Known
    <3>4. CASE r = q
      <4>1. Known(s, r)' = Known(s, r)
        BY <2>1, <2>8, <2>10, <3>2, <3>4 DEF Known
      <4> QED  BY <2>1, <2>3, <4>1
    <3> QED  BY <3>3, <3>4
  <2> QED  BY <2>9, <2>10
<1>4. ASSUME NEW t \in Subscriber, Subscribe(t)
      PROVE  (Known(s, r) = seen[s][r]..published[r])'
  <2>1. /\ UNCHANGED <<channel, pending, published, missed>> /\ t \notin joined
        /\ seen' = [seen EXCEPT ![t] = published]
        /\ listeners' = listeners \/ listeners' = Append(listeners, t)
    BY <1>4 DEF Subscribe
  <2>2. Due(s, r)' <=> Due(s, r)
    BY <2>1 DEF Due
  <2>3. CASE s = t
    <3>1. channel[s] = <<>> /\ ~Due(s, r) /\ seen'[s][r] = published[r] /\ published[r] \in Nat
      BY <1>0, <2>1, <2>3 DEF OrderInv, NewcomersEmpty
    <3>2. Coming(s, r)' = {}
      BY <2>1, <3>1 DEF Coming
    <3>3. Known(s, r)' = {published[r]}
      BY <2>2, <3>1, <3>2 DEF Known
    <3>4. {published[r]} = published[r]..published[r]
      BY <3>1
    <3> QED  BY <2>1, <3>1, <3>3, <3>4
  <2>4. CASE s # t
    <3>1. Listens(s)
      <4>1. listeners \in Seq(Subscriber)
        BY DEF TypeInv, TypeOK
      <4>2. CASE listeners' = listeners
        BY <4>2 DEF Listens
      <4>3. CASE listeners' = Append(listeners, t)
        <5>1. PICK i \in DOMAIN listeners' : listeners'[i] = s
          BY DEF Listens
        <5>2. i \in DOMAIN listeners /\ listeners[i] = s
          BY <2>4, <4>1, <4>3, <5>1, AppendProperties, LenProperties
        <5> QED  BY <5>2 DEF Listens
      <4> QED  BY <2>1, <4>2, <4>3
    <3>2. seen'[s] = seen[s]
      BY <1>0, <2>1, <2>4
    <3> QED  BY <1>1, <2>1, <2>2, <3>1, <3>2, KnownSame
  <2> QED  BY <2>3, <2>4
<1>5. ASSUME NEW t \in Subscriber, Unsubscribe(t)
      PROVE  (Known(s, r) = seen[s][r]..published[r])'
  <2>1. PICK i \in DOMAIN listeners :
          listeners' = [j \in 1..(Len(listeners) - 1) |->
                          IF j < i THEN listeners[j] ELSE listeners[j + 1]]
    BY <1>5 DEF Unsubscribe
  <2>2. UNCHANGED <<channel, pending, published, seen, missed>>
    BY <1>5 DEF Unsubscribe
  <2>3. \A j \in DOMAIN listeners' : \E k \in DOMAIN listeners : listeners'[j] = listeners[k]
    <3>1. listeners \in Seq(Subscriber) /\ NoRepeats(listeners)
      BY DEF TypeInv, TypeOK
    <3> QED  BY <2>1, <3>1, DropOne
  <2>4. Listens(s)
    BY <2>3 DEF Listens
  <2>5. Due(s, r)' <=> Due(s, r)
    BY <2>2 DEF Due
  <2> QED  BY <1>1, <2>2, <2>4, <2>5, KnownSame
<1>6. ASSUME NEW t \in Subscriber, Take(t)
      PROVE  (Known(s, r) = seen[s][r]..published[r])'
  <2>1. /\ UNCHANGED <<listeners, pending, published, missed>> /\ channel[t] # <<>>
        /\ channel[t] \in Seq(Event)
        /\ channel' = [channel EXCEPT ![t] = Tail(@)]
        /\ seen' = [seen EXCEPT ![t][Head(channel[t]).node] = Head(channel[t]).seq]
    BY <1>0, <1>6 DEF Take
  <2>2. Due(s, r)' <=> Due(s, r)
    BY <2>1 DEF Due
  <2>3. Known(s, r) = seen[s][r]..published[r]
    BY <1>1, <2>1 DEF Listens
  <2>e. PICK e \in Event : e = Head(channel[t])
    BY <2>1, HeadTailProperties
  <2>4. CASE s # t
    <3>1. channel'[s] = channel[s] /\ seen'[s] = seen[s]
      BY <1>0, <2>1, <2>4
    <3> QED  BY <2>1, <2>2, <2>3, <3>1, KnownSame
  <2>5. CASE s = t
    <3>1. /\ channel'[s] = Tail(channel[s])
          /\ seen'[s] = [seen[s] EXCEPT ![e.node] = e.seq]
      BY <1>0, <2>1, <2>e, <2>5
    <3>2. Coming(s, r) = Coming(s, r)' \cup (IF e.node = r THEN {e.seq} ELSE {})
      <4>1. SeqsOf(channel[s], r) =
              SeqsOf(Tail(channel[s]), r) \cup (IF e.node = r THEN {e.seq} ELSE {})
        BY <2>1, <2>5, <2>e, SeqsTail
      <4> QED  BY <3>1, <4>1 DEF Coming, SeqsOf
    <3>3. CASE r # e.node
      <4>1. seen'[s][r] = seen[s][r] /\ Coming(s, r)' = Coming(s, r)
        BY <1>0, <3>1, <3>2, <3>3
      <4> QED  BY <2>1, <2>2, <2>3, <4>1 DEF Known
    <3>4. CASE r = e.node
      <4>0. seen'[s][r] = e.seq /\ e.seq \in Nat
        BY <1>0, <3>1, <3>4
      <4>1. \A k \in Coming(s, r) : k \in Nat /\ e.seq <= k /\ k <= published[r]
                                    /\ (Due(s, r) => k < published[r])
        <5> SUFFICES ASSUME NEW i \in DOMAIN channel[s], channel[s][i].node = r
                     PROVE  /\ channel[s][i].seq \in Nat /\ e.seq <= channel[s][i].seq
                            /\ channel[s][i].seq <= published[r]
                            /\ Due(s, r) => channel[s][i].seq < published[r]
          BY DEF Coming
        <5>1. /\ channel[s][1] = e /\ DOMAIN channel[s] = 1..Len(channel[s]) /\ Len(channel[s]) \in Nat
              /\ channel[s][i] \in Event
          BY <2>1, <2>5, <2>e, HeadTailProperties, LenProperties
        <5>2. 1 \in DOMAIN channel[s] /\ (i = 1 \/ 1 < i)
          BY <5>1
        <5>3. 1 < i => e.seq < channel[s][i].seq
          BY <3>4, <5>1, <5>2 DEF OrderInv, InTurn
        <5>4. channel[s][i].seq \in Nat /\ e.seq <= channel[s][i].seq
          BY <1>0, <4>0, <5>1, <5>2, <5>3
        <5> QED  BY <5>4 DEF OrderInv, QueuedNotAhead
      <4>2. \A k \in Coming(s, r)' : e.seq < k
        <5> SUFFICES ASSUME NEW i \in DOMAIN channel'[s], channel'[s][i].node = r
                     PROVE  e.seq < channel'[s][i].seq
          BY DEF Coming
        <5>1. InTurn'
          BY OrderStep DEF OrderInv
        <5>2. seen'[s][r] < channel'[s][i].seq
          BY <5>1 DEF InTurn
        <5> QED  BY <4>0, <5>2
      <4>3. seen[s][r] < e.seq /\ e.seq \in Coming(s, r)
        <5>1. e.seq \in Coming(s, r)
          BY <3>2, <3>4
        <5>2. channel[s][1] = e /\ 1 \in DOMAIN channel[s]
          BY <2>1, <2>5, <2>e, HeadTailProperties, LenProperties
        <5> QED  BY <3>4, <5>1, <5>2 DEF OrderInv, InTurn
      <4>4. /\ seen[s][r] \in Nat /\ published[r] \in Nat
            /\ \A k \in Nat : k \in Known(s, r) <=> seen[s][r] <= k /\ k <= published[r]
        BY <1>0, <2>3
      <4>5. \A k : k \in Known(s, r) <=>
                     k = seen[s][r] \/ k \in Coming(s, r) \/ (Due(s, r) /\ k = published[r])
        BY DEF Known
      <4>6. \A k : k \in Known(s, r)' <=>
                     k = e.seq \/ k \in Coming(s, r)' \/ (Due(s, r) /\ k = published[r])
        BY <2>1, <2>2, <4>0 DEF Known
      <4>7. \A k : k \in Coming(s, r) <=> k \in Coming(s, r)' \/ k = e.seq
        BY <3>2, <3>4
      <4>8. \A k : k \in Known(s, r)' <=> k \in Known(s, r) /\ k # seen[s][r]
        <5>1. Due(s, r) => seen[s][r] < published[r]
          BY DEF OrderInv, NotAhead
        <5>2. \A k \in Coming(s, r) : k # seen[s][r]
          BY <4>0, <4>1, <4>3, <4>4
        <5>3. Due(s, r) => published[r] # seen[s][r]
          BY <4>4, <5>1
        <5> QED  BY <4>3, <4>5, <4>6, <4>7, <5>2, <5>3
      <4>9. e.seq = seen[s][r] + 1
        <5>1. seen[s][r] + 1 <= published[r]
          BY <4>0, <4>1, <4>3, <4>4
        <5>2. seen[s][r] + 1 \in Known(s, r)
          BY <4>4, <5>1
        <5>3. seen[s][r] + 1 \in Coming(s, r) \/ (Due(s, r) /\ seen[s][r] + 1 = published[r])
          BY <4>4, <4>5, <5>2
        <5>4. e.seq <= seen[s][r] + 1
          BY <4>0, <4>1, <4>3, <4>4, <5>3
        <5> QED  BY <4>0, <4>3, <4>4, <5>4
      <4>10. \A k : k \in Known(s, r)' <=> k \in e.seq..published[r]
        <5>1. \A k : k \in Known(s, r) <=> k \in seen[s][r]..published[r]
          BY <2>3
        <5>2. \A k : k \in seen[s][r]..published[r] /\ k # seen[s][r]
                       <=> k \in (seen[s][r] + 1)..published[r]
          BY <4>4
        <5> QED  BY <4>8, <4>9, <5>1, <5>2
      <4> QED  BY <2>1, <4>0, <4>10
    <3> QED  BY <3>3, <3>4
  <2> QED  BY <2>4, <2>5
<1>7. CASE PopEvent \/ UNCHANGED vars
  <2>1. UNCHANGED <<listeners, channel, pending, published, seen, missed>>
    BY <1>7 DEF PopEvent, vars
  <2>2. Listens(s) /\ s \notin missed /\ (Due(s, r)' <=> Due(s, r))
    BY <2>1 DEF Listens, Due
  <2> QED  BY <1>1, <2>1, <2>2, KnownSame
<1>8. CASE Close
  BY <1>8 DEF Close, Listens
<1> QED
  BY <1>2, <1>3, <1>4, <1>5, <1>6, <1>7, <1>8 DEF Next

\* A subscriber whose channel never was full when an event came has, or is
\* about to get, each event of each node since it subscribed: nobody who comes,
\* goes or is slow makes Publish skip it (events.go:198-220).
THEOREM NoEventMissed == Spec => []NothingMissed
<1>1. TypeInv /\ AllKnown => NothingMissed
  <2> SUFFICES ASSUME TypeInv, AllKnown, NEW i \in DOMAIN listeners, NEW r \in Remote,
                      listeners[i] \notin missed
               PROVE  Known(listeners[i], r) = seen[listeners[i]][r]..published[r]
    BY DEF NothingMissed, Known
  <2>1. listeners[i] \in Subscriber
    BY DEF TypeInv, TypeOK
  <2> QED  BY <2>1 DEF AllKnown, Listens
<1> QED
  BY PumpTypeInit, PumpTypeStep, OrderInit, OrderStep, KnownInit, KnownStep, <1>1, PTL DEF Spec
=============================================================================
