------------------------------ MODULE EventPump ------------------------------
(***************************************************************************)
(* The event pump of a topology (pkg/mesh/events.go): what happens to      *)
(* remote nodes, published by the goroutines of their connections, goes to *)
(* the event buffer and to the channels of the subscribers.                *)
(*                                                                         *)
(* The events of one remote node are published one after the other:        *)
(* handlePeerDisconnected is back from Publish before RemovePeer frees the *)
(* slot, and AddPeer publishes before it returns.  So a node stands for    *)
(* the goroutine that publishes its events, and its events are numbered.   *)
(* (Once Stop has emptied the peer map, a node that connects again may     *)
(* publish while its disconnection is still being published: what Stop     *)
(* does then is Topology's subject, not this module's.)                    *)
(***************************************************************************)
EXTENDS EventBuffer, FiniteSets

CONSTANTS
  Remote,      \* the remote nodes
  Subscriber,  \* channels that Events makes
  ChannelSize, \* their capacity
  MaxEvents    \* bound on the events of one node

ASSUME PumpAssumption ==
  /\ Event = [node : Remote, seq : 1..MaxEvents]
  /\ ChannelSize \in Nat \ {0}
  /\ MaxEvents \in Nat

VARIABLES
  buffer,     \* eventPump.buffer
  listeners,  \* eventPump.listeners
  closed,     \* eventPump.closed
  channel,    \* channel[s]: the events in the channel s
  pending,    \* pending[r]: the listeners Publish still has to serve, in order
  published,  \* published[r]: how many events of r were published
  seen,       \* seen[s][r]: the last event of r that s knows of
  missed,     \* history: subscribers an event was not sent to, their channel full
  joined      \* history: the channels Events has made

vars == <<buffer, listeners, closed, channel, pending, published, seen, missed, joined>>

Init ==
  /\ buffer = EmptyBuffer
  /\ listeners = <<>>
  /\ closed = FALSE
  /\ channel = [s \in Subscriber |-> <<>>]
  /\ pending = [r \in Remote |-> <<>>]
  /\ published = [r \in Remote |-> 0]
  /\ seen = [s \in Subscriber |-> [r \in Remote |-> 0]]
  /\ missed = {}
  /\ joined = {}

\* Mutant: Events hands out one channel and subscribes it every time.
SubscribeAgain(s) ==
  /\ Len(listeners) < 3
  /\ joined' = joined \cup {s}
  /\ listeners' = IF closed THEN listeners ELSE Append(listeners, s)
  /\ seen' = [seen EXCEPT ![s] = published]
  /\ UNCHANGED <<buffer, closed, channel, pending, published, missed>>

\* Events makes a channel and subscribes it; what was published before is
\* known from GetPeers. A closed pump does not listen.
Subscribe(s) ==
  /\ s \notin joined
  /\ joined' = joined \cup {s}
  /\ listeners' = IF closed THEN listeners ELSE Append(listeners, s)
  /\ seen' = [seen EXCEPT ![s] = published]
  /\ UNCHANGED <<buffer, closed, channel, pending, published, missed>>

Unsubscribe(s) ==
  \E i \in DOMAIN listeners :
    /\ listeners[i] = s
    /\ listeners' = [j \in 1..(Len(listeners) - 1) |->
                       IF j < i THEN listeners[j] ELSE listeners[j + 1]]
    /\ UNCHANGED <<buffer, closed, channel, pending, published, seen, missed, joined>>

\* Publish, as far as it holds the pump's read lock: the event is buffered
\* and the listeners are copied.
Publish(r) ==
  /\ pending[r] = <<>>
  /\ published[r] < MaxEvents
  /\ ~closed
  /\ published' = [published EXCEPT ![r] = @ + 1]
  /\ buffer' = Push(buffer, [node |-> r, seq |-> published'[r]])
  /\ pending' = [pending EXCEPT ![r] = listeners]
  /\ UNCHANGED <<listeners, closed, channel, seen, missed, joined>>

\* Mutant: Publish gives up at the first full channel.
DeliverGivesUp(r) ==
  /\ pending[r] # <<>>
  /\ LET s == Head(pending[r]) IN
     IF Len(channel[s]) < ChannelSize
     THEN /\ channel' = [channel EXCEPT ![s] = Append(@, [node |-> r, seq |-> published[r]])]
          /\ pending' = [pending EXCEPT ![r] = Tail(@)]
          /\ UNCHANGED missed
     ELSE /\ missed' = missed \cup {s}
          /\ pending' = [pending EXCEPT ![r] = <<>>]
          /\ UNCHANGED channel
  /\ UNCHANGED <<buffer, listeners, closed, published, seen, joined>>

\* Without a lock: the next listener gets the event if its channel has room.
Deliver(r) ==
  /\ pending[r] # <<>>
  /\ pending' = [pending EXCEPT ![r] = Tail(@)]
  /\ LET s == Head(pending[r]) IN
     IF Len(channel[s]) < ChannelSize
     THEN /\ channel' = [channel EXCEPT ![s] = Append(@, [node |-> r, seq |-> published[r]])]
          /\ UNCHANGED missed
     ELSE /\ missed' = missed \cup {s}
          /\ UNCHANGED channel
  /\ UNCHANGED <<buffer, listeners, closed, published, seen, joined>>

\* The subscriber, the engine's loop, takes an event.
Take(s) ==
  /\ channel[s] # <<>>
  /\ channel' = [channel EXCEPT ![s] = Tail(@)]
  /\ seen' = [seen EXCEPT ![s][Head(channel[s]).node] = Head(channel[s]).seq]
  /\ UNCHANGED <<buffer, listeners, closed, pending, published, missed, joined>>

\* The buffer's reader, of the same package.
PopEvent ==
  /\ buffer.size > 0
  /\ buffer' = Pop(buffer)
  /\ UNCHANGED <<listeners, closed, channel, pending, published, seen, missed, joined>>

Close ==
  /\ ~closed
  /\ closed' = TRUE
  /\ listeners' = <<>>
  /\ buffer' = Clear(buffer)
  /\ UNCHANGED <<channel, pending, published, seen, missed, joined>>

Next ==
  \/ \E r \in Remote : Publish(r) \/ Deliver(r)
  \/ \E s \in Subscriber : Subscribe(s) \/ Unsubscribe(s) \/ Take(s)
  \/ PopEvent \/ Close

Spec == Init /\ [][Next]_vars
-----------------------------------------------------------------------------
NoRepeats(q) == \A i, j \in DOMAIN q : q[i] = q[j] => i = j

TypeOK ==
  /\ WellFormed(buffer)
  /\ listeners \in Seq(Subscriber) /\ NoRepeats(listeners)
  /\ closed \in BOOLEAN
  /\ channel \in [Subscriber -> Seq(Event)]
  /\ \A s \in Subscriber : Len(channel[s]) <= ChannelSize
  /\ pending \in [Remote -> Seq(Subscriber)]
  /\ \A r \in Remote : NoRepeats(pending[r])
  /\ published \in [Remote -> 0..MaxEvents]
  /\ seen \in [Subscriber -> [Remote -> 0..MaxEvents]]
  /\ missed \subseteq Subscriber
  /\ joined \subseteq Subscriber

\* What s knows or will know of r without a further Publish or Deliver.
Coming(s, r) ==
  {channel[s][i].seq : i \in {j \in DOMAIN channel[s] : channel[s][j].node = r}}

\* Publish still has the latest event of r for s.
Due(s, r) == \E i \in DOMAIN pending[r] : pending[r][i] = s

\* No subscriber is told of a node's disconnection before its connection, or
\* of either twice: the events of a node arrive in order (events.go:198-220).
InTurn ==
  \A s \in Subscriber : \A i \in DOMAIN channel[s] :
    LET e == channel[s][i] IN
    /\ seen[s][e.node] < e.seq
    /\ \A j \in DOMAIN channel[s] :
         i < j /\ channel[s][j].node = e.node => e.seq < channel[s][j].seq

\* A subscriber whose channel always had room, and that is still one, has or
\* gets every event since it subscribed, whoever else subscribes, leaves or
\* is slow.
NothingMissed ==
  \A i \in DOMAIN listeners, r \in Remote :
    LET s == listeners[i] IN
    s \notin missed =>
      {seen[s][r]} \cup Coming(s, r) \cup (IF Due(s, r) THEN {published[r]} ELSE {})
        = seen[s][r]..published[r]

\* The buffer is a queue of the most recent events.
R == INSTANCE RecentEvents WITH recent <- ToSlice(buffer)

ImplementsRecent == R!Spec
=============================================================================
