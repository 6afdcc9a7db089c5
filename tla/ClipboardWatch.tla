--------------------------- MODULE ClipboardWatch ---------------------------
(***************************************************************************)
(* How a platform clipboard notices changes (pkg/clipboard: linux.go,      *)
(* darwin.go, noop.go over command.go): the goroutine that Watch starts,   *)
(* the callers of Write, and the consumer of the channel, which reads the  *)
(* clipboard each time it takes a notification.                            *)
(*                                                                         *)
(* Detection compares the hash of what is read with lastHash, which Write  *)
(* sets too, once its tool is done.  When the comparison takes place       *)
(* depends on the strategy: "polling" compares on every tick, "clipnotify" *)
(* after an event and "changeCount" after the pasteboard's counter moved.  *)
(* A hash stands for its content.                                          *)
(***************************************************************************)
EXTENDS Naturals, FiniteSets

CONSTANTS
  Content,      \* what Read can return
  Blank,        \* the empty content
  Unfit,        \* too large, or not UTF-8: Read refuses it
  Failed,       \* Read's or Write's error; no content
  Installed,    \* the tools found on the PATH
  Strategies,   \* the strategies to consider
  Writer,       \* goroutines that call Write
  ChannelSize,  \* capacity of a channel (the code: 10)
  Hops,         \* wrappers that forward notifications: 0, or 2 when hardened
  MaxCopies, MaxWrites, MaxFailures  \* bounds of the model

ASSUME ClipboardAssumption ==
  /\ Blank \in Content
  /\ {Unfit, Failed} \cap Content = {} /\ Unfit # Failed /\ Failed \notin Nat
  /\ Installed \cap {"wl-paste", "xsel", "xclip"} # {}
  /\ Strategies \subseteq {"polling", "clipnotify", "changeCount", "noop"}
  /\ {ChannelSize, Hops, MaxCopies, MaxWrites, MaxFailures} \subseteq Nat
  /\ ChannelSize > 0

VARIABLES
  strategy,   \* how this clipboard notices changes
  os,         \* what the system clipboard holds
  count,      \* NSPasteboard's changeCount (counted where it is asked for)
  lastHash,   \* the hash of the content last noticed or written
  lastCount,  \* lastChangeCount; Failed stands for -1
  watcher,    \* the goroutine: where it is, what it read
  notes,      \* notes[h]: notifications in the channel behind h wrappers
  closed,     \* the channel is closed
  cancelled,  \* the context of Watch is cancelled
  writing,    \* writing[w]: what w's tool has set and w has yet to record
  reading,    \* the consumer has taken a notification and not read yet
  known,      \* the content the consumer read or wrote last
  slipped,    \* history: the program was not told, see below
  copies, writes, failures  \* bounded counters

watchVars == <<strategy, os, count, lastHash, lastCount, watcher, notes, closed,
               cancelled, writing, reading, known, slipped, copies, writes, failures>>

\* The program cannot know of a change when
\*   - it fell between two runs of clipnotify, or before the first comparison,
\*   - it was taken for no change because a Write had not recorded its hash,
\*   - the consumer, late, read another content than the one it was told of
\*     (and the watcher never sees that one go), or its Read failed.
\* `slipped` remembers that; noticing another change makes up for it.

-----------------------------------------------------------------------------
\* The first tool found, in the order of preference.
Tool == IF "wl-paste" \in Installed THEN "wl-paste"
        ELSE IF "xsel" \in Installed THEN "xsel" ELSE "xclip"

\* Write runs the same tool as Read, with other arguments; wl-paste has none
\* that write, and ignores its input.
ToolWrites == strategy = "changeCount" \/ Tool # "wl-paste"

WatchInit ==
  /\ strategy \in Strategies
  /\ os \in Content
  /\ known = os
  /\ count = 0
  /\ lastHash = IF strategy = "noop" THEN os ELSE Failed
  /\ lastCount = 0
  /\ watcher = [at |-> IF strategy = "noop" THEN "listed" ELSE "init",
                content |-> Failed, count |-> 0]
  /\ notes = [h \in 0..Hops |-> 0]
  /\ closed = FALSE
  /\ cancelled = FALSE
  /\ writing = [w \in Writer |-> Failed]
  /\ reading = FALSE
  /\ slipped = FALSE
  /\ copies = 0 /\ writes = 0 /\ failures = 0

Fails == failures < MaxFailures /\ failures' = failures + 1

\* Read returns r. RunCommand takes exit code 1 without output for an empty
\* clipboard, whatever made the tool exit so; any other failure is an error.
ReadReturns(r) ==
  \/ /\ r = IF os = Unfit THEN Failed ELSE os
     /\ UNCHANGED failures
  \/ r \in {Blank, Failed} /\ Fails

EventDriven == strategy \in {"clipnotify", "changeCount"}

\* A notification sent to the channel h, or skipped when it is full.
Notified(n, h) == [n EXCEPT ![h] = IF @ < ChannelSize THEN @ + 1 ELSE @]

\* A comparison that concludes from `content`: whether no other will follow.
IsLast(content) ==
  /\ content # os
  /\ strategy = "changeCount" => watcher.count = count
  /\ EventDriven

-----------------------------------------------------------------------------
\* The system clipboard is set to c; a blocked clipnotify returns.
Becomes(c) ==
  /\ os' = c
  /\ count' = IF strategy = "changeCount" THEN count + 1 ELSE count
  /\ IF strategy = "clipnotify" /\ watcher.at = "wait"
     THEN watcher' = [watcher EXCEPT !.at = "read"] /\ UNCHANGED slipped
     ELSE slipped' = (slipped \/ strategy = "clipnotify") /\ UNCHANGED watcher

\* A user copies something.
Copy(c) ==
  /\ strategy # "noop"
  /\ copies < MaxCopies
  /\ copies' = copies + 1
  /\ Becomes(c)
  /\ UNCHANGED <<strategy, lastHash, lastCount, notes, closed, cancelled, writing,
                 reading, known, writes, failures>>

\* Write, up to the end of its tool.
Write(w, c) ==
  /\ strategy # "noop"
  /\ writing[w] = Failed
  /\ writes < MaxWrites
  /\ writes' = writes + 1
  /\ \/ /\ IF ToolWrites THEN Becomes(c) ELSE UNCHANGED <<os, count, watcher, slipped>>
        /\ writing' = [writing EXCEPT ![w] = c]
        /\ known' = c
        /\ UNCHANGED failures
     \/ \* It fails or is killed for taking too long, its work done or not.
        /\ Fails
        /\ Becomes(c) \/ UNCHANGED <<os, count, watcher, slipped>>
        /\ UNCHANGED <<writing, known>>
  /\ UNCHANGED <<strategy, lastHash, lastCount, notes, closed, cancelled, reading, copies>>

\* Mutant: Write on darwin records the counter, too.
RecordCounts(w) ==
  /\ writing[w] # Failed
  /\ lastHash' = writing[w]
  /\ lastCount' = IF strategy = "changeCount" THEN count ELSE lastCount
  /\ writing' = [writing EXCEPT ![w] = Failed]
  /\ slipped' = (slipped \/ writing[w] # known)
  /\ UNCHANGED <<strategy, os, count, watcher, notes, closed, cancelled,
                 reading, known, copies, writes, failures>>

\* The rest of Write: the hash, under the clipboard's lock.
Record(w) ==
  /\ writing[w] # Failed
  /\ lastHash' = writing[w]
  /\ writing' = [writing EXCEPT ![w] = Failed]
  /\ slipped' = (slipped \/ writing[w] # known)
  /\ UNCHANGED <<strategy, os, count, lastCount, watcher, notes, closed, cancelled,
                 reading, known, copies, writes, failures>>

-----------------------------------------------------------------------------
\* The content read first becomes the hash to compare with; nobody is told.
InitialRead ==
  /\ watcher.at = "init"
  /\ \E r \in Content \cup {Failed} :
       /\ ReadReturns(r)
       /\ IF strategy = "changeCount" /\ r # Failed
          THEN /\ watcher' = [watcher EXCEPT !.at = "initCount", !.content = r]
               /\ UNCHANGED <<lastHash, slipped>>
          ELSE /\ watcher' = [watcher EXCEPT !.at = "wait"]
               /\ lastHash' = IF r = Failed THEN lastHash ELSE r
               /\ slipped' = (slipped \/ r # known)
  /\ UNCHANGED <<strategy, os, count, lastCount, notes, closed, cancelled, writing,
                 reading, known, copies, writes>>

\* On darwin the counter is asked for after the content.
InitialCount ==
  /\ watcher.at = "initCount"
  /\ \/ lastCount' = count /\ UNCHANGED failures
     \/ lastCount' = Failed /\ Fails
  /\ lastHash' = watcher.content
  /\ slipped' = (slipped \/ watcher.content # known \/ watcher.content # os)
  /\ watcher' = [watcher EXCEPT !.at = "wait", !.content = Failed]
  /\ UNCHANGED <<strategy, os, count, notes, closed, cancelled, writing, reading,
                 known, copies, writes>>

\* Mutant: the counter is taken for seen before the content is read.
TickCounts ==
  /\ watcher.at = "wait"
  /\ \/ strategy = "polling"
     \/ strategy = "changeCount" /\ count # lastCount
  /\ watcher' = [watcher EXCEPT !.at = "read",
                                !.count = IF strategy = "changeCount" THEN count ELSE 0]
  /\ lastCount' = IF strategy = "changeCount" THEN count ELSE lastCount
  /\ UNCHANGED <<strategy, os, count, lastHash, notes, closed, cancelled, writing,
                 reading, known, slipped, copies, writes, failures>>

\* The ticker fires: polling reads, darwin does when the counter has moved
\* (when it cannot be had, nothing happens).
Tick ==
  /\ watcher.at = "wait"
  /\ \/ strategy = "polling"
     \/ strategy = "changeCount" /\ count # lastCount
  /\ watcher' = [watcher EXCEPT !.at = "read",
                                !.count = IF strategy = "changeCount" THEN count ELSE 0]
  /\ UNCHANGED <<strategy, os, count, lastHash, lastCount, notes, closed, cancelled,
                 writing, reading, known, slipped, copies, writes, failures>>

\* clipnotify ends with an error: polling takes over, a second later.
ClipnotifyFails ==
  /\ watcher.at = "wait" /\ strategy = "clipnotify" /\ ~cancelled
  /\ Fails
  /\ watcher' = [watcher EXCEPT !.at = "sleep"]
  /\ UNCHANGED <<strategy, os, count, lastHash, lastCount, notes, closed, cancelled,
                 writing, reading, known, slipped, copies, writes>>

WakeToPoll ==
  /\ watcher.at = "sleep"
  /\ strategy' = "polling"
  /\ watcher' = [watcher EXCEPT !.at = "init"]
  /\ UNCHANGED <<os, count, lastHash, lastCount, notes, closed, cancelled, writing,
                 reading, known, slipped, copies, writes, failures>>

\* Read, in the watcher; after an error the loop goes on.
WatcherRead ==
  /\ watcher.at = "read"
  /\ \E r \in Content \cup {Failed} :
       /\ ReadReturns(r)
       /\ watcher' = [watcher EXCEPT !.at = IF r = Failed THEN "wait" ELSE "judge",
                                     !.content = r]
       /\ slipped' = (slipped \/ (r = Failed /\ strategy = "clipnotify"))
  /\ UNCHANGED <<strategy, os, count, lastHash, lastCount, notes, closed, cancelled,
                 writing, reading, known, copies, writes>>

\* The comparison, and the new hash. Polling drops its lock in between; a Write
\* that records there leaves what it would have left recording before or after.
Judge ==
  /\ watcher.at = "judge"
  /\ lastHash' = watcher.content
  /\ lastCount' = IF strategy = "changeCount" THEN watcher.count ELSE lastCount
  /\ IF watcher.content # lastHash
     THEN /\ watcher' = [watcher EXCEPT !.at = "send", !.content = Failed]
          /\ slipped' = IsLast(watcher.content)
     ELSE /\ watcher' = [watcher EXCEPT !.at = "wait", !.content = Failed]
          /\ slipped' = \/ slipped
                        \/ IsLast(watcher.content)
                        \/ EventDriven /\ \E w \in Writer : writing[w] \notin {Failed, lastHash}
  /\ UNCHANGED <<strategy, os, count, notes, closed, cancelled, writing, reading, known,
                 copies, writes, failures>>

\* Mutant: the notification counts even when the channel is full.
SendAlways ==
  /\ watcher.at = "send"
  /\ notes' = [notes EXCEPT ![0] = @ + 1]
  /\ watcher' = [watcher EXCEPT !.at = "wait"]
  /\ UNCHANGED <<strategy, os, count, lastHash, lastCount, closed, cancelled, writing,
                 reading, known, slipped, copies, writes, failures>>

\* The notification is sent, or skipped when the channel is full.
Send ==
  /\ watcher.at = "send"
  /\ notes' = Notified(notes, 0)
  /\ watcher' = [watcher EXCEPT !.at = "wait"]
  /\ UNCHANGED <<strategy, os, count, lastHash, lastCount, closed, cancelled, writing,
                 reading, known, slipped, copies, writes, failures>>

\* Mutant: only the select around the send looks at the context.
ReturnSending ==
  /\ cancelled
  /\ watcher.at = "send"
  /\ watcher' = [watcher EXCEPT !.at = "gone"]
  /\ closed' = TRUE
  /\ UNCHANGED <<strategy, os, count, lastHash, lastCount, notes, cancelled, writing,
                 reading, known, slipped, copies, writes, failures>>

\* The watcher sees that its context is cancelled; the channel is closed.
Return ==
  /\ cancelled
  /\ watcher.at \in {"wait", "send"}
  /\ watcher' = [watcher EXCEPT !.at = "gone"]
  /\ closed' = TRUE
  /\ UNCHANGED <<strategy, os, count, lastHash, lastCount, notes, cancelled, writing,
                 reading, known, slipped, copies, writes, failures>>

-----------------------------------------------------------------------------
\* The clipboard without a system clipboard: Write notifies, under its locks.
NoopWrite(c) ==
  /\ strategy = "noop"
  /\ writes < MaxWrites
  /\ writes' = writes + 1
  /\ os' = c /\ lastHash' = c /\ known' = c
  /\ notes' = IF watcher.at = "listed" THEN Notified(notes, 0) ELSE notes
  /\ UNCHANGED <<strategy, count, lastCount, watcher, closed, cancelled, writing, reading,
                 slipped, copies, failures>>

\* Mutant: the channel is closed before it is off the list.
NoopLeaveClosing ==
  /\ cancelled
  /\ \/ watcher.at = "listed" /\ ~closed /\ closed' = TRUE /\ UNCHANGED watcher
     \/ watcher.at = "listed" /\ closed /\ watcher' = [watcher EXCEPT !.at = "gone"] /\ UNCHANGED closed
  /\ UNCHANGED <<strategy, os, count, lastHash, lastCount, notes, cancelled, writing,
                 reading, known, slipped, copies, writes, failures>>

\* Its watcher takes the channel off the list and closes it afterwards.
NoopLeave ==
  /\ cancelled
  /\ \/ watcher.at = "listed" /\ watcher' = [watcher EXCEPT !.at = "unlisted"] /\ UNCHANGED closed
     \/ watcher.at = "unlisted" /\ watcher' = [watcher EXCEPT !.at = "gone"] /\ closed' = TRUE
  /\ UNCHANGED <<strategy, os, count, lastHash, lastCount, notes, cancelled, writing,
                 reading, known, slipped, copies, writes, failures>>

-----------------------------------------------------------------------------
Cancel ==
  /\ ~cancelled
  /\ cancelled' = TRUE
  /\ UNCHANGED <<strategy, os, count, lastHash, lastCount, watcher, notes, closed, writing,
                 reading, known, slipped, copies, writes, failures>>

\* Watch of ResilientClipboard and of InstrumentedClipboard: what comes from
\* the channel within goes to the channel without, if it has room.
Forward(h) ==
  /\ notes[h] > 0
  /\ notes' = Notified([notes EXCEPT ![h] = @ - 1], h + 1)
  /\ UNCHANGED <<strategy, os, count, lastHash, lastCount, watcher, closed, cancelled,
                 writing, reading, known, slipped, copies, writes, failures>>

\* The consumer takes a notification ...
Take ==
  /\ ~reading /\ notes[Hops] > 0
  /\ notes' = [notes EXCEPT ![Hops] = @ - 1]
  /\ reading' = TRUE
  /\ UNCHANGED <<strategy, os, count, lastHash, lastCount, watcher, closed, cancelled,
                 writing, known, slipped, copies, writes, failures>>

\* ... and reads; when that fails the notification is spent all the same.
ConsumerRead ==
  /\ reading
  /\ reading' = FALSE
  /\ \E r \in Content \cup {Failed} :
       /\ IF strategy = "noop" THEN r = os /\ UNCHANGED failures ELSE ReadReturns(r)
       /\ known' = IF r = Failed THEN known ELSE r
       /\ slipped' = (r # lastHash \/ (EventDriven /\ r # os))
  /\ UNCHANGED <<strategy, os, count, lastHash, lastCount, watcher, notes, closed,
                 cancelled, writing, copies, writes>>

WatcherStep == \/ InitialRead \/ InitialCount \/ Tick \/ WakeToPoll
               \/ WatcherRead \/ Judge \/ Send \/ NoopLeave

WatchNext ==
  \/ \E c \in Content \cup {Unfit} : Copy(c)
  \/ \E w \in Writer, c \in Content : Write(w, c)
  \/ \E w \in Writer : Record(w)
  \/ WatcherStep
  \/ ClipnotifyFails
  \/ Return
  \/ \E c \in Content : NoopWrite(c)
  \/ Cancel
  \/ \E h \in 0..(Hops - 1) : Forward(h)
  \/ Take
  \/ ConsumerRead

WatchSpec == WatchInit /\ [][WatchNext]_watchVars

\* The goroutines are scheduled, a tool ends within its five seconds; select
\* takes every ready case sooner or later, the cancelled context's, too. The
\* consumer and the wrappers may stop once it is cancelled.
FairWatchSpec ==
  /\ WatchSpec
  /\ WF_watchVars(WatcherStep) /\ SF_watchVars(Return)
  /\ WF_watchVars((Take /\ ~cancelled) \/ ConsumerRead)
  /\ \A h \in 0..(Hops - 1) : WF_watchVars(Forward(h) /\ ~cancelled)
  /\ \A w \in Writer : WF_watchVars(Record(w))

-----------------------------------------------------------------------------
WatchTypeOK ==
  /\ strategy \in {"polling", "clipnotify", "changeCount", "noop"}
  /\ os \in Content \cup {Unfit}
  /\ known \in Content
  /\ count \in 0..(MaxCopies + MaxWrites)
  /\ lastHash \in Content \cup {Failed}
  /\ lastCount \in 0..count \cup {Failed}
  /\ watcher \in [at : {"init", "initCount", "wait", "read", "judge", "send", "sleep",
                        "listed", "unlisted", "gone"},
                  content : Content \cup {Failed}, count : 0..count]
  /\ notes \in [0..Hops -> 0..ChannelSize]
  /\ {closed, cancelled, reading, slipped} \subseteq BOOLEAN
  /\ writing \in [Writer -> Content \cup {Failed}]
  /\ copies \in 0..MaxCopies /\ writes \in 0..MaxWrites /\ failures \in 0..MaxFailures

\* No notification is sent on a closed channel (which would panic): a writer of
\* the noop clipboard sends to every channel on the list.
OpenWhileListed == watcher.at \in {"listed", "send"} => ~closed

\* When nothing is under way (no Write, no notification that waits or is being
\* read) and the watcher waits with nothing to compare, the program knows what
\* the clipboard holds, unless the change slipped by in one of the ways listed
\* above or cannot be read. What clipnotify wakes up for and wl-paste's Write
\* does not do is noticed by nobody.
CaughtUp ==
  /\ watcher.at = "wait" /\ ~cancelled
  /\ ~reading /\ \A h \in 0..Hops : notes[h] = 0
  /\ \A w \in Writer : writing[w] = Failed
  /\ strategy = "polling" => lastHash = os
  /\ strategy = "changeCount" => lastCount = count
  /\ strategy = "clipnotify" => ToolWrites
  => known = os \/ slipped \/ os = Unfit

\* Once copying ends, the program knows what the clipboard holds, unless the
\* change slipped by in one of the ways listed above (polling has few of them)
\* or cannot be read: no interleaving of Write, of the watcher, of the consumer
\* and of a full channel loses it.
CatchesUp == <>[](known = os \/ slipped \/ os = Unfit \/ cancelled)

\* Watch closes its channel after its context is cancelled.
ClosesOnCancel == cancelled ~> closed
=============================================================================
