------------------------- MODULE HardenedClipboard -------------------------
(***************************************************************************)
(* The clipboard of NewHardenedClipboard (pkg/clipboard/interface.go): an  *)
(* InstrumentedClipboard around a ResilientClipboard around a platform's.  *)
(* Each call of Read or Write passes the rate limiter, is refused in       *)
(* fallback mode, is tried again after temporary errors, and is counted.   *)
(* Callers run concurrently; the sizes are kept by compare-and-swap loops. *)
(* Watch's forwarding is in ClipboardWatch.                                *)
(***************************************************************************)
EXTENDS Naturals, FiniteSets, FiniteSetsExt

CONSTANTS
  Caller,        \* goroutines that use the clipboard
  Op,            \* the operations: "read", "write"
  Sizes,         \* sizes of contents
  MaxTokens,     \* capacity of the rate limiter (the code: 100)
  FailureLimit,  \* failures in a row that lead to fallback mode (the code: 5)
  MaxAttempts,   \* tries of one call (the code: 3)
  MaxCalls, MaxFlips  \* bounds of the model

ASSUME HardenedAssumption ==
  /\ Op \subseteq {"read", "write"}
  /\ Sizes \subseteq Nat
  /\ {MaxTokens, FailureLimit, MaxAttempts} \subseteq Nat \ {0}
  /\ {MaxCalls, MaxFlips} \subseteq Nat

VARIABLES
  call,        \* call[c]: the call c makes: where it is, of what, its error
  tokens,      \* rateLimiter.tokens
  errorCount,  \* rc.errorCount
  fallback,    \* rc.fallbackMode
  recoveries,  \* scheduleRecovery goroutines that sleep
  probed,      \* probed[ok]: those that have read, and wait for the lock
  gaveUp,      \* history: a probe failed in this fallback mode
  works,       \* whether the platform's clipboard works
  least, most, \* stats.minBytes and stats.maxBytes, by operation
  recorded,    \* history: the sizes RecordSize was given, by operation
  calls, flips \* bounded counters

vars == <<call, tokens, errorCount, fallback, recoveries, probed, gaveUp, works,
          least, most, recorded, calls, flips>>

Idle == [at |-> "idle", op |-> "none", size |-> 0, seen |-> 0, tries |-> 0, err |-> "none"]

Init ==
  /\ call = [c \in Caller |-> Idle]
  /\ tokens = MaxTokens
  /\ errorCount = 0
  /\ fallback = FALSE
  /\ recoveries = 0
  /\ probed = [ok \in BOOLEAN |-> 0]
  /\ gaveUp = FALSE
  /\ works = TRUE
  /\ least = [o \in Op |-> 0] /\ most = [o \in Op |-> 0]
  /\ recorded = [o \in Op |-> {}]
  /\ calls = 0 /\ flips = 0

resilience == <<tokens, errorCount, fallback, recoveries, probed, gaveUp, works>>
sizeStats == <<least, most, recorded>>
bounds == <<calls, flips>>

\* The call goes on; what the steps to come do not use is forgotten.
Goes(c, where) ==
  call' = [call EXCEPT ![c] = IF where = "idle" THEN Idle
                              ELSE [@ EXCEPT !.at = where, !.seen = 0, !.tries = 0]]

-----------------------------------------------------------------------------
\* Read or Write of the instrumented clipboard; Write counts its size first.
Begin(c, o, size) ==
  /\ call[c].at = "idle"
  /\ calls < MaxCalls
  /\ calls' = calls + 1
  /\ call' = [call EXCEPT ![c] = [Idle EXCEPT
                !.at = IF o = "write" THEN "size" ELSE "limit", !.op = o, !.size = size]]
  /\ UNCHANGED <<resilience, sizeStats, flips>>

\* RecordSize begins: from here on the extremes are to account for the size.
\* Under the lock it finds the operation's entry, or makes one that has the size
\* as its least: the first Write does, while a Read was counted before.
RecordSize(c) ==
  LET o == call[c].op IN
  /\ call[c].at = "size"
  /\ least' = [least EXCEPT ![o] = IF o = "write" /\ recorded[o] = {} THEN call[c].size ELSE @]
  /\ recorded' = [recorded EXCEPT ![o] = @ \cup {call[c].size}]
  /\ Goes(c, "loadLeast")
  /\ UNCHANGED <<resilience, most, bounds>>

\* The first loop: load; leave when the size is no new minimum, 0 meaning that
\* there is none yet; otherwise swap, and start again if another was faster.
LoadLeast(c) ==
  LET o == call[c].op IN
  /\ call[c].at = "loadLeast"
  /\ IF call[c].size >= least[o] /\ least[o] # 0
     THEN Goes(c, "loadMost")
     ELSE call' = [call EXCEPT ![c].at = "swapLeast", ![c].seen = least[o]]
  /\ UNCHANGED <<resilience, sizeStats, bounds>>

SwapLeast(c) ==
  LET o == call[c].op IN
  /\ call[c].at = "swapLeast"
  /\ IF least[o] = call[c].seen
     THEN least' = [least EXCEPT ![o] = call[c].size] /\ Goes(c, "loadMost")
     ELSE UNCHANGED least /\ Goes(c, "loadLeast")
  /\ UNCHANGED <<resilience, most, recorded, bounds>>

LoadMost(c) ==
  LET o == call[c].op IN
  /\ call[c].at = "loadMost"
  /\ IF call[c].size <= most[o]
     THEN Goes(c, IF o = "write" THEN "limit" ELSE "idle")
     ELSE call' = [call EXCEPT ![c].at = "swapMost", ![c].seen = most[o]]
  /\ UNCHANGED <<resilience, sizeStats, bounds>>

\* Mutant: the maximum is stored, whatever became of it since it was loaded.
StoreMost(c) ==
  LET o == call[c].op IN
  /\ call[c].at = "swapMost"
  /\ most' = [most EXCEPT ![o] = call[c].size]
  /\ Goes(c, IF o = "write" THEN "limit" ELSE "idle")
  /\ UNCHANGED <<resilience, least, recorded, bounds>>

SwapMost(c) ==
  LET o == call[c].op IN
  /\ call[c].at = "swapMost"
  /\ IF most[o] = call[c].seen
     THEN /\ most' = [most EXCEPT ![o] = call[c].size]
          /\ Goes(c, IF o = "write" THEN "limit" ELSE "idle")
     ELSE UNCHANGED most /\ Goes(c, "loadMost")
  /\ UNCHANGED <<resilience, least, recorded, bounds>>

-----------------------------------------------------------------------------
\* Mutant: the refill is not capped.
RefillUncapped ==
  /\ tokens <= MaxTokens
  /\ tokens' = tokens + 1
  /\ UNCHANGED <<call, errorCount, fallback, recoveries, probed, gaveUp, works, sizeStats,
                 bounds>>

\* Time passes: the limiter has another token, up to its capacity.
Refill ==
  /\ tokens < MaxTokens
  /\ tokens' = tokens + 1
  /\ UNCHANGED <<call, errorCount, fallback, recoveries, probed, gaveUp, works, sizeStats,
                 bounds>>

\* Allow takes a token, or refuses.
Limit(c) ==
  /\ call[c].at = "limit"
  /\ IF tokens > 0
     THEN tokens' = tokens - 1 /\ Goes(c, "check")
     ELSE UNCHANGED tokens /\ call' = [call EXCEPT ![c].at = "count", ![c].err = "rate_limit"]
  /\ UNCHANGED <<errorCount, fallback, recoveries, probed, gaveUp, works, sizeStats, bounds>>

\* Fallback mode is looked up under the lock, and the lock dropped.
Check(c) ==
  /\ call[c].at = "check"
  /\ IF fallback
     THEN call' = [call EXCEPT ![c].at = "count", ![c].err = "unavailable"]
     ELSE Goes(c, "try")
  /\ UNCHANGED <<resilience, sizeStats, bounds>>

\* One try of RetryOperation: it succeeds, fails for good, or fails in a way
\* that isRetryableError knows as temporary and is repeated while tries are left.
Try(c) ==
  /\ call[c].at = "try"
  /\ \/ /\ works
        /\ Goes(c, "update")
     \/ /\ ~works
        /\ call' = [call EXCEPT ![c].at = "update", ![c].err = "failed"]
     \/ /\ ~works
        /\ call[c].tries + 1 < MaxAttempts
        /\ call' = [call EXCEPT ![c].tries = @ + 1]
  /\ UNCHANGED <<resilience, sizeStats, bounds>>

\* Mutant: success leaves fallback mode to the recovery.
UpdateLeavesFallback(c) ==
  /\ call[c].at = "update"
  /\ Goes(c, "count")
  /\ IF call[c].err = "none"
     THEN errorCount' = 0 /\ UNCHANGED <<fallback, gaveUp, recoveries>>
     ELSE /\ errorCount' = errorCount + 1
          /\ fallback' = (fallback \/ errorCount' >= FailureLimit)
          /\ recoveries' = IF errorCount' >= FailureLimit THEN recoveries + 1 ELSE recoveries
          /\ UNCHANGED gaveUp
  /\ UNCHANGED <<tokens, probed, works, sizeStats, bounds>>

\* Mutant: the failure before the limit schedules the recovery, the only one.
UpdateSchedulesOnce(c) ==
  /\ call[c].at = "update"
  /\ Goes(c, "count")
  /\ IF call[c].err = "none"
     THEN errorCount' = 0 /\ fallback' = FALSE /\ gaveUp' = FALSE /\ UNCHANGED recoveries
     ELSE /\ errorCount' = errorCount + 1
          /\ fallback' = (fallback \/ errorCount' >= FailureLimit)
          /\ recoveries' = IF errorCount' = FailureLimit - 1 THEN recoveries + 1 ELSE recoveries
          /\ UNCHANGED gaveUp
  /\ UNCHANGED <<tokens, probed, works, sizeStats, bounds>>

\* updateErrorState: success clears everything; a failure counts, and from the
\* limit on enters fallback mode and schedules one more recovery.
Update(c) ==
  /\ call[c].at = "update"
  /\ Goes(c, "count")
  /\ IF call[c].err = "none"
     THEN errorCount' = 0 /\ fallback' = FALSE /\ gaveUp' = FALSE /\ UNCHANGED recoveries
     ELSE /\ errorCount' = errorCount + 1
          /\ fallback' = (fallback \/ errorCount' >= FailureLimit)
          /\ recoveries' = IF errorCount' >= FailureLimit THEN recoveries + 1 ELSE recoveries
          /\ UNCHANGED gaveUp
  /\ UNCHANGED <<tokens, probed, works, sizeStats, bounds>>

\* scheduleRecovery after its thirty seconds: it reads, without the lock ...
Probe ==
  /\ recoveries > 0
  /\ recoveries' = recoveries - 1
  /\ probed' = [probed EXCEPT ![works] = @ + 1]
  /\ UNCHANGED <<call, tokens, errorCount, fallback, gaveUp, works, sizeStats, bounds>>

\* ... and clears the errors if it could read. If not, it is not repeated.
Recover(ok) ==
  /\ probed[ok] > 0
  /\ probed' = [probed EXCEPT ![ok] = @ - 1]
  /\ IF ok
     THEN errorCount' = 0 /\ fallback' = FALSE /\ gaveUp' = FALSE
     ELSE UNCHANGED <<errorCount, fallback>> /\ gaveUp' = fallback
  /\ UNCHANGED <<call, tokens, recoveries, works, sizeStats, bounds>>

\* RecordOperation and RecordError, whose counters and times nothing depends
\* on. A Read that succeeded counts its size now.
Count(c) ==
  /\ call[c].at = "count"
  /\ Goes(c, IF call[c].op = "read" /\ call[c].err = "none" THEN "size" ELSE "idle")
  /\ UNCHANGED <<resilience, sizeStats, bounds>>

\* The platform's clipboard stops working, or works again.
Flip ==
  /\ flips < MaxFlips
  /\ flips' = flips + 1
  /\ works' = ~works
  /\ UNCHANGED <<call, tokens, errorCount, fallback, recoveries, probed, gaveUp,
                 sizeStats, calls>>

Step(c) ==
  \/ RecordSize(c) \/ LoadLeast(c) \/ SwapLeast(c) \/ LoadMost(c) \/ SwapMost(c)
  \/ Limit(c) \/ Check(c) \/ Try(c) \/ Update(c) \/ Count(c)

Next ==
  \/ \E c \in Caller : Step(c) \/ \E o \in Op, size \in Sizes : Begin(c, o, size)
  \/ Refill
  \/ Probe
  \/ \E ok \in BOOLEAN : Recover(ok)
  \/ Flip

Spec == Init /\ [][Next]_vars

\* A sleeping recovery wakes up and gets the lock.
FairSpec == Spec /\ WF_vars(Probe) /\ \A ok \in BOOLEAN : WF_vars(Recover(ok))

-----------------------------------------------------------------------------
TypeOK ==
  /\ call \in [Caller -> [at : {"idle", "size", "loadLeast", "swapLeast", "loadMost", "swapMost",
                                "limit", "check", "try", "update", "count"},
                          op : Op \cup {"none"}, size : Sizes \cup {0}, seen : Sizes \cup {0},
                          tries : 0..(MaxAttempts - 1),
                          err : {"none", "rate_limit", "unavailable", "failed"}]]
  /\ tokens \in 0..MaxTokens
  /\ errorCount \in Nat /\ recoveries \in Nat
  /\ fallback \in BOOLEAN /\ gaveUp \in BOOLEAN /\ works \in BOOLEAN
  /\ probed \in [BOOLEAN -> Nat]
  /\ least \in [Op -> Sizes \cup {0}] /\ most \in [Op -> Sizes \cup {0}]
  /\ recorded \in [Op -> SUBSET Sizes]

\* Fallback mode is on exactly while the failures in a row reach the limit, in
\* whatever order calls that had passed the check, and late recoveries, end.
FallbackCounts == fallback <=> errorCount >= FailureLimit

\* While no RecordSize of an operation is under way, its extremes are those of
\* the sizes recorded -- the least one, unless an empty content was: its size
\* is taken for "none yet" (metrics.go:148).
Busy(o) == \E c \in Caller : /\ call[c].op = o
                             /\ call[c].at \in {"loadLeast", "swapLeast", "loadMost", "swapMost"}

ExtremesRight ==
  \A o \in Op : recorded[o] # {} /\ ~Busy(o) =>
    /\ most[o] = Max(recorded[o])
    /\ 0 \notin recorded[o] => least[o] = Min(recorded[o])

\* In fallback mode, which refuses the calls whose success would end it, there is
\* a recovery that sleeps or is about to report, unless one has reported failure
\* since the mode began: recoveries of earlier failures cannot use up the last one.
RecoveryComes ==
  fallback => gaveUp \/ recoveries > 0 \/ \E ok \in BOOLEAN : probed[ok] > 0

\* Fallback mode ends, or a recovery has found the clipboard still broken.
\* (Then nothing ends it any more: calls are refused, and schedule nothing.)
Recovers == fallback ~> (~fallback \/ gaveUp)
=============================================================================
