-------------------------- MODULE ClipboardProofs --------------------------
(***************************************************************************)
(* Proofs about the clipboards.  HardenedClipboard, for any number of      *)
(* callers, any sizes and limits: types, the fallback mode, and the        *)
(* extremes that concurrent compare-and-swap loops leave.  ClipboardWatch, *)
(* for any contents, writers, wrappers and sizes of channels: types, no    *)
(* notification on a closed channel, and what the program knows of the     *)
(* clipboard when nothing is under way.                                    *)
(***************************************************************************)
EXTENDS HardenedClipboard, ClipboardWatch, TLAPS

USE HardenedAssumption DEF HardenedAssumption

Places == {"idle", "size", "loadLeast", "swapLeast", "loadMost", "swapMost",
           "limit", "check", "try", "update", "count"}
Calls == [at : Places, op : Op \cup {"none"}, size : Sizes \cup {0}, seen : Sizes \cup {0},
          tries : 0..(MaxAttempts - 1),
          err : {"none", "rate_limit", "unavailable", "failed"}]

\* A call that is under way has an operation and a size.
Known == \A c \in Caller : call[c].at # "idle" => call[c].op \in Op /\ call[c].size \in Sizes

TypeInv == TypeOK /\ Known

-----------------------------------------------------------------------------
(* Types. *)

\* A call that becomes another call.
LEMMA CallBecomes ==
  ASSUME call \in [Caller -> Calls], Known, NEW c \in Caller, NEW q \in Calls,
         q.at # "idle" => q.op \in Op /\ q.size \in Sizes,
         call' = [call EXCEPT ![c] = q]
  PROVE  call' \in [Caller -> Calls] /\ Known'
  BY DEF Known

\* A call that goes on.
LEMMA GoesTyped ==
  ASSUME call \in [Caller -> Calls], Known, NEW c \in Caller, NEW where \in Places,
         call[c].at # "idle", Goes(c, where)
  PROVE  call' \in [Caller -> Calls] /\ Known'
<1>1. Idle \in Calls
  BY DEF Idle, Calls, Places
<1>2. CASE where = "idle"
  BY <1>1, <1>2, CallBecomes DEF Goes, Idle
<1>3. CASE where # "idle"
  <2> DEFINE q == [call[c] EXCEPT !.at = where, !.seen = 0, !.tries = 0]
  <2>1. q \in Calls /\ q.op \in Op /\ q.size \in Sizes
    <3>1. call[c] \in Calls /\ call[c].op \in Op /\ call[c].size \in Sizes
      BY DEF Known
    <3> DEFINE p == [call[c] EXCEPT !.at = where, !.seen = 0]
    <3>2. p \in Calls /\ p.op \in Op /\ p.size \in Sizes
      BY <3>1 DEF Calls
    <3>3. q = [p EXCEPT !.tries = 0]
      BY <3>1 DEF Calls
    <3>4. 0 \in 0..(MaxAttempts - 1)
      OBVIOUS
    <3> HIDE DEF p, q
    <3> QED BY <3>2, <3>3, <3>4 DEF Calls
  <2>2. call' = [call EXCEPT ![c] = q]
    BY <1>3 DEF Goes
  <2> QED BY <2>1, <2>2, CallBecomes
<1> QED BY <1>2, <1>3

LEMMA TypeInit == Init => TypeInv
<1> SUFFICES ASSUME Init
             PROVE  TypeInv
  OBVIOUS
<1>1. call \in [Caller -> Calls] /\ Known
  BY DEF Init, Idle, Calls, Places, Known
<1>2. probed \in [BOOLEAN -> Nat]
  BY DEF Init
<1>3. fallback \in BOOLEAN /\ gaveUp \in BOOLEAN /\ works \in BOOLEAN
  BY Zenon DEF Init
<1>4. tokens \in 0..MaxTokens /\ errorCount \in Nat /\ recoveries \in Nat
  BY DEF Init
<1>5. least \in [Op -> Sizes \cup {0}] /\ most \in [Op -> Sizes \cup {0}]
      /\ recorded \in [Op -> SUBSET Sizes]
  BY DEF Init
<1> QED BY <1>1, <1>2, <1>3, <1>4, <1>5 DEF TypeInv, TypeOK, Calls, Places

LEMMA SizeTyped ==
  ASSUME TypeInv, NEW c \in Caller,
         RecordSize(c) \/ LoadLeast(c) \/ SwapLeast(c) \/ LoadMost(c) \/ SwapMost(c)
  PROVE  TypeInv'
<1> DEFINE o == call[c].op
<1> USE DEF TypeInv
<1>0. call \in [Caller -> Calls]
  BY DEF TypeOK, Calls, Places
<1>1. o \in Op /\ call[c].size \in Sizes /\ call[c].at # "idle"
      /\ least[o] \in Sizes \cup {0} /\ most[o] \in Sizes \cup {0}
  BY DEF RecordSize, LoadLeast, SwapLeast, LoadMost, SwapMost, Known, TypeOK
<1>2. CASE RecordSize(c)
  <2>1. call' \in [Caller -> Calls] /\ Known'
    BY <1>0, <1>1, <1>2, GoesTyped DEF RecordSize, Places
  <2> QED BY <1>1, <1>2, <2>1 DEF RecordSize, TypeOK, Calls, Places, resilience, bounds
<1>3. CASE LoadLeast(c)
  <2>1. call' \in [Caller -> Calls] /\ Known'
    <3>1. CASE Goes(c, "loadMost")
      BY <1>0, <1>1, <3>1, GoesTyped DEF Places
    <3>2. CASE call' = [call EXCEPT ![c].at = "swapLeast", ![c].seen = least[o]]
      <4> DEFINE q == [call[c] EXCEPT !.at = "swapLeast", !.seen = least[o]]
      <4>1. q \in Calls /\ q.op \in Op /\ q.size \in Sizes
        BY <1>0, <1>1 DEF Calls, Places
      <4>2. call' = [call EXCEPT ![c] = q]
        BY <1>0, <3>2
      <4> HIDE DEF q
      <4> QED BY <1>0, <4>1, <4>2, CallBecomes
    <3> QED BY <1>3, <3>1, <3>2 DEF LoadLeast
  <2> QED BY <1>3, <2>1 DEF LoadLeast, TypeOK, Calls, Places, resilience, sizeStats, bounds
<1>4. CASE SwapLeast(c)
  <2>1. call' \in [Caller -> Calls] /\ Known'
    BY <1>0, <1>1, <1>4, GoesTyped DEF SwapLeast, Places
  <2> QED BY <1>1, <1>4, <2>1 DEF SwapLeast, TypeOK, Calls, Places, resilience, bounds
<1>5. CASE LoadMost(c)
  <2>1. call' \in [Caller -> Calls] /\ Known'
    <3>1. CASE Goes(c, IF o = "write" THEN "limit" ELSE "idle")
      BY <1>0, <1>1, <3>1, GoesTyped DEF Places
    <3>2. CASE call' = [call EXCEPT ![c].at = "swapMost", ![c].seen = most[o]]
      <4> DEFINE q == [call[c] EXCEPT !.at = "swapMost", !.seen = most[o]]
      <4>1. q \in Calls /\ q.op \in Op /\ q.size \in Sizes
        BY <1>0, <1>1 DEF Calls, Places
      <4>2. call' = [call EXCEPT ![c] = q]
        BY <1>0, <3>2
      <4> HIDE DEF q
      <4> QED BY <1>0, <4>1, <4>2, CallBecomes
    <3> QED BY <1>5, <3>1, <3>2 DEF LoadMost
  <2> QED BY <1>5, <2>1 DEF LoadMost, TypeOK, Calls, Places, resilience, sizeStats, bounds
<1>6. CASE SwapMost(c)
  <2>1. call' \in [Caller -> Calls] /\ Known'
    <3>1. CASE Goes(c, IF o = "write" THEN "limit" ELSE "idle")
      BY <1>0, <1>1, <3>1, GoesTyped DEF Places
    <3>2. CASE Goes(c, "loadMost")
      BY <1>0, <1>1, <3>2, GoesTyped DEF Places
    <3> QED BY <1>6, <3>1, <3>2 DEF SwapMost
  <2> QED BY <1>1, <1>6, <2>1 DEF SwapMost, TypeOK, Calls, Places, resilience, bounds
<1> QED BY <1>2, <1>3, <1>4, <1>5, <1>6

LEMMA CallTyped ==
  ASSUME TypeInv, NEW c \in Caller,
         \/ \E o \in Op, size \in Sizes : Begin(c, o, size)
         \/ Limit(c) \/ Check(c) \/ Try(c) \/ Update(c) \/ Count(c)
  PROVE  TypeInv'
<1> USE DEF TypeInv
<1>0. call \in [Caller -> Calls]
  BY DEF TypeOK, Calls, Places
<1>1. ASSUME NEW o \in Op, NEW size \in Sizes, Begin(c, o, size)
      PROVE  TypeInv'
  <2> DEFINE where == IF o = "write" THEN "size" ELSE "limit"
             q == [Idle EXCEPT !.at = where, !.op = o, !.size = size]
  <2>1. Idle \in Calls /\ where \in Places
    BY DEF Idle, Calls, Places
  <2>2. q \in Calls /\ q.op \in Op /\ q.size \in Sizes
    <3> HIDE DEF where
    <3> QED BY <2>1 DEF Calls
  <2>3. call' = [call EXCEPT ![c] = q]
    BY <1>1 DEF Begin
  <2> HIDE DEF q
  <2>4. call' \in [Caller -> Calls] /\ Known'
    BY <1>0, <2>2, <2>3, CallBecomes
  <2> QED BY <1>1, <2>4 DEF Begin, TypeOK, Calls, Places, resilience, sizeStats
<1>2. \A where \in Places : call[c].at # "idle" /\ Goes(c, where) => call' \in [Caller -> Calls] /\ Known'
  BY <1>0, GoesTyped
<1>3. ASSUME NEW where \in Places, NEW e \in {"rate_limit", "unavailable", "failed"},
             call[c].at # "idle", where # "idle",
             call' = [call EXCEPT ![c].at = where, ![c].err = e]
      PROVE  call' \in [Caller -> Calls] /\ Known'
  <2> DEFINE q == [call[c] EXCEPT !.at = where, !.err = e]
  <2>1. q \in Calls /\ q.op \in Op /\ q.size \in Sizes
    BY <1>0, <1>3 DEF Calls, Known
  <2>2. call' = [call EXCEPT ![c] = q]
    BY <1>0, <1>3
  <2> HIDE DEF q
  <2> QED BY <1>0, <2>1, <2>2, CallBecomes
<1>4. CASE Limit(c)
  <2>1. call' \in [Caller -> Calls] /\ Known'
    BY <1>2, <1>3, <1>4 DEF Limit, Places
  <2> QED BY <1>4, <2>1 DEF Limit, TypeOK, Calls, Places, sizeStats, bounds
<1>5. CASE Check(c)
  <2>1. call' \in [Caller -> Calls] /\ Known'
    BY <1>2, <1>3, <1>5 DEF Check, Places
  <2> QED BY <1>5, <2>1 DEF Check, TypeOK, Calls, Places, resilience, sizeStats, bounds
<1>6. CASE Try(c)
  <2>1. call' \in [Caller -> Calls] /\ Known'
    <3>1. CASE Goes(c, "update")
      BY <1>2, <1>6, <3>1 DEF Try, Places
    <3>2. CASE call' = [call EXCEPT ![c].at = "update", ![c].err = "failed"]
      BY <1>3, <1>6, <3>2 DEF Try, Places
    <3>3. CASE /\ call[c].tries + 1 < MaxAttempts
               /\ call' = [call EXCEPT ![c].tries = @ + 1]
      <4> DEFINE q == [call[c] EXCEPT !.tries = @ + 1]
      <4>1. q.at = call[c].at /\ q.op = call[c].op /\ q.size = call[c].size
        BY <1>0 DEF Calls
      <4>2. q \in Calls
        BY <1>0, <3>3 DEF Calls
      <4>3. q.at # "idle" => q.op \in Op /\ q.size \in Sizes
        BY <4>1 DEF Known
      <4> QED BY <1>0, <3>3, <4>2, <4>3, CallBecomes
    <3> QED BY <1>6, <3>1, <3>2, <3>3 DEF Try
  <2> QED BY <1>6, <2>1 DEF Try, TypeOK, Calls, Places, resilience, sizeStats, bounds
<1>7. CASE Update(c)
  <2>1. call' \in [Caller -> Calls] /\ Known'
    BY <1>2, <1>7 DEF Update, Places
  <2>2. errorCount' \in Nat /\ recoveries' \in Nat
    BY <1>7 DEF Update, TypeOK
  <2>3. fallback' \in BOOLEAN /\ gaveUp' \in BOOLEAN
    BY <1>7, Zenon DEF Update, TypeOK
  <2> HIDE DEF Update
  <2>4. UNCHANGED <<tokens, probed, works, sizeStats, bounds>>
    BY <1>7 DEF Update
  <2> QED BY <2>1, <2>2, <2>3, <2>4 DEF TypeOK, Calls, Places, sizeStats, bounds
<1>8. CASE Count(c)
  <2>1. call' \in [Caller -> Calls] /\ Known'
    BY <1>2, <1>8 DEF Count, Places
  <2> QED BY <1>8, <2>1 DEF Count, TypeOK, Calls, Places, resilience, sizeStats, bounds
<1> QED BY <1>1, <1>4, <1>5, <1>6, <1>7, <1>8

LEMMA TypeKept == TypeInv /\ [Next]_vars => TypeInv'
<1> SUFFICES ASSUME TypeInv, [Next]_vars
             PROVE  TypeInv'
  OBVIOUS
<1>1. CASE UNCHANGED vars
  BY <1>1 DEF TypeInv, TypeOK, Known, vars
<1>2. CASE Refill
  BY <1>2 DEF Refill, TypeInv, TypeOK, Known, sizeStats, bounds
<1>3. CASE Probe
  BY <1>3 DEF Probe, TypeInv, TypeOK, Known, sizeStats, bounds
<1>4. ASSUME NEW ok \in BOOLEAN, Recover(ok)
      PROVE  TypeInv'
  <2>1. probed' \in [BOOLEAN -> Nat] /\ errorCount' \in Nat
    <3>1. probed[ok] - 1 \in Nat /\ probed' = [probed EXCEPT ![ok] = probed[ok] - 1]
      BY <1>4 DEF Recover, TypeInv, TypeOK
    <3>2. errorCount' \in Nat
      BY <1>4 DEF Recover, TypeInv, TypeOK
    <3> QED BY <3>1, <3>2 DEF TypeInv, TypeOK
  <2>2. fallback' \in BOOLEAN /\ gaveUp' \in BOOLEAN
    BY <1>4, Zenon DEF Recover, TypeInv, TypeOK
  <2>3. UNCHANGED <<call, tokens, recoveries, works, sizeStats, bounds>>
    BY <1>4 DEF Recover
  <2> QED BY <2>1, <2>2, <2>3 DEF TypeInv, TypeOK, Known, sizeStats
<1>5. CASE Flip
  BY <1>5 DEF Flip, TypeInv, TypeOK, Known, sizeStats
<1> QED BY <1>1, <1>2, <1>3, <1>4, <1>5, SizeTyped, CallTyped DEF Next, Step

\* Every variable of the hardened clipboard keeps its type.
THEOREM HardenedTypeOK == Spec => []TypeOK
  BY TypeInit, TypeKept, PTL DEF Spec, TypeInv

-----------------------------------------------------------------------------
(* Fallback mode. *)

LEMMA FallbackKept == TypeInv /\ FallbackCounts /\ [Next]_vars => FallbackCounts'
<1> SUFFICES ASSUME TypeInv, FallbackCounts, [Next]_vars
             PROVE  FallbackCounts'
  OBVIOUS
<1>0. errorCount \in Nat /\ FailureLimit \in Nat \ {0}
  BY DEF TypeInv, TypeOK
<1>1. CASE UNCHANGED <<errorCount, fallback>>
  BY <1>1 DEF FallbackCounts
<1>2. CASE errorCount' = 0 /\ fallback' = FALSE
  BY <1>0, <1>2 DEF FallbackCounts
<1>3. CASE errorCount' = errorCount + 1 /\ fallback' = (fallback \/ errorCount' >= FailureLimit)
  <2>1. CASE fallback
    <3>1. fallback'
      BY <1>3, <2>1, Zenon
    <3>2. errorCount >= FailureLimit
      BY <2>1 DEF FallbackCounts
    <3>3. errorCount' >= FailureLimit
      BY <1>0, <1>3, <3>2
    <3> QED BY <3>1, <3>3 DEF FallbackCounts
  <2>2. CASE ~fallback
    BY <1>0, <1>3, <2>2 DEF FallbackCounts
  <2> QED BY <2>1, <2>2
<1>4. ASSUME NEW c \in Caller, Update(c)
      PROVE  FallbackCounts'
  BY <1>2, <1>3, <1>4 DEF Update
<1>5. ASSUME NEW ok \in BOOLEAN, Recover(ok)
      PROVE  FallbackCounts'
  BY <1>1, <1>2, <1>5 DEF Recover
<1> QED
  BY <1>1, <1>4, <1>5
  DEF Next, Step, vars, resilience, Begin, RecordSize, LoadLeast, SwapLeast, LoadMost, SwapMost,
      Limit, Check, Try, Count, Refill, Probe, Flip

\* Fallback mode is on exactly while the failures in a row reach the limit.
THEOREM HardenedFallbackCounts == Spec => []FallbackCounts
<1>1. Init => FallbackCounts
  BY DEF Init, FallbackCounts
<1> QED BY <1>1, TypeInit, TypeKept, FallbackKept, PTL DEF Spec

LEMMA RecoveryKept ==
  ASSUME TypeInv, TypeInv', RecoveryComes, [Next]_vars
  PROVE  RecoveryComes'
<1>0. /\ errorCount \in Nat /\ recoveries \in Nat /\ recoveries' \in Nat
      /\ fallback \in BOOLEAN /\ gaveUp \in BOOLEAN
      /\ probed \in [BOOLEAN -> Nat] /\ works \in BOOLEAN
  BY DEF TypeInv, TypeOK
<1>1. CASE UNCHANGED <<fallback, gaveUp, recoveries, probed>>
  BY <1>1 DEF RecoveryComes
<1>2. ASSUME NEW c \in Caller, Update(c) PROVE RecoveryComes'
  <2>1. CASE call[c].err = "none"
    BY <1>2, <2>1 DEF Update, RecoveryComes
  <2>2. CASE call[c].err # "none"
    <3>1. /\ fallback' = (fallback \/ errorCount' >= FailureLimit)
          /\ recoveries' = IF errorCount' >= FailureLimit THEN recoveries + 1 ELSE recoveries
          /\ UNCHANGED <<gaveUp, probed>>
      BY <1>2, <2>2 DEF Update
    <3>2. CASE errorCount' >= FailureLimit
      <4>1. recoveries' = recoveries + 1
        BY <3>1, <3>2
      <4>2. recoveries' > 0
        BY <1>0, <4>1
      <4> QED
        BY <4>2 DEF RecoveryComes
    <3>3. CASE ~(errorCount' >= FailureLimit)
      <4>1. recoveries' = recoveries
        BY <3>1, <3>3
      <4>2. fallback' => fallback
        BY <3>1, <3>3, Zenon
      <4> QED
        BY <3>1, <4>1, <4>2 DEF RecoveryComes
    <3> QED
      BY <3>2, <3>3
  <2> QED
    BY <2>1, <2>2
<1>3. CASE Probe
  <2>1. probed' = [probed EXCEPT ![works] = @ + 1]
    BY <1>3 DEF Probe
  <2>2. probed'[works] = probed[works] + 1
    BY <1>0, <2>1
  <2>3. probed'[works] > 0
    BY <1>0, <2>2
  <2> QED
    BY <1>0, <2>3 DEF RecoveryComes
<1>4. ASSUME NEW ok \in BOOLEAN, Recover(ok) PROVE RecoveryComes'
  <2>1. CASE ok
    BY <1>4, <2>1 DEF Recover, RecoveryComes
  <2>2. CASE ~ok
    <3>1. fallback' = fallback /\ gaveUp' = fallback
      BY <1>4, <2>2 DEF Recover
    <3>2. fallback' => gaveUp'
      BY <3>1, Zenon
    <3> QED
      BY <3>2 DEF RecoveryComes
  <2> QED
    BY <2>1, <2>2
<1> QED
  BY <1>1, <1>2, <1>3, <1>4
  DEF Next, Step, vars, resilience, Begin, RecordSize, LoadLeast, SwapLeast, LoadMost, SwapMost,
      Limit, Check, Try, Count, Refill, Flip

\* Fallback mode is never left without a recovery that could end it, before one
\* has found the clipboard still broken.
THEOREM HardenedRecoveryComes == Spec => []RecoveryComes
<1>1. Init => RecoveryComes
  BY DEF Init, RecoveryComes
<1>2. TypeInv /\ TypeInv' /\ RecoveryComes /\ [Next]_vars => RecoveryComes'
  BY RecoveryKept
<1> QED BY <1>1, <1>2, TypeInit, TypeKept, PTL DEF Spec

-----------------------------------------------------------------------------
(* The extremes. *)

\* The part of RecordSize after the size is recorded, and its first loop.
Measuring == {"loadLeast", "swapLeast", "loadMost", "swapMost"}
First == {"loadLeast", "swapLeast"}

\* Who measures has recorded the size.
MeasuredRecorded ==
  \A c \in Caller : call[c].at \in Measuring => call[c].size \in recorded[call[c].op]

\* A swap is prepared only for a size that goes beyond the extreme it saw.
SwapBeyond ==
  \A c \in Caller :
    /\ call[c].at = "swapLeast" => call[c].seen = 0 \/ call[c].size < call[c].seen
    /\ call[c].at = "swapMost" => call[c].seen < call[c].size

\* The extremes are sizes that were recorded.
ExtremesRecorded ==
  \A o \in Op : least[o] \in recorded[o] \cup {0} /\ most[o] \in recorded[o] \cup {0}

\* A recorded size is accounted for, or its caller is about to.
MostCovers ==
  \A o \in Op : \A r \in recorded[o] :
    \/ r <= most[o]
    \/ \E c \in Caller : call[c].op = o /\ call[c].size = r /\ call[c].at \in Measuring

LeastCovers ==
  \A o \in Op : 0 \notin recorded[o] => \A r \in recorded[o] :
    \/ least[o] # 0 /\ least[o] <= r
    \/ \E c \in Caller : call[c].op = o /\ call[c].size = r /\ call[c].at \in First

ExtremesInv == MeasuredRecorded /\ SwapBeyond /\ ExtremesRecorded /\ MostCovers /\ LeastCovers

\* Steps outside the measuring part leave the extremes, and who measures, alone.
Elsewhere ==
  /\ least' = least /\ most' = most /\ recorded' = recorded
  /\ \A c \in Caller : \/ call'[c] = call[c]
                       \/ call[c].at \notin Measuring /\ call'[c].at \notin Measuring

LEMMA ElsewhereKept == TypeInv /\ ExtremesInv /\ Elsewhere => ExtremesInv'
<1> SUFFICES ASSUME TypeInv, ExtremesInv, Elsewhere
             PROVE  ExtremesInv'
  OBVIOUS
<1> USE DEF Elsewhere
<1>1. MeasuredRecorded'
  BY DEF ExtremesInv, MeasuredRecorded
<1>2. SwapBeyond'
  BY DEF ExtremesInv, SwapBeyond, Measuring
<1>3. ExtremesRecorded'
  BY DEF ExtremesInv, ExtremesRecorded
<1>4. MostCovers'
  <2>1. \A c \in Caller : call[c].at \in Measuring => call'[c] = call[c]
    OBVIOUS
  <2>2. recorded' = recorded /\ most' = most
    OBVIOUS
  <2> HIDE DEF Elsewhere
  <2>3. SUFFICES ASSUME NEW o \in Op, NEW r \in recorded[o]
                 PROVE  \/ r <= most[o]
                        \/ \E c \in Caller : call'[c].op = o /\ call'[c].size = r
                                             /\ call'[c].at \in Measuring
    BY <2>2 DEF MostCovers
  <2>4. \/ r <= most[o]
        \/ \E c \in Caller : call[c].op = o /\ call[c].size = r /\ call[c].at \in Measuring
    BY DEF ExtremesInv, MostCovers
  <2> QED BY <2>1, <2>4
<1>5. LeastCovers'
  <2>1. \A c \in Caller : call[c].at \in First => call'[c] = call[c]
    BY DEF First, Measuring
  <2> QED BY <2>1 DEF ExtremesInv, LeastCovers
<1> QED BY <1>1, <1>2, <1>3, <1>4, <1>5 DEF ExtremesInv

\* Where a call is after it goes on, and that others are where they were.
LEMMA GoesTo ==
  ASSUME call \in [Caller -> Calls], NEW c \in Caller, NEW where, Goes(c, where)
  PROVE  /\ \A e \in Caller : e # c => call'[e] = call[e]
         /\ call'[c].at = where
         /\ where # "idle" => call'[c].op = call[c].op /\ call'[c].size = call[c].size
<1>1. CASE where = "idle"
  BY <1>1 DEF Goes, Idle
<1>2. CASE where # "idle"
  BY <1>2 DEF Goes, Calls
<1> QED BY <1>1, <1>2

LEMMA MeasureKept ==
  ASSUME TypeInv, ExtremesInv, NEW c \in Caller,
         RecordSize(c) \/ LoadLeast(c) \/ SwapLeast(c) \/ LoadMost(c) \/ SwapMost(c)
  PROVE  ExtremesInv'
<1> DEFINE o == call[c].op
           n == call[c].size
<1> USE DEF ExtremesInv, MeasuredRecorded, SwapBeyond, ExtremesRecorded
<1>0. call \in [Caller -> Calls]
  BY DEF TypeInv, TypeOK, Calls, Places
<1>1. /\ o \in Op /\ n \in Nat
      /\ least \in [Op -> Nat] /\ most \in [Op -> Nat]
      /\ recorded \in [Op -> SUBSET Nat]
  BY DEF TypeInv, TypeOK, Known, RecordSize, LoadLeast, SwapLeast, LoadMost, SwapMost
<1>2. \A e \in Caller : call[e].op = o \/ call[e].op # o
  OBVIOUS
<1>3. CASE RecordSize(c)
  <2>1. /\ UNCHANGED most /\ call[c].at = "size"
        /\ least' = [least EXCEPT ![o] = IF o = "write" /\ recorded[o] = {} THEN n ELSE @]
        /\ recorded' = [recorded EXCEPT ![o] = @ \cup {n}]
        /\ Goes(c, "loadLeast")
    BY <1>3 DEF RecordSize
  <2>2. /\ \A e \in Caller : e # c => call'[e] = call[e]
        /\ call'[c].at = "loadLeast" /\ call'[c].op = o /\ call'[c].size = n
    BY <1>0, <2>1, GoesTo
  <2>3. \A p \in Op : recorded'[p] = IF p = o THEN recorded[p] \cup {n} ELSE recorded[p]
    BY <1>1, <2>1
  <2>4. \A p \in Op : least'[p] = least[p] \/ (p = o /\ recorded[o] = {} /\ least'[o] = n)
    <3> DEFINE first == IF o = "write" /\ recorded[o] = {} THEN n ELSE least[o]
    <3>1. least' = [least EXCEPT ![o] = first]
      BY <2>1
    <3>2. first = least[o] \/ (recorded[o] = {} /\ first = n)
      OBVIOUS
    <3> HIDE DEF first, o, n
    <3> QED BY <1>1, <3>1, <3>2
  <2> HIDE DEF o, n
  <2>5. MeasuredRecorded'
    <3>1. \A e \in Caller : call[e].at \in Measuring => call[e].op \in Op
      BY DEF TypeInv, Known, Measuring
    <3>2. SUFFICES ASSUME NEW e \in Caller, call'[e].at \in Measuring
                   PROVE  call'[e].size \in recorded'[call'[e].op]
      OBVIOUS
    <3>3. CASE e = c
      BY <1>1, <2>2, <2>3, <3>3 DEF o, n
    <3>4. CASE e # c
      <4>1. call'[e] = call[e] /\ call[e].op \in Op
        BY <2>2, <3>1, <3>2, <3>4
      <4>2. call[e].size \in recorded[call[e].op]
        BY <3>2, <4>1
      <4> QED BY <2>3, <4>1, <4>2
    <3> QED BY <3>3, <3>4
  <2>6. SwapBeyond' /\ ExtremesRecorded'
    BY <2>1, <2>2, <2>3, <2>4
  <2>7. MostCovers'
    BY <2>1, <2>2, <2>3 DEF MostCovers, Measuring
  <2>8. LeastCovers'
    <3>1. SUFFICES ASSUME NEW p \in Op, 0 \notin recorded'[p], NEW r \in recorded'[p],
                          ~(least'[p] # 0 /\ least'[p] <= r)
                   PROVE  \E e \in Caller : call'[e].op = p /\ call'[e].size = r
                                           /\ call'[e].at \in First
      BY DEF LeastCovers
    <3>2. CASE p = o /\ r = n
      BY <2>2, <3>2 DEF First
    <3>3. CASE ~(p = o /\ r = n)
      <4>1. r \in recorded[p] /\ 0 \notin recorded[p]
        BY <2>3, <3>1, <3>3
      <4>2. least'[p] = least[p]
        BY <2>4, <4>1
      <4>3. PICK e \in Caller : call[e].op = p /\ call[e].size = r /\ call[e].at \in First
        BY <3>1, <4>1, <4>2 DEF LeastCovers
      <4>4. e # c
        BY <2>1, <4>3 DEF First
      <4> QED BY <2>2, <4>3, <4>4
    <3> QED BY <3>2, <3>3
  <2> QED BY <2>5, <2>6, <2>7, <2>8
<1>4. CASE LoadLeast(c)
  <2>1. CASE Goes(c, "loadMost") /\ n >= least[o] /\ least[o] # 0
    <3>1. UNCHANGED <<least, most, recorded>> /\ call[c].at = "loadLeast"
      BY <1>4 DEF LoadLeast, sizeStats
    <3>2. /\ \A e \in Caller : e # c => call'[e] = call[e]
          /\ call'[c].at = "loadMost" /\ call'[c].op = o /\ call'[c].size = n
      BY <1>0, <2>1, GoesTo
    <3>3. MeasuredRecorded' /\ SwapBeyond' /\ ExtremesRecorded'
      BY <3>1, <3>2 DEF Measuring
    <3> HIDE DEF o, n
    <3>4. MostCovers'
      BY <3>1, <3>2 DEF MostCovers, Measuring, o, n
    <3>5. LeastCovers'
      BY <1>1, <2>1, <3>1, <3>2 DEF LeastCovers, First, o, n
    <3> QED BY <3>3, <3>4, <3>5
  <2>2. CASE /\ call' = [call EXCEPT ![c].at = "swapLeast", ![c].seen = least[o]]
             /\ ~(n >= least[o] /\ least[o] # 0)
    <3>1. UNCHANGED <<least, most, recorded>> /\ call[c].at = "loadLeast"
      BY <1>4 DEF LoadLeast, sizeStats
    <3>2. /\ \A e \in Caller : e # c => call'[e] = call[e]
          /\ call'[c].at = "swapLeast" /\ call'[c].op = o /\ call'[c].size = n
          /\ call'[c].seen = least[o]
      BY <1>0, <2>2 DEF Calls
    <3>3. MeasuredRecorded' /\ SwapBeyond' /\ ExtremesRecorded'
      <4>1. MeasuredRecorded' /\ ExtremesRecorded'
        BY <3>1, <3>2 DEF Measuring
      <4>2. call'[c].at = "swapLeast" /\ (call'[c].seen = 0 \/ call'[c].size < call'[c].seen)
        BY <1>1, <2>2, <3>2
      <4>3. SwapBeyond'
        BY <3>2, <4>2
      <4> QED BY <4>1, <4>3
    <3>4. MostCovers'
      <4>1. \A e \in Caller : call[e].at \in Measuring =>
              call'[e].at \in Measuring /\ call'[e].op = call[e].op /\ call'[e].size = call[e].size
        BY <3>1, <3>2 DEF Measuring
      <4> QED BY <3>1, <4>1 DEF ExtremesInv, MostCovers
    <3>5. LeastCovers'
      <4>1. \A e \in Caller : call[e].at \in First =>
              call'[e].at \in First /\ call'[e].op = call[e].op /\ call'[e].size = call[e].size
        BY <3>1, <3>2 DEF First
      <4> QED BY <3>1, <4>1 DEF ExtremesInv, LeastCovers
    <3> QED BY <3>3, <3>4, <3>5
  <2> QED BY <1>4, <2>1, <2>2 DEF LoadLeast
<1>5. CASE SwapLeast(c)
  <2>1. CASE least[o] = call[c].seen /\ least' = [least EXCEPT ![o] = n] /\ Goes(c, "loadMost")
    <3>1. UNCHANGED <<most, recorded>> /\ call[c].at = "swapLeast"
      BY <1>5 DEF SwapLeast
    <3>2. /\ \A e \in Caller : e # c => call'[e] = call[e]
          /\ call'[c].at = "loadMost" /\ call'[c].op = o /\ call'[c].size = n
      BY <1>0, <2>1, GoesTo
    <3>3. /\ \A p \in Op : p # o => least'[p] = least[p]
          /\ least'[o] = n /\ n \in recorded[o] /\ (least[o] = 0 \/ n < least[o])
      BY <1>1, <2>1, <3>1 DEF Measuring
    <3>4. MeasuredRecorded' /\ SwapBeyond'
      BY <3>1, <3>2 DEF Measuring
    <3>5. ExtremesRecorded'
      BY <3>1, <3>3
    <3>6. MostCovers'
      <4>1. \A e \in Caller : call[e].at \in Measuring =>
              call'[e].at \in Measuring /\ call'[e].op = call[e].op /\ call'[e].size = call[e].size
        BY <3>1, <3>2 DEF Measuring
      <4> QED BY <3>1, <4>1 DEF ExtremesInv, MostCovers
    <3>7. LeastCovers'
      <4>1. SUFFICES ASSUME NEW p \in Op, 0 \notin recorded[p], NEW r \in recorded[p],
                            ~(least'[p] # 0 /\ least'[p] <= r)
                     PROVE  \E e \in Caller : call'[e].op = p /\ call'[e].size = r
                                             /\ call'[e].at \in First
        BY <3>1 DEF LeastCovers
      <4>2. r \in Nat
        BY <1>1
      <4>3. ~(least[p] # 0 /\ least[p] <= r)
        BY <1>1, <3>3, <4>1, <4>2
      <4>4. PICK e \in Caller : call[e].op = p /\ call[e].size = r /\ call[e].at \in First
        BY <4>1, <4>3 DEF LeastCovers
      <4>5. e # c
        BY <1>1, <3>3, <4>1, <4>4
      <4> QED BY <3>2, <4>4, <4>5
    <3> QED BY <3>4, <3>5, <3>6, <3>7
  <2>2. CASE UNCHANGED least /\ Goes(c, "loadLeast")
    <3>1. UNCHANGED <<least, most, recorded>> /\ call[c].at = "swapLeast"
      BY <1>5, <2>2 DEF SwapLeast
    <3>2. /\ \A e \in Caller : e # c => call'[e] = call[e]
          /\ call'[c].at = "loadLeast" /\ call'[c].op = o /\ call'[c].size = n
      BY <1>0, <2>2, GoesTo
    <3>3. MeasuredRecorded' /\ SwapBeyond' /\ ExtremesRecorded'
      BY <3>1, <3>2 DEF Measuring
    <3>4. MostCovers'
      <4>1. \A e \in Caller : call[e].at \in Measuring =>
              call'[e].at \in Measuring /\ call'[e].op = call[e].op /\ call'[e].size = call[e].size
        BY <3>1, <3>2 DEF Measuring
      <4> QED BY <3>1, <4>1 DEF ExtremesInv, MostCovers
    <3>5. LeastCovers'
      <4>1. \A e \in Caller : call[e].at \in First =>
              call'[e].at \in First /\ call'[e].op = call[e].op /\ call'[e].size = call[e].size
        BY <3>1, <3>2 DEF First
      <4> QED BY <3>1, <4>1 DEF ExtremesInv, LeastCovers
    <3> QED BY <3>3, <3>4, <3>5
  <2> QED BY <1>5, <2>1, <2>2 DEF SwapLeast
<1>6. CASE LoadMost(c)
  <2>1. CASE Goes(c, IF o = "write" THEN "limit" ELSE "idle") /\ n <= most[o]
    <3>1. UNCHANGED <<least, most, recorded>> /\ call[c].at = "loadMost"
      BY <1>6 DEF LoadMost, sizeStats
    <3>2. /\ \A e \in Caller : e # c => call'[e] = call[e]
          /\ call'[c].at \in {"limit", "idle"}
      BY <1>0, <2>1, GoesTo
    <3>3. MeasuredRecorded' /\ SwapBeyond' /\ ExtremesRecorded'
      BY <3>1, <3>2 DEF Measuring
    <3>4. MostCovers'
      BY <1>1, <2>1, <3>1, <3>2 DEF MostCovers
    <3>5. LeastCovers'
      <4>1. \A e \in Caller : call[e].at \in First =>
              call'[e].at \in First /\ call'[e].op = call[e].op /\ call'[e].size = call[e].size
        BY <3>1, <3>2 DEF First
      <4> QED BY <3>1, <4>1 DEF ExtremesInv, LeastCovers
    <3> QED BY <3>3, <3>4, <3>5
  <2>2. CASE /\ call' = [call EXCEPT ![c].at = "swapMost", ![c].seen = most[o]]
             /\ ~(n <= most[o])
    <3>1. UNCHANGED <<least, most, recorded>> /\ call[c].at = "loadMost"
      BY <1>6 DEF LoadMost, sizeStats
    <3>2. /\ \A e \in Caller : e # c => call'[e] = call[e]
          /\ call'[c].at = "swapMost" /\ call'[c].op = o /\ call'[c].size = n
          /\ call'[c].seen = most[o]
      BY <1>0, <2>2 DEF Calls
    <3>3. MeasuredRecorded' /\ SwapBeyond' /\ ExtremesRecorded'
      <4>1. MeasuredRecorded' /\ ExtremesRecorded'
        BY <3>1, <3>2 DEF Measuring
      <4>2. call'[c].at = "swapMost" /\ call'[c].seen < call'[c].size
        BY <1>1, <2>2, <3>2
      <4>3. SwapBeyond'
        BY <3>2, <4>2
      <4> QED BY <4>1, <4>3
    <3>4. MostCovers'
      <4>1. \A e \in Caller : call[e].at \in Measuring =>
              call'[e].at \in Measuring /\ call'[e].op = call[e].op /\ call'[e].size = call[e].size
        BY <3>1, <3>2 DEF Measuring
      <4> QED BY <3>1, <4>1 DEF ExtremesInv, MostCovers
    <3>5. LeastCovers'
      <4>1. \A e \in Caller : call[e].at \in First => call'[e] = call[e]
        BY <3>1, <3>2 DEF First
      <4> QED BY <3>1, <4>1 DEF LeastCovers
    <3> QED BY <3>3, <3>4, <3>5
  <2> QED BY <1>6, <2>1, <2>2 DEF LoadMost
<1>7. CASE SwapMost(c)
  <2>1. CASE /\ most[o] = call[c].seen /\ most' = [most EXCEPT ![o] = n]
             /\ Goes(c, IF o = "write" THEN "limit" ELSE "idle")
    <3>1. UNCHANGED <<least, recorded>> /\ call[c].at = "swapMost"
      BY <1>7 DEF SwapMost
    <3>2. /\ \A e \in Caller : e # c => call'[e] = call[e]
          /\ call'[c].at \in {"limit", "idle"}
      BY <1>0, <2>1, GoesTo
    <3>3. /\ \A p \in Op : p # o => most'[p] = most[p]
          /\ most'[o] = n /\ n \in recorded[o] /\ most[o] < n
      BY <1>1, <2>1, <3>1 DEF Measuring
    <3>4. MeasuredRecorded' /\ SwapBeyond'
      BY <3>1, <3>2 DEF Measuring
    <3>5. ExtremesRecorded'
      BY <3>1, <3>3
    <3>6. MostCovers'
      <4>1. SUFFICES ASSUME NEW p \in Op, NEW r \in recorded[p], ~(r <= most'[p])
                     PROVE  \E e \in Caller : call'[e].op = p /\ call'[e].size = r
                                             /\ call'[e].at \in Measuring
        BY <3>1 DEF MostCovers
      <4>2. r \in Nat
        BY <1>1
      <4>3. ~(r <= most[p])
        <5>1. CASE p = o
          <6>1. ~(r <= n) /\ most[o] < n /\ most[o] \in Nat
            BY <1>1, <3>3, <4>1, <5>1
          <6> QED BY <1>1, <4>2, <5>1, <6>1
        <5>2. CASE p # o
          BY <3>3, <4>1, <5>2
        <5> QED BY <5>1, <5>2
      <4>4. PICK e \in Caller : call[e].op = p /\ call[e].size = r /\ call[e].at \in Measuring
        BY <4>3 DEF MostCovers
      <4>5. e # c
        BY <1>1, <3>3, <4>1, <4>4
      <4> QED BY <3>2, <4>4, <4>5
    <3>7. LeastCovers'
      <4>1. \A e \in Caller : call[e].at \in First =>
              call'[e].at \in First /\ call'[e].op = call[e].op /\ call'[e].size = call[e].size
        BY <3>1, <3>2 DEF First
      <4> QED BY <3>1, <4>1 DEF ExtremesInv, LeastCovers
    <3> QED BY <3>4, <3>5, <3>6, <3>7
  <2>2. CASE UNCHANGED most /\ Goes(c, "loadMost")
    <3>1. UNCHANGED <<least, most, recorded>> /\ call[c].at = "swapMost"
      BY <1>7, <2>2 DEF SwapMost
    <3>2. /\ \A e \in Caller : e # c => call'[e] = call[e]
          /\ call'[c].at = "loadMost" /\ call'[c].op = o /\ call'[c].size = n
      BY <1>0, <2>2, GoesTo
    <3>3. MeasuredRecorded' /\ SwapBeyond' /\ ExtremesRecorded'
      BY <3>1, <3>2 DEF Measuring
    <3>4. MostCovers'
      <4>1. \A e \in Caller : call[e].at \in Measuring =>
              call'[e].at \in Measuring /\ call'[e].op = call[e].op /\ call'[e].size = call[e].size
        BY <3>1, <3>2 DEF Measuring
      <4> QED BY <3>1, <4>1 DEF ExtremesInv, MostCovers
    <3>5. LeastCovers'
      <4>1. \A e \in Caller : call[e].at \in First =>
              call'[e].at \in First /\ call'[e].op = call[e].op /\ call'[e].size = call[e].size
        BY <3>1, <3>2 DEF First
      <4> QED BY <3>1, <4>1 DEF ExtremesInv, LeastCovers
    <3> QED BY <3>3, <3>4, <3>5
  <2> QED BY <1>7, <2>1, <2>2 DEF SwapMost
<1> QED BY <1>3, <1>4, <1>5, <1>6, <1>7

LEMMA ExtremesKept == TypeInv /\ ExtremesInv /\ [Next]_vars => ExtremesInv'
<1> SUFFICES ASSUME TypeInv, ExtremesInv, [Next]_vars
             PROVE  ExtremesInv'
  OBVIOUS
<1>0. call \in [Caller -> Calls]
  BY DEF TypeInv, TypeOK, Calls, Places
<1>1. CASE UNCHANGED <<call, sizeStats>>
  <2>1. Elsewhere
    BY <1>1 DEF sizeStats, Elsewhere
  <2> QED BY <2>1, ElsewhereKept
<1>2. ASSUME NEW c \in Caller,
             \/ \E o \in Op, size \in Sizes : Begin(c, o, size)
             \/ Limit(c) \/ Check(c) \/ Try(c) \/ Update(c) \/ Count(c)
      PROVE  ExtremesInv'
  <2>1. least' = least /\ most' = most /\ recorded' = recorded
        /\ call[c].at \in {"idle", "limit", "check", "try", "update", "count"}
    BY <1>2 DEF sizeStats, Begin, Limit, Check, Try, Update, Count
  <2>2. \A e \in Caller : e # c => call'[e] = call[e]
    BY <1>2, <1>0, GoesTo DEF Begin, Limit, Check, Try, Update, Count
  <2>3. call'[c].at \in {"idle", "size", "limit", "check", "try", "update", "count"}
    <3>1. CASE \E o \in Op, size \in Sizes : Begin(c, o, size)
      BY <1>0, <3>1 DEF Begin, Idle
    <3>2. CASE \E where \in {"idle", "size", "check", "try", "update", "count"} : Goes(c, where)
      BY <1>0, <3>2, GoesTo
    <3>3. CASE \E where \in {"count", "update"} : \E e :
                 call' = [call EXCEPT ![c].at = where, ![c].err = e]
      BY <1>0, <3>3 DEF Calls
    <3>4. CASE call[c].at = "try" /\ call' = [call EXCEPT ![c].tries = @ + 1]
      BY <1>0, <3>4 DEF Calls
    <3> QED BY <1>2, <3>1, <3>2, <3>3, <3>4 DEF Limit, Check, Try, Update, Count
  <2>4. Elsewhere
    BY <2>1, <2>2, <2>3 DEF Elsewhere, Measuring
  <2> QED BY <2>4, ElsewhereKept
<1> QED
  BY <1>1, <1>2, MeasureKept DEF Next, Step, vars, sizeStats, Refill, Probe, Recover, Flip

\* At rest the extremes are those of the sizes recorded, whatever the order in
\* which the callers' loads and swaps took place.
THEOREM HardenedExtremesRight == Spec => []ExtremesRight
<1>1. Init => ExtremesInv
  BY DEF Init, Idle, ExtremesInv, MeasuredRecorded, SwapBeyond, ExtremesRecorded, MostCovers,
         LeastCovers, Measuring, First
<1>2. TypeInv => /\ least \in [Op -> Nat] /\ most \in [Op -> Nat]
                /\ recorded \in [Op -> SUBSET Nat]
  <2>1. TypeInv => /\ least \in [Op -> Sizes \cup {0}] /\ most \in [Op -> Sizes \cup {0}]
                  /\ recorded \in [Op -> SUBSET Sizes]
    BY DEF TypeInv, TypeOK
  <2>2. Sizes \cup {0} \subseteq Nat /\ SUBSET Sizes \subseteq SUBSET Nat
    OBVIOUS
  <2> QED BY <2>1, <2>2
<1>3. TypeInv /\ ExtremesInv => ExtremesRight
  <2> SUFFICES ASSUME TypeInv, ExtremesInv, NEW o \in Op, recorded[o] # {}, ~Busy(o)
               PROVE  /\ most[o] = Max(recorded[o])
                      /\ 0 \notin recorded[o] => least[o] = Min(recorded[o])
    BY DEF ExtremesRight
  <2>1. recorded[o] \subseteq Nat /\ most[o] \in Nat /\ least[o] \in Nat
    BY <1>2
  <2>2. \A r \in recorded[o] : r <= most[o]
    BY DEF Busy, ExtremesInv, MostCovers, Measuring
  <2>3. most[o] \in recorded[o]
    <3>1. most[o] \in recorded[o] \cup {0}
      BY DEF ExtremesInv, ExtremesRecorded
    <3>2. ASSUME most[o] = 0
          PROVE  most[o] \in recorded[o]
      <4>1. PICK r \in recorded[o] : TRUE
        OBVIOUS
      <4>2. r \in Nat /\ r <= 0
        BY <2>1, <2>2, <3>2
      <4> QED BY <3>2, <4>1, <4>2
    <3> QED BY <3>1, <3>2
  <2>4. most[o] = Max(recorded[o])
    BY <2>1, <2>2, <2>3 DEF Max
  <2>5. ASSUME 0 \notin recorded[o]
        PROVE  least[o] = Min(recorded[o])
    <3>1. \A r \in recorded[o] : least[o] # 0 /\ least[o] <= r
      BY <2>5 DEF Busy, ExtremesInv, LeastCovers, First
    <3>2. least[o] \in recorded[o]
      BY <3>1 DEF ExtremesInv, ExtremesRecorded
    <3> QED BY <2>1, <3>1, <3>2 DEF Min
  <2> QED BY <2>4, <2>5
<1> QED BY <1>1, <1>3, TypeInit, TypeKept, ExtremesKept, PTL DEF Spec

-----------------------------------------------------------------------------
(* ClipboardWatch: types, where the watcher is in each strategy, and when   *)
(* the channel is closed.                                                   *)

HIDE HardenedAssumption DEF HardenedAssumption
USE ClipboardAssumption DEF ClipboardAssumption

WatcherAt == {"init", "initCount", "wait", "read", "judge", "send", "sleep",
              "listed", "unlisted", "gone"}
Watchers(n) == [at : WatcherAt, content : Content \cup {Failed}, count : 0..n]

\* The program is being told of a change.
Told == watcher.at = "send" \/ reading \/ \E h \in 0..Hops : notes[h] > 0

\* Where the watcher can be, with which content, and which counters bound others.
Placed ==
  /\ watcher.at \in {"judge", "initCount"} => watcher.content \in Content
  /\ watcher.at = "initCount" => strategy = "changeCount"
  /\ watcher.at = "sleep" => strategy = "clipnotify"
  /\ watcher.at \in {"listed", "unlisted"} => strategy = "noop"
  /\ strategy = "noop" => watcher.at \in {"listed", "unlisted", "gone"}
  /\ watcher.at = "gone" => cancelled
  /\ closed => watcher.at = "gone"
  /\ Told => lastHash \in Content
  /\ count <= copies + writes

WatchInv == WatchTypeOK /\ Placed

LEMMA WatcherMoves ==
  ASSUME NEW n \in Nat, NEW m \in Nat, n <= m, NEW u \in Watchers(n), NEW a \in WatcherAt,
         NEW v, v = [u EXCEPT !.at = a]
  PROVE  v \in Watchers(m) /\ v.at = a /\ v.content = u.content /\ v.count = u.count
<1>1. v = [at |-> a, content |-> u.content, count |-> u.count]
  BY DEF Watchers
<1>2. u.content \in Content \cup {Failed} /\ u.count \in 0..m
  BY DEF Watchers
<1> QED BY <1>1, <1>2 DEF Watchers

LEMMA WatcherHolds ==
  ASSUME WatchTypeOK, NEW a \in WatcherAt, NEW c \in Content \cup {Failed},
         watcher' = [watcher EXCEPT !.at = a, !.content = c]
  PROVE  /\ watcher' \in Watchers(count)
         /\ watcher'.at = a /\ watcher'.content = c /\ watcher'.count = watcher.count
<1>1. watcher \in Watchers(count)
  BY DEF WatchTypeOK, Watchers, WatcherAt
<1>2. watcher' = [at |-> a, content |-> c, count |-> watcher.count]
  BY <1>1 DEF Watchers
<1>3. watcher.count \in 0..count
  BY <1>1 DEF Watchers
<1> QED BY <1>2, <1>3 DEF Watchers

LEMMA WatcherCounts ==
  ASSUME WatchTypeOK, NEW a \in WatcherAt, NEW k \in 0..count,
         watcher' = [watcher EXCEPT !.at = a, !.count = k]
  PROVE  /\ watcher' \in Watchers(count)
         /\ watcher'.at = a /\ watcher'.content = watcher.content /\ watcher'.count = k
<1>1. watcher \in Watchers(count)
  BY DEF WatchTypeOK, Watchers, WatcherAt
<1>2. watcher' = [at |-> a, content |-> watcher.content, count |-> k]
  BY <1>1 DEF Watchers
<1>3. watcher.content \in Content \cup {Failed}
  BY <1>1 DEF Watchers
<1> QED BY <1>2, <1>3 DEF Watchers

\* The type invariant, with the watcher's record named.
LEMMA WatchTyped ==
  WatchTypeOK <=>
    /\ strategy \in {"polling", "clipnotify", "changeCount", "noop"}
    /\ os \in Content \cup {Unfit} /\ known \in Content
    /\ count \in 0..(MaxCopies + MaxWrites)
    /\ lastHash \in Content \cup {Failed} /\ lastCount \in 0..count \cup {Failed}
    /\ watcher \in Watchers(count)
    /\ notes \in [0..Hops -> 0..ChannelSize]
    /\ {closed, cancelled, reading, slipped} \subseteq BOOLEAN
    /\ writing \in [Writer -> Content \cup {Failed}]
    /\ copies \in 0..MaxCopies /\ writes \in 0..MaxWrites /\ failures \in 0..MaxFailures
  BY DEF WatchTypeOK, Watchers, WatcherAt

\* What a notification does to the channels.
LEMMA NotifiedTyped ==
  ASSUME NEW n \in [0..Hops -> 0..ChannelSize], NEW h \in 0..Hops
  PROVE  Notified(n, h) \in [0..Hops -> 0..ChannelSize] /\ Notified(n, h)[h] > 0
  BY DEF Notified

\* What happens to the watcher and the counter when the clipboard is set.
LEMMA ClipboardSet ==
  ASSUME WatchInv, NEW c \in Content \cup {Unfit}, Becomes(c)
  PROVE  /\ os' = c /\ count' \in {count, count + 1}
         /\ strategy = "changeCount" => count' = count + 1
         /\ watcher' \in Watchers(count')
         /\ watcher'.content = watcher.content /\ watcher'.count = watcher.count
         /\ \/ watcher'.at = watcher.at
            \/ strategy = "clipnotify" /\ watcher.at = "wait" /\ watcher'.at = "read"
         /\ slipped' \in BOOLEAN
<1>1. watcher \in Watchers(count) /\ count \in Nat /\ slipped \in BOOLEAN
  BY WatchTyped DEF WatchInv
<1>2. os' = c /\ count' \in {count, count + 1} /\ (strategy = "changeCount" => count' = count + 1)
  BY DEF Becomes
<1>3. count' \in Nat /\ count <= count'
  BY <1>1, <1>2
<1>4. CASE strategy = "clipnotify" /\ watcher.at = "wait"
  <2>1. watcher' = [watcher EXCEPT !.at = "read"] /\ slipped' = slipped
    BY <1>4 DEF Becomes
  <2>2. "read" \in WatcherAt
    BY DEF WatcherAt
  <2> QED BY <1>1, <1>2, <1>3, <1>4, <2>1, <2>2, WatcherMoves
<1>5. CASE ~(strategy = "clipnotify" /\ watcher.at = "wait")
  <2>1. watcher' = watcher /\ slipped' \in BOOLEAN
    BY <1>1, <1>5 DEF Becomes
  <2>2. watcher \in Watchers(count')
    BY <1>1, <1>3 DEF Watchers
  <2> QED BY <1>2, <2>1, <2>2
<1> QED BY <1>4, <1>5

\* The types that an action leaves are told from the variables it changes.
LEMMA WatchTypedNext ==
  ASSUME strategy' \in {"polling", "clipnotify", "changeCount", "noop"},
         os' \in Content \cup {Unfit}, known' \in Content,
         count' \in 0..(MaxCopies + MaxWrites),
         lastHash' \in Content \cup {Failed}, lastCount' \in 0..count' \cup {Failed},
         watcher' \in Watchers(count'),
         notes' \in [0..Hops -> 0..ChannelSize],
         closed' \in BOOLEAN, cancelled' \in BOOLEAN, reading' \in BOOLEAN,
         slipped' \in BOOLEAN,
         writing' \in [Writer -> Content \cup {Failed}],
         copies' \in 0..MaxCopies, writes' \in 0..MaxWrites, failures' \in 0..MaxFailures
  PROVE  WatchTypeOK'
  BY DEF WatchTypeOK, Watchers, WatcherAt

LEMMA FailsTyped ==
  ASSUME WatchTypeOK
  PROVE  /\ Fails => failures' \in 0..MaxFailures
         /\ \A r \in Content \cup {Failed} : ReadReturns(r) => failures' \in 0..MaxFailures
<1>1. failures \in 0..MaxFailures
  BY DEF WatchTypeOK
<1> QED BY <1>1 DEF Fails, ReadReturns

LEMMA WatchInitInv == WatchInit => WatchInv
<1> SUFFICES ASSUME WatchInit
             PROVE  WatchInv
  OBVIOUS
<1>1. watcher = [at |-> IF strategy = "noop" THEN "listed" ELSE "init",
                 content |-> Failed, count |-> 0]
  BY DEF WatchInit
<1>2. WatchTypeOK
  <2>1. watcher \in Watchers(0)
    BY <1>1 DEF Watchers, WatcherAt
  <2>2. /\ notes \in [0..Hops -> 0..ChannelSize]
        /\ writing \in [Writer -> Content \cup {Failed}]
    BY DEF WatchInit
  <2>3. /\ strategy \in {"polling", "clipnotify", "changeCount", "noop"}
        /\ os \in Content /\ known = os /\ lastHash \in Content \cup {Failed}
    BY DEF WatchInit
  <2>4. count = 0 /\ lastCount = 0 /\ copies = 0 /\ writes = 0 /\ failures = 0
    BY DEF WatchInit
  <2>5. {closed, cancelled, reading, slipped} \subseteq BOOLEAN
    BY DEF WatchInit
  <2> QED BY <2>1, <2>2, <2>3, <2>4, <2>5, WatchTyped
<1>3. Placed
  <2>1. ~Told
    BY <1>1 DEF WatchInit, Told
  <2> QED BY <1>1, <2>1 DEF WatchInit, Placed
<1> QED BY <1>2, <1>3 DEF WatchInv

LEMMA CopyKept ==
  ASSUME WatchInv, NEW c \in Content \cup {Unfit}, Copy(c)
  PROVE  WatchInv'
<1>1. WatchTypeOK /\ Placed
  BY DEF WatchInv
<1>2. Becomes(c)
  BY DEF Copy
<1>3. /\ copies' = copies + 1 /\ copies < MaxCopies /\ strategy # "noop"
      /\ UNCHANGED <<strategy, lastHash, lastCount, notes, closed, cancelled, writing,
                     reading, known, writes, failures>>
  BY DEF Copy
<1>4. /\ count \in Nat /\ copies \in 0..MaxCopies /\ writes \in 0..MaxWrites
      /\ copies' \in 0..MaxCopies /\ count <= copies + writes
  BY <1>1, <1>3 DEF WatchTypeOK, Placed
<1>5. count' \in 0..(MaxCopies + MaxWrites) /\ count' <= copies' + writes' /\ count <= count'
  BY <1>2, <1>3, <1>4, ClipboardSet
<1>6. lastCount' \in 0..count' \cup {Failed}
  BY <1>1, <1>3, <1>4, <1>5 DEF WatchTypeOK
<1>7. WatchTypeOK'
  BY <1>1, <1>2, <1>3, <1>4, <1>5, <1>6, ClipboardSet, WatchTypedNext DEF WatchTypeOK
<1>8. Placed'
  <2>1. Told' <=> Told
    BY <1>2, <1>3, ClipboardSet DEF Told
  <2> QED BY <1>1, <1>2, <1>3, <1>5, <2>1, ClipboardSet DEF Placed
<1> QED BY <1>7, <1>8 DEF WatchInv

LEMMA WriteKept ==
  ASSUME WatchInv, NEW w \in Writer, NEW c \in Content, Write(w, c)
  PROVE  WatchInv'
<1>1. WatchTypeOK /\ Placed
  BY DEF WatchInv
<1>2. \/ Becomes(c)
      \/ UNCHANGED <<os, count, watcher, slipped>>
  BY DEF Write
<1>3. /\ writes' = writes + 1 /\ writes < MaxWrites /\ strategy # "noop"
      /\ UNCHANGED <<strategy, lastHash, lastCount, notes, closed, cancelled,
                     reading, copies>>
  BY DEF Write
<1>4. /\ count \in Nat /\ copies \in 0..MaxCopies /\ writes \in 0..MaxWrites
      /\ writes' \in 0..MaxWrites /\ count <= copies + writes
  BY <1>1, <1>3 DEF WatchTypeOK, Placed
<1>5. count' \in 0..(MaxCopies + MaxWrites) /\ count' <= copies' + writes' /\ count <= count'
  <2>1. CASE Becomes(c)
    BY <1>3, <1>4, <2>1, ClipboardSet
  <2>2. CASE UNCHANGED <<os, count, watcher, slipped>>
    <3>1. count' = count
      BY <2>2
    <3> QED BY <1>3, <1>4, <3>1
  <2> QED BY <1>2, <2>1, <2>2
<1>6. lastCount' \in 0..count' \cup {Failed}
  BY <1>1, <1>3, <1>4, <1>5 DEF WatchTypeOK
<1>7. /\ writing' \in [Writer -> Content \cup {Failed}] /\ known' \in Content
      /\ failures' \in 0..MaxFailures
  <2>1. writing \in [Writer -> Content \cup {Failed}] /\ known \in Content
        /\ failures \in 0..MaxFailures
    BY <1>1 DEF WatchTypeOK
  <2>2. CASE writing' = [writing EXCEPT ![w] = c] /\ known' = c /\ UNCHANGED failures
    BY <2>1, <2>2
  <2>3. CASE Fails /\ UNCHANGED <<writing, known>>
    BY <1>1, <2>1, <2>3, FailsTyped
  <2> QED BY <2>2, <2>3 DEF Write
<1>8. /\ os' \in Content \cup {Unfit} /\ watcher' \in Watchers(count') /\ slipped' \in BOOLEAN
      /\ watcher'.content = watcher.content
      /\ \/ watcher'.at = watcher.at
         \/ strategy = "clipnotify" /\ watcher.at = "wait" /\ watcher'.at = "read"
  <2>1. CASE Becomes(c)
    BY <2>1, ClipboardSet
  <2>2. CASE UNCHANGED <<os, count, watcher, slipped>>
    BY <1>1, <2>2, WatchTyped
  <2> QED BY <1>2, <2>1, <2>2
<1>9. WatchTypeOK'
  <2>1. /\ strategy' \in {"polling", "clipnotify", "changeCount", "noop"}
        /\ lastHash' \in Content \cup {Failed} /\ notes' \in [0..Hops -> 0..ChannelSize]
        /\ closed' \in BOOLEAN /\ cancelled' \in BOOLEAN /\ reading' \in BOOLEAN
        /\ copies' \in 0..MaxCopies
    BY <1>1, <1>3 DEF WatchTypeOK
  <2> QED BY <1>4, <1>5, <1>6, <1>7, <1>8, <2>1, WatchTypedNext
<1>10. Placed'
  <2>1. Told' <=> Told
    BY <1>3, <1>8 DEF Told
  <2> QED BY <1>1, <1>3, <1>5, <1>8, <2>1 DEF Placed
<1> QED BY <1>9, <1>10 DEF WatchInv

LEMMA RecordKept ==
  ASSUME WatchInv, NEW w \in Writer, Record(w)
  PROVE  WatchInv'
<1>1. WatchTypeOK /\ Placed
  BY DEF WatchInv
<1>2. writing[w] \in Content /\ lastHash' \in Content /\ slipped' \in BOOLEAN
  BY <1>1 DEF Record, WatchTypeOK
<1>3. writing' \in [Writer -> Content \cup {Failed}]
  BY <1>1 DEF Record, WatchTypeOK
<1>4. UNCHANGED <<strategy, os, count, lastCount, watcher, notes, closed, cancelled,
                  reading, known, copies, writes, failures>>
  BY DEF Record
<1>5. WatchTypeOK'
  BY <1>1, <1>2, <1>3, <1>4 DEF WatchTypeOK
<1>6. Placed'
  BY <1>1, <1>2, <1>4 DEF Placed, Told
<1> QED BY <1>5, <1>6 DEF WatchInv

LEMMA InitialReadKept ==
  ASSUME WatchInv, InitialRead
  PROVE  WatchInv'
<1>1. WatchTypeOK /\ Placed /\ watcher \in Watchers(count) /\ count \in Nat
  BY WatchTyped DEF WatchInv
<1>2. /\ watcher.at = "init"
      /\ UNCHANGED <<strategy, os, count, lastCount, notes, closed, cancelled, writing,
                     reading, known, copies, writes>>
  BY DEF InitialRead
<1>3. PICK r \in Content \cup {Failed} :
        /\ ReadReturns(r)
        /\ IF strategy = "changeCount" /\ r # Failed
           THEN /\ watcher' = [watcher EXCEPT !.at = "initCount", !.content = r]
                /\ UNCHANGED <<lastHash, slipped>>
           ELSE /\ watcher' = [watcher EXCEPT !.at = "wait"]
                /\ lastHash' = IF r = Failed THEN lastHash ELSE r
                /\ slipped' = (slipped \/ r # known)
  BY DEF InitialRead
<1>4. /\ watcher' \in Watchers(count) /\ watcher'.at \in {"initCount", "wait"}
      /\ watcher'.at = "initCount" => strategy = "changeCount" /\ watcher'.content \in Content
  <2>1. "initCount" \in WatcherAt /\ "wait" \in WatcherAt
    BY DEF WatcherAt
  <2>2. CASE strategy = "changeCount" /\ r # Failed
    BY <1>1, <1>3, <2>1, <2>2, WatcherHolds
  <2>3. CASE ~(strategy = "changeCount" /\ r # Failed)
    BY <1>1, <1>3, <2>1, <2>3, WatcherMoves
  <2> QED BY <2>2, <2>3
<1>5. /\ lastHash' \in {lastHash} \cup Content /\ slipped' \in BOOLEAN
      /\ failures' \in 0..MaxFailures
  BY <1>1, <1>3, FailsTyped DEF WatchTypeOK
<1>6. WatchTypeOK'
  BY <1>1, <1>2, <1>4, <1>5, WatchTypedNext DEF WatchTypeOK
<1>7. Placed'
  <2>1. Told' => Told
    BY <1>2, <1>4 DEF Told
  <2> QED BY <1>1, <1>2, <1>4, <1>5, <2>1 DEF Placed
<1> QED BY <1>6, <1>7 DEF WatchInv

LEMMA InitialCountKept ==
  ASSUME WatchInv, InitialCount
  PROVE  WatchInv'
<1>1. WatchTypeOK /\ Placed /\ watcher \in Watchers(count) /\ count \in Nat
  BY WatchTyped DEF WatchInv
<1>2. /\ watcher.at = "initCount" /\ lastHash' = watcher.content
      /\ watcher' = [watcher EXCEPT !.at = "wait", !.content = Failed]
      /\ UNCHANGED <<strategy, os, count, notes, closed, cancelled, writing, reading,
                     known, copies, writes>>
  BY DEF InitialCount
<1>3. watcher' \in Watchers(count) /\ watcher'.at = "wait"
  BY <1>1, <1>2, WatcherHolds DEF WatcherAt
<1>4. lastHash' \in Content
  BY <1>1, <1>2 DEF Placed
<1>5. /\ lastCount' \in {count, Failed} /\ slipped' \in BOOLEAN
      /\ failures' \in 0..MaxFailures
  BY <1>1, FailsTyped DEF InitialCount, WatchTypeOK
<1>6. WatchTypeOK'
  BY <1>1, <1>2, <1>3, <1>4, <1>5, WatchTypedNext DEF WatchTypeOK
<1>7. Placed'
  BY <1>1, <1>2, <1>3, <1>4 DEF Placed, Told
<1> QED BY <1>6, <1>7 DEF WatchInv

\* The steps of the watcher that leave the contents and the channels alone.
LEMMA MovesKept ==
  ASSUME WatchInv, watcher' \in Watchers(count),
         strategy' \in {"polling", "clipnotify", "changeCount", "noop"},
         slipped' \in BOOLEAN, failures' \in 0..MaxFailures, closed' \in BOOLEAN,
         watcher'.at # "initCount", watcher'.at = "send" => watcher.at = "send",
         watcher'.at = "judge" => watcher'.content \in Content,
         watcher'.at = "sleep" => strategy' = "clipnotify",
         watcher'.at \in {"listed", "unlisted"} => strategy' = "noop",
         strategy' = "noop" => watcher'.at \in {"listed", "unlisted", "gone"},
         watcher'.at = "gone" => cancelled,
         closed' => watcher'.at = "gone",
         UNCHANGED <<os, count, lastHash, lastCount, notes, cancelled, writing, reading,
                     known, copies, writes>>
  PROVE  WatchInv'
<1>1. WatchTypeOK /\ Placed
  BY DEF WatchInv
<1>2. WatchTypeOK'
  BY <1>1, WatchTypedNext DEF WatchTypeOK
<1>3. Placed'
  BY <1>1 DEF Placed, Told
<1> QED BY <1>2, <1>3 DEF WatchInv

LEMMA TickKept ==
  ASSUME WatchInv, Tick
  PROVE  WatchInv'
<1>1. WatchTypeOK /\ Placed /\ watcher \in Watchers(count) /\ count \in Nat
  BY WatchTyped DEF WatchInv
<1> DEFINE k == IF strategy = "changeCount" THEN count ELSE 0
<1>2. /\ watcher.at = "wait" /\ strategy \in {"polling", "changeCount"}
      /\ UNCHANGED <<strategy, os, count, lastHash, lastCount, notes, closed, cancelled,
                     writing, reading, known, slipped, copies, writes, failures>>
  BY DEF Tick
<1>3. watcher' = [watcher EXCEPT !.at = "read", !.count = k]
  BY DEF Tick
<1>4. k \in 0..count /\ "read" \in WatcherAt
  BY <1>1 DEF WatcherAt
<1> HIDE DEF k
<1>5. watcher' \in Watchers(count) /\ watcher'.at = "read"
  BY <1>1, <1>3, <1>4, WatcherCounts
<1>6. /\ slipped' \in BOOLEAN /\ failures' \in 0..MaxFailures /\ closed' \in BOOLEAN
      /\ closed' => watcher'.at = "gone"
  BY <1>1, <1>2 DEF WatchTypeOK, Placed
<1> QED BY <1>2, <1>5, <1>6, MovesKept

LEMMA WakeToPollKept ==
  ASSUME WatchInv, WakeToPoll
  PROVE  WatchInv'
<1>1. WatchTypeOK /\ Placed /\ watcher \in Watchers(count) /\ count \in Nat
  BY WatchTyped DEF WatchInv
<1>2. /\ watcher.at = "sleep" /\ strategy' = "polling"
      /\ watcher' = [watcher EXCEPT !.at = "init"]
      /\ UNCHANGED <<os, count, lastHash, lastCount, notes, closed, cancelled, writing,
                     reading, known, slipped, copies, writes, failures>>
  BY DEF WakeToPoll
<1>3. watcher' \in Watchers(count) /\ watcher'.at = "init"
  BY <1>1, <1>2, WatcherMoves DEF WatcherAt
<1>4. /\ slipped' \in BOOLEAN /\ failures' \in 0..MaxFailures /\ closed' \in BOOLEAN
      /\ closed' => watcher'.at = "gone"
  BY <1>1, <1>2 DEF WatchTypeOK, Placed
<1> QED BY <1>2, <1>3, <1>4, MovesKept

LEMMA ClipnotifyFailsKept ==
  ASSUME WatchInv, ClipnotifyFails
  PROVE  WatchInv'
<1>1. WatchTypeOK /\ Placed /\ watcher \in Watchers(count) /\ count \in Nat
  BY WatchTyped DEF WatchInv
<1>2. /\ watcher.at = "wait" /\ strategy = "clipnotify" /\ Fails
      /\ watcher' = [watcher EXCEPT !.at = "sleep"]
      /\ UNCHANGED <<strategy, os, count, lastHash, lastCount, notes, closed, cancelled,
                     writing, reading, known, slipped, copies, writes>>
  BY DEF ClipnotifyFails
<1>3. watcher' \in Watchers(count) /\ watcher'.at = "sleep"
  BY <1>1, <1>2, WatcherMoves DEF WatcherAt
<1>4. /\ slipped' \in BOOLEAN /\ failures' \in 0..MaxFailures /\ closed' \in BOOLEAN
      /\ closed' => watcher'.at = "gone"
  BY <1>1, <1>2, FailsTyped DEF WatchTypeOK, Placed
<1> QED BY <1>2, <1>3, <1>4, MovesKept

LEMMA WatcherReadKept ==
  ASSUME WatchInv, WatcherRead
  PROVE  WatchInv'
<1>1. WatchTypeOK /\ Placed /\ watcher \in Watchers(count) /\ count \in Nat
  BY WatchTyped DEF WatchInv
<1>2. /\ watcher.at = "read"
      /\ UNCHANGED <<strategy, os, count, lastHash, lastCount, notes, closed, cancelled,
                     writing, reading, known, copies, writes>>
  BY DEF WatcherRead
<1>3. PICK r \in Content \cup {Failed} :
        /\ ReadReturns(r)
        /\ watcher' = [watcher EXCEPT !.at = IF r = Failed THEN "wait" ELSE "judge",
                                      !.content = r]
        /\ slipped' = (slipped \/ (r = Failed /\ strategy = "clipnotify"))
  BY DEF WatcherRead
<1>4. /\ watcher' \in Watchers(count) /\ watcher'.at \in {"wait", "judge"}
      /\ watcher'.at = "judge" => watcher'.content \in Content
  <2>1. CASE r = Failed
    BY <1>1, <1>3, <2>1, WatcherHolds DEF WatcherAt
  <2>2. CASE r # Failed
    BY <1>1, <1>3, <2>2, WatcherHolds DEF WatcherAt
  <2> QED BY <2>1, <2>2
<1>5. /\ slipped' \in BOOLEAN /\ failures' \in 0..MaxFailures /\ closed' \in BOOLEAN
      /\ closed' => watcher'.at = "gone"
  BY <1>1, <1>2, <1>3, FailsTyped DEF WatchTypeOK, Placed
<1>6. /\ strategy' \in {"polling", "clipnotify", "changeCount", "noop"} /\ strategy' # "noop"
  BY <1>1, <1>2 DEF WatchTypeOK, Placed
<1> QED BY <1>2, <1>4, <1>5, <1>6, MovesKept

LEMMA JudgeKept ==
  ASSUME WatchInv, Judge
  PROVE  WatchInv'
<1>1. WatchTypeOK /\ Placed /\ watcher \in Watchers(count) /\ count \in Nat
  BY WatchTyped DEF WatchInv
<1>2. /\ watcher.at = "judge" /\ lastHash' = watcher.content
      /\ lastCount' \in {watcher.count, lastCount}
      /\ UNCHANGED <<strategy, os, count, notes, closed, cancelled, writing, reading,
                     known, copies, writes, failures>>
  BY DEF Judge
<1>3. \/ watcher' = [watcher EXCEPT !.at = "send", !.content = Failed]
      \/ watcher' = [watcher EXCEPT !.at = "wait", !.content = Failed]
  BY DEF Judge
<1>4. watcher' \in Watchers(count) /\ watcher'.at \in {"send", "wait"}
  <2>1. "send" \in WatcherAt /\ "wait" \in WatcherAt
    BY DEF WatcherAt
  <2> QED BY <1>1, <1>3, <2>1, WatcherHolds
<1>5. lastHash' \in Content
  BY <1>1, <1>2 DEF Placed
<1>6. lastCount' \in 0..count' \cup {Failed}
  BY <1>1, <1>2 DEF WatchTypeOK, Watchers
<1>7. slipped' \in BOOLEAN
  <2>1. slipped \in BOOLEAN
    BY <1>1 DEF WatchTypeOK
  <2>2. IsLast(watcher.content) \in BOOLEAN
    BY DEF IsLast
  <2> QED BY <2>1, <2>2 DEF Judge
<1>8. WatchTypeOK'
  BY <1>1, <1>2, <1>4, <1>5, <1>6, <1>7, WatchTypedNext DEF WatchTypeOK
<1>9. Placed'
  BY <1>1, <1>2, <1>4, <1>5 DEF Placed
<1> QED BY <1>8, <1>9 DEF WatchInv

\* The steps of the channels' two ends.
LEMMA NotesKept ==
  ASSUME WatchInv, notes' \in [0..Hops -> 0..ChannelSize], Told' => Told,
         watcher' \in Watchers(count), watcher' = watcher \/ watcher'.at = "wait",
         watcher' # watcher => watcher.at = "send", reading' \in BOOLEAN,
         UNCHANGED <<strategy, os, count, lastHash, lastCount, closed, cancelled, writing,
                     known, slipped, copies, writes, failures>>
  PROVE  WatchInv'
<1>1. WatchTypeOK /\ Placed
  BY DEF WatchInv
<1>2. WatchTypeOK'
  BY <1>1, WatchTypedNext DEF WatchTypeOK
<1>3. Placed'
  BY <1>1 DEF Placed
<1> QED BY <1>2, <1>3 DEF WatchInv

LEMMA SendKept ==
  ASSUME WatchInv, Send
  PROVE  WatchInv' /\ watcher'.at = "wait" /\ Told'
<1>1. /\ WatchTypeOK /\ watcher \in Watchers(count) /\ count \in Nat
      /\ notes \in [0..Hops -> 0..ChannelSize] /\ 0 \in 0..Hops
  BY WatchTyped DEF WatchInv
<1>2. /\ watcher.at = "send" /\ notes' = Notified(notes, 0)
      /\ watcher' = [watcher EXCEPT !.at = "wait"]
      /\ UNCHANGED <<strategy, os, count, lastHash, lastCount, closed, cancelled, writing,
                     reading, known, slipped, copies, writes, failures>>
  BY DEF Send
<1>3. notes' \in [0..Hops -> 0..ChannelSize] /\ notes'[0] > 0
  BY <1>1, <1>2, NotifiedTyped
<1>4. watcher' \in Watchers(count) /\ watcher'.at = "wait"
  <2>1. "wait" \in WatcherAt
    BY DEF WatcherAt
  <2> QED BY <1>1, <1>2, <2>1, WatcherMoves
<1>5. Told /\ Told'
  BY <1>1, <1>2, <1>3 DEF Told
<1>6. reading' \in BOOLEAN
  BY <1>1, <1>2 DEF WatchTypeOK
<1> QED BY <1>2, <1>3, <1>4, <1>5, <1>6, NotesKept

LEMMA ForwardKept ==
  ASSUME WatchInv, NEW h \in 0..(Hops - 1), Forward(h)
  PROVE  WatchInv' /\ Told' /\ UNCHANGED watcher
<1>1. /\ WatchTypeOK /\ watcher \in Watchers(count)
      /\ notes \in [0..Hops -> 0..ChannelSize] /\ h \in 0..Hops /\ h + 1 \in 0..Hops
  BY WatchTyped DEF WatchInv
<1> DEFINE taken == [notes EXCEPT ![h] = @ - 1]
<1>2. /\ notes[h] > 0 /\ notes' = Notified(taken, h + 1)
      /\ UNCHANGED <<strategy, os, count, lastHash, lastCount, watcher, closed, cancelled,
                     writing, reading, known, slipped, copies, writes, failures>>
  BY DEF Forward
<1>3. taken \in [0..Hops -> 0..ChannelSize]
  BY <1>1, <1>2
<1> HIDE DEF taken
<1>4. notes' \in [0..Hops -> 0..ChannelSize] /\ notes'[h + 1] > 0
  BY <1>1, <1>2, <1>3, NotifiedTyped
<1>5. Told /\ Told'
  BY <1>1, <1>2, <1>4 DEF Told
<1>6. reading' \in BOOLEAN
  BY <1>1, <1>2 DEF WatchTypeOK
<1> QED BY <1>1, <1>2, <1>4, <1>5, <1>6, NotesKept

LEMMA TakeKept ==
  ASSUME WatchInv, Take
  PROVE  WatchInv' /\ Told' /\ UNCHANGED watcher
<1>1. /\ WatchTypeOK /\ watcher \in Watchers(count)
      /\ notes \in [0..Hops -> 0..ChannelSize] /\ Hops \in 0..Hops
  BY WatchTyped DEF WatchInv
<1>2. /\ notes[Hops] > 0 /\ notes' = [notes EXCEPT ![Hops] = @ - 1] /\ reading' = TRUE
      /\ UNCHANGED <<strategy, os, count, lastHash, lastCount, watcher, closed, cancelled,
                     writing, known, slipped, copies, writes, failures>>
  BY DEF Take
<1>3. notes' \in [0..Hops -> 0..ChannelSize]
  BY <1>1, <1>2
<1>4. Told /\ Told'
  BY <1>1, <1>2 DEF Told
<1> QED BY <1>1, <1>2, <1>3, <1>4, NotesKept

LEMMA ConsumerReadKept ==
  ASSUME WatchInv, ConsumerRead
  PROVE  WatchInv'
<1>1. WatchTypeOK /\ Placed /\ watcher \in Watchers(count)
  BY WatchTyped DEF WatchInv
<1>2. /\ reading /\ reading' = FALSE
      /\ UNCHANGED <<strategy, os, count, lastHash, lastCount, watcher, notes, closed,
                     cancelled, writing, copies, writes>>
  BY DEF ConsumerRead
<1>3. PICK r \in Content \cup {Failed} :
        /\ IF strategy = "noop" THEN r = os /\ UNCHANGED failures ELSE ReadReturns(r)
        /\ known' = IF r = Failed THEN known ELSE r
        /\ slipped' = (r # lastHash \/ (EventDriven /\ r # os))
  BY DEF ConsumerRead
<1>4. known' \in Content /\ slipped' \in BOOLEAN
  BY <1>1, <1>3 DEF WatchTypeOK, EventDriven
<1>5. failures' \in 0..MaxFailures
  <2>1. failures \in 0..MaxFailures
    BY <1>1 DEF WatchTypeOK
  <2> QED BY <1>1, <1>3, <2>1, FailsTyped
<1>6. WatchTypeOK'
  BY <1>1, <1>2, <1>4, <1>5, WatchTypedNext DEF WatchTypeOK
<1>7. Placed'
  <2>1. Told' => Told
    BY <1>2 DEF Told
  <2> QED BY <1>1, <1>2, <2>1 DEF Placed
<1> QED BY <1>6, <1>7 DEF WatchInv

LEMMA ReturnKept ==
  ASSUME WatchInv, Return
  PROVE  WatchInv'
<1>1. WatchTypeOK /\ Placed /\ watcher \in Watchers(count) /\ count \in Nat
  BY WatchTyped DEF WatchInv
<1>2. /\ cancelled /\ watcher.at \in {"wait", "send"} /\ closed' = TRUE
      /\ watcher' = [watcher EXCEPT !.at = "gone"]
      /\ UNCHANGED <<strategy, os, count, lastHash, lastCount, notes, cancelled, writing,
                     reading, known, slipped, copies, writes, failures>>
  BY DEF Return
<1>3. watcher' \in Watchers(count) /\ watcher'.at = "gone"
  <2>1. "gone" \in WatcherAt
    BY DEF WatcherAt
  <2> QED BY <1>1, <1>2, <2>1, WatcherMoves
<1>4. /\ strategy' \in {"polling", "clipnotify", "changeCount", "noop"}
      /\ slipped' \in BOOLEAN /\ failures' \in 0..MaxFailures
  BY <1>1, <1>2 DEF WatchTypeOK
<1> QED BY <1>2, <1>3, <1>4, MovesKept

LEMMA NoopLeaveKept ==
  ASSUME WatchInv, NoopLeave
  PROVE  WatchInv'
<1>1. WatchTypeOK /\ Placed /\ watcher \in Watchers(count) /\ count \in Nat
  BY WatchTyped DEF WatchInv
<1>2. /\ cancelled /\ watcher.at \in {"listed", "unlisted"}
      /\ UNCHANGED <<strategy, os, count, lastHash, lastCount, notes, cancelled, writing,
                     reading, known, slipped, copies, writes, failures>>
  BY DEF NoopLeave
<1>3. /\ watcher' \in Watchers(count) /\ watcher'.at \in {"unlisted", "gone"}
      /\ closed' \in BOOLEAN /\ (closed' => watcher'.at = "gone")
  <2>1. CASE /\ watcher.at = "listed" /\ closed' = closed
             /\ watcher' = [watcher EXCEPT !.at = "unlisted"]
    <3>1. "unlisted" \in WatcherAt
      BY DEF WatcherAt
    <3>2. watcher' \in Watchers(count) /\ watcher'.at = "unlisted"
      BY <1>1, <2>1, <3>1, WatcherMoves
    <3>3. ~closed /\ closed \in BOOLEAN
      BY <1>1, <2>1 DEF Placed, WatchTypeOK
    <3> QED BY <2>1, <3>2, <3>3
  <2>2. CASE closed' = TRUE /\ watcher' = [watcher EXCEPT !.at = "gone"]
    <3>1. "gone" \in WatcherAt
      BY DEF WatcherAt
    <3> QED BY <1>1, <2>2, <3>1, WatcherMoves
  <2> QED BY <2>1, <2>2 DEF NoopLeave
<1>4. /\ strategy' = "noop" /\ slipped' \in BOOLEAN /\ failures' \in 0..MaxFailures
  BY <1>1, <1>2 DEF WatchTypeOK, Placed
<1> QED BY <1>2, <1>3, <1>4, MovesKept

LEMMA NoopWriteKept ==
  ASSUME WatchInv, NEW c \in Content, NoopWrite(c)
  PROVE  WatchInv'
<1>1. /\ WatchTypeOK /\ Placed /\ watcher \in Watchers(count) /\ count \in Nat
      /\ notes \in [0..Hops -> 0..ChannelSize] /\ 0 \in 0..Hops
  BY WatchTyped DEF WatchInv
<1>2. /\ writes < MaxWrites /\ writes' = writes + 1
      /\ os' = c /\ lastHash' = c /\ known' = c
      /\ UNCHANGED <<strategy, count, lastCount, watcher, closed, cancelled, writing,
                     reading, slipped, copies, failures>>
  BY DEF NoopWrite
<1>3. notes' \in [0..Hops -> 0..ChannelSize]
  BY <1>1, NotifiedTyped DEF NoopWrite
<1>4. /\ writes' \in 0..MaxWrites /\ count <= copies + writes'
  BY <1>1, <1>2 DEF WatchTypeOK, Placed
<1>5. WatchTypeOK'
  BY <1>1, <1>2, <1>3, <1>4, WatchTypedNext DEF WatchTypeOK
<1>6. Placed'
  BY <1>1, <1>2, <1>4 DEF Placed
<1> QED BY <1>5, <1>6 DEF WatchInv

LEMMA CancelKept ==
  ASSUME WatchInv, Cancel
  PROVE  WatchInv'
<1>1. WatchTypeOK /\ Placed
  BY DEF WatchInv
<1>2. WatchTypeOK'
  BY <1>1 DEF WatchTypeOK, Cancel
<1>3. Placed'
  BY <1>1 DEF Placed, Told, Cancel
<1> QED BY <1>2, <1>3 DEF WatchInv

LEMMA WatchInvKept == WatchInv /\ [WatchNext]_watchVars => WatchInv'
<1> SUFFICES ASSUME WatchInv, [WatchNext]_watchVars
             PROVE  WatchInv'
  OBVIOUS
<1>1. ASSUME NEW c \in Content \cup {Unfit}, Copy(c)
      PROVE  WatchInv'
  BY <1>1, CopyKept
<1>2. ASSUME NEW w \in Writer, NEW c \in Content, Write(w, c)
      PROVE  WatchInv'
  BY <1>2, WriteKept
<1>3. ASSUME NEW w \in Writer, Record(w)
      PROVE  WatchInv'
  BY <1>3, RecordKept
<1>4. CASE WatcherStep
  BY <1>4, InitialReadKept, InitialCountKept, TickKept, WakeToPollKept, WatcherReadKept,
     JudgeKept, SendKept, NoopLeaveKept DEF WatcherStep
<1>5. CASE ClipnotifyFails
  BY <1>5, ClipnotifyFailsKept
<1>6. CASE Return
  BY <1>6, ReturnKept
<1>7. ASSUME NEW c \in Content, NoopWrite(c)
      PROVE  WatchInv'
  BY <1>7, NoopWriteKept
<1>8. CASE Cancel
  BY <1>8, CancelKept
<1>9. ASSUME NEW h \in 0..(Hops - 1), Forward(h)
      PROVE  WatchInv'
  BY <1>9, ForwardKept
<1>10. CASE Take
  BY <1>10, TakeKept
<1>11. CASE ConsumerRead
  BY <1>11, ConsumerReadKept
<1>12. CASE UNCHANGED watchVars
  BY <1>12 DEF WatchInv, WatchTypeOK, Placed, Told, watchVars
<1> QED BY <1>1, <1>2, <1>3, <1>4, <1>5, <1>6, <1>7, <1>8, <1>9, <1>10, <1>11, <1>12
        DEF WatchNext

\* Every variable of ClipboardWatch keeps its type, for any contents, writers,
\* wrappers and sizes of channels: what is counted stays within its bound and a
\* channel within its capacity.
THEOREM WatcherTypeOK == WatchSpec => []WatchTypeOK
<1>1. WatchInv => WatchTypeOK
  BY DEF WatchInv
<1> QED BY <1>1, WatchInitInv, WatchInvKept, PTL DEF WatchSpec

\* A channel that a writer or the watcher can still send to is open: leaving the
\* list comes before closing, and only the watcher closes, when it has left.
THEOREM ChannelOpenWhileListed == WatchSpec => []OpenWhileListed
<1>1. WatchInv => OpenWhileListed
  BY DEF WatchInv, Placed, OpenWhileListed
<1> QED BY <1>1, WatchInitInv, WatchInvKept, PTL DEF WatchSpec

-----------------------------------------------------------------------------
(* What the program knows when nothing is under way. CaughtUp follows from   *)
(* two halves: what the watcher noticed reaches the consumer, and what it    *)
(* has not noticed yet it will still compare.                                *)

Starting == watcher.at \in {"init", "initCount"}

\* What was noticed last is known, being told, or yet to be recorded.
Noticed ==
  ~cancelled /\ ~Starting =>
    known = lastHash \/ slipped \/ Told \/ \E w \in Writer : writing[w] = known

\* A comparison is to come, whatever happens.
ToCompare ==
  \/ strategy = "changeCount" /\ (Starting \/ lastCount # count)
  \/ strategy = "clipnotify" /\ watcher.at \in {"read", "judge", "sleep"}

\* What the system clipboard holds is known, told, or will be compared.
Reflected ==
  ~cancelled /\ EventDriven /\ ToolWrites =>
    known = os \/ slipped \/ os = Unfit \/ Told \/ ToCompare

CaughtUpInv == Noticed /\ Reflected

LEMMA CaughtUpInit == WatchInit => CaughtUpInv
<1> SUFFICES ASSUME WatchInit
             PROVE  CaughtUpInv
  OBVIOUS
<1>1. known = os /\ (strategy # "noop" => Starting) /\ (strategy = "noop" => lastHash = os)
  BY DEF WatchInit, Starting
<1> QED BY <1>1 DEF CaughtUpInv, Noticed, Reflected, EventDriven

\* Setting the clipboard is noticed by the event-driven watchers, or slips by.
LEMMA SetCompared ==
  ASSUME WatchInv, NEW c \in Content \cup {Unfit}, Becomes(c),
         UNCHANGED <<strategy, lastCount>>
  PROVE  EventDriven => slipped' \/ ToCompare'
<1>1. WatchTypeOK /\ count \in Nat /\ watcher \in Watchers(count)
  BY WatchTyped DEF WatchInv
<1>2. CASE strategy = "changeCount"
  <2>1. count' = count + 1 /\ lastCount' \in 0..count \cup {Failed}
    BY <1>1, <1>2, ClipboardSet DEF WatchTypeOK
  <2>2. lastCount' # count'
    BY <1>1, <2>1
  <2> QED BY <1>2, <2>2 DEF ToCompare
<1>3. CASE strategy = "clipnotify" /\ watcher.at = "wait"
  <2>1. watcher' = [watcher EXCEPT !.at = "read"]
    BY <1>3 DEF Becomes
  <2>2. watcher'.at = "read"
    BY <1>1, <2>1 DEF Watchers
  <2> QED BY <1>3, <2>2 DEF ToCompare
<1>4. CASE strategy = "clipnotify" /\ watcher.at # "wait"
  <2>1. slipped' = (slipped \/ strategy = "clipnotify")
    BY <1>4 DEF Becomes
  <2> QED BY <1>4, <2>1
<1> QED BY <1>2, <1>3, <1>4 DEF EventDriven

\* Nor does setting it change what was noticed.
LEMMA SetNoticed ==
  ASSUME WatchInv, NEW c \in Content \cup {Unfit}, Becomes(c),
         UNCHANGED <<notes, reading>>
  PROVE  (Told' <=> Told) /\ (Starting' <=> Starting) /\ (slipped => slipped')
<1>1. slipped => slipped'
  BY DEF Becomes
<1> QED BY <1>1, ClipboardSet DEF Told, Starting

LEMMA CopyCaughtUp ==
  ASSUME WatchInv, CaughtUpInv, NEW c \in Content \cup {Unfit}, Copy(c)
  PROVE  CaughtUpInv'
<1>1. Becomes(c) /\ UNCHANGED <<strategy, lastHash, lastCount, notes, cancelled, writing,
                                reading, known>>
  BY DEF Copy
<1>2. Noticed'
  BY <1>1, SetNoticed DEF CaughtUpInv, Noticed
<1>3. Reflected'
  BY <1>1, SetCompared DEF Reflected, EventDriven
<1> QED BY <1>2, <1>3 DEF CaughtUpInv

LEMMA WriteCaughtUp ==
  ASSUME WatchInv, CaughtUpInv, NEW w \in Writer, NEW c \in Content, Write(w, c)
  PROVE  CaughtUpInv'
<1>1. UNCHANGED <<strategy, lastHash, lastCount, notes, cancelled, reading>>
  BY DEF Write
<1>2. writing \in [Writer -> Content \cup {Failed}]
  BY DEF WatchInv, WatchTypeOK
<1>3. CASE /\ IF ToolWrites THEN Becomes(c) ELSE UNCHANGED <<os, count, watcher, slipped>>
           /\ writing' = [writing EXCEPT ![w] = c] /\ known' = c
  <2>1. writing'[w] = known'
    BY <1>2, <1>3
  <2>2. Noticed'
    BY <2>1 DEF Noticed
  <2>3. Reflected'
    <3>1. ToolWrites' <=> ToolWrites
      BY <1>1 DEF ToolWrites
    <3>2. ToolWrites => os' = known'
      BY <1>3 DEF Becomes
    <3> QED BY <3>1, <3>2 DEF Reflected
  <2> QED BY <2>2, <2>3 DEF CaughtUpInv
<1>4. CASE Becomes(c) /\ UNCHANGED <<writing, known>>
  <2>1. Noticed'
    BY <1>1, <1>4, SetNoticed DEF CaughtUpInv, Noticed
  <2>2. Reflected'
    BY <1>1, <1>4, SetCompared DEF Reflected, EventDriven
  <2> QED BY <2>1, <2>2 DEF CaughtUpInv
<1>5. CASE UNCHANGED <<os, count, watcher, slipped, writing, known>>
  BY <1>1, <1>5 DEF CaughtUpInv, Noticed, Reflected, Starting, Told, ToCompare, EventDriven,
                    ToolWrites
<1> QED BY <1>3, <1>4, <1>5 DEF Write

LEMMA RecordCaughtUp ==
  ASSUME WatchInv, CaughtUpInv, NEW w \in Writer, Record(w)
  PROVE  CaughtUpInv'
<1>1. /\ lastHash' = writing[w] /\ slipped' = (slipped \/ writing[w] # known)
      /\ UNCHANGED <<strategy, os, count, lastCount, watcher, notes, cancelled, reading, known>>
  BY DEF Record
<1>2. Noticed'
  BY <1>1 DEF Noticed
<1>3. Reflected'
  BY <1>1 DEF CaughtUpInv, Reflected, Starting, Told, ToCompare, EventDriven, ToolWrites
<1> QED BY <1>2, <1>3 DEF CaughtUpInv

LEMMA InitialReadCaughtUp ==
  ASSUME WatchInv, CaughtUpInv, InitialRead
  PROVE  CaughtUpInv'
<1>1. WatchTypeOK /\ Placed /\ watcher \in Watchers(count) /\ count \in Nat
  BY WatchTyped DEF WatchInv
<1>2. /\ watcher.at = "init" /\ known \in Content
      /\ UNCHANGED <<strategy, os, count, lastCount, notes, cancelled, writing, reading, known>>
  BY <1>1 DEF InitialRead, WatchTypeOK
<1>3. PICK r \in Content \cup {Failed} :
        /\ ReadReturns(r)
        /\ IF strategy = "changeCount" /\ r # Failed
           THEN /\ watcher' = [watcher EXCEPT !.at = "initCount", !.content = r]
                /\ UNCHANGED <<lastHash, slipped>>
           ELSE /\ watcher' = [watcher EXCEPT !.at = "wait"]
                /\ lastHash' = IF r = Failed THEN lastHash ELSE r
                /\ slipped' = (slipped \/ r # known)
  BY DEF InitialRead
<1>4. CASE strategy = "changeCount" /\ r # Failed
  <2>1. watcher' = [watcher EXCEPT !.at = "initCount", !.content = r]
    BY <1>3, <1>4
  <2>2. "initCount" \in WatcherAt
    BY DEF WatcherAt
  <2>3. watcher'.at = "initCount"
    BY <1>1, <2>1, <2>2, WatcherHolds
  <2> QED BY <1>2, <1>4, <2>3 DEF CaughtUpInv, Noticed, Reflected, Starting, ToCompare
<1>5. CASE ~(strategy = "changeCount" /\ r # Failed)
  <2>1. /\ lastHash' = IF r = Failed THEN lastHash ELSE r
        /\ slipped' = (slipped \/ r # known)
    BY <1>3, <1>5
  <2>2. slipped' \/ lastHash' = known'
    BY <1>2, <2>1
  <2>3. Noticed'
    BY <2>2 DEF Noticed
  <2>4. watcher'.at = "wait"
    <3>1. "wait" \in WatcherAt
      BY DEF WatcherAt
    <3> QED BY <1>1, <1>3, <1>5, <3>1, WatcherMoves
  <2>5. Reflected'
    <3>1. CASE strategy = "changeCount"
      BY <1>2, <1>5, <2>1, <3>1 DEF Reflected
    <3>2. CASE strategy = "clipnotify"
      <4>1. Told => Told'
        BY <1>2 DEF Told
      <4>2. ~ToCompare
        BY <1>2, <3>2 DEF ToCompare
      <4>3. slipped => slipped'
        BY <2>1
      <4> QED BY <1>2, <4>1, <4>2, <4>3 DEF CaughtUpInv, Reflected, EventDriven, ToolWrites
    <3> QED BY <1>2, <3>1, <3>2 DEF Reflected, EventDriven
  <2> QED BY <2>3, <2>5 DEF CaughtUpInv
<1> QED BY <1>4, <1>5

LEMMA InitialCountCaughtUp ==
  ASSUME WatchInv, CaughtUpInv, InitialCount
  PROVE  CaughtUpInv'
<1>1. /\ lastHash' = watcher.content
      /\ slipped' = (slipped \/ watcher.content # known \/ watcher.content # os)
      /\ UNCHANGED <<os, known>>
  BY DEF InitialCount
<1>2. slipped' \/ (known' = lastHash' /\ known' = os')
  BY <1>1
<1> QED BY <1>2 DEF CaughtUpInv, Noticed, Reflected

\* A step of the watcher that neither notices nor records.
LEMMA WatcherCaughtUp ==
  ASSUME CaughtUpInv, watcher.at # "send", Starting => Starting', slipped => slipped',
         strategy' \in {strategy, "polling"}, Reflected',
         UNCHANGED <<lastHash, notes, cancelled, writing, reading, known>>
  PROVE  CaughtUpInv'
<1>1. Told => Told'
  BY DEF Told
<1>2. Noticed'
  BY <1>1 DEF CaughtUpInv, Noticed
<1> QED BY <1>2 DEF CaughtUpInv

LEMMA TickCaughtUp ==
  ASSUME WatchInv, CaughtUpInv, Tick
  PROVE  CaughtUpInv'
<1>1. WatchTypeOK /\ watcher \in Watchers(count) /\ count \in Nat
  BY WatchTyped DEF WatchInv
<1> DEFINE k == IF strategy = "changeCount" THEN count ELSE 0
<1>2. /\ watcher.at = "wait"
      /\ strategy = "polling" \/ (strategy = "changeCount" /\ count # lastCount)
      /\ UNCHANGED <<strategy, count, lastHash, lastCount, notes, cancelled, writing, reading,
                     known, slipped>>
  BY DEF Tick
<1>3. watcher' = [watcher EXCEPT !.at = "read", !.count = k]
  BY DEF Tick
<1>4. k \in 0..count /\ "read" \in WatcherAt
  BY <1>1 DEF WatcherAt
<1> HIDE DEF k
<1>5. watcher'.at = "read"
  BY <1>1, <1>3, <1>4, WatcherCounts
<1>6. Reflected'
  BY <1>2 DEF Reflected, EventDriven, ToCompare
<1> QED BY <1>2, <1>5, <1>6, WatcherCaughtUp DEF Starting

LEMMA WakeToPollCaughtUp ==
  ASSUME WatchInv, CaughtUpInv, WakeToPoll
  PROVE  CaughtUpInv'
<1>1. watcher \in Watchers(count) /\ count \in Nat
  BY WatchTyped DEF WatchInv
<1>2. /\ watcher' = [watcher EXCEPT !.at = "init"] /\ strategy' = "polling"
  BY DEF WakeToPoll
<1>3. watcher'.at = "init"
  BY <1>1, <1>2 DEF Watchers
<1> QED BY <1>2, <1>3 DEF CaughtUpInv, Noticed, Reflected, Starting, EventDriven

LEMMA ClipnotifyFailsCaughtUp ==
  ASSUME WatchInv, CaughtUpInv, ClipnotifyFails
  PROVE  CaughtUpInv'
<1>1. watcher \in Watchers(count) /\ count \in Nat
  BY WatchTyped DEF WatchInv
<1>2. /\ watcher.at = "wait" /\ strategy = "clipnotify"
      /\ watcher' = [watcher EXCEPT !.at = "sleep"]
      /\ UNCHANGED <<strategy, lastHash, notes, cancelled, writing, reading, known, slipped>>
  BY DEF ClipnotifyFails
<1>3. watcher'.at = "sleep"
  BY <1>1, <1>2 DEF Watchers
<1>4. Reflected'
  BY <1>2, <1>3 DEF Reflected, ToCompare
<1> QED BY <1>2, <1>4, WatcherCaughtUp DEF Starting

\* A Read that fails leaves darwin's counter as it was, and ends clipnotify's turn.
LEMMA WatcherReadCaughtUp ==
  ASSUME WatchInv, CaughtUpInv, WatcherRead
  PROVE  CaughtUpInv'
<1>1. WatchTypeOK /\ watcher \in Watchers(count) /\ count \in Nat
  BY WatchTyped DEF WatchInv
<1>2. /\ watcher.at = "read"
      /\ UNCHANGED <<strategy, os, count, lastHash, lastCount, notes, cancelled, writing,
                     reading, known>>
  BY DEF WatcherRead
<1>3. PICK r \in Content \cup {Failed} :
        /\ watcher' = [watcher EXCEPT !.at = IF r = Failed THEN "wait" ELSE "judge",
                                      !.content = r]
        /\ slipped' = (slipped \/ (r = Failed /\ strategy = "clipnotify"))
  BY DEF WatcherRead
<1>4. slipped => slipped'
  BY <1>3
<1>5. /\ watcher'.at \in {"wait", "judge"} /\ (r # Failed => watcher'.at = "judge")
  <2>1. "wait" \in WatcherAt /\ "judge" \in WatcherAt
    BY DEF WatcherAt
  <2>2. CASE r = Failed
    BY <1>1, <1>3, <2>1, <2>2, WatcherHolds
  <2>3. CASE r # Failed
    BY <1>1, <1>3, <2>1, <2>3, WatcherHolds
  <2> QED BY <2>2, <2>3
<1>6. Reflected'
  <2>1. CASE strategy = "clipnotify"
    <3>1. slipped' \/ ToCompare'
      BY <1>2, <1>3, <1>5, <2>1 DEF ToCompare
    <3> QED BY <3>1 DEF Reflected
  <2>2. CASE strategy = "changeCount"
    <3>1. Told => Told'
      BY <1>2 DEF Told
    <3>2. ToCompare => ToCompare'
      BY <1>2, <2>2 DEF ToCompare, Starting
    <3> QED BY <1>2, <1>4, <2>2, <3>1, <3>2
            DEF CaughtUpInv, Reflected, EventDriven, ToolWrites
  <2> QED BY <1>2, <2>1, <2>2 DEF Reflected, EventDriven
<1> QED BY <1>2, <1>4, <1>6, WatcherCaughtUp DEF Starting

\* The comparison: what differs is told. When nothing differs the content is what
\* the clipboard holds, or the counter has moved on, or slipped says otherwise.
LEMMA JudgeCaughtUp ==
  ASSUME WatchInv, CaughtUpInv, Judge
  PROVE  CaughtUpInv'
<1>1. WatchTypeOK /\ Placed /\ watcher \in Watchers(count) /\ count \in Nat
  BY WatchTyped DEF WatchInv
<1>2. /\ watcher.at = "judge" /\ lastHash' = watcher.content
      /\ lastCount' = IF strategy = "changeCount" THEN watcher.count ELSE lastCount
      /\ UNCHANGED <<strategy, os, count, notes, cancelled, writing, reading, known>>
  BY DEF Judge
<1>3. CASE watcher.content # lastHash
  <2>1. watcher' = [watcher EXCEPT !.at = "send", !.content = Failed]
    BY <1>3 DEF Judge
  <2>2. "send" \in WatcherAt
    BY DEF WatcherAt
  <2>3. Told'
    BY <1>1, <2>1, <2>2, WatcherHolds DEF Told
  <2> QED BY <2>3 DEF CaughtUpInv, Noticed, Reflected
<1>4. CASE watcher.content = lastHash
  <2>1. /\ watcher' = [watcher EXCEPT !.at = "wait", !.content = Failed]
        /\ slipped' = \/ slipped
                      \/ IsLast(watcher.content)
                      \/ EventDriven /\ \E w \in Writer : writing[w] \notin {Failed, lastHash}
    BY <1>4 DEF Judge
  <2>2. watcher'.at = "wait"
    <3>1. "wait" \in WatcherAt
      BY DEF WatcherAt
    <3> QED BY <1>1, <2>1, <3>1, WatcherHolds
  <2>3. Told => Told'
    BY <1>2 DEF Told
  <2>4. Noticed'
    <3>1. slipped => slipped'
      BY <2>1
    <3> QED BY <1>2, <1>4, <2>3, <3>1 DEF CaughtUpInv, Noticed, Starting
  <2>5. Reflected'
    <3>1. SUFFICES ASSUME ~cancelled, EventDriven, ToolWrites, ~slipped', ~Told', ~ToCompare'
                   PROVE  known = os
      BY <1>2 DEF Reflected, EventDriven, ToolWrites
    <3>2. watcher.content = os
      <4>1. strategy = "changeCount" => watcher.count = count
        BY <1>2, <3>1 DEF ToCompare
      <4>2. ~IsLast(watcher.content)
        BY <2>1, <3>1
      <4> QED BY <3>1, <4>1, <4>2 DEF IsLast
    <3>3. ~slipped /\ \A w \in Writer : writing[w] \in {Failed, lastHash}
      BY <2>1, <3>1
    <3>4. known = lastHash
      <4>1. known = lastHash \/ \E w \in Writer : writing[w] = known
        BY <1>2, <2>3, <3>1, <3>3 DEF CaughtUpInv, Noticed, Starting
      <4>2. known # Failed
        BY <1>1 DEF WatchTypeOK
      <4> QED BY <3>3, <4>1, <4>2
    <3> QED BY <1>4, <3>2, <3>4
  <2> QED BY <2>4, <2>5 DEF CaughtUpInv
<1> QED BY <1>3, <1>4

LEMMA ConsumerReadCaughtUp ==
  ASSUME WatchInv, CaughtUpInv, ConsumerRead
  PROVE  CaughtUpInv'
<1>1. WatchTypeOK /\ Placed
  BY DEF WatchInv
<1>2. reading /\ UNCHANGED <<strategy, os, lastHash>>
  BY DEF ConsumerRead
<1>3. lastHash # Failed
  BY <1>1, <1>2 DEF Placed, Told
<1>4. PICK r \in Content \cup {Failed} :
        /\ known' = IF r = Failed THEN known ELSE r
        /\ slipped' = (r # lastHash \/ (EventDriven /\ r # os))
  BY DEF ConsumerRead
<1>5. slipped' \/ (known' = lastHash' /\ (EventDriven' => known' = os'))
  BY <1>2, <1>3, <1>4 DEF EventDriven
<1> QED BY <1>5 DEF CaughtUpInv, Noticed, Reflected

LEMMA NoopCaughtUp ==
  ASSUME NEW c \in Content, NoopWrite(c)
  PROVE  CaughtUpInv'
<1>1. known' = lastHash' /\ strategy' = "noop"
  BY DEF NoopWrite
<1> QED BY <1>1 DEF CaughtUpInv, Noticed, Reflected, EventDriven

LEMMA CaughtUpKept == WatchInv /\ CaughtUpInv /\ [WatchNext]_watchVars => CaughtUpInv'
<1> SUFFICES ASSUME WatchInv, CaughtUpInv, [WatchNext]_watchVars
             PROVE  CaughtUpInv'
  OBVIOUS
<1>1. ASSUME NEW c \in Content \cup {Unfit}, Copy(c)
      PROVE  CaughtUpInv'
  BY <1>1, CopyCaughtUp
<1>2. ASSUME NEW w \in Writer, NEW c \in Content, Write(w, c)
      PROVE  CaughtUpInv'
  BY <1>2, WriteCaughtUp
<1>3. ASSUME NEW w \in Writer, Record(w)
      PROVE  CaughtUpInv'
  BY <1>3, RecordCaughtUp
<1>4. CASE Send
  BY <1>4, SendKept DEF CaughtUpInv, Noticed, Reflected
<1>5. CASE NoopLeave \/ Return
  BY <1>5 DEF NoopLeave, Return, CaughtUpInv, Noticed, Reflected
<1>6. CASE InitialRead \/ InitialCount \/ Tick \/ WakeToPoll \/ WatcherRead \/ Judge
  BY <1>6, InitialReadCaughtUp, InitialCountCaughtUp, TickCaughtUp, WakeToPollCaughtUp,
     WatcherReadCaughtUp, JudgeCaughtUp
<1>7. CASE ClipnotifyFails
  BY <1>7, ClipnotifyFailsCaughtUp
<1>8. ASSUME NEW c \in Content, NoopWrite(c)
      PROVE  CaughtUpInv'
  BY <1>8, NoopCaughtUp
<1>9. CASE Cancel
  BY <1>9 DEF Cancel, CaughtUpInv, Noticed, Reflected
<1>10. ASSUME NEW h \in 0..(Hops - 1), Forward(h)
       PROVE  CaughtUpInv'
  BY <1>10, ForwardKept DEF CaughtUpInv, Noticed, Reflected
<1>11. CASE Take
  BY <1>11, TakeKept DEF CaughtUpInv, Noticed, Reflected
<1>12. CASE ConsumerRead
  BY <1>12, ConsumerReadCaughtUp
<1>13. CASE UNCHANGED watchVars
  BY <1>13 DEF watchVars, CaughtUpInv, Noticed, Reflected, Starting, Told, ToCompare,
               EventDriven, ToolWrites
<1> QED BY <1>1, <1>2, <1>3, <1>4, <1>5, <1>6, <1>7, <1>8, <1>9, <1>10, <1>11, <1>12, <1>13
        DEF WatchNext, WatcherStep

\* When nothing is under way the program knows what the clipboard holds, unless
\* the change slipped by or cannot be read: however Write, the watcher, the
\* wrappers and the consumer interleave, and however small the channels.
THEOREM WatcherCatchesUp == WatchSpec => []CaughtUp
<1>1. WatchInv /\ CaughtUpInv => CaughtUp
  <2> SUFFICES ASSUME WatchInv, CaughtUpInv,
                      watcher.at = "wait", ~cancelled, ~reading,
                      \A h \in 0..Hops : notes[h] = 0,
                      \A w \in Writer : writing[w] = Failed,
                      strategy = "polling" => lastHash = os,
                      strategy = "changeCount" => lastCount = count,
                      strategy = "clipnotify" => ToolWrites
               PROVE  known = os \/ slipped \/ os = Unfit
    BY DEF CaughtUp
  <2>1. WatchTypeOK /\ Placed
    BY DEF WatchInv
  <2>2. ~Told /\ ~Starting
    BY DEF Told, Starting
  <2>3. CASE strategy = "polling"
    <3>1. known # Failed
      BY <2>1 DEF WatchTypeOK
    <3> QED BY <2>2, <2>3, <3>1 DEF CaughtUpInv, Noticed
  <2>4. CASE strategy \in {"changeCount", "clipnotify"}
    <3>1. EventDriven /\ ToolWrites
      BY <2>4 DEF EventDriven, ToolWrites
    <3>2. ~ToCompare
      BY <2>2, <2>4 DEF ToCompare
    <3> QED BY <2>2, <3>1, <3>2 DEF CaughtUpInv, Reflected
  <2>5. strategy \in {"polling", "changeCount", "clipnotify"}
    BY <2>1 DEF WatchTypeOK, Placed
  <2> QED BY <2>3, <2>4, <2>5
<1> QED BY <1>1, WatchInitInv, WatchInvKept, CaughtUpInit, CaughtUpKept, PTL DEF WatchSpec
=============================================================================
