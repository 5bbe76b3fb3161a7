--------------------------- MODULE BackfillProofs ---------------------------
(***************************************************************************)
(* Proofs, for every history, page size, set of runs and set of faults,    *)
(* that the backfill command keeps its invariants and uses event_ids as    *)
(* EventDeduper allows.                                                    *)
(***************************************************************************)
EXTENDS Backfill, TLAPS

\* Where a run is in its page: at an order of it, or past its end and about to ask
\* for the next page, of which there is one unless the history is empty.
Paging ==
  \A p \in Runs :
    /\ pc[p] \in {"order", "call", "undo"} => next[p] <= last[p]
    /\ pc[p] \in {"new", "fetch"} => next[p] = last[p] + 1
    /\ pc[p] \in {"new", "fetch"} => last[p] < Len(History) \/ last[p] = 0
    /\ pc[p] \in {"new", "fetch", "order"} => done[p] = 0

USE HistoryAssumption, BackfillAssumption

\* The history has a length.
LEMMA LengthType == Len(History) \in Nat
OBVIOUS

\* The end of the loop body: the run is at the next order of its page, asks for
\* the next page, or has seen the whole history.
LEMMA AdvanceMoves ==
  ASSUME TypeOK, Paging, NEW p \in Runs, NEW failures \in Nat, Advance(p, failures),
         pc[p] \in {"order", "call", "undo"}
  PROVE  /\ next' \in [Runs -> 1 .. Len(History) + 1]
         /\ done' \in [Runs -> 0 .. NumCalls]
         /\ pc' \in [Runs -> Steps]
         /\ next'[p] = next[p] + 1 /\ done'[p] = 0
         /\ \A q \in Runs \ {p} :
              next'[q] = next[q] /\ done'[q] = done[q] /\ pc'[q] = pc[q]
         /\ \/ pc'[p] = "order" /\ next'[p] <= last[p]
            \/ pc'[p] = "fetch" /\ next'[p] = last[p] + 1 /\ last[p] < Len(History)
            \/ /\ pc'[p] \in {"ok", "failures"}
               /\ pc'[p] = "ok" <=> failures = 0
               /\ last[p] = Len(History) /\ next'[p] = Len(History) + 1
<1>1. /\ next[p] \in Nat /\ last[p] \in Nat /\ Len(History) \in Nat /\ NumCalls \in Nat
      /\ 1 <= next[p] /\ next[p] <= last[p] /\ last[p] <= Len(History)
  BY LengthType DEF TypeOK, Paging
<1>2. next' = [next EXCEPT ![p] = next[p] + 1] /\ done' = [done EXCEPT ![p] = 0]
  BY DEF Advance
<1>3. PICK step \in Steps :
        /\ pc' = [pc EXCEPT ![p] = step]
        /\ \/ step = "order" /\ next[p] < last[p]
           \/ step = "fetch" /\ ~ next[p] < last[p] /\ last[p] < Len(History)
           \/ /\ step = IF failures > 0 THEN "failures" ELSE "ok"
              /\ ~ next[p] < last[p] /\ ~ last[p] < Len(History)
  BY DEF Advance, Goto, Steps, Ended
<1>4. /\ next \in [Runs -> 1 .. Len(History) + 1] /\ done \in [Runs -> 0 .. NumCalls]
      /\ pc \in [Runs -> Steps]
  BY DEF TypeOK
<1>5. /\ next[p] + 1 \in 1 .. Len(History) + 1 /\ 0 \in 0 .. NumCalls
      /\ next[p] + 1 <= last[p] \/ next[p] + 1 = last[p] + 1
  BY <1>1
<1>6. /\ next' \in [Runs -> 1 .. Len(History) + 1]
      /\ next'[p] = next[p] + 1
      /\ \A q \in Runs \ {p} : next'[q] = next[q]
  BY <1>2, <1>4, <1>5
<1>7. /\ done' \in [Runs -> 0 .. NumCalls]
      /\ done'[p] = 0
      /\ \A q \in Runs \ {p} : done'[q] = done[q]
  BY <1>2, <1>4, <1>5
<1>8. /\ pc' \in [Runs -> Steps] /\ pc'[p] = step
      /\ \A q \in Runs \ {p} : pc'[q] = pc[q]
  BY <1>3, <1>4
<1>9. \/ step = "order" /\ next[p] + 1 <= last[p]
      \/ step = "fetch" /\ next[p] + 1 = last[p] + 1 /\ last[p] < Len(History)
      \/ /\ step \in {"ok", "failures"} /\ (step = "ok" <=> failures = 0)
         /\ last[p] = Len(History) /\ next[p] + 1 = Len(History) + 1
  BY <1>1, <1>3
<1> QED BY <1>6, <1>7, <1>8, <1>9

\* A page of what is left: not empty as long as something is left.
LEMMA FetchMoves ==
  ASSUME TypeOK, Paging, NEW p \in Runs, FetchPage(p)
  PROVE  /\ last' \in [Runs -> 0 .. Len(History)]
         /\ pc' \in [Runs -> Steps]
         /\ report' \in [Runs -> [Counters -> Nat]]
         /\ \A q \in Runs \ {p} :
              last'[q] = last[q] /\ pc'[q] = pc[q] /\ report'[q] = report[q]
         /\ \A c \in Counters \ {"fetched"} : report'[p][c] = report[p][c]
         /\ report'[p]["fetched"] = report[p]["fetched"] + (last'[p] - last[p])
         /\ \/ pc'[p] = "order" /\ next[p] <= last'[p]
            \/ /\ pc'[p] = "ok"
               /\ last[p] = 0 /\ last'[p] = 0 /\ Len(History) = 0 /\ next[p] = 1
<1> DEFINE end == IF last[p] + Limit < Len(History) THEN last[p] + Limit ELSE Len(History)
<1>1. /\ next[p] \in Nat /\ last[p] \in Nat /\ Len(History) \in Nat /\ Limit \in Nat \ {0}
      /\ last[p] <= Len(History)
  BY LengthType DEF TypeOK
<1>2. next[p] = last[p] + 1 /\ (last[p] < Len(History) \/ last[p] = 0)
  BY DEF Paging, FetchPage
<1>3. end \in Nat /\ last[p] <= end /\ end <= Len(History)
  BY <1>1
<1>4. end >= next[p] \/ (last[p] = 0 /\ end = 0 /\ Len(History) = 0)
  BY <1>1, <1>2
<1> HIDE DEF end
<1>5. end + 1 - next[p] = end - last[p] /\ end - last[p] \in Nat
  BY <1>1, <1>2, <1>3
<1>6. /\ last' = [last EXCEPT ![p] = end]
      /\ report' = [report EXCEPT ![p]["fetched"] = @ + (end - last[p])]
      /\ pc' = [pc EXCEPT ![p] = IF end >= next[p] THEN "order" ELSE "ok"]
  BY <1>5 DEF FetchPage, Count, Goto, end
<1>7. report' \in [Runs -> [Counters -> Nat]]
  BY <1>5, <1>6 DEF TypeOK, Counters
<1>8. /\ report'[p]["fetched"] = report[p]["fetched"] + (end - last[p])
      /\ \A c \in Counters \ {"fetched"} : report'[p][c] = report[p][c]
      /\ \A q \in Runs \ {p} : report'[q] = report[q]
  BY <1>6 DEF TypeOK, Counters
<1>9. last' \in [Runs -> 0 .. Len(History)] /\ last'[p] = end
  BY <1>1, <1>3, <1>6 DEF TypeOK
<1>10. pc' \in [Runs -> Steps]
  BY <1>6 DEF TypeOK, Steps, Ended
<1>11. \/ pc'[p] = "order" /\ next[p] <= end
       \/ pc'[p] = "ok" /\ last[p] = 0 /\ end = 0 /\ Len(History) = 0 /\ next[p] = 1
  BY <1>1, <1>2, <1>3, <1>4, <1>6 DEF TypeOK
<1>12. \A q \in Runs \ {p} : last'[q] = last[q] /\ pc'[q] = pc[q]
  BY <1>6 DEF TypeOK
<1> QED BY <1>7, <1>8, <1>9, <1>10, <1>11, <1>12

\* A counter goes up by one.
LEMMA CountOne ==
  ASSUME TypeOK, NEW p \in Runs, NEW c \in Counters, Count(p, c, 1)
  PROVE  /\ report' \in [Runs -> [Counters -> Nat]]
         /\ report'[p][c] = report[p][c] + 1
         /\ \A d \in Counters \ {c} : report'[p][d] = report[p][d]
         /\ \A q \in Runs \ {p} : report'[q] = report[q]
<1>1. report[p] \in [Counters -> Nat]
  BY DEF TypeOK
<1>2. report' = [report EXCEPT ![p] = [report[p] EXCEPT ![c] = @ + 1]]
  BY DEF Count
<1>3. [report[p] EXCEPT ![c] = @ + 1] \in [Counters -> Nat]
  BY <1>1
<1> QED BY <1>1, <1>2, <1>3 DEF TypeOK

\* The count of failures is a number.
LEMMA FailedType ==
  ASSUME TypeOK
  PROVE  \A p \in Runs : report[p].failed \in Nat /\ report[p].failed + 1 \in Nat
BY DEF TypeOK, Counters

-----------------------------------------------------------------------------
\* A call that takes effect counts at its own slot and nowhere else.
LEMMA TakeEffectCounts ==
  ASSUME TypeOK, NEW p \in Runs, NEW o \in Orders, AtCall(p, o), TakeEffect(p, o)
  PROVE  /\ done[p] + 1 \in 1 .. NumCalls
         /\ landed' \in [Orders -> [1 .. NumCalls -> Nat]]
         /\ landed'[o][done[p] + 1] = landed[o][done[p] + 1] + 1
         /\ \A i \in 1 .. NumCalls : i # done[p] + 1 => landed'[o][i] = landed[o][i]
         /\ \A q \in Orders : q # o => landed'[q] = landed[q]
<1>1. done[p] \in Nat /\ NumCalls \in Nat /\ done[p] < NumCalls
  BY DEF TypeOK, AtCall
<1>2. done[p] + 1 \in 1 .. NumCalls
  BY <1>1
<1>3. landed[o] \in [1 .. NumCalls -> Nat]
  BY DEF TypeOK
<1> DEFINE row == [landed[o] EXCEPT ![done[p] + 1] = @ + 1]
<1>4. row \in [1 .. NumCalls -> Nat]
  BY <1>2, <1>3
<1>5. landed' = [landed EXCEPT ![o] = row]
  BY DEF TakeEffect
<1> QED BY <1>2, <1>3, <1>4, <1>5 DEF TypeOK

\* So does a call of the live consumer's handler.
LEMMA TakeLiveEffectCounts ==
  ASSUME TypeOK, NEW o \in Orders, AtLiveCall(o), TakeLiveEffect(o)
  PROVE  /\ live[o] + 1 \in 1 .. NumCalls
         /\ landed' \in [Orders -> [1 .. NumCalls -> Nat]]
         /\ landed'[o][live[o] + 1] = landed[o][live[o] + 1] + 1
         /\ \A i \in 1 .. NumCalls : i # live[o] + 1 => landed'[o][i] = landed[o][i]
         /\ \A x \in Orders : x # o => landed'[x] = landed[x]
<1>1. live[o] \in Nat /\ NumCalls \in Nat /\ live[o] < NumCalls
  BY DEF TypeOK, AtLiveCall
<1>2. live[o] + 1 \in 1 .. NumCalls
  BY <1>1
<1>3. landed[o] \in [1 .. NumCalls -> Nat]
  BY DEF TypeOK
<1> DEFINE row == [landed[o] EXCEPT ![live[o] + 1] = @ + 1]
<1>4. row \in [1 .. NumCalls -> Nat]
  BY <1>2, <1>3
<1>5. landed' = [landed EXCEPT ![o] = row]
  BY DEF TakeLiveEffect
<1> QED BY <1>2, <1>3, <1>4, <1>5 DEF TypeOK

\* A step of the live consumer keeps its variables typed and leaves the runs of the
\* command alone, and their marks.
LEMMA LiveTypes ==
  ASSUME TypeOK, NEW o \in Orders, LiveStep(o)
  PROVE  /\ UNCHANGED <<pc, dryRun, next, last, done, report, seen, completed, erased,
                       orphaned>>
         /\ liveAt' \in [Orders -> LiveSteps] /\ live' \in [Orders -> 0 .. NumCalls]
         /\ liveSeen' \subseteq Orders /\ liveErased' \in [Orders -> Nat]
         /\ landed' \in [Orders -> [1 .. NumCalls -> Nat]] /\ faults' \in Nat
<1> USE DEF CommandVars, LiveGoto, Disturb
<1>1. /\ liveAt \in [Orders -> LiveSteps] /\ live \in [Orders -> 0 .. NumCalls]
      /\ liveSeen \subseteq Orders /\ liveErased \in [Orders -> Nat]
      /\ landed \in [Orders -> [1 .. NumCalls -> Nat]] /\ faults \in Nat
      /\ faults + 1 \in Nat /\ 0 \in 0 .. NumCalls
  BY DEF TypeOK
<1>2. CASE LiveMark(o) \/ LiveMarkLost(o)
  <2>1. CASE LiveMark(o)
    BY <1>1, <2>1 DEF LiveMark, LiveSteps
  <2>2. CASE LiveMarkLost(o)
    BY <1>1, <2>2 DEF LiveMarkLost
  <2> QED BY <1>2, <2>1, <2>2
<1>3. CASE LiveReturn(o)
  BY <1>1, <1>3 DEF LiveReturn, LiveSteps
<1>4. CASE LiveCallFail(o)
  BY <1>1, <1>4 DEF LiveCallFail, LiveSteps
<1>5. CASE LiveUnmarkFail(o) \/ LiveCrash(o)
  <2>1. CASE LiveUnmarkFail(o)
    BY <1>1, <2>1 DEF LiveUnmarkFail, LiveSteps
  <2>2. CASE LiveCrash(o)
    BY <1>1, <2>2 DEF LiveCrash, LiveSteps
  <2> QED BY <1>5, <2>1, <2>2
<1>6. CASE LiveCallOk(o) \/ LiveCallLost(o)
  <2>1. AtLiveCall(o) /\ TakeLiveEffect(o)
    BY <1>6 DEF LiveCallOk, LiveCallLost
  <2>2. live[o] + 1 \in 1 .. NumCalls /\ landed' \in [Orders -> [1 .. NumCalls -> Nat]]
    BY <2>1, TakeLiveEffectCounts
  <2>5. live[o] + 1 \in 0 .. NumCalls
    BY <2>2
  <2>3. CASE LiveCallOk(o)
    BY <1>1, <2>2, <2>3, <2>5 DEF LiveCallOk
  <2>4. CASE LiveCallLost(o)
    BY <1>1, <2>2, <2>4 DEF LiveCallLost, LiveSteps
  <2> QED BY <1>6, <2>3, <2>4
<1>7. CASE LiveUnmark(o) \/ LiveReap(o)
  <2>1. liveErased' = [liveErased EXCEPT ![o] = @ + 1]
    BY <1>7 DEF LiveUnmark, LiveReap
  <2>2. liveErased[o] + 1 \in Nat
    BY <1>1
  <2>3. liveErased' \in [Orders -> Nat]
    BY <1>1, <2>1, <2>2, Zenon
  <2>4. CASE LiveUnmark(o)
    BY <1>1, <2>3, <2>4 DEF LiveUnmark, LiveSteps
  <2>5. CASE LiveReap(o)
    BY <1>1, <2>3, <2>5 DEF LiveReap
  <2> QED BY <1>7, <2>4, <2>5
<1> QED BY <1>2, <1>3, <1>4, <1>5, <1>6, <1>7 DEF LiveStep

\* What every step that looks at an order does to the run: it goes on inside the
\* order, leaves the loop, or ends the loop body.
LEMMA PagingStep == TypeOK /\ Paging /\ [Next]_vars => TypeOK' /\ Paging'
<1> SUFFICES ASSUME TypeOK, Paging, [Next]_vars PROVE TypeOK' /\ Paging'
  OBVIOUS
<1> USE DEF Goto, Disturb, history
<1>1. ASSUME NEW p \in Runs, Start(p) \/ StartFail(p) \/ FetchFail(p) \/ Crash(p)
      PROVE  TypeOK' /\ Paging'
  <2>1. /\ pc' \in [Runs -> Steps] /\ pc'[p] \in {"fetch", "fatal", "dead"}
        /\ pc'[p] = "fetch" => pc[p] = "new"
        /\ \A q \in Runs \ {p} : pc'[q] = pc[q]
    BY <1>1 DEF Start, StartFail, FetchFail, Crash, TypeOK, Steps, Ended
  <2>2. /\ UNCHANGED <<dryRun, next, last, done, report, seen, liveVars, landed,
                       completed, erased>>
        /\ orphaned' \subseteq Orders /\ faults' \in Nat
    BY <1>1 DEF Start, StartFail, FetchFail, Crash, TypeOK
  <2> QED BY <2>1, <2>2 DEF TypeOK, Paging, liveVars
<1>2. ASSUME NEW p \in Runs, FetchPage(p) PROVE TypeOK' /\ Paging'
  <2>1. pc[p] = "fetch" /\ UNCHANGED <<liveVars, dryRun, next, done, seen, history, faults>>
    BY <1>2 DEF FetchPage
  <2>2. TypeOK'
    BY <1>2, <2>1, FetchMoves DEF TypeOK, liveVars
  <2>3. /\ \A q \in Runs \ {p} : last'[q] = last[q] /\ pc'[q] = pc[q]
        /\ (pc'[p] = "order" /\ next[p] <= last'[p]) \/ pc'[p] = "ok"
    BY <1>2, FetchMoves
  <2>4. Paging'
    BY <2>1, <2>3 DEF Paging
  <2> QED BY <2>2, <2>4
<1>3. ASSUME NEW p \in Runs, NEW failures \in Nat, Advance(p, failures),
             pc[p] \in {"order", "call", "undo"}, UNCHANGED last
      PROVE  Paging'
  <2>1. last[p] \in Nat
    BY DEF TypeOK
  <2> QED BY <1>3, <2>1, AdvanceMoves DEF Paging
<1>4. ASSUME NEW p \in Runs, DryRun(p) PROVE TypeOK' /\ Paging'
  <2>1. /\ report[p].failed \in Nat /\ Advance(p, report[p].failed) /\ pc[p] = "order"
        /\ UNCHANGED <<liveVars, dryRun, last, report, seen, history, faults>>
    BY <1>4 DEF DryRun, TypeOK, Counters
  <2> QED BY <2>1, <1>3, AdvanceMoves DEF TypeOK, liveVars
<1>5. ASSUME NEW p \in Runs, NEW o \in Orders,
             MarkFresh(p, o) \/ MarkFail(p, o) \/ MarkLost(p, o)
      PROVE  TypeOK' /\ Paging'
  <2>1. /\ pc[p] = "order"
        /\ pc' \in [Runs -> Steps] /\ pc'[p] \in {"call", "undo", "fatal"}
        /\ \A q \in Runs \ {p} : pc'[q] = pc[q]
    BY <1>5 DEF MarkFresh, MarkFail, MarkLost, TypeOK, Steps, Ended
  <2>2. /\ UNCHANGED <<liveVars, dryRun, next, last, done, report, landed, completed, erased>>
        /\ seen' \subseteq Orders /\ orphaned' \subseteq Orders /\ faults' \in Nat
    <3>0. orphaned \subseteq Orders /\ seen \subseteq Orders /\ faults \in Nat
      BY DEF TypeOK
    <3>1. CASE MarkFresh(p, o) BY <3>0, <3>1 DEF MarkFresh
    <3>2. CASE MarkFail(p, o) BY <3>0, <3>2 DEF MarkFail
    <3>3. CASE MarkLost(p, o) BY <3>0, <3>3 DEF MarkLost
    <3> QED BY <1>5, <3>1, <3>2, <3>3
  <2> QED BY <2>1, <2>2 DEF TypeOK, Paging, liveVars
<1>6. ASSUME NEW p \in Runs, NEW o \in Orders, MarkDuplicate(p, o)
      PROVE  TypeOK' /\ Paging'
  <2>1. /\ report[p].failed \in Nat /\ Advance(p, report[p].failed) /\ pc[p] = "order"
        /\ Count(p, "skippedDup", 1)
        /\ UNCHANGED <<liveVars, dryRun, last, seen, history, faults>>
    BY <1>6 DEF MarkDuplicate, TypeOK, Counters
  <2>2. report' \in [Runs -> [Counters -> Nat]]
    BY <2>1, CountOne DEF Counters
  <2> QED BY <2>1, <2>2, <1>3, AdvanceMoves DEF TypeOK, liveVars
<1>7. ASSUME NEW p \in Runs, NEW o \in Orders,
             CallOk(p, o) \/ CallFail(p, o) \/ CallLost(p, o)
      PROVE  TypeOK' /\ Paging'
  <2>1. /\ pc[p] = "call" /\ AtCall(p, o)
        /\ pc' \in [Runs -> Steps] /\ pc'[p] \in {"call", "undo"}
        /\ \A q \in Runs \ {p} : pc'[q] = pc[q]
    BY <1>7 DEF CallOk, CallFail, CallLost, AtCall, TypeOK, Steps
  <2>2. /\ UNCHANGED <<liveVars, dryRun, next, last, report, seen, completed, erased, orphaned>>
        /\ faults' \in Nat
    BY <1>7 DEF CallOk, CallFail, CallLost, TypeOK
  <2>3. landed' \in [Orders -> [1 .. NumCalls -> Nat]]
    BY <1>7, TakeEffectCounts DEF CallOk, CallFail, CallLost, TypeOK
  <2>4. done' \in [Runs -> 0 .. NumCalls] /\ \A q \in Runs \ {p} : done'[q] = done[q]
    <3>1. done[p] + 1 \in 0 .. NumCalls
      <4>1. done[p] \in Nat /\ NumCalls \in Nat /\ done[p] < NumCalls
        BY <2>1 DEF AtCall, TypeOK
      <4> QED BY <4>1
    <3> QED BY <1>7, <3>1 DEF CallOk, CallFail, CallLost, TypeOK
  <2> QED BY <2>1, <2>2, <2>3, <2>4 DEF TypeOK, Paging, liveVars
<1>8. ASSUME NEW p \in Runs, NEW o \in Orders, Applied(p, o)
      PROVE  TypeOK' /\ Paging'
  <2>1. /\ Advance(p, report[p].failed) /\ pc[p] = "call" /\ Count(p, "applied", 1)
        /\ UNCHANGED <<liveVars, dryRun, last, seen, landed, erased, orphaned, faults>>
    BY <1>8 DEF Applied
  <2>3. report[p].failed \in Nat
    BY DEF TypeOK, Counters
  <2>4. completed' \in [Orders -> Nat]
    <3>1. completed' = [completed EXCEPT ![o] = @ + 1] /\ completed \in [Orders -> Nat]
      BY <1>8 DEF Applied, TypeOK
    <3>2. completed[o] + 1 \in Nat
      BY <3>1
    <3> QED BY <3>1, <3>2, Zenon
  <2>2. report' \in [Runs -> [Counters -> Nat]]
    BY <2>1, CountOne DEF Counters
  <2> QED BY <2>1, <2>2, <2>3, <2>4, <1>3, AdvanceMoves DEF TypeOK, liveVars
<1>9. ASSUME NEW p \in Runs, NEW o \in Orders, Unmark(p, o) \/ UnmarkFail(p, o)
      PROVE  TypeOK' /\ Paging'
  <2>1. /\ Advance(p, report[p].failed + 1) /\ pc[p] = "undo" /\ Count(p, "failed", 1)
        /\ UNCHANGED <<liveVars, dryRun, last, landed, completed>>
    BY <1>9 DEF Unmark, UnmarkFail
  <2>4. report[p].failed + 1 \in Nat
    BY DEF TypeOK, Counters
  <2>2. /\ seen' \subseteq Orders /\ erased' \in [Orders -> Nat]
        /\ orphaned' \subseteq Orders /\ faults' \in Nat
    <3>1. CASE Unmark(p, o)
      <4>1. /\ seen' = seen \ {o} /\ erased' = [erased EXCEPT ![o] = @ + 1]
            /\ UNCHANGED <<orphaned, faults>>
        BY <3>1 DEF Unmark
      <4>2. /\ seen \subseteq Orders /\ erased \in [Orders -> Nat]
            /\ orphaned \subseteq Orders /\ faults \in Nat
        BY DEF TypeOK
      <4>3. erased' \in [Orders -> Nat]
        <5>1. erased[o] + 1 \in Nat
          BY <4>2
        <5> QED BY <4>1, <4>2, <5>1, Zenon
      <4> QED BY <4>1, <4>2, <4>3
    <3>2. CASE UnmarkFail(p, o)
      <4>1. /\ UNCHANGED <<seen, erased>> /\ orphaned' = orphaned \cup {o}
            /\ faults' = faults + 1
        BY <3>2 DEF UnmarkFail
      <4>2. seen \subseteq Orders /\ erased \in [Orders -> Nat]
        BY DEF TypeOK
      <4>3. orphaned \subseteq Orders /\ faults \in Nat
        BY DEF TypeOK
      <4> QED BY <4>1, <4>2, <4>3
    <3> QED BY <1>9, <3>1, <3>2
  <2>3. report' \in [Runs -> [Counters -> Nat]]
    BY <2>1, CountOne DEF Counters
  <2> QED BY <2>1, <2>2, <2>3, <2>4, <1>3, AdvanceMoves DEF TypeOK, liveVars
<1>10. ASSUME NEW o \in Orders, Reap(o) PROVE TypeOK' /\ Paging'
  <2>1. erased' = [erased EXCEPT ![o] = @ + 1] /\ erased \in [Orders -> Nat]
    BY <1>10 DEF Reap, TypeOK
  <2>2. erased[o] + 1 \in Nat
    BY <2>1
  <2>3. erased' \in [Orders -> Nat]
    BY <2>1, <2>2, Zenon
  <2> QED BY <1>10, <2>3 DEF Reap, TypeOK, Paging, liveVars
<1>11. ASSUME NEW o \in Orders, LiveStep(o) PROVE TypeOK' /\ Paging'
  BY <1>11, LiveTypes DEF TypeOK, Paging
<1>12. CASE UNCHANGED vars
  BY <1>12 DEF vars, TypeOK, Paging, liveVars
<1> QED
  BY <1>1, <1>2, <1>4, <1>5, <1>6, <1>7, <1>8, <1>9, <1>10, <1>11, <1>12
  DEF Next, Work, Handle, HandleError, Rest

\* A run starts before its first page.
LEMMA PagingInit == Init => TypeOK /\ Paging
<1>1. Len(History) \in Nat /\ NumCalls \in Nat
  BY LengthType
<1> QED BY <1>1 DEF Init, TypeOK, Paging, Steps, Counters, LiveSteps

\* Every variable keeps its type: no run looks past the end of its page, and no
\* counter is ever less than nothing.
THEOREM TypeCorrect == Spec => [](TypeOK /\ Paging)
<1>1. Init => TypeOK /\ Paging
  BY PagingInit
<1>2. TypeOK /\ Paging /\ [Next]_vars => TypeOK' /\ Paging'
  BY PagingStep
<1> QED BY <1>1, <1>2, PTL DEF Spec

-----------------------------------------------------------------------------
\* The end of the loop body ends the run's hold on its order.
LEMMA AdvanceLeaves ==
  ASSUME TypeOK, Paging, NEW p \in Runs, NEW failures \in Nat, Advance(p, failures),
         pc[p] \in {"order", "call", "undo"}
  PROVE  /\ \A x \in Orders : ~ Engaged(p, x)'
         /\ \A q \in Runs \ {p}, x \in Orders : Engaged(q, x)' <=> Engaged(q, x)
BY AdvanceMoves DEF Engaged

\* The steps of a run between two orders touch neither marks nor holds.
LEMMA RunSteps ==
  ASSUME TypeOK, Paging, NEW p \in Runs,
         Start(p) \/ StartFail(p) \/ FetchPage(p) \/ FetchFail(p) \/ DryRun(p)
  PROVE  /\ \A q \in Runs, x \in Orders : Engaged(q, x)' <=> Engaged(q, x)
         /\ UNCHANGED <<seen, liveVars, landed, completed, erased, orphaned, dryRun>>
<1> USE DEF Goto, history
<1>1. CASE Start(p) \/ StartFail(p) \/ FetchFail(p)
  BY <1>1 DEF Start, StartFail, FetchFail, Engaged, TypeOK
<1>2. CASE FetchPage(p)
  <2>1. pc[p] = "fetch" /\ UNCHANGED <<liveVars, dryRun, next, seen, history>>
    BY <1>2 DEF FetchPage
  <2>2. pc'[p] \in {"order", "ok"} /\ \A q \in Runs \ {p} : pc'[q] = pc[q]
    BY <1>2, FetchMoves
  <2> QED BY <2>1, <2>2 DEF Engaged
<1>3. CASE DryRun(p)
  <2>1. /\ pc[p] = "order" /\ Advance(p, report[p].failed)
        /\ UNCHANGED <<liveVars, dryRun, seen, history>>
    BY <1>3 DEF DryRun
  <2>2. report[p].failed \in Nat
    BY DEF TypeOK, Counters
  <2>3. \A x \in Orders : ~ Engaged(p, x)
    BY <2>1 DEF Engaged
  <2> QED BY <2>1, <2>2, <2>3, AdvanceLeaves
<1> QED BY <1>1, <1>2, <1>3

\* Nor do the steps that skip an order or stay inside it.
LEMMA OrderSteps ==
  ASSUME TypeOK, Paging, NEW p \in Runs, NEW o \in Orders,
         \/ MarkDuplicate(p, o) \/ MarkFail(p, o)
         \/ CallOk(p, o) \/ CallFail(p, o) \/ CallLost(p, o)
  PROVE  /\ \A q \in Runs, x \in Orders : Engaged(q, x)' <=> Engaged(q, x)
         /\ UNCHANGED <<seen, liveVars, completed, erased, orphaned, dryRun>>
<1> USE DEF Goto, history
<1>1. CASE MarkFail(p, o)
  BY <1>1 DEF MarkFail, Engaged, TypeOK
<1>2. CASE CallOk(p, o) \/ CallFail(p, o) \/ CallLost(p, o)
  BY <1>2 DEF CallOk, CallFail, CallLost, AtCall, Engaged, TypeOK
<1>3. CASE MarkDuplicate(p, o)
  <2>1. /\ pc[p] = "order" /\ Advance(p, report[p].failed)
        /\ UNCHANGED <<liveVars, dryRun, seen, history>>
    BY <1>3 DEF MarkDuplicate
  <2>2. report[p].failed \in Nat
    BY DEF TypeOK, Counters
  <2>3. \A x \in Orders : ~ Engaged(p, x)
    BY <2>1 DEF Engaged
  <2> QED BY <2>1, <2>2, <2>3, AdvanceLeaves
<1> QED BY <1>1, <1>2, <1>3

\* MarkFresh begins a hold on an order that had no mark.
LEMMA MarkFreshEngages ==
  ASSUME TypeOK, NEW p \in Runs, NEW o \in Orders, MarkFresh(p, o)
  PROVE  /\ o \notin seen /\ seen' = seen \cup {o} /\ ~ dryRun[p]
         /\ UNCHANGED <<liveVars, landed, completed, erased, orphaned, dryRun>>
         /\ \A x \in Orders : Engaged(p, x)' <=> x = o
         /\ \A x \in Orders : ~ Engaged(p, x)
         /\ \A q \in Runs \ {p}, x \in Orders : Engaged(q, x)' <=> Engaged(q, x)
BY DEF MarkFresh, Goto, history, Engaged, TypeOK

\* OnOrderPlaced's success and the two ends of a failure end it.
LEMMA BodyEnds ==
  ASSUME TypeOK, Paging, NEW p \in Runs, NEW o \in Orders,
         Applied(p, o) \/ Unmark(p, o) \/ UnmarkFail(p, o)
  PROVE  /\ \A x \in Orders : Engaged(p, x) <=> x = o
         /\ \A x \in Orders : ~ Engaged(p, x)'
         /\ \A q \in Runs \ {p}, x \in Orders : Engaged(q, x)' <=> Engaged(q, x)
<1>1. /\ pc[p] \in {"call", "undo"} /\ History[next[p]] = o
      /\ Advance(p, report[p].failed) \/ Advance(p, report[p].failed + 1)
  BY DEF Applied, Unmark, UnmarkFail
<1>2. report[p].failed \in Nat /\ report[p].failed + 1 \in Nat
  BY DEF TypeOK, Counters
<1>3. \A x \in Orders : Engaged(p, x) <=> x = o
  BY <1>1 DEF Engaged
<1> QED BY <1>1, <1>2, <1>3, AdvanceLeaves

\* A killed run holds nothing.
LEMMA CrashEnds ==
  ASSUME TypeOK, NEW p \in Runs, Crash(p)
  PROVE  /\ UNCHANGED <<seen, liveVars, landed, completed, erased, dryRun>>
         /\ orphaned' = orphaned \cup {x \in Orders : Engaged(p, x)}
         /\ pc'[p] = "dead" /\ UNCHANGED <<next, last, done, report>>
         /\ \A q \in Runs \ {p} : pc'[q] = pc[q]
         /\ \A x \in Orders : ~ Engaged(p, x)'
         /\ \A q \in Runs \ {p}, x \in Orders : Engaged(q, x)' <=> Engaged(q, x)
BY DEF Crash, Goto, Engaged, TypeOK

-----------------------------------------------------------------------------
\* One run at a time has an order in hand, and under its mark.
Lock ==
  \A p \in Runs, o \in Orders : Engaged(p, o) =>
    o \in seen /\ \A q \in Runs : Engaged(q, o) => q = p

\* At the start no run has an order in hand.
LEMMA LockInit == Init => Lock
BY DEF Init, Lock, Engaged

\* A run takes an order in hand only with the insert of its mark.
LEMMA LockStep == TypeOK /\ Paging /\ Lock /\ [Next]_vars => Lock'
<1> SUFFICES ASSUME TypeOK, Paging, Lock, [Next]_vars PROVE Lock'
  OBVIOUS
<1>1. ASSUME NEW p \in Runs,
             Start(p) \/ StartFail(p) \/ FetchPage(p) \/ FetchFail(p) \/ DryRun(p)
      PROVE  Lock'
  BY <1>1, RunSteps DEF Lock
<1>2. ASSUME NEW p \in Runs, NEW o \in Orders,
             \/ MarkDuplicate(p, o) \/ MarkFail(p, o)
             \/ CallOk(p, o) \/ CallFail(p, o) \/ CallLost(p, o)
      PROVE  Lock'
  BY <1>2, OrderSteps DEF Lock
<1>3. ASSUME NEW p \in Runs, NEW o \in Orders, MarkFresh(p, o) PROVE Lock'
  BY <1>3, MarkFreshEngages DEF Lock
<1>4. ASSUME NEW p \in Runs, NEW o \in Orders, MarkLost(p, o) PROVE Lock'
  <2>1. /\ seen' = seen \cup {o}
        /\ \A q \in Runs, x \in Orders : Engaged(q, x)' => Engaged(q, x)
    BY <1>4 DEF MarkLost, Goto, Engaged, TypeOK
  <2> QED BY <2>1 DEF Lock
<1>5. ASSUME NEW p \in Runs, NEW o \in Orders,
             Applied(p, o) \/ Unmark(p, o) \/ UnmarkFail(p, o)
      PROVE  Lock'
  <2>1. seen \ {o} \subseteq seen'
    BY <1>5 DEF Applied, Unmark, UnmarkFail
  <2>2. \A q \in Runs \ {p} : ~ Engaged(q, o)'
    BY <1>5, BodyEnds DEF Lock
  <2> QED BY <1>5, <2>1, <2>2, BodyEnds DEF Lock
<1>6. ASSUME NEW p \in Runs, Crash(p) PROVE Lock'
  BY <1>6, CrashEnds DEF Lock
<1>7. ASSUME NEW o \in Orders, Reap(o) PROVE Lock'
  BY <1>7 DEF Reap, Lock, Engaged
<1>8. ASSUME NEW o \in Orders, LiveStep(o) PROVE Lock'
  BY <1>8, LiveTypes DEF Lock, Engaged
<1>9. CASE UNCHANGED vars
  BY <1>9 DEF vars, Lock, Engaged
<1> QED
  BY <1>1, <1>2, <1>3, <1>4, <1>5, <1>6, <1>7, <1>8, <1>9
  DEF Next, Work, Handle, HandleError, Rest

-----------------------------------------------------------------------------
\* What the live consumer may have landed of o's call i: once for each mark that
\* o's event had, and for the one it has unless the handler is still before the
\* call.
Share(o, i) ==
  liveErased[o]
    + (IF o \in liveSeen /\ ~ (liveAt[o] = "call" /\ i > live[o]) THEN 1 ELSE 0)

\* Calls land once per mark, and a live handler's only when it has made them.
Within ==
  \A o \in Orders, i \in 1 .. NumCalls :
    landed[o][i] <= erased[o] + (IF o \in seen THEN 1 ELSE 0) + Share(o, i)

\* A run inside OnOrderPlaced has not used its mark for the calls it has still to
\* make.
RunFresh ==
  \A p \in Runs, o \in Orders, i \in 1 .. NumCalls :
    pc[p] = "call" /\ History[next[p]] = o /\ i > done[p] =>
      landed[o][i] <= erased[o] + Share(o, i)

\* The live consumer has an event in hand only under its mark.
LiveHeld == \A o \in Orders : liveAt[o] # "idle" => o \in liveSeen

Counting == Within /\ RunFresh /\ LiveHeld

\* At the start no order is marked and no call has landed.
LEMMA CountingInit == Init => Counting
BY DEF Init, Counting, Within, RunFresh, LiveHeld, Share

\* The live consumer's share is a number.
LEMMA ShareType ==
  ASSUME TypeOK
  PROVE  \A o \in Orders, i \in 1 .. NumCalls :
           Share(o, i) \in Nat /\ landed[o][i] \in Nat /\ erased[o] \in Nat
<1> TAKE o \in Orders, i \in 1 .. NumCalls
<1>1. liveErased[o] \in Nat /\ landed[o][i] \in Nat /\ erased[o] \in Nat
  BY DEF TypeOK
<1> QED BY <1>1 DEF Share

\* The command does not change it.
LEMMA ShareFrame ==
  ASSUME UNCHANGED liveVars
  PROVE  /\ \A o \in Orders, i \in 1 .. NumCalls : Share(o, i)' = Share(o, i)
         /\ LiveHeld => LiveHeld'
BY DEF Share, LiveHeld, liveVars

\* Of the live consumer's steps only a call lets anything land, and then its share
\* grows with it; no step makes the share less.
LEMMA LiveShare ==
  ASSUME TypeOK, LiveHeld, NEW o \in Orders, LiveStep(o)
  PROVE  /\ LiveHeld'
         /\ \A x \in Orders, i \in 1 .. NumCalls :
              /\ Share(x, i)' \in Nat
              /\ landed'[x][i] + Share(x, i) <= landed[x][i] + Share(x, i)'
<1>1. /\ liveAt \in [Orders -> LiveSteps] /\ live \in [Orders -> 0 .. NumCalls]
      /\ liveErased \in [Orders -> Nat] /\ landed \in [Orders -> [1 .. NumCalls -> Nat]]
  BY DEF TypeOK
<1>2. /\ liveAt' \in [Orders -> LiveSteps] /\ live' \in [Orders -> 0 .. NumCalls]
      /\ liveErased' \in [Orders -> Nat]
  BY LiveTypes
<1>3. /\ \A x \in Orders : x # o =>
           /\ liveAt'[x] = liveAt[x] /\ live'[x] = live[x] /\ liveErased'[x] = liveErased[x]
           /\ x \in liveSeen' <=> x \in liveSeen
           /\ landed'[x] = landed[x]
  <2>1. CASE LiveCallOk(o) \/ LiveCallLost(o)
    BY <1>1, <2>1, TakeLiveEffectCounts DEF LiveCallOk, LiveCallLost, LiveGoto
  <2>2. CASE ~ (LiveCallOk(o) \/ LiveCallLost(o))
    BY <1>1, <2>2 DEF LiveStep, LiveMark, LiveMarkLost, LiveReturn, LiveCallFail,
         LiveUnmark, LiveUnmarkFail, LiveCrash, LiveReap, LiveGoto
  <2> QED BY <2>1, <2>2
<1>4. \A x \in Orders, i \in 1 .. NumCalls :
        Share(x, i) \in Nat /\ Share(x, i)' \in Nat /\ landed[x][i] \in Nat
  <2> TAKE x \in Orders, i \in 1 .. NumCalls
  <2>1. liveErased[x] \in Nat /\ liveErased'[x] \in Nat /\ landed[x][i] \in Nat
    BY <1>1, <1>2
  <2> QED BY <2>1 DEF Share
<1>5. ASSUME NEW x \in Orders, x # o, NEW i \in 1 .. NumCalls
      PROVE  landed'[x][i] + Share(x, i) <= landed[x][i] + Share(x, i)'
  <2>1. Share(x, i)' = Share(x, i) /\ landed'[x][i] = landed[x][i]
    BY <1>3, <1>5 DEF Share
  <2> QED BY <1>4, <2>1
<1>6. /\ liveAt'[o] # "idle" => o \in liveSeen'
      /\ \A i \in 1 .. NumCalls :
           landed'[o][i] + Share(o, i) <= landed[o][i] + Share(o, i)'
  <2>1. liveAt[o] # "idle" => o \in liveSeen
    BY DEF LiveHeld
  <2>2. CASE LiveCallOk(o) \/ LiveCallLost(o)
    <3>1. /\ AtLiveCall(o) /\ TakeLiveEffect(o) /\ liveAt[o] = "call" /\ o \in liveSeen
          /\ liveSeen' = liveSeen /\ liveErased' = liveErased
      BY <2>1, <2>2 DEF LiveCallOk, LiveCallLost, AtLiveCall
    <3>2. /\ liveAt'[o] = "call" /\ live'[o] = live[o] + 1
          \/ liveAt'[o] = "failed"
      BY <1>1, <2>2, <3>1 DEF LiveCallOk, LiveCallLost, LiveGoto
    <3>3. /\ landed'[o][live[o] + 1] = landed[o][live[o] + 1] + 1
          /\ \A i \in 1 .. NumCalls : i # live[o] + 1 => landed'[o][i] = landed[o][i]
      BY <3>1, TakeLiveEffectCounts
    <3>4. \A i \in 1 .. NumCalls :
            /\ Share(o, i) = liveErased[o] + (IF i > live[o] THEN 0 ELSE 1)
            /\ Share(o, i)' >= liveErased[o] + (IF i > live[o] + 1 THEN 0 ELSE 1)
      BY <1>1, <3>1, <3>2 DEF Share
    <3>5. ASSUME NEW i \in 1 .. NumCalls
          PROVE  landed'[o][i] + Share(o, i) <= landed[o][i] + Share(o, i)'
      <4> DEFINE more == Share(o, i)'
      <4>1. /\ live[o] \in Nat /\ liveErased[o] \in Nat /\ landed[o][i] \in Nat
            /\ more \in Nat /\ i \in Nat
        BY <1>1, <1>4
      <4>2. /\ Share(o, i) = liveErased[o] + (IF i > live[o] THEN 0 ELSE 1)
            /\ more >= liveErased[o] + (IF i > live[o] + 1 THEN 0 ELSE 1)
            /\ landed'[o][i] = IF i = live[o] + 1 THEN landed[o][i] + 1 ELSE landed[o][i]
        BY <3>3, <3>4
      <4> HIDE DEF more
      <4>3. landed'[o][i] + Share(o, i) <= landed[o][i] + more
        BY <4>1, <4>2
      <4> QED BY <4>3 DEF more
    <3> QED BY <3>1, <3>5
  <2>3. CASE ~ (LiveCallOk(o) \/ LiveCallLost(o))
    <3>1. landed' = landed
      BY <2>3 DEF LiveStep, LiveMark, LiveMarkLost, LiveReturn, LiveCallFail,
         LiveUnmark, LiveUnmarkFail, LiveCrash, LiveReap
    <3>2. /\ liveAt'[o] # "idle" => o \in liveSeen'
          /\ \A i \in 1 .. NumCalls : Share(o, i) <= Share(o, i)'
      <4>1. CASE LiveMark(o)
        BY <1>1, <4>1 DEF LiveMark, LiveGoto, Share
      <4>2. CASE LiveMarkLost(o)
        BY <1>1, <4>2 DEF LiveMarkLost, Share
      <4>3. CASE LiveReturn(o) \/ LiveCallFail(o) \/ LiveUnmarkFail(o) \/ LiveCrash(o)
        BY <1>1, <2>1, <4>3 DEF LiveReturn, LiveCallFail, LiveUnmarkFail, LiveCrash,
           AtLiveCall, LiveGoto, Share
      <4>4. CASE LiveUnmark(o) \/ LiveReap(o)
        BY <1>1, <2>1, <4>4 DEF LiveUnmark, LiveReap, LiveGoto, Share
      <4> QED BY <2>3, <4>1, <4>2, <4>3, <4>4 DEF LiveStep
    <3> QED BY <1>4, <3>1, <3>2
  <2> QED BY <2>2, <2>3
<1>7. LiveHeld'
  BY <1>3, <1>6 DEF LiveHeld
<1> QED BY <1>4, <1>5, <1>6, <1>7

\* Steps that let nothing land and take no mark away leave Counting alone, as long
\* as no run gets into OnOrderPlaced by them.
LEMMA CountingFrame ==
  ASSUME TypeOK, Counting, seen \subseteq seen', UNCHANGED <<liveVars, landed, erased>>,
         \A p \in Runs : pc'[p] = "call" =>
           pc[p] = "call" /\ next'[p] = next[p] /\ done'[p] = done[p]
  PROVE  Counting'
<1>1. \A o \in Orders, i \in 1 .. NumCalls :
        /\ landed[o][i] \in Nat /\ erased[o] \in Nat /\ Share(o, i) \in Nat
        /\ Share(o, i)' = Share(o, i)
  BY ShareFrame, ShareType
<1>2. Within'
  <2>1. \A o \in Orders, i \in 1 .. NumCalls :
          landed[o][i] <= erased[o] + (IF o \in seen THEN 1 ELSE 0) + Share(o, i)
    BY DEF Counting, Within
  <2>2. \A o \in Orders, i \in 1 .. NumCalls :
          landed[o][i] <= erased[o] + (IF o \in seen' THEN 1 ELSE 0) + Share(o, i)
    BY <1>1, <2>1
  <2> QED BY <1>1, <2>2 DEF Within
<1>3. RunFresh'
  <2> SUFFICES ASSUME NEW p \in Runs, NEW o \in Orders, NEW i \in 1 .. NumCalls,
                      pc'[p] = "call", History[next'[p]] = o, i > done'[p]
               PROVE  landed[o][i] <= erased[o] + Share(o, i)
    BY <1>1 DEF RunFresh
  <2>1. pc[p] = "call" /\ History[next[p]] = o /\ i > done[p]
    OBVIOUS
  <2> QED BY <2>1 DEF Counting, RunFresh
<1> QED BY <1>2, <1>3, ShareFrame DEF Counting

\* A call lands under the mark that its run inserted, and once under it.
LEMMA CountingStep == TypeOK /\ Paging /\ Lock /\ Counting /\ [Next]_vars => Counting'
<1> SUFFICES ASSUME TypeOK, Paging, Lock, Counting, [Next]_vars PROVE Counting'
  OBVIOUS
<1>0. /\ \A o \in Orders : erased[o] \in Nat
      /\ \A o \in Orders, i \in 1 .. NumCalls :
           landed[o][i] \in Nat /\ Share(o, i) \in Nat
  BY ShareType DEF TypeOK
<1>1. ASSUME NEW p \in Runs,
             \/ Start(p) \/ StartFail(p) \/ FetchPage(p) \/ FetchFail(p) \/ DryRun(p)
             \/ Crash(p)
      PROVE  Counting'
  <2>1. /\ seen' = seen /\ UNCHANGED <<liveVars, landed, erased>>
        /\ \A q \in Runs \ {p} : pc'[q] = pc[q] /\ next'[q] = next[q] /\ done'[q] = done[q]
        /\ pc'[p] # "call"
    <3>1. CASE Start(p) \/ StartFail(p) \/ FetchFail(p) \/ Crash(p)
      BY <3>1 DEF Start, StartFail, FetchFail, Crash, Goto, history, TypeOK
    <3>2. CASE FetchPage(p)
      BY <3>2, FetchMoves DEF FetchPage, history
    <3>3. CASE DryRun(p)
      <4>1. report[p].failed \in Nat
        BY FailedType
      <4>2. /\ pc[p] = "order" /\ Advance(p, report[p].failed)
            /\ UNCHANGED <<seen, liveVars, landed, erased>>
        BY <3>3 DEF DryRun, history
      <4> QED BY <4>1, <4>2, AdvanceMoves
    <3> QED BY <1>1, <3>1, <3>2, <3>3
  <2> QED BY <2>1, CountingFrame DEF TypeOK
<1>2. ASSUME NEW p \in Runs, NEW o \in Orders,
             MarkDuplicate(p, o) \/ MarkFail(p, o) \/ MarkLost(p, o) \/ CallFail(p, o)
               \/ Applied(p, o) \/ UnmarkFail(p, o)
      PROVE  Counting'
  <2>1. /\ seen \subseteq seen' /\ UNCHANGED <<liveVars, landed, erased>>
        /\ \A q \in Runs \ {p} : pc'[q] = pc[q] /\ next'[q] = next[q] /\ done'[q] = done[q]
        /\ pc'[p] # "call"
    <3>1. CASE MarkFail(p, o) \/ MarkLost(p, o) \/ CallFail(p, o)
      BY <3>1 DEF MarkFail, MarkLost, CallFail, Goto, history, TypeOK
    <3>2. CASE MarkDuplicate(p, o) \/ Applied(p, o) \/ UnmarkFail(p, o)
      <4>1. report[p].failed \in Nat /\ report[p].failed + 1 \in Nat
        BY FailedType
      <4>2. /\ pc[p] \in {"order", "call", "undo"}
            /\ Advance(p, report[p].failed) \/ Advance(p, report[p].failed + 1)
            /\ UNCHANGED <<seen, liveVars, landed, erased>>
        BY <3>2 DEF MarkDuplicate, Applied, UnmarkFail, history
      <4> QED BY <4>1, <4>2, AdvanceMoves
    <3> QED BY <1>2, <3>1, <3>2
  <2> QED BY <2>1, CountingFrame DEF TypeOK
<1>3. ASSUME NEW p \in Runs, NEW o \in Orders, MarkFresh(p, o) PROVE Counting'
  <2>1. /\ o \notin seen /\ seen' = seen \cup {o}
        /\ UNCHANGED <<liveVars, landed, erased, next, done>>
        /\ pc[p] = "order" /\ History[next[p]] = o
        /\ \A q \in Runs \ {p} : pc'[q] = pc[q]
    BY <1>3 DEF MarkFresh, Goto, history, TypeOK
  <2>2. \A x \in Orders, i \in 1 .. NumCalls : Share(x, i)' = Share(x, i)
    BY <2>1 DEF Share, liveVars
  <2>3. \A x \in Orders, i \in 1 .. NumCalls :
          landed[x][i] <= erased[x] + (IF x \in seen THEN 1 ELSE 0) + Share(x, i)
    BY DEF Counting, Within
  <2>4. \A i \in 1 .. NumCalls : landed[o][i] <= erased[o] + Share(o, i)
    <3> TAKE i \in 1 .. NumCalls
    <3>1. landed[o][i] \in Nat /\ erased[o] \in Nat /\ Share(o, i) \in Nat
      BY <1>0
    <3>2. landed[o][i] <= erased[o] + 0 + Share(o, i)
      BY <2>1, <2>3
    <3> QED BY <3>1, <3>2
  <2>5. RunFresh'
    BY <2>1, <2>2, <2>4 DEF Counting, RunFresh
  <2>6. \A x \in Orders, i \in 1 .. NumCalls :
          landed[x][i] <= erased[x] + (IF x \in seen' THEN 1 ELSE 0) + Share(x, i)
    <3> TAKE x \in Orders, i \in 1 .. NumCalls
    <3>1. landed[x][i] \in Nat /\ erased[x] \in Nat /\ Share(x, i) \in Nat
      BY <1>0
    <3>2. landed[x][i] <= erased[x] + (IF x \in seen THEN 1 ELSE 0) + Share(x, i)
      BY <2>3
    <3> QED BY <2>1, <3>1, <3>2
  <2>7. Within'
    BY <2>1, <2>2, <2>3, <2>6 DEF Within
  <2> QED BY <2>1, <2>5, <2>7, ShareFrame DEF Counting
<1>4. ASSUME NEW p \in Runs, NEW o \in Orders, CallOk(p, o) \/ CallLost(p, o)
      PROVE  Counting'
  <2> DEFINE k == done[p] + 1
  <2>1. /\ AtCall(p, o) /\ TakeEffect(p, o)
        /\ UNCHANGED <<seen, liveVars, erased, next>>
    BY <1>4 DEF CallOk, CallLost
  <2>2. /\ pc[p] = "call" /\ History[next[p]] = o /\ Engaged(p, o)
        /\ \A q \in Runs \ {p} : pc'[q] = pc[q] /\ done'[q] = done[q]
        /\ pc'[p] = "call" => done'[p] = k
    BY <1>4, <2>1 DEF AtCall, CallOk, CallLost, Goto, Engaged, TypeOK
  <2>3. o \in seen /\ \A q \in Runs : Engaged(q, o) => q = p
    BY <2>2 DEF Lock
  <2>4. /\ k \in 1 .. NumCalls /\ landed'[o][k] = landed[o][k] + 1
        /\ \A i \in 1 .. NumCalls : i # k => landed'[o][i] = landed[o][i]
        /\ \A x \in Orders : x # o => landed'[x] = landed[x]
    BY <2>1, TakeEffectCounts
  <2>5. k > done[p] /\ done[p] \in Nat
    BY DEF TypeOK
  <2>6. landed[o][k] <= erased[o] + Share(o, k)
    BY <2>2, <2>4, <2>5 DEF Counting, RunFresh
  <2>7. \A x \in Orders, i \in 1 .. NumCalls : Share(x, i)' = Share(x, i)
    BY <2>1 DEF Share, liveVars
  <2> HIDE DEF k
  <2>8. \A x \in Orders, i \in 1 .. NumCalls :
          landed[x][i] <= erased[x] + (IF x \in seen THEN 1 ELSE 0) + Share(x, i)
    BY DEF Counting, Within
  <2>9. \A x \in Orders, i \in 1 .. NumCalls :
          landed'[x][i] <= erased[x] + (IF x \in seen THEN 1 ELSE 0) + Share(x, i)
    <3> TAKE x \in Orders, i \in 1 .. NumCalls
    <3>1. CASE x = o /\ i = k
      BY <1>0, <2>3, <2>4, <2>6, <3>1
    <3>2. CASE ~ (x = o /\ i = k)
      BY <2>4, <2>8, <3>2
    <3> QED BY <3>1, <3>2
  <2>10. Within'
    BY <2>1, <2>7, <2>9 DEF Within
  <2>11. RunFresh'
    <3> SUFFICES ASSUME NEW q \in Runs, NEW x \in Orders, NEW i \in 1 .. NumCalls,
                        pc'[q] = "call", History[next[q]] = x, i > done'[q]
                 PROVE  landed'[x][i] <= erased[x] + Share(x, i)
      BY <2>1, <2>7 DEF RunFresh
    <3>1. CASE q = p
      <4>1. x = o /\ i > k /\ i # k
        BY <2>2, <2>4, <3>1
      <4>2. i > done[p]
        BY <2>5, <4>1 DEF k
      <4> QED BY <2>2, <2>4, <4>1, <4>2 DEF Counting, RunFresh
    <3>2. CASE q # p
      <4>1. pc[q] = "call" /\ i > done[q]
        BY <2>2, <3>2
      <4>2. x # o
        BY <2>3, <3>2, <4>1 DEF Engaged
      <4> QED BY <2>4, <4>1, <4>2 DEF Counting, RunFresh
    <3> QED BY <3>1, <3>2
  <2> QED BY <2>1, <2>10, <2>11, ShareFrame DEF Counting
<1>5. ASSUME NEW o \in Orders, Reap(o) \/ \E p \in Runs : Unmark(p, o) PROVE Counting'
  <2>1. /\ seen' = seen \ {o} /\ erased' = [erased EXCEPT ![o] = @ + 1]
        /\ UNCHANGED <<liveVars, landed>>
    BY <1>5 DEF Reap, Unmark
  <2>2. \A q \in Runs : pc'[q] = "call" =>
          pc[q] = "call" /\ next'[q] = next[q] /\ done'[q] = done[q]
    <3>1. CASE Reap(o)
      BY <3>1 DEF Reap
    <3>2. CASE \E p \in Runs : Unmark(p, o)
      <4>1. PICK p \in Runs : Unmark(p, o)
        BY <3>2
      <4>2. report[p].failed + 1 \in Nat
        BY FailedType
      <4>3. pc[p] = "undo" /\ Advance(p, report[p].failed + 1)
        BY <4>1 DEF Unmark
      <4> QED BY <4>2, <4>3, AdvanceMoves
    <3> QED BY <1>5, <3>1, <3>2
  <2>3. \A x \in Orders, i \in 1 .. NumCalls : Share(x, i)' = Share(x, i)
    BY <2>1 DEF Share, liveVars
  <2>4. erased'[o] = erased[o] + 1 /\ \A x \in Orders : x # o => erased'[x] = erased[x]
    BY <2>1 DEF TypeOK
  <2>5. \A x \in Orders, i \in 1 .. NumCalls :
          landed[x][i] <= erased[x] + (IF x \in seen THEN 1 ELSE 0) + Share(x, i)
    BY DEF Counting, Within
  <2>6. \A x \in Orders, i \in 1 .. NumCalls :
          landed[x][i] <= erased'[x] + (IF x \in seen' THEN 1 ELSE 0) + Share(x, i)
    BY <1>0, <2>1, <2>4, <2>5
  <2>7. Within'
    BY <2>1, <2>2, <2>3, <2>6 DEF Within
  <2>8. \A x \in Orders : erased[x] <= erased'[x] /\ erased'[x] \in Nat
    <3> TAKE x \in Orders
    <3>1. erased[x] \in Nat
      BY DEF TypeOK
    <3>2. CASE x = o BY <2>4, <3>1, <3>2
    <3>3. CASE x # o BY <2>4, <3>1, <3>3
    <3> QED BY <3>2, <3>3
  <2>9. RunFresh'
    <3> SUFFICES ASSUME NEW q \in Runs, NEW x \in Orders, NEW i \in 1 .. NumCalls,
                        pc'[q] = "call", History[next'[q]] = x, i > done'[q]
                 PROVE  landed[x][i] <= erased'[x] + Share(x, i)
      BY <2>1, <2>3 DEF RunFresh
    <3>1. landed[x][i] <= erased[x] + Share(x, i)
      BY <2>2 DEF Counting, RunFresh
    <3>2. /\ landed[x][i] \in Nat /\ Share(x, i) \in Nat /\ erased[x] \in Nat
          /\ erased'[x] \in Nat /\ erased[x] <= erased'[x]
      BY <1>0, <2>8
    <3> QED BY <3>1, <3>2
  <2> QED BY <2>1, <2>7, <2>9, ShareFrame DEF Counting
<1>6. ASSUME NEW o \in Orders, LiveStep(o) PROVE Counting'
  <2>1. UNCHANGED <<seen, erased, pc, next, done>>
    BY <1>6, LiveTypes
  <2>2. landed' \in [Orders -> [1 .. NumCalls -> Nat]]
    BY <1>6, LiveTypes
  <2>3. /\ LiveHeld'
        /\ \A x \in Orders, i \in 1 .. NumCalls :
             /\ Share(x, i)' \in Nat
             /\ landed'[x][i] + Share(x, i) <= landed[x][i] + Share(x, i)'
    BY <1>6, LiveShare DEF Counting
  <2>4. \A x \in Orders, i \in 1 .. NumCalls, n \in Nat :
          landed[x][i] <= n + Share(x, i) => landed'[x][i] <= n + Share(x, i)'
    <3> TAKE x \in Orders, i \in 1 .. NumCalls, n \in Nat
    <3> DEFINE more == Share(x, i)'
    <3>1. /\ landed[x][i] \in Nat /\ landed'[x][i] \in Nat /\ Share(x, i) \in Nat
          /\ more \in Nat /\ landed'[x][i] + Share(x, i) <= landed[x][i] + more
      BY <1>0, <2>2, <2>3
    <3> HIDE DEF more
    <3>2. landed[x][i] <= n + Share(x, i) => landed'[x][i] <= n + more
      BY <3>1
    <3> QED BY <3>2 DEF more
  <2>5. Within'
    <3> SUFFICES ASSUME NEW x \in Orders, NEW i \in 1 .. NumCalls
                 PROVE  landed'[x][i] <=
                          erased[x] + (IF x \in seen THEN 1 ELSE 0) + Share(x, i)'
      BY <2>1 DEF Within
    <3>1. erased[x] + (IF x \in seen THEN 1 ELSE 0) \in Nat
      BY <1>0
    <3> QED BY <2>4, <3>1 DEF Counting, Within
  <2>6. RunFresh'
    BY <1>0, <2>1, <2>4 DEF Counting, RunFresh
  <2> QED BY <2>3, <2>5, <2>6 DEF Counting
<1>7. CASE UNCHANGED vars
  BY <1>7 DEF vars, history, Counting, Within, RunFresh, LiveHeld, Share, liveVars
<1> QED
  BY <1>1, <1>2, <1>3, <1>4, <1>5, <1>6, <1>7
  DEF Next, Work, Handle, HandleError, Rest

\* However runs and live handlers overlap, fail and are repeated, an order is
\* counted at most once per mark, the command's or the event's.
THEOREM CountedOncePerMark == Spec => []LandedOncePerMark
<1>1. Init => Lock /\ Counting
  BY LockInit, CountingInit
<1>2. TypeOK /\ Paging /\ Lock /\ Counting /\ [Next]_vars => Lock' /\ Counting'
  BY LockStep, CountingStep
<1>3. TypeOK /\ Counting => LandedOncePerMark
  <2> SUFFICES ASSUME TypeOK, Counting, NEW o \in Orders, NEW i \in 1 .. NumCalls
               PROVE  landed[o][i] <= erased[o] + (IF o \in seen THEN 1 ELSE 0)
                        + liveErased[o] + (IF o \in liveSeen THEN 1 ELSE 0)
    BY DEF LandedOncePerMark
  <2>1. /\ landed[o][i] \in Nat /\ erased[o] \in Nat /\ liveErased[o] \in Nat
        /\ Share(o, i) \in Nat
        /\ Share(o, i) <= liveErased[o] + (IF o \in liveSeen THEN 1 ELSE 0)
    BY DEF TypeOK, Share
  <2>2. landed[o][i] <= erased[o] + (IF o \in seen THEN 1 ELSE 0) + Share(o, i)
    BY DEF Counting, Within
  <2>3. PICK ours, theirs \in Nat :
             /\ ours = (IF o \in seen THEN 1 ELSE 0)
             /\ theirs = (IF o \in liveSeen THEN 1 ELSE 0)
    OBVIOUS
  <2>4. /\ landed[o][i] <= erased[o] + ours + Share(o, i)
        /\ Share(o, i) <= liveErased[o] + theirs
    BY <2>1, <2>2, <2>3
  <2>5. landed[o][i] <= erased[o] + ours + liveErased[o] + theirs
    BY <2>1, <2>4
  <2> QED BY <2>3, <2>5
<1> QED BY <1>1, <1>2, <1>3, TypeCorrect, PTL DEF Spec

-----------------------------------------------------------------------------
\* The counters of a run say where it is in the history: it has fetched what its
\* pages held, and each order before the present one is in one counter.
Tally ==
  \A p \in Runs :
    /\ report[p].fetched = last[p]
    /\ dryRun[p] => report[p].failed = 0 /\ pc[p] \notin {"call", "undo"}
    /\ ~ dryRun[p] =>
         report[p].applied + report[p].skippedDup + report[p].failed = next[p] - 1
    /\ pc[p] \in {"ok", "failures"} =>
         /\ last[p] = Len(History) /\ next[p] = Len(History) + 1
         /\ pc[p] = "ok" <=> report[p].failed = 0

\* At the start every counter is zero.
LEMMA TallyInit == Init => Tally
<1> SUFFICES ASSUME Init PROVE Tally
  OBVIOUS
<1>1. \A p \in Runs :
        /\ report[p].fetched = 0 /\ report[p].applied = 0
        /\ report[p].skippedDup = 0 /\ report[p].failed = 0
  BY DEF Init, Counters
<1>2. \A p \in Runs : pc[p] = "new" /\ next[p] = 1 /\ last[p] = 0
  BY DEF Init
<1>3. \A p \in Runs :
        report[p].applied + report[p].skippedDup + report[p].failed = next[p] - 1
  <2> TAKE p \in Runs
  <2>1. 0 + 0 + 0 = 1 - 1
    OBVIOUS
  <2> QED BY <1>1, <1>2, <2>1, Zenon
<1>4. \A p \in Runs : pc[p] \notin {"call", "undo", "ok", "failures"}
  BY <1>2
<1> QED BY <1>1, <1>2, <1>3, <1>4, Zenon DEF Tally

\* The counters and the positions of a run are numbers.
LEMMA ReportType ==
  ASSUME TypeOK
  PROVE  \A p \in Runs :
           /\ report[p].fetched \in Nat /\ report[p].applied \in Nat
           /\ report[p].skippedDup \in Nat /\ report[p].failed \in Nat
           /\ next[p] \in Nat /\ last[p] \in Nat
BY DEF TypeOK, Counters

\* An order that ends in one of the three counters keeps the tally.
LEMMA TallyAdvances ==
  ASSUME TypeOK, Paging, Tally, NEW p \in Runs, NEW c \in Counters \ {"fetched"},
         Count(p, c, 1), ~ dryRun[p], UNCHANGED <<last, dryRun>>,
         Advance(p, IF c = "failed" THEN report[p].failed + 1 ELSE report[p].failed),
         pc[p] \in {"order", "call", "undo"}
  PROVE  Tally'
<1> DEFINE failures == IF c = "failed" THEN report[p].failed + 1 ELSE report[p].failed
<1>1. failures \in Nat
  BY ReportType
<1>2. /\ report'[p][c] = report[p][c] + 1
      /\ \A d \in Counters \ {c} : report'[p][d] = report[p][d]
      /\ \A q \in Runs \ {p} : report'[q] = report[q]
  BY CountOne
<1>3. /\ report'[p].fetched = report[p].fetched /\ report'[p].failed = failures
      /\ report'[p].applied + report'[p].skippedDup + report'[p].failed =
           report[p].applied + report[p].skippedDup + report[p].failed + 1
  <2> DEFINE old == report[p]
             new == report'[p]
  <2>1. /\ old.applied \in Nat /\ old.skippedDup \in Nat /\ old.failed \in Nat
    BY ReportType
  <2>2. /\ new[c] = old[c] + 1
        /\ \A d \in {"fetched", "applied", "skippedDup", "failed"} \ {c} : new[d] = old[d]
    BY <1>2 DEF Counters
  <2>3. failures = IF c = "failed" THEN old.failed + 1 ELSE old.failed
    OBVIOUS
  <2> HIDE DEF old, new, failures
  <2>4. CASE c = "applied"
    <3>1. /\ new.applied = old.applied + 1 /\ new.skippedDup = old.skippedDup
          /\ new.failed = old.failed /\ new.fetched = old.fetched /\ failures = old.failed
      BY <2>2, <2>3, <2>4
    <3>2. /\ new.fetched = old.fetched /\ new.failed = failures
          /\ new.applied + new.skippedDup + new.failed =
               old.applied + old.skippedDup + old.failed + 1
      BY <2>1, <3>1
    <3> QED BY <3>2, Zenon DEF old, new
  <2>5. CASE c = "skippedDup"
    <3>1. /\ new.skippedDup = old.skippedDup + 1 /\ new.applied = old.applied
          /\ new.failed = old.failed /\ new.fetched = old.fetched /\ failures = old.failed
      BY <2>2, <2>3, <2>5
    <3>2. /\ new.fetched = old.fetched /\ new.failed = failures
          /\ new.applied + new.skippedDup + new.failed =
               old.applied + old.skippedDup + old.failed + 1
      BY <2>1, <3>1
    <3> QED BY <3>2, Zenon DEF old, new
  <2>6. CASE c = "failed"
    <3>1. /\ new.failed = old.failed + 1 /\ new.applied = old.applied
          /\ new.skippedDup = old.skippedDup /\ new.fetched = old.fetched
          /\ failures = old.failed + 1
      BY <2>2, <2>3, <2>6
    <3>2. /\ new.fetched = old.fetched /\ new.failed = failures
          /\ new.applied + new.skippedDup + new.failed =
               old.applied + old.skippedDup + old.failed + 1
      BY <2>1, <3>1
    <3> QED BY <3>2, Zenon DEF old, new
  <2> QED BY <2>4, <2>5, <2>6 DEF Counters
<1>4. Advance(p, failures)
  OBVIOUS
<1> HIDE DEF failures
<1>5. /\ next'[p] = next[p] + 1
      /\ \A q \in Runs \ {p} : next'[q] = next[q] /\ pc'[q] = pc[q]
      /\ pc'[p] \in {"ok", "failures"} =>
           /\ last[p] = Len(History) /\ next'[p] = Len(History) + 1
           /\ pc'[p] = "ok" <=> failures = 0
  BY <1>1, <1>4, AdvanceMoves
<1>6. report'[p].applied + report'[p].skippedDup + report'[p].failed = next'[p] - 1
  BY <1>3, <1>5, ReportType DEF Tally
<1> QED BY <1>2, <1>3, <1>5, <1>6 DEF Tally

\* A run moves on from an order with exactly one counter raised.
LEMMA TallyStep == TypeOK /\ Paging /\ Tally /\ [Next]_vars => Tally'
<1> SUFFICES ASSUME TypeOK, Paging, Tally, [Next]_vars PROVE Tally'
  OBVIOUS
<1>1. ASSUME NEW p \in Runs, Start(p) \/ StartFail(p) \/ FetchFail(p) \/ Crash(p)
      PROVE  Tally'
  <2>1. UNCHANGED <<dryRun, next, last, report>>
    BY <1>1 DEF Start, StartFail, FetchFail, Crash
  <2>2. /\ pc'[p] \in {"fetch", "fatal", "dead"}
        /\ \A q \in Runs \ {p} : pc'[q] = pc[q]
    BY <1>1 DEF Start, StartFail, FetchFail, Crash, Goto, TypeOK
  <2> QED BY <2>1, <2>2 DEF Tally
<1>2. ASSUME NEW p \in Runs, FetchPage(p) PROVE Tally'
  <2>1. pc[p] = "fetch" /\ UNCHANGED <<dryRun, next>>
    BY <1>2 DEF FetchPage
  <2>2. /\ \A q \in Runs \ {p} :
             last'[q] = last[q] /\ pc'[q] = pc[q] /\ report'[q] = report[q]
        /\ report'[p].applied = report[p].applied
        /\ report'[p].skippedDup = report[p].skippedDup
        /\ report'[p].failed = report[p].failed
        /\ report'[p].fetched = report[p].fetched + (last'[p] - last[p])
        /\ last'[p] \in Nat
        /\ \/ pc'[p] = "order"
           \/ pc'[p] = "ok" /\ last'[p] = Len(History) /\ next[p] = 1 /\ Len(History) = 0
    BY <1>2, FetchMoves DEF Counters
  <2>3. report'[p].fetched = last'[p]
    BY <2>2, ReportType DEF Tally
  <2>4. pc'[p] = "ok" => report[p].failed = 0
    <3>1. CASE dryRun[p] BY <3>1 DEF Tally
    <3>2. CASE ~ dryRun[p]
      <4>1. report[p].applied + report[p].skippedDup + report[p].failed = next[p] - 1
        BY <3>2 DEF Tally
      <4> QED BY <2>2, <4>1, ReportType
    <3> QED BY <3>1, <3>2
  <2> QED BY <2>1, <2>2, <2>3, <2>4 DEF Tally
<1>3. ASSUME NEW p \in Runs, DryRun(p) PROVE Tally'
  <2>1. /\ dryRun[p] /\ pc[p] = "order" /\ Advance(p, report[p].failed)
        /\ UNCHANGED <<dryRun, last, report>>
    BY <1>3 DEF DryRun
  <2>2. /\ \A q \in Runs \ {p} : next'[q] = next[q] /\ pc'[q] = pc[q]
        /\ pc'[p] \in {"order", "fetch", "ok", "failures"}
        /\ pc'[p] \in {"ok", "failures"} =>
             /\ last[p] = Len(History) /\ next'[p] = Len(History) + 1
             /\ pc'[p] = "ok" <=> report[p].failed = 0
    BY <2>1, FailedType, AdvanceMoves
  <2> QED BY <2>1, <2>2 DEF Tally
<1>4. ASSUME NEW p \in Runs, NEW o \in Orders,
             \/ MarkFresh(p, o) \/ MarkFail(p, o) \/ MarkLost(p, o)
             \/ CallOk(p, o) \/ CallFail(p, o) \/ CallLost(p, o)
      PROVE  Tally'
  <2>1. /\ UNCHANGED <<dryRun, next, last, report>>
        /\ \A q \in Runs \ {p} : pc'[q] = pc[q]
        /\ pc'[p] \in {"call", "undo", "fatal"}
        /\ ~ dryRun[p] \/ pc[p] \in {"call", "undo"}
    BY <1>4 DEF MarkFresh, MarkFail, MarkLost, CallOk, CallFail, CallLost, AtCall, Goto, TypeOK
  <2> QED BY <2>1 DEF Tally
<1>5. ASSUME NEW p \in Runs, NEW o \in Orders,
             MarkDuplicate(p, o) \/ Applied(p, o) \/ Unmark(p, o) \/ UnmarkFail(p, o)
      PROVE  Tally'
  <2>1. ~ dryRun[p] /\ pc[p] \in {"order", "call", "undo"} /\ UNCHANGED <<last, dryRun>>
    BY <1>5 DEF MarkDuplicate, Applied, Unmark, UnmarkFail, Tally
  <2>2. CASE MarkDuplicate(p, o)
    BY <2>1, <2>2, TallyAdvances DEF MarkDuplicate, Counters
  <2>3. CASE Applied(p, o)
    BY <2>1, <2>3, TallyAdvances DEF Applied, Counters
  <2>4. CASE Unmark(p, o) \/ UnmarkFail(p, o)
    BY <2>1, <2>4, TallyAdvances DEF Unmark, UnmarkFail, Counters
  <2> QED BY <1>5, <2>2, <2>3, <2>4
<1>6. ASSUME NEW o \in Orders, Reap(o) \/ LiveStep(o) PROVE Tally'
  BY <1>6, LiveTypes DEF Reap, Tally
<1>7. CASE UNCHANGED vars
  BY <1>7 DEF vars, Tally
<1> QED
  BY <1>1, <1>2, <1>3, <1>4, <1>5, <1>6, <1>7
  DEF Next, Work, Handle, HandleError, Rest

\* The summary of a run that reaches it adds up to the year's history, whatever
\* its length and the page size.
THEOREM ReportCorrect == Spec => []ReportAddsUp
<1>1. Init => Tally
  BY TallyInit
<1>2. TypeOK /\ Paging /\ Tally /\ [Next]_vars => Tally'
  BY TallyStep
<1>3. TypeOK /\ Tally => ReportAddsUp
  <2> SUFFICES ASSUME TypeOK, Tally PROVE ReportAddsUp
    OBVIOUS
  <2>1. \A p \in Runs : pc[p] \in {"ok", "failures"} =>
          next[p] - 1 = Len(History)
    BY LengthType DEF Tally
  <2> QED BY <2>1 DEF Tally, ReportAddsUp
<1> QED BY <1>1, <1>2, <1>3, TypeCorrect, PTL DEF Spec

-----------------------------------------------------------------------------
\* What SuccessIsHonest accepts of an order.
Settled(o) ==
  \/ completed[o] > 0
  \/ o \in orphaned
  \/ \E q \in Runs : Engaged(q, o) \/ (erased[o] > 0 /\ report[q].failed > 0)

\* A marked order is settled, and so is each that a run has left behind.
Honest ==
  /\ \A o \in seen : Settled(o)
  /\ \A p \in Runs, i \in DOMAIN History :
       ~ dryRun[p] /\ i < next[p] => Settled(History[i])

\* A step that takes nothing back and ends no hold settles no order less.
LEMMA SettledFrame ==
  ASSUME TypeOK,
         \A q \in Runs, x \in Orders : Engaged(q, x) => Engaged(q, x)',
         \A x \in Orders : completed[x] > 0 => completed'[x] > 0,
         \A x \in Orders : erased[x] > 0 => erased'[x] > 0,
         orphaned \subseteq orphaned',
         \A q \in Runs : report[q].failed > 0 => report'[q].failed > 0
  PROVE  \A x \in Orders : Settled(x) => Settled(x)'
<1> TAKE x \in Orders
<1>1. ASSUME NEW q \in Runs, Engaged(q, x) PROVE Settled(x)'
  BY <1>1, Zenon DEF Settled
<1>2. ASSUME NEW q \in Runs, erased[x] > 0, report[q].failed > 0 PROVE Settled(x)'
  BY <1>2, Zenon DEF Settled
<1>3. completed[x] > 0 \/ x \in orphaned => Settled(x)'
  BY Zenon DEF Settled
<1> QED BY <1>1, <1>2, <1>3, Zenon DEF Settled

\* No counter goes down.
LEMMA FailedGrows ==
  ASSUME TypeOK, NEW p \in Runs, NEW c \in Counters, Count(p, c, 1)
  PROVE  /\ \A q \in Runs : report[q].failed > 0 => report'[q].failed > 0
         /\ c = "failed" => report'[p].failed > 0
<1>1. /\ report'[p][c] = report[p][c] + 1
      /\ \A d \in Counters \ {c} : report'[p][d] = report[p][d]
      /\ \A q \in Runs \ {p} : report'[q] = report[q]
  BY CountOne
<1>2. report[p].failed \in Nat /\ "failed" \in Counters
  BY ReportType DEF Counters
<1>3. CASE c = "failed"
  <2>1. report'[p].failed = report[p].failed + 1
    BY <1>1, <1>3
  <2>2. report'[p].failed > 0
    BY <1>2, <2>1
  <2> QED BY <1>1, <2>2
<1>4. CASE c # "failed"
  <2>1. report'[p].failed = report[p].failed
    BY <1>1, <1>2, <1>4
  <2> QED BY <1>1, <1>4, <2>1
<1> QED BY <1>3, <1>4

\* A settled order stays settled: what a hold ends with settles its order.
LEMMA SettledStays ==
  TypeOK /\ Paging /\ [Next]_vars => \A x \in Orders : Settled(x) => Settled(x)'
<1> SUFFICES ASSUME TypeOK, Paging, [Next]_vars
             PROVE  \A x \in Orders : Settled(x) => Settled(x)'
  OBVIOUS
<1>1. ASSUME NEW p \in Runs,
             Start(p) \/ StartFail(p) \/ FetchPage(p) \/ FetchFail(p) \/ DryRun(p)
      PROVE  \A x \in Orders : Settled(x) => Settled(x)'
  <2>1. \A q \in Runs : report'[q].failed = report[q].failed
    <3>1. CASE FetchPage(p)
      <4>1. /\ \A q \in Runs \ {p} : report'[q] = report[q]
            /\ \A c \in Counters \ {"fetched"} : report'[p][c] = report[p][c]
        BY <3>1, FetchMoves
      <4> QED BY <4>1 DEF Counters
    <3>2. CASE ~ FetchPage(p)
      BY <1>1, <3>2 DEF Start, StartFail, FetchFail, DryRun
    <3> QED BY <3>1, <3>2
  <2>2. /\ \A q \in Runs, x \in Orders : Engaged(q, x)' <=> Engaged(q, x)
        /\ UNCHANGED <<completed, erased, orphaned>>
    BY <1>1, RunSteps
  <2> QED BY <2>1, <2>2, SettledFrame
<1>2. ASSUME NEW p \in Runs, NEW o \in Orders,
             \/ MarkDuplicate(p, o) \/ MarkFail(p, o)
             \/ CallOk(p, o) \/ CallFail(p, o) \/ CallLost(p, o)
      PROVE  \A x \in Orders : Settled(x) => Settled(x)'
  <2>1. \A q \in Runs : report[q].failed > 0 => report'[q].failed > 0
    <3>1. CASE MarkDuplicate(p, o)
      BY <3>1, FailedGrows DEF MarkDuplicate, Counters
    <3>2. CASE ~ MarkDuplicate(p, o)
      BY <1>2, <3>2 DEF MarkFail, CallOk, CallFail, CallLost
    <3> QED BY <3>1, <3>2
  <2>2. /\ \A q \in Runs, x \in Orders : Engaged(q, x)' <=> Engaged(q, x)
        /\ UNCHANGED <<completed, erased, orphaned>>
    BY <1>2, OrderSteps
  <2> QED BY <2>1, <2>2, SettledFrame
<1>3. ASSUME NEW p \in Runs, NEW o \in Orders, MarkFresh(p, o)
      PROVE  \A x \in Orders : Settled(x) => Settled(x)'
  <2>1. /\ UNCHANGED <<completed, erased, orphaned>>
        /\ \A q \in Runs, x \in Orders : Engaged(q, x) => Engaged(q, x)'
    BY <1>3, MarkFreshEngages
  <2>2. report' = report
    BY <1>3 DEF MarkFresh
  <2> QED BY <2>1, <2>2, SettledFrame
<1>4. ASSUME NEW p \in Runs, NEW o \in Orders, MarkLost(p, o)
      PROVE  \A x \in Orders : Settled(x) => Settled(x)'
  BY <1>4, SettledFrame DEF MarkLost, Goto, Engaged, TypeOK
<1>5. ASSUME NEW p \in Runs, NEW o \in Orders, NEW x \in Orders, Settled(x),
             Applied(p, o) \/ Unmark(p, o) \/ UnmarkFail(p, o)
      PROVE  Settled(x)'
  <2>1. /\ \A y \in Orders : Engaged(p, y) <=> y = o
        /\ \A q \in Runs \ {p}, y \in Orders : Engaged(q, y)' <=> Engaged(q, y)
    BY <1>5, BodyEnds
  <2>2. /\ completed[x] \in Nat /\ erased[x] \in Nat
        /\ completed \in [Orders -> Nat] /\ erased \in [Orders -> Nat]
    BY DEF TypeOK
  <2>3. /\ completed[x] > 0 => completed'[x] > 0
        /\ erased[x] > 0 => erased'[x] > 0
        /\ orphaned \subseteq orphaned'
    <3>1. CASE Applied(p, o) BY <2>2, <3>1 DEF Applied
    <3>2. CASE Unmark(p, o) BY <2>2, <3>2 DEF Unmark
    <3>3. CASE UnmarkFail(p, o) BY <2>2, <3>3 DEF UnmarkFail
    <3> QED BY <1>5, <3>1, <3>2, <3>3
  <2>4. \A q \in Runs : report[q].failed > 0 => report'[q].failed > 0
    <3>1. CASE Applied(p, o) BY <3>1, FailedGrows DEF Applied, Counters
    <3>2. CASE Unmark(p, o) BY <3>2, FailedGrows DEF Unmark, Counters
    <3>3. CASE UnmarkFail(p, o) BY <3>3, FailedGrows DEF UnmarkFail, Counters
    <3> QED BY <1>5, <3>1, <3>2, <3>3
  <2>5. CASE x = o
    <3>1. CASE Applied(p, o)
      <4>1. completed'[x] = completed[x] + 1
        BY <2>2, <2>5, <3>1 DEF Applied
      <4>2. completed'[x] > 0
        BY <2>2, <4>1
      <4> QED BY <4>2, Zenon DEF Settled
    <3>2. CASE Unmark(p, o)
      <4>1. erased'[x] = erased[x] + 1
        BY <2>2, <2>5, <3>2 DEF Unmark
      <4>2. erased'[x] > 0
        BY <2>2, <4>1
      <4>3. report'[p].failed > 0
        BY <3>2, FailedGrows DEF Unmark, Counters
      <4> QED BY <4>2, <4>3, Zenon DEF Settled
    <3>3. CASE UnmarkFail(p, o)
      <4>1. x \in orphaned'
        BY <2>5, <3>3 DEF UnmarkFail
      <4> QED BY <4>1, Zenon DEF Settled
    <3> QED BY <1>5, <3>1, <3>2, <3>3
  <2>6. CASE x # o
    <3>1. ASSUME NEW q \in Runs, Engaged(q, x) PROVE Settled(x)'
      <4>1. q # p
        BY <2>1, <2>6, <3>1
      <4>2. Engaged(q, x)'
        BY <2>1, <3>1, <4>1
      <4> QED BY <4>2, Zenon DEF Settled
    <3>2. ASSUME NEW q \in Runs, erased[x] > 0, report[q].failed > 0 PROVE Settled(x)'
      BY <2>3, <2>4, <3>2, Zenon DEF Settled
    <3>3. completed[x] > 0 \/ x \in orphaned => Settled(x)'
      BY <2>3, Zenon DEF Settled
    <3> QED BY <1>5, <3>1, <3>2, <3>3, Zenon DEF Settled
  <2> QED BY <2>5, <2>6
<1>6. ASSUME NEW p \in Runs, NEW x \in Orders, Settled(x), Crash(p) PROVE Settled(x)'
  <2>1. /\ UNCHANGED <<completed, erased, report>>
        /\ orphaned' = orphaned \cup {y \in Orders : Engaged(p, y)}
        /\ \A q \in Runs \ {p}, y \in Orders : Engaged(q, y)' <=> Engaged(q, y)
    BY <1>6, CrashEnds
  <2>2. CASE Engaged(p, x)
    <3>1. x \in orphaned'
      BY <2>1, <2>2
    <3> QED BY <3>1, Zenon DEF Settled
  <2>3. CASE ~ Engaged(p, x)
    <3>1. ASSUME NEW q \in Runs, Engaged(q, x) PROVE Settled(x)'
      <4>1. Engaged(q, x)'
        BY <2>1, <2>3, <3>1
      <4> QED BY <4>1, Zenon DEF Settled
    <3>2. ASSUME NEW q \in Runs, erased[x] > 0, report[q].failed > 0 PROVE Settled(x)'
      BY <2>1, <3>2, Zenon DEF Settled
    <3>3. completed[x] > 0 \/ x \in orphaned => Settled(x)'
      <4>1. completed'[x] = completed[x] /\ (x \in orphaned => x \in orphaned')
        BY <2>1
      <4> QED BY <4>1, Zenon DEF Settled
    <3> QED BY <1>6, <3>1, <3>2, <3>3, Zenon DEF Settled
  <2> QED BY <2>2, <2>3
<1>7. ASSUME NEW o \in Orders, Reap(o)
      PROVE  \A x \in Orders : Settled(x) => Settled(x)'
  <2>1. /\ UNCHANGED <<pc, next, completed, orphaned, report>>
        /\ erased' = [erased EXCEPT ![o] = @ + 1] /\ erased \in [Orders -> Nat]
    BY <1>7 DEF Reap, TypeOK
  <2>2. \A x \in Orders : erased[x] > 0 => erased'[x] > 0
    BY <2>1
  <2> QED BY <2>1, <2>2, SettledFrame DEF Engaged
<1>8. ASSUME NEW o \in Orders, LiveStep(o)
      PROVE  \A x \in Orders : Settled(x) => Settled(x)'
  BY <1>8, LiveTypes, SettledFrame DEF Engaged
<1>9. CASE UNCHANGED vars
  BY <1>9, SettledFrame DEF vars, history, Engaged
<1> QED
  BY <1>1, <1>2, <1>3, <1>4, <1>5, <1>6, <1>7, <1>8, <1>9
  DEF Next, Work, Handle, HandleError, Rest

\* A new mark comes with its run, or with a fault that leaves it behind.
LEMMA NewMarkSettled ==
  TypeOK /\ Paging /\ [Next]_vars =>
    \A x \in Orders : x \in seen' => x \in seen \/ Settled(x)'
<1> SUFFICES ASSUME TypeOK, Paging, [Next]_vars, NEW x \in Orders, x \in seen', x \notin seen
             PROVE  Settled(x)'
  OBVIOUS
<1>1. ASSUME NEW p \in Runs, NEW o \in Orders, MarkFresh(p, o) PROVE Settled(x)'
  <2>1. Engaged(p, o)' /\ x = o
    BY <1>1, MarkFreshEngages
  <2> QED BY <2>1, Zenon DEF Settled
<1>2. ASSUME NEW p \in Runs, NEW o \in Orders, MarkLost(p, o) PROVE Settled(x)'
  <2>1. x \in orphaned'
    BY <1>2 DEF MarkLost
  <2> QED BY <2>1, Zenon DEF Settled
<1>3. ASSUME NEW p \in Runs,
             Start(p) \/ StartFail(p) \/ FetchPage(p) \/ FetchFail(p) \/ DryRun(p) \/ Crash(p)
      PROVE  FALSE
  BY <1>3, RunSteps, CrashEnds
<1>4. ASSUME NEW p \in Runs, NEW o \in Orders,
             \/ MarkDuplicate(p, o) \/ MarkFail(p, o)
             \/ CallOk(p, o) \/ CallFail(p, o) \/ CallLost(p, o)
      PROVE  FALSE
  BY <1>4, OrderSteps
<1>5. ASSUME NEW p \in Runs, NEW o \in Orders,
             Applied(p, o) \/ Unmark(p, o) \/ UnmarkFail(p, o)
      PROVE  FALSE
  BY <1>5 DEF Applied, Unmark, UnmarkFail
<1>6. ASSUME NEW o \in Orders, Reap(o) \/ LiveStep(o) PROVE FALSE
  BY <1>6, LiveTypes DEF Reap
<1>7. CASE UNCHANGED vars
  BY <1>7 DEF vars
<1> QED
  BY <1>1, <1>2, <1>3, <1>4, <1>5, <1>6, <1>7
  DEF Next, Work, Handle, HandleError, Rest

\* A run goes on to the next order from one that it found marked or had in hand.
LEMMA OnlyFromSettled ==
  TypeOK /\ Paging /\ [Next]_vars =>
    \A p \in Runs : next'[p] # next[p] =>
      /\ next'[p] = next[p] + 1 /\ dryRun'[p] = dryRun[p]
      /\ dryRun[p] \/ \E o \in Orders : History[next[p]] = o /\ (o \in seen \/ Engaged(p, o))
<1> SUFFICES ASSUME TypeOK, Paging, [Next]_vars, NEW p \in Runs, next'[p] # next[p]
             PROVE  /\ next'[p] = next[p] + 1 /\ dryRun'[p] = dryRun[p]
                    /\ \/ dryRun[p]
                       \/ \E o \in Orders : History[next[p]] = o /\ (o \in seen \/ Engaged(p, o))
  OBVIOUS
<1>1. ASSUME NEW q \in Runs, DryRun(q)
      PROVE  next'[p] = next[p] + 1 /\ dryRun'[p] = dryRun[p] /\ dryRun[p]
  <2>1. /\ dryRun[q] /\ UNCHANGED dryRun /\ Advance(q, report[q].failed) /\ pc[q] = "order"
    BY <1>1 DEF DryRun
  <2>2. next'[q] = next[q] + 1 /\ \A r \in Runs \ {q} : next'[r] = next[r]
    BY <2>1, FailedType, AdvanceMoves
  <2> QED BY <2>1, <2>2
<1>2. ASSUME NEW q \in Runs, NEW o \in Orders,
             MarkDuplicate(q, o) \/ Applied(q, o) \/ Unmark(q, o) \/ UnmarkFail(q, o)
      PROVE  /\ next'[p] = next[p] + 1 /\ dryRun'[p] = dryRun[p]
             /\ History[next[p]] = o /\ (o \in seen \/ Engaged(p, o))
  <2>1. /\ UNCHANGED dryRun /\ History[next[q]] = o
        /\ Advance(q, report[q].failed) \/ Advance(q, report[q].failed + 1)
        /\ pc[q] \in {"order", "call", "undo"}
        /\ o \in seen \/ pc[q] \in {"call", "undo"}
    BY <1>2 DEF MarkDuplicate, Applied, Unmark, UnmarkFail
  <2>2. next'[q] = next[q] + 1 /\ \A r \in Runs \ {q} : next'[r] = next[r]
    BY <2>1, FailedType, AdvanceMoves
  <2>3. q = p
    BY <2>2
  <2> QED BY <2>1, <2>2, <2>3 DEF Engaged
<1>3. ASSUME NEW q \in Runs,
             Start(q) \/ StartFail(q) \/ FetchPage(q) \/ FetchFail(q) \/ Crash(q)
      PROVE  FALSE
  BY <1>3 DEF Start, StartFail, FetchPage, FetchFail, Crash
<1>4. ASSUME NEW q \in Runs, NEW o \in Orders,
             \/ MarkFresh(q, o) \/ MarkFail(q, o) \/ MarkLost(q, o)
             \/ CallOk(q, o) \/ CallFail(q, o) \/ CallLost(q, o)
      PROVE  FALSE
  BY <1>4 DEF MarkFresh, MarkFail, MarkLost, CallOk, CallFail, CallLost
<1>5. ASSUME NEW o \in Orders, Reap(o) \/ LiveStep(o) PROVE FALSE
  BY <1>5, LiveTypes DEF Reap
<1>6. CASE UNCHANGED vars
  BY <1>6 DEF vars
<1>7. CASE \E q \in Runs : DryRun(q)
  BY <1>1, <1>7
<1>8. CASE \E q \in Runs, o \in Orders :
             MarkDuplicate(q, o) \/ Applied(q, o) \/ Unmark(q, o) \/ UnmarkFail(q, o)
  BY <1>2, <1>8
<1> QED
  BY <1>3, <1>4, <1>5, <1>6, <1>7, <1>8
  DEF Next, Work, Handle, HandleError, Rest

\* At the start nothing is marked.
LEMMA HonestInit == Init => Honest
<1> SUFFICES ASSUME Init PROVE Honest
  OBVIOUS
<1>1. seen = {} /\ \A p \in Runs : next[p] = 1
  BY DEF Init
<1>2. \A i \in DOMAIN History : ~ i < 1
  BY LengthType
<1> QED BY <1>1, <1>2 DEF Honest

\* A mark is left without its calls only by a run that counts a failure.
LEMMA HonestStep == TypeOK /\ Paging /\ Honest /\ [Next]_vars => Honest'
<1> SUFFICES ASSUME TypeOK, Paging, Honest, [Next]_vars PROVE Honest'
  OBVIOUS
<1>1. \A x \in Orders : Settled(x) => Settled(x)'
  BY SettledStays
<1>2. \A x \in Orders : x \in seen' => x \in seen \/ Settled(x)'
  BY NewMarkSettled
<1>3. seen' \subseteq Orders
  BY PagingStep DEF TypeOK
<1>4. \A x \in seen' : Settled(x)'
  BY <1>1, <1>2, <1>3, Zenon DEF Honest
<1>5. dryRun' = dryRun
  <2>1. ASSUME NEW p \in Runs,
               \/ Start(p) \/ StartFail(p) \/ FetchPage(p) \/ FetchFail(p) \/ DryRun(p)
               \/ Crash(p)
        PROVE  dryRun' = dryRun
    BY <2>1, RunSteps, CrashEnds
  <2>2. ASSUME NEW p \in Runs, NEW o \in Orders, Handle(p, o) \/ HandleError(p, o)
        PROVE  dryRun' = dryRun
    BY <2>2 DEF Handle, HandleError, MarkFresh, MarkDuplicate, CallOk, Applied, Unmark,
                MarkFail, MarkLost, CallFail, CallLost, UnmarkFail
  <2>3. ASSUME NEW o \in Orders, Reap(o) \/ LiveStep(o) PROVE dryRun' = dryRun
    BY <2>3, LiveTypes DEF Reap
  <2> QED BY <2>1, <2>2, <2>3 DEF Next, Work, Rest, vars
<1>6. ASSUME NEW p \in Runs, NEW i \in DOMAIN History, ~ dryRun[p], i < next'[p]
      PROVE  Settled(History[i])'
  <2>0. History[i] \in Orders
    BY DEF Orders
  <2>1. CASE i < next[p]
    <3>1. Settled(History[i])
      BY <1>6, <2>1 DEF Honest
    <3> QED BY <1>1, <2>0, <3>1
  <2>2. CASE ~ i < next[p]
    <3>1. /\ next'[p] = next[p] + 1
          /\ \E o \in Orders : History[next[p]] = o /\ (o \in seen \/ Engaged(p, o))
      <4>1. next'[p] # next[p]
        BY <1>6, <2>2
      <4> QED BY <1>6, <4>1, OnlyFromSettled
    <3>2. i = next[p]
      <4>2. next \in [Runs -> 1 .. Len(History) + 1]
        BY DEF TypeOK
      <4>3. DOMAIN History = 1 .. Len(History) /\ Len(History) \in Nat
        BY LengthType
      <4>1. i \in Nat /\ next[p] \in Nat
        BY <4>2, <4>3
      <4> QED BY <1>6, <2>2, <3>1, <4>1
    <3>3. History[i] \in seen \/ Engaged(p, History[i])
      BY <3>1, <3>2
    <3>4. Settled(History[i])
      <4>1. CASE History[i] \in seen BY <4>1, Zenon DEF Honest
      <4>2. CASE Engaged(p, History[i]) BY <4>2, Zenon DEF Settled
      <4> QED BY <3>3, <4>1, <4>2
    <3> QED BY <1>1, <2>0, <3>4
  <2> QED BY <2>1, <2>2
<1> QED BY <1>4, <1>5, <1>6 DEF Honest

\* Exit status 0 can be believed in every interleaving of any number of runs, of
\* any history and under any faults.
THEOREM SuccessHonest == Spec => []SuccessIsHonest
<1>1. Init => Tally /\ Honest
  BY TallyInit, HonestInit
<1>2. TypeOK /\ Paging /\ Tally /\ Honest /\ [Next]_vars => Tally' /\ Honest'
  BY TallyStep, HonestStep
<1>3. TypeOK /\ Tally /\ Honest => SuccessIsHonest
  <2> SUFFICES ASSUME TypeOK, Tally, Honest, NEW p \in Runs, NEW o \in Orders,
                      pc[p] = "ok", ~ dryRun[p]
               PROVE  Settled(o)
    BY Zenon DEF SuccessIsHonest, Settled
  <2>1. PICK i \in DOMAIN History : History[i] = o
    BY DEF Orders
  <2>2. next[p] = Len(History) + 1
    BY DEF Tally
  <2>3. i < next[p]
    <3>1. i \in 1 .. Len(History) /\ Len(History) \in Nat
      BY LengthType
    <3> QED BY <2>2, <3>1
  <2> QED BY <2>1, <2>3, Zenon DEF Honest
<1> QED BY <1>1, <1>2, <1>3, TypeCorrect, PTL DEF Spec

-----------------------------------------------------------------------------
\* The claims of event_ids as the runs hold them.
Claims == [o \in Orders |-> {p \in Runs : Engaged(p, o)}]

\* A step that touches neither the marks nor the holds is none of the deduper's.
LEMMA DeduperFrame ==
  ASSUME \A p \in Runs, o \in Orders : Engaged(p, o)' <=> Engaged(p, o),
         UNCHANGED <<seen, completed, erased>>
  PROVE  UNCHANGED Deduper!vars
<1>1. Claims' = Claims
  BY DEF Claims
<1> QED BY <1>1 DEF Claims, Deduper!vars

\* When run p alone begins or ends a hold, and on o, only the claim of o changes.
LEMMA ClaimsChange ==
  ASSUME Lock, NEW p \in Runs, NEW o \in Orders, NEW S,
         \A x \in Orders : x # o => (Engaged(p, x)' <=> Engaged(p, x)),
         \A q \in Runs \ {p}, x \in Orders : Engaged(q, x)' <=> Engaged(q, x),
         Engaged(p, o) \/ o \notin seen,
         S = IF Engaged(p, o)' THEN {p} ELSE {}
  PROVE  Claims' = [Claims EXCEPT ![o] = S]
<1>1. \A q \in Runs : q # p => ~ Engaged(q, o)
  BY DEF Lock
<1>2. \A q \in Runs : q # p => ~ Engaged(q, o)'
  BY <1>1
<1>3. Claims'[o] = S
  BY <1>2 DEF Claims
<1>4. \A x \in Orders : x # o => Claims'[x] = Claims[x]
  BY DEF Claims
<1>5. Claims = [x \in Orders |-> Claims[x]] /\ Claims' = [x \in Orders |-> Claims'[x]]
  BY DEF Claims
<1> HIDE DEF Claims
<1> QED BY <1>3, <1>4, <1>5

\* A run that stops without a result abandons its claims.
LEMMA EndAbandons ==
  ASSUME Lock, NEW p \in Runs,
         \A x \in Orders : ~ Engaged(p, x)',
         \A q \in Runs \ {p}, x \in Orders : Engaged(q, x)' <=> Engaged(q, x),
         UNCHANGED <<seen, completed, erased>>
  PROVE  Deduper!Abandon({x \in Orders : Engaged(p, x)})
<1>1. \A x \in Orders : Engaged(p, x) => \A q \in Runs : Engaged(q, x) => q = p
  BY DEF Lock
<1>2. Claims' = [x \in Orders |->
                  IF x \in {y \in Orders : Engaged(p, y)} THEN {} ELSE Claims[x]]
  <2>1. \A x \in Orders : Claims'[x] = IF Engaged(p, x) THEN {} ELSE Claims[x]
    BY <1>1 DEF Claims
  <2>2. Claims' = [x \in Orders |-> Claims'[x]]
    BY DEF Claims
  <2> HIDE DEF Claims
  <2> QED BY <2>1, <2>2
<1> QED BY <1>2 DEF Claims, Deduper!Abandon

\* Every step of the command is a step of the deduper or none: MarkFresh claims,
\* a lost MarkSeen settles, a success finishes, Unmark releases, and what leaves a
\* mark behind abandons.
LEMMA DeduperStep ==
  TypeOK /\ Paging /\ Lock /\ [Next]_vars => [Deduper!Next]_(Deduper!vars)
<1> SUFFICES ASSUME TypeOK, Paging, Lock, [Next]_vars
             PROVE  Deduper!Next \/ UNCHANGED Deduper!vars
  OBVIOUS
<1>1. ASSUME NEW p \in Runs,
             Start(p) \/ StartFail(p) \/ FetchPage(p) \/ FetchFail(p) \/ DryRun(p)
      PROVE  UNCHANGED Deduper!vars
  BY <1>1, RunSteps, DeduperFrame
<1>2. ASSUME NEW p \in Runs, NEW o \in Orders,
             \/ MarkDuplicate(p, o) \/ MarkFail(p, o)
             \/ CallOk(p, o) \/ CallFail(p, o) \/ CallLost(p, o)
      PROVE  UNCHANGED Deduper!vars
  BY <1>2, OrderSteps, DeduperFrame
<1>3. ASSUME NEW p \in Runs, NEW o \in Orders, MarkFresh(p, o) PROVE Deduper!Next
  <2>1. /\ o \notin seen /\ seen' = seen \cup {o} /\ UNCHANGED <<completed, erased>>
        /\ \A x \in Orders : Engaged(p, x)' <=> x = o
        /\ \A x \in Orders : ~ Engaged(p, x)
        /\ \A q \in Runs \ {p}, x \in Orders : Engaged(q, x)' <=> Engaged(q, x)
    BY <1>3, MarkFreshEngages
  <2>2. Claims[o] = {}
    BY <2>1 DEF Claims, Lock
  <2>3. Claims' = [Claims EXCEPT ![o] = {p}]
    BY <2>1, ClaimsChange
  <2>4. Deduper!Claim(p, o)
    BY <2>1, <2>2, <2>3 DEF Claims, Deduper!Claim
  <2> QED BY <2>4 DEF Deduper!Next
<1>4. ASSUME NEW p \in Runs, NEW o \in Orders, MarkLost(p, o) PROVE Deduper!Next
  <2>1. /\ o \notin seen /\ seen' = seen \cup {o} /\ UNCHANGED <<completed, erased>>
        /\ \A q \in Runs, x \in Orders : Engaged(q, x)' <=> Engaged(q, x)
    BY <1>4 DEF MarkLost, Goto, Engaged, TypeOK
  <2>2. Claims' = Claims /\ Claims[o] = {}
    BY <2>1 DEF Claims, Lock
  <2>3. Deduper!Settle(o)
    BY <2>1, <2>2 DEF Claims, Deduper!Settle
  <2> QED BY <2>3 DEF Deduper!Next
<1>5. ASSUME NEW p \in Runs, NEW o \in Orders,
             Applied(p, o) \/ Unmark(p, o) \/ UnmarkFail(p, o)
      PROVE  /\ Claims' = [Claims EXCEPT ![o] = {}] /\ Claims[o] # {}
             /\ UnmarkFail(p, o) => Deduper!Next
  <2>1. /\ \A x \in Orders : Engaged(p, x) <=> x = o
        /\ \A x \in Orders : ~ Engaged(p, x)'
        /\ \A q \in Runs \ {p}, x \in Orders : Engaged(q, x)' <=> Engaged(q, x)
    BY <1>5, BodyEnds
  <2>2. Claims' = [Claims EXCEPT ![o] = {}]
    BY <2>1, ClaimsChange
  <2>3. Claims[o] # {}
    BY <2>1 DEF Claims
  <2>4. ASSUME UnmarkFail(p, o) PROVE Deduper!Next
    <3>1. UNCHANGED <<seen, completed, erased>>
      BY <2>4 DEF UnmarkFail
    <3>2. Deduper!Abandon({x \in Orders : Engaged(p, x)})
      BY <2>1, <3>1, EndAbandons
    <3> QED BY <3>2 DEF Deduper!Next
  <2> QED BY <2>2, <2>3, <2>4
<1>6. ASSUME NEW p \in Runs, NEW o \in Orders, Applied(p, o) PROVE Deduper!Next
  <2>1. UNCHANGED <<seen, erased>> /\ completed' = [completed EXCEPT ![o] = @ + 1]
    BY <1>6 DEF Applied
  <2>2. Deduper!Finish(o)
    BY <1>5, <1>6, <2>1 DEF Claims, Deduper!Finish
  <2> QED BY <2>2 DEF Deduper!Next
<1>7. ASSUME NEW p \in Runs, NEW o \in Orders, Unmark(p, o) PROVE Deduper!Next
  <2>1. /\ seen' = seen \ {o} /\ erased' = [erased EXCEPT ![o] = @ + 1]
        /\ UNCHANGED completed
    BY <1>7 DEF Unmark
  <2>2. Deduper!Release(o)
    BY <1>5, <1>7, <2>1 DEF Claims, Deduper!Release
  <2> QED BY <2>2 DEF Deduper!Next
<1>8. ASSUME NEW p \in Runs, Crash(p) PROVE Deduper!Next
  <2>1. Deduper!Abandon({x \in Orders : Engaged(p, x)})
    BY <1>8, CrashEnds, EndAbandons
  <2> QED BY <2>1 DEF Deduper!Next
<1>9. ASSUME NEW o \in Orders, Reap(o) PROVE Deduper!Next
  <2>1. /\ o \in seen /\ seen' = seen \ {o} /\ UNCHANGED <<pc, next, completed>>
        /\ erased' = [erased EXCEPT ![o] = @ + 1]
        /\ \A p \in Runs : ~ Engaged(p, o)
    BY <1>9 DEF Reap
  <2>2. Claims' = Claims /\ Claims[o] = {}
    BY <2>1 DEF Claims, Engaged
  <2>3. Deduper!Expire(o)
    BY <2>1, <2>2 DEF Claims, Deduper!Expire
  <2> QED BY <2>3 DEF Deduper!Next
<1>10. ASSUME NEW o \in Orders, LiveStep(o) PROVE UNCHANGED Deduper!vars
  BY <1>10, LiveTypes, DeduperFrame DEF Engaged
<1>11. CASE UNCHANGED vars
  BY <1>11, DeduperFrame DEF vars, history, Engaged
<1> QED
  BY <1>1, <1>2, <1>3, <1>4, <1>5, <1>6, <1>7, <1>8, <1>9, <1>10, <1>11
  DEF Next, Work, Handle, HandleError, Rest

\* The runs of the command and event_ids implement the interface EventDeduper, as
\* the live consumer does: a fresh MarkSeen is a claim that one run has at a time.
THEOREM ImplementsDeduper == Spec => DeduperSpec
<1>1. Init => Deduper!Init
  BY DEF Init, Deduper!Init, Engaged
<1>2. TypeOK /\ Paging /\ Lock /\ [Next]_vars => [Deduper!Next]_(Deduper!vars)
  BY DeduperStep
<1>3. Init => Lock
  BY LockInit
<1>4. TypeOK /\ Paging /\ Lock /\ [Next]_vars => Lock'
  BY LockStep
<1> QED
  BY <1>1, <1>2, <1>3, <1>4, TypeCorrect, PTL DEF Spec, DeduperSpec, Deduper!Spec
=============================================================================
