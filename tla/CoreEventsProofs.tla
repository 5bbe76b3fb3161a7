-------------------------- MODULE CoreEventsProofs --------------------------
(***************************************************************************)
(* Proofs, for every set of workers, every set of events and every bound,  *)
(* that CoreEvents keeps its invariants.                                   *)
(***************************************************************************)
EXTENDS CoreEvents, TLAPS

\* What the program counter of a worker says about its other variables.
WorkerOK ==
  \A w \in Workers :
    /\ pc[w] \in {"down", "idle"} => cur[w] = NoMsg /\ ~ held[w]
    /\ pc[w] \in {"down", "idle", "dedupe"} => done[w] = 0
    /\ pc[w] \in {"dedupe", "requeue", "call", "failed"} => cur[w] \in Events
    /\ pc[w] \in {"call", "failed"} => cur[w] \in Registered
    /\ pc[w] \in {"dead", "ack"} => cur[w] \in Messages
    /\ pc[w] = "call" => done[w] <= Calls[cur[w]]

USE MessagesAssumption, CallsAssumption, BoundsAssumption

\* An unsettled delivery goes to a queue as one more copy of its message; no
\* other count changes.
LEMMA SettleCounts ==
  ASSUME NEW queue \in [Messages -> Nat], NEW w \in Workers
  PROVE  /\ Settle(w, queue) \in [Messages -> Nat]
         /\ \A m \in Messages :
              Settle(w, queue)[m] =
                IF held[w] /\ cur[w] = m THEN queue[m] + 1 ELSE queue[m]
<1> DEFINE more == [queue EXCEPT ![cur[w]] = @ + 1]
<1>1. CASE held[w] /\ cur[w] \in Messages
  <2>1. more \in [Messages -> Nat]
    BY <1>1
  <2> QED BY <1>1, <2>1 DEF Settle
<1>2. CASE held[w] /\ cur[w] \notin Messages
  <2>1. more = queue
    BY <1>2
  <2> QED BY <1>2, <2>1 DEF Settle
<1>3. CASE ~ held[w]
  BY <1>3 DEF Settle
<1> QED BY <1>1, <1>2, <1>3

\* A call that takes effect counts at its own slot and nowhere else.
LEMMA TakeEffectCounts ==
  ASSUME TypeOK, NEW w \in Workers, NEW e \in Events,
         AtCall(w, e), TakeEffect(w, e)
  PROVE  /\ done[w] + 1 \in Slots
         /\ done[w] + 1 \in 1 .. Calls[e]
         /\ applied' \in [Events -> [Slots -> Nat]]
         /\ applied'[e][done[w] + 1] = applied[e][done[w] + 1] + 1
         /\ \A i \in Slots : i # done[w] + 1 => applied'[e][i] = applied[e][i]
         /\ \A f \in Events : f # e => applied'[f] = applied[f]
<1>1. /\ done[w] \in Nat /\ Calls[e] \in Nat
      /\ done[w] < Calls[e] /\ Calls[e] <= MaxCalls
  BY DEF TypeOK, AtCall
<1>2. done[w] + 1 \in Slots /\ done[w] + 1 \in 1 .. Calls[e]
  BY <1>1 DEF Slots
<1>3. applied[e] \in [Slots -> Nat]
  BY DEF TypeOK
<1> DEFINE row == [applied[e] EXCEPT ![done[w] + 1] = @ + 1]
<1>4. row \in [Slots -> Nat]
  BY <1>2, <1>3
<1>5. applied' = [applied EXCEPT ![e] = row]
  BY DEF TakeEffect
<1> QED BY <1>2, <1>3, <1>4, <1>5 DEF TypeOK

\* A lost connection, a crash and a planned stop end a worker's connection or its
\* process.
LEMMA EndsOfWorkers ==
  ASSUME TypeOK
  PROVE  \A w \in Workers : ConnDrop(w) \/ Crash(w) \/ Stop(w) =>
           (Disconnect(w) \/ Die(w)) /\ faults' \in Nat
BY DEF ConnDrop, Crash, Stop, Disturb, TypeOK

\* Every variable keeps its type, whatever is delivered, fails or is lost.
THEOREM TypeCorrect == Spec => []TypeOK
<1>1. Init => TypeOK
  BY DEF Init, TypeOK, Steps, Slots, Messages
<1>2. TypeOK /\ [Next]_vars => TypeOK'
  <2> SUFFICES ASSUME TypeOK, [Next]_vars PROVE TypeOK'
    OBVIOUS
  <2> USE DEF TypeOK, Goto, Steps, broker, worker, history, Disturb, Messages
  <2>1. ASSUME NEW m \in Messages, Publish(m) PROVE TypeOK'
    BY <2>1 DEF Publish
  <2>2. ASSUME NEW m \in Messages, Replay(m) PROVE TypeOK'
    BY <2>2 DEF Replay
  <2>3. ASSUME NEW e \in Events, Reap(e) PROVE TypeOK'
    BY <2>3 DEF Reap
  <2>4. ASSUME NEW w \in Workers, Start(w) PROVE TypeOK'
    BY <2>4 DEF Start
  <2>5. ASSUME NEW w \in Workers, NEW m \in Messages, Deliver(w, m) PROVE TypeOK'
    BY <2>5 DEF Deliver
  <2>6. ASSUME NEW w \in Workers, NEW e \in Events, Handle(w, e) PROVE TypeOK'
    <3>1. CASE MarkFresh(w, e) BY <3>1 DEF MarkFresh
    <3>2. CASE MarkDuplicate(w, e) BY <3>2 DEF MarkDuplicate
    <3>3. CASE CallOk(w, e)
      <4>1. done[w] + 1 \in 0 .. MaxCalls
        BY <3>3 DEF CallOk, AtCall
      <4> QED BY <3>3, <4>1, TakeEffectCounts DEF CallOk
    <3>4. CASE LookupMiss(w, e) BY <3>4 DEF LookupMiss
    <3>5. CASE Return(w, e) BY <3>5 DEF Return
    <3>6. CASE Unmark(w, e) BY <3>6 DEF Unmark
    <3> QED BY <2>6, <3>1, <3>2, <3>3, <3>4, <3>5, <3>6 DEF Handle
  <2>7. ASSUME NEW w \in Workers, NEW e \in Events, HandleError(w, e) PROVE TypeOK'
    <3>1. CASE MarkFail(w, e) BY <3>1 DEF MarkFail
    <3>2. CASE MarkLost(w, e) BY <3>2 DEF MarkLost
    <3>3. CASE CallFail(w, e) BY <3>3 DEF CallFail
    <3>4. CASE CallLost(w, e) BY <3>4, TakeEffectCounts DEF CallLost
    <3>5. CASE UnmarkFail(w, e) BY <3>5 DEF UnmarkFail
    <3> QED BY <2>7, <3>1, <3>2, <3>3, <3>4, <3>5 DEF HandleError
  <2>8. ASSUME NEW w \in Workers, Respond(w) PROVE TypeOK'
    <3>1. Settle(w, ready) \in [Messages -> Nat] /\ Settle(w, dlq) \in [Messages -> Nat]
      BY SettleCounts
    <3>2. Finish(w) => /\ pc' \in [Workers -> Steps]
                       /\ cur' \in [Workers -> Messages \cup {NoMsg}]
                       /\ held' \in [Workers -> BOOLEAN]
                       /\ done' \in [Workers -> 0 .. MaxCalls]
      BY DEF Finish
    <3>3. CASE Ack(w) BY <3>2, <3>3 DEF Ack
    <3>4. CASE NackRequeue(w) BY <3>1, <3>2, <3>4 DEF NackRequeue
    <3>5. CASE NackDead(w) BY <3>1, <3>2, <3>5 DEF NackDead
    <3> QED BY <2>8, <3>3, <3>4, <3>5 DEF Respond
  <2>9. ASSUME NEW w \in Workers, Disconnect(w), faults' \in Nat PROVE TypeOK'
    <3>1. Settle(w, ready) \in [Messages -> Nat]
      BY SettleCounts
    <3> QED BY <2>9, <3>1 DEF Disconnect
  <2>10. ASSUME NEW w \in Workers, Die(w), faults' \in Nat PROVE TypeOK'
    <3>1. Settle(w, ready) \in [Messages -> Nat]
      BY SettleCounts
    <3> QED BY <2>10, <3>1 DEF Die
  <2>11. CASE UNCHANGED vars
    BY <2>11 DEF vars
  <2> QED
    BY <2>1, <2>2, <2>3, <2>4, <2>5, <2>6, <2>7, <2>8, <2>9, <2>10, <2>11,
       EndsOfWorkers
    DEF Next, AwaitDelivery
<1> QED BY <1>1, <1>2, PTL DEF Spec

-----------------------------------------------------------------------------
\* The lock that MarkSeen and Unmark make of event_ids.
Lock == WorkerOK /\ HandlingExclusive

\* No worker runs a handler at the start.
LEMMA LockInit == Init => Lock
BY DEF Init, Lock, WorkerOK, HandlingExclusive, Engaged

\* No step lets a second worker into a handler or takes the mark away from the
\* one inside: MarkFresh needs a missing mark, and Unmark ends the run.
LEMMA LockStep == TypeOK /\ Lock /\ [Next]_vars => Lock'
<1> SUFFICES ASSUME TypeOK, Lock, [Next]_vars PROVE Lock'
  OBVIOUS
<1> USE DEF TypeOK, Lock, WorkerOK, HandlingExclusive, Engaged, Goto, Steps,
            broker, worker, history, Disturb
<1>1. ASSUME NEW m \in Messages, Publish(m) PROVE Lock'
  BY <1>1 DEF Publish
<1>2. ASSUME NEW m \in Messages, Replay(m) PROVE Lock'
  BY <1>2 DEF Replay
<1>3. ASSUME NEW e \in Events, Reap(e) PROVE Lock'
  BY <1>3 DEF Reap
<1>4. ASSUME NEW w \in Workers, Start(w) PROVE Lock'
  BY <1>4 DEF Start
<1>5. ASSUME NEW w \in Workers, NEW m \in Messages, Deliver(w, m) PROVE Lock'
  BY <1>5 DEF Deliver, Messages
<1>6. ASSUME NEW w \in Workers, NEW e \in Events, Handle(w, e) PROVE Lock'
  <2>1. CASE MarkFresh(w, e) BY <2>1 DEF MarkFresh, Messages
  <2>2. CASE MarkDuplicate(w, e) BY <2>2 DEF MarkDuplicate, Messages
  <2>3. CASE CallOk(w, e) BY <2>3 DEF CallOk, AtCall
  <2>4. CASE LookupMiss(w, e) BY <2>4 DEF LookupMiss, AtCall, Messages
  <2>5. CASE Return(w, e) BY <2>5 DEF Return, Messages
  <2>6. CASE Unmark(w, e) BY <2>6 DEF Unmark, Messages
  <2> QED BY <1>6, <2>1, <2>2, <2>3, <2>4, <2>5, <2>6 DEF Handle
<1>7. ASSUME NEW w \in Workers, NEW e \in Events, HandleError(w, e) PROVE Lock'
  <2>1. CASE MarkFail(w, e) BY <2>1 DEF MarkFail
  <2>2. CASE MarkLost(w, e) BY <2>2 DEF MarkLost
  <2>3. CASE CallFail(w, e) BY <2>3 DEF CallFail, AtCall
  <2>4. CASE CallLost(w, e) BY <2>4 DEF CallLost, AtCall
  <2>5. CASE UnmarkFail(w, e) BY <2>5 DEF UnmarkFail, Messages
  <2> QED BY <1>7, <2>1, <2>2, <2>3, <2>4, <2>5 DEF HandleError
<1>8. ASSUME NEW w \in Workers, Respond(w) PROVE Lock'
  <2>1. Finish(w) /\ seen' = seen
    BY <1>8 DEF Respond, Ack, NackRequeue, NackDead
  <2>2. WorkerOK'
    BY <2>1 DEF Finish
  <2>3. HandlingExclusive'
    BY <2>1 DEF Finish
  <2> QED BY <2>2, <2>3
<1>9. ASSUME NEW w \in Workers, Disconnect(w) PROVE Lock'
  BY <1>9 DEF Disconnect
<1>10. ASSUME NEW w \in Workers, Die(w) PROVE Lock'
  BY <1>10 DEF Die
<1>11. CASE UNCHANGED vars
  BY <1>11 DEF vars
<1> QED
  BY <1>1, <1>2, <1>3, <1>4, <1>5, <1>6, <1>7, <1>8, <1>9, <1>10, <1>11,
     EndsOfWorkers
  DEF Next, AwaitDelivery

\* However often an event is redelivered or replayed, at most one worker is in
\* its handler, and only under its mark.
THEOREM ExclusiveHandling == Spec => []HandlingExclusive
<1>1. Init => Lock
  BY LockInit
<1>2. TypeOK /\ Lock /\ [Next]_vars => Lock'
  BY LockStep
<1>3. Lock => HandlingExclusive
  BY DEF Lock
<1> QED BY <1>1, <1>2, <1>3, TypeCorrect, PTL DEF Spec

-----------------------------------------------------------------------------
\* While worker w is in the handler of e, the calls it has made are ahead of
\* the calls to come, and of the completed runs.
RunAhead ==
  \A w \in Workers, e \in Events : pc[w] = "call" /\ cur[w] = e =>
    \A i \in 1 .. Calls[e], j \in 1 .. Calls[e] :
      i <= done[w] /\ done[w] < j => applied[e][j] < applied[e][i]

\* While worker w is in the handler of e, no call to come has taken effect under
\* the mark e has now.
RunFresh ==
  \A w \in Workers, e \in Events : pc[w] = "call" /\ cur[w] = e =>
    \A j \in Slots : done[w] < j => applied[e][j] <= erased[e]

\* While worker w is in the handler of e, the calls it has made are ahead of the
\* completed runs.
RunUncompleted ==
  \A w \in Workers, e \in Events : pc[w] = "call" /\ cur[w] = e =>
    \A i \in 1 .. Calls[e] :
      i <= done[w] /\ (\A j \in 1 .. i : <<e, j>> \notin Lookups) =>
        completed[e] < applied[e][i]

\* The counting invariants with what makes them inductive.
Counting ==
  /\ FanOutInOrder /\ RunAhead
  /\ AtMostOncePerMark /\ RunFresh
  /\ CompletedInFull /\ RunUncompleted

\* Nothing is counted at the start.
LEMMA CountingInit == Init => Counting
<1> SUFFICES ASSUME Init PROVE Counting
  OBVIOUS
<1>1. \A e \in Events : 1 .. Calls[e] \subseteq Slots
  BY DEF Slots
<1> QED
  BY <1>1 DEF Init, Counting, FanOutInOrder, RunAhead, AtMostOncePerMark, RunFresh,
    CompletedInFull, RunUncompleted

\* A step that leaves the histories and the marks alone, and in which no worker
\* enters the handler or moves on in it, keeps Counting.
LEMMA CountingFrame ==
  ASSUME TypeOK, Counting, UNCHANGED <<seen, applied, completed, erased>>,
         \A w \in Workers : pc'[w] = "call" =>
           pc[w] = "call" /\ cur'[w] = cur[w] /\ done'[w] = done[w]
  PROVE  Counting'
<1> USE DEF Counting
<1>1. FanOutInOrder' BY DEF FanOutInOrder
<1>2. RunAhead' BY DEF RunAhead
<1>3. AtMostOncePerMark' BY DEF AtMostOncePerMark
<1>4. RunFresh' BY DEF RunFresh
<1>5. CompletedInFull' BY DEF CompletedInFull
<1>6. RunUncompleted' BY DEF RunUncompleted
<1> QED BY <1>1, <1>2, <1>3, <1>4, <1>5, <1>6

\* Entering the handler: the new mark pays for one more effect of every call,
\* and no call of the run has been made.
LEMMA CountingMarkFresh ==
  ASSUME TypeOK, Lock, Counting,
         NEW w \in Workers, NEW e \in Events, MarkFresh(w, e)
  PROVE  Counting'
<1> USE DEF TypeOK, Counting, MarkFresh, broker, Goto
<1>0. /\ done[w] = 0
      /\ \A v \in Workers : v # w => pc'[v] = pc[v]
      /\ UNCHANGED <<cur, done, applied, completed, erased>>
  BY DEF Lock, WorkerOK
<1>1. FanOutInOrder' BY DEF FanOutInOrder
<1>2. RunAhead' BY <1>0 DEF RunAhead
<1>3. AtMostOncePerMark' BY DEF AtMostOncePerMark
<1>4. RunFresh' BY <1>0 DEF RunFresh, AtMostOncePerMark
<1>5. CompletedInFull' BY DEF CompletedInFull
<1>6. RunUncompleted' BY <1>0 DEF RunUncompleted
<1> QED BY <1>1, <1>2, <1>3, <1>4, <1>5, <1>6

\* A call takes effect: only its own slot grows, and it was behind the slots
\* before it and free under the present mark.
LEMMA CountingEffect ==
  ASSUME TypeOK, Lock, Counting,
         NEW w \in Workers, NEW e \in Events,
         AtCall(w, e), TakeEffect(w, e),
         UNCHANGED <<seen, cur, completed, erased>>,
         \A v \in Workers : v # w => pc'[v] = pc[v] /\ done'[v] = done[v],
         pc'[w] = "call" => done'[w] = done[w] + 1
  PROVE  Counting'
<1> USE DEF TypeOK, Counting
<1> DEFINE k == done[w] + 1
<1>1. /\ k \in Slots /\ k \in 1 .. Calls[e]
      /\ applied'[e][k] = applied[e][k] + 1
      /\ \A i \in Slots : i # k => applied'[e][i] = applied[e][i]
      /\ \A f \in Events : f # e => applied'[f] = applied[f]
  BY TakeEffectCounts
<1>2. pc[w] = "call" /\ cur[w] = e /\ done[w] \in Nat /\ e \in seen
  BY DEF AtCall, Lock, HandlingExclusive, Engaged
<1>3. \A v \in Workers : v # w /\ pc[v] = "call" => cur[v] # e
  BY <1>2 DEF Lock, HandlingExclusive, Engaged
<1>4. \A f \in Events : 1 .. Calls[f] \subseteq Slots
  BY DEF Slots
<1>5. \A i \in 1 .. Calls[e] : i < k => applied[e][k] < applied[e][i]
  BY <1>1, <1>2 DEF RunAhead
<1>6. \A j \in Slots : done[w] < j => applied[e][j] <= erased[e]
  BY <1>1, <1>2 DEF RunFresh
<1>7. \A f \in Events, i \in Slots : applied[f][i] \in Nat /\ applied'[f][i] \in Nat
  BY TakeEffectCounts
<1>8. \A f \in Events, i \in Slots :
        applied'[f][i] = IF f = e /\ i = k THEN applied[f][i] + 1 ELSE applied[f][i]
  BY <1>1
<1> HIDE DEF k
<1>9. FanOutInOrder'
  <2> SUFFICES ASSUME NEW f \in Events, NEW i \in 1 .. Calls[f],
                      NEW j \in 1 .. Calls[f], i < j
               PROVE  applied'[f][j] <= applied'[f][i]
    BY DEF FanOutInOrder
  <2>1. applied[f][j] <= applied[f][i]
    BY DEF FanOutInOrder
  <2>2. i \in Slots /\ j \in Slots
    BY <1>4
  <2>3. CASE f = e /\ j = k
    <3>1. applied[e][k] < applied[e][i]
      BY <1>5, <2>3
    <3> QED BY <1>7, <1>8, <2>2, <2>3, <3>1
  <2>4. CASE ~ (f = e /\ j = k)
    BY <1>7, <1>8, <2>1, <2>2, <2>4
  <2> QED BY <2>3, <2>4
<1>10. RunAhead'
  <2> SUFFICES ASSUME NEW v \in Workers, NEW f \in Events,
                      pc'[v] = "call", cur[v] = f,
                      NEW i \in 1 .. Calls[f], NEW j \in 1 .. Calls[f],
                      i <= done'[v], done'[v] < j
               PROVE  applied'[f][j] < applied'[f][i]
    BY DEF RunAhead
  <2>1. i \in Slots /\ j \in Slots
    BY <1>4
  <2>2. CASE v = w
    <3>1. f = e /\ i <= k /\ k < j
      BY <1>2, <2>2 DEF k
    <3>2. CASE i < k
      <4>1. applied[e][j] < applied[e][i]
        BY <1>2, <3>1, <3>2 DEF RunAhead, k
      <4>2. applied'[e][j] = applied[e][j] /\ applied'[e][i] = applied[e][i]
        BY <1>8, <2>1, <3>1, <3>2
      <4> QED BY <3>1, <4>1, <4>2
    <3>3. CASE i = k
      <4>1. applied[e][j] <= applied[e][k]
        BY <1>1, <3>1, <3>3 DEF FanOutInOrder
      <4> QED BY <1>7, <1>8, <2>1, <3>1, <3>3, <4>1
    <3> QED BY <1>1, <3>1, <3>2, <3>3 DEF Slots
  <2>3. CASE v # w
    <3>1. f # e /\ pc[v] = "call" /\ done'[v] = done[v]
      BY <1>3, <2>3
    <3>2. applied[f][j] < applied[f][i]
      BY <3>1 DEF RunAhead
    <3> QED BY <1>8, <2>1, <3>1, <3>2
  <2> QED BY <2>2, <2>3
<1>11. AtMostOncePerMark'
  <2> SUFFICES ASSUME NEW f \in Events, NEW i \in Slots
               PROVE  applied'[f][i] <= erased[f] + (IF f \in seen THEN 1 ELSE 0)
    BY DEF AtMostOncePerMark
  <2>1. applied[f][i] <= erased[f] + (IF f \in seen THEN 1 ELSE 0)
    BY DEF AtMostOncePerMark
  <2>2. applied[e][k] <= erased[e]
    BY <1>1, <1>2, <1>6 DEF k
  <2> QED BY <1>2, <1>7, <1>8, <2>1, <2>2
<1>12. RunFresh'
  <2> SUFFICES ASSUME NEW v \in Workers, NEW f \in Events,
                      pc'[v] = "call", cur[v] = f,
                      NEW j \in Slots, done'[v] < j
               PROVE  applied'[f][j] <= erased[f]
    BY DEF RunFresh
  <2>1. CASE v = w
    <3>1. f = e /\ j \in Nat /\ k < j /\ j # k
      BY <1>2, <2>1 DEF k, Slots
    <3>2. applied[e][j] <= erased[e]
      BY <1>2, <1>6, <3>1 DEF k
    <3> QED BY <1>8, <3>1, <3>2
  <2>2. CASE v # w
    BY <1>3, <1>8, <2>2 DEF RunFresh
  <2> QED BY <2>1, <2>2
<1>13. CompletedInFull'
  <2> SUFFICES ASSUME NEW f \in Events, NEW i \in 1 .. Calls[f],
                      \A j \in 1 .. i : <<f, j>> \notin Lookups
               PROVE  completed[f] <= applied'[f][i]
    BY DEF CompletedInFull
  <2>1. completed[f] <= applied[f][i]
    BY DEF CompletedInFull
  <2>2. i \in Slots /\ completed[f] \in Nat
    BY <1>4
  <2> QED BY <1>7, <1>8, <2>1, <2>2
<1>14. RunUncompleted'
  <2> SUFFICES ASSUME NEW v \in Workers, NEW f \in Events,
                      pc'[v] = "call", cur[v] = f,
                      NEW i \in 1 .. Calls[f], i <= done'[v],
                      \A j \in 1 .. i : <<f, j>> \notin Lookups
               PROVE  completed[f] < applied'[f][i]
    BY DEF RunUncompleted
  <2>1. i \in Slots
    BY <1>4
  <2>2. CASE v = w /\ i = k
    <3>1. completed[f] <= applied[f][i]
      BY DEF CompletedInFull
    <3> QED BY <1>2, <1>7, <1>8, <2>1, <2>2, <3>1
  <2>3. CASE v = w /\ i # k
    <3>1. f = e /\ i \in Nat /\ i <= done[w]
      BY <1>2, <2>1, <2>3 DEF k, Slots
    <3>2. completed[f] < applied[f][i]
      BY <1>2, <3>1 DEF RunUncompleted
    <3> QED BY <1>8, <2>1, <2>3, <3>2
  <2>4. CASE v # w
    BY <1>3, <1>8, <2>1, <2>4 DEF RunUncompleted
  <2> QED BY <2>2, <2>3, <2>4
<1> QED BY <1>9, <1>10, <1>11, <1>12, <1>13, <1>14

\* A handler returns nil, having made every call before the first lookup that
\* found nothing: the run is completed once, and its calls are ahead of that.
LEMMA CountingComplete ==
  ASSUME TypeOK, Lock, Counting,
         NEW w \in Workers, NEW e \in Events,
         pc[w] = "call", cur[w] = e, pc' = [pc EXCEPT ![w] = "ack"],
         done[w] = Calls[e] \/ <<e, done[w] + 1>> \in Lookups,
         completed' = [completed EXCEPT ![e] = @ + 1],
         UNCHANGED <<seen, cur, done, applied, erased>>
  PROVE  Counting'
<1> USE DEF TypeOK, Counting
<1>1. /\ pc'[w] = "ack"
      /\ \A v \in Workers : v # w => pc'[v] = pc[v]
      /\ completed'[e] = completed[e] + 1
      /\ \A f \in Events : f # e => completed'[f] = completed[f]
  OBVIOUS
<1>2. \A v \in Workers : v # w /\ pc[v] = "call" => cur[v] # e
  BY DEF Lock, HandlingExclusive, Engaged
<1>3. FanOutInOrder' BY DEF FanOutInOrder
<1>4. RunAhead' BY <1>1 DEF RunAhead
<1>5. AtMostOncePerMark' BY DEF AtMostOncePerMark
<1>6. RunFresh' BY <1>1 DEF RunFresh
<1>7. CompletedInFull'
  <2> SUFFICES ASSUME NEW f \in Events, NEW i \in 1 .. Calls[f],
                      \A j \in 1 .. i : <<f, j>> \notin Lookups
               PROVE  completed'[f] <= applied[f][i]
    BY DEF CompletedInFull
  <2>1. CASE f = e
    <3>1. i \in Nat /\ done[w] \in Nat /\ i <= done[w]
      BY <2>1
    <3>2. completed[e] < applied[e][i]
      BY <2>1, <3>1 DEF RunUncompleted
    <3>3. completed[e] \in Nat /\ applied[e][i] \in Nat
      BY <2>1 DEF Slots
    <3> QED BY <1>1, <2>1, <3>2, <3>3
  <2>2. CASE f # e
    BY <1>1, <2>2 DEF CompletedInFull
  <2> QED BY <2>1, <2>2
<1>8. RunUncompleted' BY <1>1, <1>2 DEF RunUncompleted
<1> QED BY <1>3, <1>4, <1>5, <1>6, <1>7, <1>8

\* A mark is deleted while nobody is in the handler's calls: the effects it
\* paid for are now covered by erased.
LEMMA CountingErase ==
  ASSUME TypeOK, Counting, NEW e \in Events, e \in seen,
         \A v \in Workers : pc'[v] = "call" => pc[v] = "call" /\ cur[v] # e,
         seen' = seen \ {e}, erased' = [erased EXCEPT ![e] = @ + 1],
         UNCHANGED <<cur, done, applied, completed>>
  PROVE  Counting'
<1> USE DEF TypeOK, Counting
<1>1. /\ erased'[e] = erased[e] + 1
      /\ \A f \in Events : f # e => erased'[f] = erased[f]
  OBVIOUS
<1>2. FanOutInOrder' BY DEF FanOutInOrder
<1>3. RunAhead' BY DEF RunAhead
<1>4. AtMostOncePerMark' BY <1>1 DEF AtMostOncePerMark
<1>5. RunFresh' BY <1>1 DEF RunFresh
<1>6. CompletedInFull' BY DEF CompletedInFull
<1>7. RunUncompleted' BY DEF RunUncompleted
<1> QED BY <1>2, <1>3, <1>4, <1>5, <1>6, <1>7

\* Every step keeps Counting: it leaves the runs alone, or it is one of the four
\* cases above.
LEMMA CountingStep == TypeOK /\ Lock /\ Counting /\ [Next]_vars => Counting'
<1> SUFFICES ASSUME TypeOK, Lock, Counting, [Next]_vars PROVE Counting'
  OBVIOUS
<1> USE DEF Goto, broker, worker, history, Disturb
<1>1. ASSUME NEW m \in Messages, Publish(m) PROVE Counting'
  BY <1>1, CountingFrame DEF Publish
<1>2. ASSUME NEW m \in Messages, Replay(m) PROVE Counting'
  BY <1>2, CountingFrame DEF Replay
<1>3. ASSUME NEW e \in Events, Reap(e) PROVE Counting'
  BY <1>3, CountingErase DEF Reap, Engaged
<1>4. ASSUME NEW w \in Workers, Start(w) PROVE Counting'
  BY <1>4, CountingFrame DEF Start, TypeOK
<1>5. ASSUME NEW w \in Workers, NEW m \in Messages, Deliver(w, m) PROVE Counting'
  BY <1>5, CountingFrame DEF Deliver, TypeOK
<1>6. ASSUME NEW w \in Workers, NEW e \in Events, Handle(w, e) PROVE Counting'
  <2>1. CASE MarkFresh(w, e) BY <2>1, CountingMarkFresh
  <2>2. CASE MarkDuplicate(w, e) BY <2>2, CountingFrame DEF MarkDuplicate, TypeOK
  <2>3. CASE CallOk(w, e) BY <2>3, CountingEffect DEF CallOk, TypeOK
  <2>4. CASE LookupMiss(w, e) BY <2>4, CountingComplete DEF LookupMiss, AtCall
  <2>5. CASE Return(w, e) BY <2>5, CountingComplete DEF Return
  <2>6. CASE Unmark(w, e)
    <3>1. Engaged(w, e) /\ e \in seen
      BY <2>6 DEF Unmark, Engaged, Lock, HandlingExclusive
    <3>2. \A v \in Workers : pc'[v] = "call" => pc[v] = "call" /\ v # w
      BY <2>6 DEF Unmark, TypeOK
    <3>3. \A v \in Workers : pc'[v] = "call" => pc[v] = "call" /\ cur[v] # e
      BY <3>1, <3>2 DEF Lock, HandlingExclusive, Engaged
    <3> QED BY <2>6, <3>1, <3>3, CountingErase DEF Unmark
  <2> QED BY <1>6, <2>1, <2>2, <2>3, <2>4, <2>5, <2>6 DEF Handle
<1>7. ASSUME NEW w \in Workers, NEW e \in Events, HandleError(w, e) PROVE Counting'
  <2>1. CASE MarkFail(w, e) BY <2>1, CountingFrame DEF MarkFail, TypeOK
  <2>2. CASE MarkLost(w, e)
    <3> USE DEF Counting, TypeOK, MarkLost
    <3>1. UNCHANGED <<cur, done, applied, completed, erased>>
      BY <2>2
    <3>2. \A v \in Workers : pc'[v] = "call" => pc[v] = "call"
      BY <2>2
    <3>3. FanOutInOrder' BY <3>1 DEF FanOutInOrder
    <3>4. RunAhead' BY <3>1, <3>2 DEF RunAhead
    <3>5. AtMostOncePerMark' BY <2>2, <3>1 DEF AtMostOncePerMark
    <3>6. RunFresh' BY <3>1, <3>2 DEF RunFresh
    <3>7. CompletedInFull' BY <3>1 DEF CompletedInFull
    <3>8. RunUncompleted' BY <3>1, <3>2 DEF RunUncompleted
    <3> QED BY <3>3, <3>4, <3>5, <3>6, <3>7, <3>8
  <2>3. CASE CallFail(w, e) BY <2>3, CountingFrame DEF CallFail, TypeOK
  <2>4. CASE CallLost(w, e) BY <2>4, CountingEffect DEF CallLost, TypeOK
  <2>5. CASE UnmarkFail(w, e) BY <2>5, CountingFrame DEF UnmarkFail, TypeOK
  <2> QED BY <1>7, <2>1, <2>2, <2>3, <2>4, <2>5 DEF HandleError
<1>8. ASSUME NEW w \in Workers, Respond(w) PROVE Counting'
  <2>1. Finish(w) /\ UNCHANGED <<seen, history>>
    BY <1>8 DEF Respond, Ack, NackRequeue, NackDead
  <2> QED BY <2>1, CountingFrame DEF Finish, TypeOK
<1>9. ASSUME NEW w \in Workers, Disconnect(w) PROVE Counting'
  BY <1>9, CountingFrame DEF Disconnect, TypeOK
<1>10. ASSUME NEW w \in Workers, Die(w) PROVE Counting'
  BY <1>10, CountingFrame DEF Die, TypeOK
<1>11. CASE UNCHANGED vars
  BY <1>11, CountingFrame DEF vars
<1> QED
  BY <1>1, <1>2, <1>3, <1>4, <1>5, <1>6, <1>7, <1>8, <1>9, <1>10, <1>11,
     EndsOfWorkers
  DEF Next, AwaitDelivery

\* The fan-out stays in order, an effect is paid for by a mark, and a nil return
\* means that every call was made.
THEOREM CountingCorrect ==
  Spec => [](FanOutInOrder /\ AtMostOncePerMark /\ CompletedInFull)
<1>1. Init => Lock /\ Counting
  BY LockInit, CountingInit
<1>2. TypeOK /\ Lock /\ Counting /\ [Next]_vars => Lock' /\ Counting'
  BY LockStep, CountingStep
<1>3. Counting => FanOutInOrder /\ AtMostOncePerMark /\ CompletedInFull
  BY DEF Counting
<1> QED BY <1>1, <1>2, <1>3, TypeCorrect, PTL DEF Spec

-----------------------------------------------------------------------------
\* A worker in the handler of e without the delivery of e is a known fault.
Backed ==
  \A w \in Workers, e \in Events : Engaged(w, e) /\ ~ held[w] => e \in orphaned

\* The custody invariants with what makes them inductive.
Custody == Backed /\ MarkIsHonest /\ NothingLost

\* No event is marked or sent at the start.
LEMMA CustodyInit == Init => Custody
BY DEF Init, Custody, Backed, MarkIsHonest, NothingLost, Engaged, Messages

\* A step of w alone keeps e in custody if the queues keep their copies and
\* take over the copy that w gives up.
LEMMA CustodyTransfer ==
  ASSUME NEW w \in Workers, NEW e \in Events, InCustody(e),
         \A v \in Workers \ {w} :
           pc'[v] = pc[v] /\ cur'[v] = cur[v] /\ held'[v] = held[v],
         ready[e] > 0 => ready'[e] > 0,
         dlq[e] > 0 => dlq'[e] > 0,
         HasCustody(w, e) => ready'[e] > 0 \/ dlq'[e] > 0
  PROVE  InCustody(e)'
<1>1. CASE ready[e] > 0 \/ dlq[e] > 0
  BY <1>1 DEF InCustody
<1>2. ASSUME NEW v \in Workers, HasCustody(v, e) PROVE InCustody(e)'
  BY <1>2 DEF InCustody, HasCustody
<1> QED BY <1>1, <1>2 DEF InCustody

\* Every step keeps Custody: what gives up a copy or a mark puts the copy in a
\* queue, completes the event or records it as orphaned.
LEMMA CustodyStep == TypeOK /\ Lock /\ Custody /\ [Next]_vars => Custody'
<1> SUFFICES ASSUME TypeOK, Lock, Custody, [Next]_vars PROVE Custody'
  OBVIOUS
<1> USE DEF TypeOK, Lock, Custody, Backed, MarkIsHonest, NothingLost, InCustody,
            HasCustody, Engaged, Goto, broker, worker, history, Disturb
<1>1. ASSUME NEW m \in Messages, Publish(m) PROVE Custody'
  BY <1>1 DEF Publish, Messages
<1>2. ASSUME NEW m \in Messages, Replay(m) PROVE Custody'
  BY <1>2 DEF Replay, Messages
<1>3. ASSUME NEW e \in Events, Reap(e) PROVE Custody'
  BY <1>3 DEF Reap
<1>4. ASSUME NEW w \in Workers, Start(w) PROVE Custody'
  BY <1>4 DEF Start
<1>5. ASSUME NEW w \in Workers, NEW m \in Messages, Deliver(w, m) PROVE Custody'
  <2>1. /\ pc'[w] \in {"dead", "dedupe"} /\ cur'[w] = m /\ held'[w]
        /\ pc[w] = "idle" /\ ~ held[w]
        /\ \A v \in Workers \ {w} : pc'[v] = pc[v] /\ cur'[v] = cur[v] /\ held'[v] = held[v]
        /\ \A f \in Messages : f # m => ready'[f] = ready[f]
        /\ UNCHANGED <<dlq, sent, seen, completed, orphaned>>
    BY <1>5 DEF Deliver, WorkerOK
  <2>2. Backed' BY <2>1
  <2>3. MarkIsHonest' BY <2>1
  <2>4. NothingLost'
    <3> SUFFICES ASSUME NEW f \in Registered, f \notin orphaned', sent'[f] > 0,
                        completed'[f] = 0
                 PROVE  InCustody(f)'
      BY DEF NothingLost
    <3>1. f \in Events /\ f \in Messages /\ f \notin orphaned /\ InCustody(f)
      BY <2>1 DEF NothingLost, Messages
    <3>2. CASE f = m
      BY <2>1, <3>2
    <3>3. CASE f # m
      BY <2>1, <3>1, <3>3, CustodyTransfer
    <3> QED BY <3>2, <3>3
  <2> QED BY <2>2, <2>3, <2>4
<1>6. ASSUME NEW w \in Workers, NEW e \in Events, Handle(w, e) PROVE Custody'
  <2>1. CASE MarkFresh(w, e) BY <2>1 DEF MarkFresh
  <2>2. CASE MarkDuplicate(w, e) BY <2>2 DEF MarkDuplicate
  <2>3. CASE CallOk(w, e) BY <2>3 DEF CallOk, AtCall
  <2>4. CASE LookupMiss(w, e) BY <2>4 DEF LookupMiss, AtCall
  <2>5. CASE Return(w, e) BY <2>5 DEF Return
  <2>6. CASE Unmark(w, e) BY <2>6 DEF Unmark
  <2> QED BY <1>6, <2>1, <2>2, <2>3, <2>4, <2>5, <2>6 DEF Handle
<1>7. ASSUME NEW w \in Workers, NEW e \in Events, HandleError(w, e) PROVE Custody'
  <2>1. CASE MarkFail(w, e) BY <2>1 DEF MarkFail
  <2>2. CASE MarkLost(w, e) BY <2>2 DEF MarkLost
  <2>3. CASE CallFail(w, e) BY <2>3 DEF CallFail, AtCall
  <2>4. CASE CallLost(w, e) BY <2>4 DEF CallLost, AtCall
  <2>5. CASE UnmarkFail(w, e) BY <2>5 DEF UnmarkFail
  <2> QED BY <1>7, <2>1, <2>2, <2>3, <2>4, <2>5 DEF HandleError
<1>8. ASSUME NEW w \in Workers, Respond(w) PROVE Custody'
  <2>1. /\ Finish(w) /\ UNCHANGED <<sent, seen, history>>
        /\ ready' \in {ready, Settle(w, ready)} /\ dlq' \in {dlq, Settle(w, dlq)}
        /\ pc[w] = "ack" \/ ready' = Settle(w, ready) \/ dlq' = Settle(w, dlq)
        /\ pc[w] \in {"ack", "requeue", "dead"}
    BY <1>8 DEF Respond, Ack, NackRequeue, NackDead
  <2>2. /\ pc'[w] \in {"idle", "down"}
        /\ \A v \in Workers \ {w} : pc'[v] = pc[v] /\ cur'[v] = cur[v] /\ held'[v] = held[v]
    BY <2>1 DEF Finish
  <2>3. /\ \A f \in Messages : ready[f] > 0 => ready'[f] > 0
        /\ \A f \in Messages : dlq[f] > 0 => dlq'[f] > 0
        /\ \A f \in Messages : HasCustody(w, f) => ready'[f] > 0 \/ dlq'[f] > 0
    <3>1. \A f \in Messages :
            /\ Settle(w, ready)[f] = IF held[w] /\ cur[w] = f THEN ready[f] + 1 ELSE ready[f]
            /\ Settle(w, dlq)[f] = IF held[w] /\ cur[w] = f THEN dlq[f] + 1 ELSE dlq[f]
            /\ ready[f] \in Nat /\ dlq[f] \in Nat
      BY SettleCounts
    <3>2. \A f \in Messages : ready[f] > 0 => ready'[f] > 0
      BY <2>1, <3>1
    <3>3. \A f \in Messages : dlq[f] > 0 => dlq'[f] > 0
      BY <2>1, <3>1
    <3>4. \A f \in Messages : HasCustody(w, f) => ready'[f] > 0 \/ dlq'[f] > 0
      BY <2>1, <3>1
    <3> QED BY <3>2, <3>3, <3>4
  <2>4. Backed' BY <2>1, <2>2
  <2>5. MarkIsHonest' BY <2>1, <2>2
  <2>6. NothingLost'
    <3> SUFFICES ASSUME NEW f \in Registered, f \notin orphaned', sent'[f] > 0,
                        completed'[f] = 0
                 PROVE  InCustody(f)'
      BY DEF NothingLost
    <3>1. f \in Events /\ f \in Messages /\ f \notin orphaned /\ InCustody(f)
      BY <2>1 DEF NothingLost, Messages
    <3> HIDE DEF InCustody, HasCustody
    <3> QED BY <2>2, <2>3, <3>1, CustodyTransfer
  <2> QED BY <2>4, <2>5, <2>6
<1>9. ASSUME NEW w \in Workers, Disconnect(w) PROVE Custody'
  <2>1. /\ ~ held'[w] /\ cur' = cur
        /\ \A v \in Workers \ {w} : pc'[v] = pc[v] /\ held'[v] = held[v]
        /\ pc'[w] = IF pc[w] = "idle" THEN "down" ELSE pc[w]
        /\ \A e \in Events : Engaged(w, e) => e \in orphaned'
        /\ orphaned \subseteq orphaned'
        /\ UNCHANGED <<dlq, sent, seen, completed>>
    BY <1>9 DEF Disconnect
  <2>2. \A f \in Messages : /\ ready[f] > 0 => ready'[f] > 0
                            /\ HasCustody(w, f) => ready'[f] > 0
    <3>1. \A f \in Messages :
            ready'[f] = IF held[w] /\ cur[w] = f THEN ready[f] + 1 ELSE ready[f]
      BY <1>9, SettleCounts DEF Disconnect
    <3>2. \A f \in Messages : ready[f] \in Nat /\ (HasCustody(w, f) => held[w] /\ cur[w] = f)
      OBVIOUS
    <3> HIDE DEF HasCustody
    <3> QED BY <3>1, <3>2
  <2>3. Backed' BY <2>1
  <2>4. MarkIsHonest' BY <2>1
  <2>5. NothingLost'
    <3> SUFFICES ASSUME NEW f \in Registered, f \notin orphaned', sent'[f] > 0,
                        completed'[f] = 0
                 PROVE  InCustody(f)'
      BY DEF NothingLost
    <3>1. f \in Events /\ f \in Messages /\ f \notin orphaned /\ InCustody(f)
      BY <2>1 DEF NothingLost, Messages
    <3> HIDE DEF InCustody, HasCustody
    <3> QED BY <2>1, <2>2, <3>1, CustodyTransfer
  <2> QED BY <2>3, <2>4, <2>5
<1>10. ASSUME NEW w \in Workers, Die(w) PROVE Custody'
  <2>1. /\ pc'[w] = "down"
        /\ \A v \in Workers \ {w} : pc'[v] = pc[v] /\ cur'[v] = cur[v] /\ held'[v] = held[v]
        /\ \A e \in Events : Engaged(w, e) => e \in orphaned'
        /\ orphaned \subseteq orphaned'
        /\ UNCHANGED <<dlq, sent, seen, completed>>
    BY <1>10 DEF Die
  <2>2. \A f \in Messages : /\ ready[f] > 0 => ready'[f] > 0
                            /\ HasCustody(w, f) => ready'[f] > 0
    <3>1. \A f \in Messages :
            ready'[f] = IF held[w] /\ cur[w] = f THEN ready[f] + 1 ELSE ready[f]
      BY <1>10, SettleCounts DEF Die
    <3>2. \A f \in Messages : ready[f] \in Nat /\ (HasCustody(w, f) => held[w] /\ cur[w] = f)
      OBVIOUS
    <3> HIDE DEF HasCustody
    <3> QED BY <3>1, <3>2
  <2>3. Backed' BY <2>1
  <2>4. MarkIsHonest' BY <2>1
  <2>5. NothingLost'
    <3> SUFFICES ASSUME NEW f \in Registered, f \notin orphaned', sent'[f] > 0,
                        completed'[f] = 0
                 PROVE  InCustody(f)'
      BY DEF NothingLost
    <3>1. f \in Events /\ f \in Messages /\ f \notin orphaned /\ InCustody(f)
      BY <2>1 DEF NothingLost, Messages
    <3> HIDE DEF InCustody, HasCustody
    <3> QED BY <2>1, <2>2, <3>1, CustodyTransfer
  <2> QED BY <2>3, <2>4, <2>5
<1>11. CASE UNCHANGED vars
  BY <1>11 DEF vars
<1> QED
  BY <1>1, <1>2, <1>3, <1>4, <1>5, <1>6, <1>7, <1>8, <1>9, <1>10, <1>11,
     EndsOfWorkers
  DEF Next, AwaitDelivery

\* Outside the fault windows that orphaned records, a duplicate is acked only
\* if the event is completed or in good hands, and no event is ever lost.
THEOREM CustodyCorrect == Spec => [](MarkIsHonest /\ NothingLost)
<1>1. Init => Lock /\ Custody
  BY LockInit, CustodyInit
<1>2. TypeOK /\ Lock /\ Custody /\ [Next]_vars => Lock' /\ Custody'
  BY LockStep, CustodyStep
<1>3. Custody => MarkIsHonest /\ NothingLost
  BY DEF Custody
<1> QED BY <1>1, <1>2, <1>3, TypeCorrect, PTL DEF Spec

\* Separate names for the parts of the conjunctions above.
THEOREM FanOutOrdered == Spec => []FanOutInOrder
  BY CountingCorrect, PTL

\* An event that the consumer completes has had every call of its handler up to the
\* first lookup, once per completion (consumer.go, handleMessage).
THEOREM CompletionsFull == Spec => []CompletedInFull
  BY CountingCorrect, PTL

\* A mark in event_ids stands for an event that is done or in hand, except for those
\* that a fault between the mark and its undoing orphaned (consumer.go, handleMessage).
THEOREM MarksHonest == Spec => []MarkIsHonest
  BY CustodyCorrect, PTL

-----------------------------------------------------------------------------
\* The claims of event_ids as the workers hold them.
Claims == [e \in Events |-> {w \in Workers : Engaged(w, e)}]

\* A step in which no worker begins or ends a handler leaves the claims alone.
LEMMA ClaimsFrame ==
  ASSUME \A w \in Workers, e \in Events : Engaged(w, e)' <=> Engaged(w, e)
  PROVE  Claims' = Claims
BY DEF Claims

\* When only worker w begins or ends the handler of e, only the claim of e changes.
LEMMA ClaimsChange ==
  ASSUME Lock, NEW w \in Workers, NEW e \in Events,
         \A v \in Workers, f \in Events :
           v # w \/ f # e => (Engaged(v, f)' <=> Engaged(v, f)),
         Engaged(w, e) \/ e \notin seen
  PROVE  Claims' = [Claims EXCEPT ![e] = IF Engaged(w, e)' THEN {w} ELSE {}]
<1>1. \A v \in Workers : v # w => ~ Engaged(v, e)
  BY DEF Lock, HandlingExclusive
<1>2. \A v \in Workers : v # w => ~ Engaged(v, e)'
  BY <1>1
<1>3. Claims'[e] = IF Engaged(w, e)' THEN {w} ELSE {}
  BY <1>2 DEF Claims
<1>4. \A f \in Events : f # e => Claims'[f] = Claims[f]
  BY DEF Claims
<1>5. Claims = [f \in Events |-> Claims[f]] /\ Claims' = [f \in Events |-> Claims'[f]]
  BY DEF Claims
<1> HIDE DEF Claims
<1> QED BY <1>3, <1>4, <1>5

\* A step that touches neither the marks nor the runs is none of the deduper's.
LEMMA DeduperFrame ==
  ASSUME \A w \in Workers, e \in Events : Engaged(w, e)' <=> Engaged(w, e),
         UNCHANGED <<seen, completed, erased>>
  PROVE  UNCHANGED Deduper!vars
BY ClaimsFrame DEF Claims, Deduper!vars

\* A worker that leaves its handler without a result abandons its claims.
LEMMA EndAbandons ==
  ASSUME Lock, NEW w \in Workers,
         pc'[w] \notin {"call", "failed"},
         \A v \in Workers \ {w} : pc'[v] = pc[v] /\ cur'[v] = cur[v],
         UNCHANGED <<seen, completed, erased>>
  PROVE  Deduper!Abandon({f \in Events : Engaged(w, f)})
<1>1. \A v \in Workers, f \in Events :
        Engaged(v, f)' <=> v # w /\ Engaged(v, f)
  BY DEF Engaged
<1>2. \A f \in Events : Engaged(w, f) => \A v \in Workers : Engaged(v, f) => v = w
  BY DEF Lock, HandlingExclusive
<1>3. Claims' = [f \in Events |->
                  IF f \in {g \in Events : Engaged(w, g)} THEN {} ELSE Claims[f]]
  <2>1. \A f \in Events :
          Claims'[f] = IF Engaged(w, f) THEN {} ELSE Claims[f]
    BY <1>1, <1>2 DEF Claims
  <2>2. Claims' = [f \in Events |-> Claims'[f]]
    BY DEF Claims
  <2> HIDE DEF Claims
  <2> QED BY <2>1, <2>2
<1> QED BY <1>3 DEF Claims, Deduper!Abandon

\* Every step of the consumer is a step of the deduper or none: MarkFresh claims
\* or settles, the end of a handler finishes, Unmark releases, and what ends a
\* worker abandons.
LEMMA DeduperStep ==
  TypeOK /\ Lock /\ [Next]_vars => [Deduper!Next]_(Deduper!vars)
<1> SUFFICES ASSUME TypeOK, Lock, [Next]_vars
             PROVE  Deduper!Next \/ UNCHANGED Deduper!vars
  OBVIOUS
<1> USE DEF Goto, broker, worker, history
<1>0. /\ pc \in [Workers -> Steps] /\ cur \in [Workers -> Messages \cup {NoMsg}]
      /\ completed \in [Events -> Nat] /\ erased \in [Events -> Nat]
  BY DEF TypeOK
<1>1. ASSUME NEW m \in Messages, Publish(m) \/ Replay(m) PROVE UNCHANGED Deduper!vars
  BY <1>1, DeduperFrame DEF Publish, Replay, Engaged
<1>2. ASSUME NEW e \in Events, Reap(e) PROVE Deduper!Next
  <2>1. Claims' = Claims /\ Claims[e] = {}
    BY <1>2, ClaimsFrame DEF Reap, Engaged, Claims
  <2>2. Deduper!Expire(e)
    BY <1>2, <2>1 DEF Reap, Claims, Deduper!Expire
  <2> QED BY <2>2 DEF Deduper!Next
<1>3. ASSUME NEW w \in Workers, Start(w) PROVE UNCHANGED Deduper!vars
  BY <1>0, <1>3, DeduperFrame DEF Start, Engaged
<1>4. ASSUME NEW w \in Workers, NEW m \in Messages, Deliver(w, m)
      PROVE  UNCHANGED Deduper!vars
  BY <1>0, <1>4, DeduperFrame DEF Deliver, Engaged
<1>5. ASSUME NEW w \in Workers, NEW e \in Events, MarkFresh(w, e) PROVE Deduper!Next
  <2>1. e \notin seen /\ seen' = seen \cup {e} /\ UNCHANGED <<completed, erased>>
    BY <1>5 DEF MarkFresh
  <2>2. \A v \in Workers, f \in Events :
          v # w \/ f # e => (Engaged(v, f)' <=> Engaged(v, f))
    BY <1>0, <1>5 DEF MarkFresh, Engaged
  <2>3. Claims[e] = {}
    BY <2>1 DEF Claims, Lock, HandlingExclusive
  <2>4. Claims' = [Claims EXCEPT ![e] = IF Engaged(w, e)' THEN {w} ELSE {}]
    BY <2>1, <2>2, ClaimsChange
  <2>5. CASE Engaged(w, e)'
    <3>1. Deduper!Claim(w, e)
      BY <2>1, <2>3, <2>4, <2>5 DEF Claims, Deduper!Claim
    <3> QED BY <3>1 DEF Deduper!Next
  <2>6. CASE ~ Engaged(w, e)'
    <3>1. Claims' = Claims
      BY <2>3, <2>4, <2>6 DEF Claims
    <3>2. Deduper!Settle(e)
      BY <2>1, <2>3, <3>1 DEF Claims, Deduper!Settle
    <3> QED BY <3>2 DEF Deduper!Next
  <2> QED BY <2>5, <2>6
<1>6. ASSUME NEW w \in Workers, NEW e \in Events,
             MarkDuplicate(w, e) \/ CallOk(w, e) \/ MarkFail(w, e)
               \/ CallFail(w, e) \/ CallLost(w, e)
      PROVE  UNCHANGED Deduper!vars
  <2>1. UNCHANGED <<seen, completed, erased, cur>>
    BY <1>6 DEF MarkDuplicate, CallOk, MarkFail, CallFail, CallLost
  <2>2. \A v \in Workers : pc'[v] \in {"call", "failed"} <=> pc[v] \in {"call", "failed"}
    BY <1>0, <1>6 DEF MarkDuplicate, CallOk, MarkFail, CallFail, CallLost, AtCall
  <2> QED BY <2>1, <2>2, DeduperFrame DEF Engaged
<1>7. ASSUME NEW w \in Workers, NEW e \in Events, MarkLost(w, e) PROVE Deduper!Next
  <2>1. e \notin seen /\ seen' = seen \cup {e} /\ UNCHANGED <<completed, erased>>
    BY <1>7 DEF MarkLost
  <2>2. Claims' = Claims
    BY <1>0, <1>7, ClaimsFrame DEF MarkLost, Engaged
  <2>3. Claims[e] = {}
    BY <2>1 DEF Claims, Lock, HandlingExclusive
  <2>4. Deduper!Settle(e)
    BY <2>1, <2>2, <2>3 DEF Claims, Deduper!Settle
  <2> QED BY <2>4 DEF Deduper!Next
<1>8. ASSUME NEW w \in Workers, NEW e \in Events, LookupMiss(w, e) \/ Return(w, e)
      PROVE  Deduper!Next
  <2>1. /\ UNCHANGED <<seen, erased, cur>> /\ completed' = [completed EXCEPT ![e] = @ + 1]
        /\ pc' = [pc EXCEPT ![w] = "ack"] /\ Engaged(w, e)
    BY <1>8 DEF LookupMiss, Return, AtCall, Engaged
  <2>2. /\ ~ Engaged(w, e)'
        /\ \A v \in Workers, f \in Events :
             v # w \/ f # e => (Engaged(v, f)' <=> Engaged(v, f))
    BY <1>0, <2>1 DEF Engaged
  <2>3. Claims' = [Claims EXCEPT ![e] = {}] /\ Claims[e] # {}
    BY <2>1, <2>2, ClaimsChange DEF Claims
  <2>4. Deduper!Finish(e)
    BY <2>1, <2>3 DEF Claims, Deduper!Finish
  <2> QED BY <2>4 DEF Deduper!Next
<1>9. ASSUME NEW w \in Workers, NEW e \in Events, Unmark(w, e) PROVE Deduper!Next
  <2>1. /\ seen' = seen \ {e} /\ erased' = [erased EXCEPT ![e] = @ + 1]
        /\ UNCHANGED <<completed, cur>>
        /\ pc' = [pc EXCEPT ![w] = "dead"] /\ Engaged(w, e)
    BY <1>9 DEF Unmark, Engaged
  <2>2. /\ ~ Engaged(w, e)'
        /\ \A v \in Workers, f \in Events :
             v # w \/ f # e => (Engaged(v, f)' <=> Engaged(v, f))
    BY <1>0, <2>1 DEF Engaged
  <2>3. Claims' = [Claims EXCEPT ![e] = {}] /\ Claims[e] # {}
    BY <2>1, <2>2, ClaimsChange DEF Claims
  <2>4. Deduper!Release(e)
    BY <2>1, <2>3 DEF Claims, Deduper!Release
  <2> QED BY <2>4 DEF Deduper!Next
<1>10. ASSUME NEW w \in Workers, NEW e \in Events, UnmarkFail(w, e) PROVE Deduper!Next
  <2>1. /\ UNCHANGED <<seen, erased, completed, cur>>
        /\ pc'[w] = "dead" /\ \A v \in Workers \ {w} : pc'[v] = pc[v]
    BY <1>0, <1>10 DEF UnmarkFail
  <2>2. Deduper!Abandon({f \in Events : Engaged(w, f)})
    BY <2>1, EndAbandons
  <2> QED BY <2>2 DEF Deduper!Next
<1>11. ASSUME NEW w \in Workers, Respond(w) \/ Disconnect(w) PROVE UNCHANGED Deduper!vars
  <2>1. /\ UNCHANGED <<seen, completed, erased>>
        /\ \A v \in Workers \ {w} : pc'[v] = pc[v] /\ cur'[v] = cur[v]
        /\ pc[w] \in {"call", "failed"} => pc'[w] = pc[w] /\ cur'[w] = cur[w]
        /\ pc[w] \notin {"call", "failed"} => pc'[w] \notin {"call", "failed"}
    BY <1>0, <1>11 DEF Respond, Ack, NackRequeue, NackDead, Finish, Disconnect
  <2> QED BY <2>1, DeduperFrame DEF Engaged
<1>12. ASSUME NEW w \in Workers, Die(w) PROVE Deduper!Next
  <2>1. /\ UNCHANGED <<seen, erased, completed>> /\ pc'[w] = "down"
        /\ \A v \in Workers \ {w} : pc'[v] = pc[v] /\ cur'[v] = cur[v]
    BY <1>0, <1>12 DEF Die
  <2>2. Deduper!Abandon({f \in Events : Engaged(w, f)})
    BY <2>1, EndAbandons
  <2> QED BY <2>2 DEF Deduper!Next
<1>13. CASE UNCHANGED vars
  BY <1>13, DeduperFrame DEF vars, Engaged
<1> QED
  BY <1>1, <1>2, <1>3, <1>4, <1>5, <1>6, <1>7, <1>8, <1>9, <1>10, <1>11, <1>12,
     <1>13, EndsOfWorkers
  DEF Next, Handle, HandleError, AwaitDelivery

\* The workers and event_ids implement the interface EventDeduper: between them a
\* fresh MarkSeen is a claim that one worker has at a time.
THEOREM ImplementsDeduper == Spec => DeduperSpec
<1>1. Init => Deduper!Init
  BY DEF Init, Deduper!Init, Engaged
<1>2. TypeOK /\ Lock /\ [Next]_vars => [Deduper!Next]_(Deduper!vars)
  BY DeduperStep
<1>3. Init => Lock
  BY LockInit
<1>4. TypeOK /\ Lock /\ [Next]_vars => Lock'
  BY LockStep
<1> QED
  BY <1>1, <1>2, <1>3, <1>4, TypeCorrect, PTL DEF Spec, DeduperSpec, Deduper!Spec
=============================================================================
