----------------------------- MODULE CoreEvents -----------------------------
(***************************************************************************)
(* The inbound event consumer of lib/coreevents, with the broker queue it  *)
(* reads (pkg/messaging) and the event_ids collection it dedupes on        *)
(* (app/analytics/repository/event_ids.repo.go).                           *)
(*                                                                         *)
(* A worker is the goroutine AMQPClient.Consume starts in one service      *)
(* process: it runs Consumer.handleMessage for one delivery at a time.     *)
(* Every call that leaves the process (a Mongo command, an ack or a nack)  *)
(* is a step of its own, so another worker, a lost connection or a crash   *)
(* can fall between any two of them.  What a handler does is abstracted to *)
(* the number of Mongo calls it makes one after the other, stopping at the *)
(* first error; module Analytics gives the calls their effect.             *)
(***************************************************************************)
EXTENDS Naturals, FiniteSets

CONSTANTS
  Workers,      \* consumer goroutines, one per service process
  Events,       \* messages with an eventId and an eventType
  Malformed,    \* messages whose body is not such an envelope
  NoMsg,        \* what an idle worker handles
  Registered,   \* the events whose type has a handler
  BadPayload,   \* registered events whose payload the handler cannot parse
  Calls,        \* Calls[e]: the Mongo calls of e's handler
  MaxCalls,     \* bound on Calls
  Lookups,      \* <<e, i>>: call i of e is a read that may find nothing
  MaxSends,     \* bound: copies of a message its publisher may send
  Faults,       \* the kinds of disturbance that may happen
  MaxFaults     \* bound: disturbances in one behaviour

Messages == Events \cup Malformed
Slots == 1 .. MaxCalls

\* markFail / markLost: MarkSeen returns an error, its insert having failed or
\* landed; callFail / callLost: the same for a handler's call; unmarkFail:
\* Unmark's delete fails; drop: the AMQP connection is lost; crash: the
\* process dies; stop: it is told to stop; replay: an operator moves a message
\* from the DLQ back to the queue; reap: Mongo's TTL monitor deletes an event_ids
\* document.
FaultKinds == {"markFail", "markLost", "callFail", "callLost", "unmarkFail",
               "drop", "crash", "stop", "replay", "reap"}

ASSUME MessagesAssumption ==
  /\ Events \cap Malformed = {}
  /\ NoMsg \notin Messages
  /\ Registered \subseteq Events
  /\ BadPayload \subseteq Registered
ASSUME CallsAssumption ==
  /\ MaxCalls \in Nat
  /\ Calls \in [Events -> 0 .. MaxCalls]
  /\ Lookups \subseteq Events \X Slots
ASSUME BoundsAssumption ==
  /\ MaxSends \in Nat
  /\ MaxFaults \in Nat
  /\ Faults \subseteq FaultKinds

VARIABLES
  ready,      \* ready[m]: copies of m in the queue, in no particular order
  dlq,        \* dlq[m]: copies of m in the dead-letter queue
  sent,       \* sent[m]: copies of m published
  seen,       \* event_ids: the events marked as seen
  pc,         \* pc[w]: the next step of worker w
  cur,        \* cur[w]: the message w handles
  held,       \* held[w]: the broker still waits for w's ack of cur[w]
  done,       \* done[w]: calls w's handler has made
  applied,    \* applied[e][i]: times call i of e took effect (history)
  completed,  \* completed[e]: handler runs for e that returned nil (history)
  erased,     \* erased[e]: times e's mark was deleted (history)
  orphaned,   \* events whose mark a fault left without its delivery (history)
  faults      \* disturbances so far

broker == <<ready, dlq, sent>>
worker == <<pc, cur, held, done>>
history == <<applied, completed, erased, orphaned>>
vars == <<ready, dlq, sent, seen, pc, cur, held, done,
          applied, completed, erased, orphaned, faults>>

\* down: not consuming; idle: waiting for a delivery; dedupe: before MarkSeen;
\* call: inside the handler; failed: the handler returned an error; dead,
\* requeue, ack: before Nack(false), Nack(true) and Ack.
Steps == {"down", "idle", "dedupe", "call", "failed", "dead", "requeue", "ack"}

\* Every variable has its type.
TypeOK ==
  /\ ready \in [Messages -> Nat]
  /\ dlq \in [Messages -> Nat]
  /\ sent \in [Messages -> Nat]
  /\ seen \in SUBSET Events
  /\ pc \in [Workers -> Steps]
  /\ cur \in [Workers -> Messages \cup {NoMsg}]
  /\ held \in [Workers -> BOOLEAN]
  /\ done \in [Workers -> 0 .. MaxCalls]
  /\ applied \in [Events -> [Slots -> Nat]]
  /\ completed \in [Events -> Nat]
  /\ erased \in [Events -> Nat]
  /\ orphaned \in SUBSET Events
  /\ faults \in Nat

Init ==
  /\ ready = [m \in Messages |-> 0]
  /\ dlq = [m \in Messages |-> 0]
  /\ sent = [m \in Messages |-> 0]
  /\ seen = {}
  /\ pc = [w \in Workers |-> "down"]
  /\ cur = [w \in Workers |-> NoMsg]
  /\ held = [w \in Workers |-> FALSE]
  /\ done = [w \in Workers |-> 0]
  /\ applied = [e \in Events |-> [i \in Slots |-> 0]]
  /\ completed = [e \in Events |-> 0]
  /\ erased = [e \in Events |-> 0]
  /\ orphaned = {}
  /\ faults = 0

-----------------------------------------------------------------------------
\* Worker w runs the handler of e, or is about to undo its mark.
Engaged(w, e) == pc[w] \in {"call", "failed"} /\ cur[w] = e

\* A disturbance of this kind is possible, and uses up one of the bound.
Disturb(kind) ==
  /\ kind \in Faults
  /\ faults < MaxFaults
  /\ faults' = faults + 1

Goto(w, step) == pc' = [pc EXCEPT ![w] = step]

\* The delivery of w is over: the consume loop waits for the next one, or has
\* ended because the connection is gone.
Finish(w) ==
  /\ pc' = [pc EXCEPT ![w] = IF held[w] THEN "idle" ELSE "down"]
  /\ cur' = [cur EXCEPT ![w] = NoMsg]
  /\ held' = [held EXCEPT ![w] = FALSE]
  /\ done' = [done EXCEPT ![w] = 0]

\* One more copy of what w holds: a broker operation on an unsettled delivery.
\* On a lost connection it changes nothing, and the caller ignores the error.
Settle(w, queue) ==
  IF held[w] THEN [queue EXCEPT ![cur[w]] = @ + 1] ELSE queue

-----------------------------------------------------------------------------
\* A publisher's outbox sends a copy of m; it may send the same event again.
Publish(m) ==
  /\ sent[m] < MaxSends
  /\ sent' = [sent EXCEPT ![m] = @ + 1]
  /\ ready' = [ready EXCEPT ![m] = @ + 1]
  /\ UNCHANGED <<dlq, seen, worker, history, faults>>

\* A process starts: it connects, declares the topology and consumes.
Start(w) ==
  /\ pc[w] = "down"
  /\ Goto(w, "idle")
  /\ UNCHANGED <<broker, seen, cur, held, done, history, faults>>

\* handleMessage gets a delivery and parses the envelope; a malformed one goes
\* straight to Nack(false).
Deliver(w, m) ==
  /\ pc[w] = "idle"
  /\ ready[m] > 0
  /\ ready' = [ready EXCEPT ![m] = @ - 1]
  /\ cur' = [cur EXCEPT ![w] = m]
  /\ held' = [held EXCEPT ![w] = TRUE]
  /\ Goto(w, IF m \in Malformed THEN "dead" ELSE "dedupe")
  /\ UNCHANGED <<dlq, sent, seen, done, history, faults>>

\* Mutant of MarkFresh: a find before the insert and no unique index, so that
\* two workers can both find the id missing.
MarkFreshNotUnique(w, e) ==
  /\ pc[w] = "dedupe"
  /\ cur[w] = e
  /\ \A v \in Workers \ {w} : cur[v] = e => pc[v] # "ack"
  /\ seen' = seen \cup {e}
  /\ Goto(w, IF e \notin Registered THEN "ack"
             ELSE IF e \in BadPayload THEN "failed" ELSE "call")
  /\ orphaned' = IF held[w] THEN orphaned ELSE orphaned \cup {e}
  /\ UNCHANGED <<broker, cur, held, done, applied, completed, erased, faults>>

\* MarkSeen inserts the event id, and the type's handler is looked up: with
\* none the event is acked, with an unparsable payload the handler fails
\* before its first call.
MarkFresh(w, e) ==
  /\ pc[w] = "dedupe"
  /\ cur[w] = e
  /\ e \notin seen
  /\ seen' = seen \cup {e}
  /\ Goto(w, IF e \notin Registered THEN "ack"
             ELSE IF e \in BadPayload THEN "failed" ELSE "call")
  /\ orphaned' = IF held[w] THEN orphaned ELSE orphaned \cup {e}
  /\ UNCHANGED <<broker, cur, held, done, applied, completed, erased, faults>>

\* Mutant of MarkDuplicate: a duplicate is put back instead of acked.
MarkDuplicateRequeued(w, e) ==
  /\ pc[w] = "dedupe"
  /\ cur[w] = e
  /\ e \in seen
  /\ Goto(w, "requeue")
  /\ UNCHANGED <<broker, seen, cur, held, done, history, faults>>

\* Mutant of MarkDuplicate: MarkSeen's fresh is not looked at.
MarkDuplicateHandled(w, e) ==
  /\ pc[w] = "dedupe"
  /\ cur[w] = e
  /\ e \in seen
  /\ Goto(w, IF e \in Registered THEN "call" ELSE "ack")
  /\ UNCHANGED <<broker, seen, cur, held, done, history, faults>>

\* MarkSeen meets the unique index: a duplicate, acked and skipped.
MarkDuplicate(w, e) ==
  /\ pc[w] = "dedupe"
  /\ cur[w] = e
  /\ e \in seen
  /\ Goto(w, "ack")
  /\ UNCHANGED <<broker, seen, cur, held, done, history, faults>>

\* Mutant of MarkFail: the dedupe error is answered like a duplicate.
MarkFailAcked(w, e) ==
  /\ pc[w] = "dedupe"
  /\ cur[w] = e
  /\ Disturb("markFail")
  /\ Goto(w, "ack")
  /\ UNCHANGED <<broker, seen, cur, held, done, history>>

\* MarkSeen returns an error and the insert did not happen.
MarkFail(w, e) ==
  /\ pc[w] = "dedupe"
  /\ cur[w] = e
  /\ Disturb("markFail")
  /\ Goto(w, "requeue")
  /\ UNCHANGED <<broker, seen, cur, held, done, history>>

\* MarkSeen returns an error although its insert happened (a lost reply).
MarkLost(w, e) ==
  /\ pc[w] = "dedupe"
  /\ cur[w] = e
  /\ e \notin seen
  /\ Disturb("markLost")
  /\ seen' = seen \cup {e}
  /\ orphaned' = orphaned \cup {e}
  /\ Goto(w, "requeue")
  /\ UNCHANGED <<broker, cur, held, done, applied, completed, erased>>

-----------------------------------------------------------------------------
\* Mutant of AtCall: one call too many.
AtCallOffByOne(w, e) ==
  /\ pc[w] = "call"
  /\ cur[w] = e
  /\ done[w] <= Calls[e]

\* The handler's next call on e: its slot.
AtCall(w, e) ==
  /\ pc[w] = "call"
  /\ cur[w] = e
  /\ done[w] < Calls[e]

TakeEffect(w, e) == applied' = [applied EXCEPT ![e][done[w] + 1] = @ + 1]

\* The call succeeds (a read finds its document) and the handler goes on.
CallOk(w, e) ==
  /\ AtCall(w, e)
  /\ TakeEffect(w, e)
  /\ done' = [done EXCEPT ![w] = @ + 1]
  /\ UNCHANGED <<broker, seen, pc, cur, held, completed, erased, orphaned, faults>>

\* A read finds nothing: the handler returns nil at once.
LookupMiss(w, e) ==
  /\ AtCall(w, e)
  /\ <<e, done[w] + 1>> \in Lookups
  /\ completed' = [completed EXCEPT ![e] = @ + 1]
  /\ Goto(w, "ack")
  /\ UNCHANGED <<broker, seen, cur, held, done, applied, erased, orphaned, faults>>

\* Mutant of CallFail: the error is dropped and the fan-out goes on.
CallFailSkipped(w, e) ==
  /\ AtCall(w, e)
  /\ Disturb("callFail")
  /\ done' = [done EXCEPT ![w] = @ + 1]
  /\ UNCHANGED <<broker, seen, pc, cur, held, history>>

\* Mutant of CallFail: the error is logged and the handler returns nil.
CallFailSwallowed(w, e) ==
  /\ AtCall(w, e)
  /\ Disturb("callFail")
  /\ completed' = [completed EXCEPT ![e] = @ + 1]
  /\ Goto(w, "ack")
  /\ UNCHANGED <<broker, seen, cur, held, done, applied, erased, orphaned>>

\* The call returns an error, without effect; the handler returns it.
CallFail(w, e) ==
  /\ AtCall(w, e)
  /\ Disturb("callFail")
  /\ Goto(w, "failed")
  /\ UNCHANGED <<broker, seen, cur, held, done, history>>

\* Mutant of CallLost: the handler tries the same call again.
CallLostRetried(w, e) ==
  /\ AtCall(w, e)
  /\ <<e, done[w] + 1>> \notin Lookups
  /\ Disturb("callLost")
  /\ TakeEffect(w, e)
  /\ UNCHANGED <<broker, seen, worker, completed, erased, orphaned>>

\* The call returns an error although its write happened.
CallLost(w, e) ==
  /\ AtCall(w, e)
  /\ <<e, done[w] + 1>> \notin Lookups
  /\ Disturb("callLost")
  /\ TakeEffect(w, e)
  /\ Goto(w, "failed")
  /\ UNCHANGED <<broker, seen, cur, held, done, completed, erased, orphaned>>

\* Every call was made: the handler returns nil.
Return(w, e) ==
  /\ pc[w] = "call"
  /\ cur[w] = e
  /\ done[w] = Calls[e]
  /\ completed' = [completed EXCEPT ![e] = @ + 1]
  /\ Goto(w, "ack")
  /\ UNCHANGED <<broker, seen, cur, held, done, applied, erased, orphaned, faults>>

\* Mutant of Unmark: the failure path forgets to delete the event id.
UnmarkForgotten(w, e) ==
  /\ pc[w] = "failed"
  /\ cur[w] = e
  /\ Goto(w, "dead")
  /\ UNCHANGED <<broker, seen, cur, held, done, history, faults>>

\* The handler failed: Unmark deletes the event id.
Unmark(w, e) ==
  /\ pc[w] = "failed"
  /\ cur[w] = e
  /\ seen' = seen \ {e}
  /\ erased' = [erased EXCEPT ![e] = @ + 1]
  /\ Goto(w, "dead")
  /\ UNCHANGED <<broker, cur, held, done, applied, completed, orphaned, faults>>

\* Unmark fails: the error is logged and the event id stays.
UnmarkFail(w, e) ==
  /\ pc[w] = "failed"
  /\ cur[w] = e
  /\ Disturb("unmarkFail")
  /\ orphaned' = orphaned \cup {e}
  /\ Goto(w, "dead")
  /\ UNCHANGED <<broker, seen, cur, held, done, applied, completed, erased>>

-----------------------------------------------------------------------------
Ack(w) ==
  /\ pc[w] = "ack"
  /\ Finish(w)
  /\ UNCHANGED <<broker, seen, history, faults>>

NackRequeue(w) ==
  /\ pc[w] = "requeue"
  /\ ready' = Settle(w, ready)
  /\ Finish(w)
  /\ UNCHANGED <<dlq, sent, seen, history, faults>>

\* Nack without requeue: the queue's dead-letter exchange routes to the DLQ.
NackDead(w) ==
  /\ pc[w] = "dead"
  /\ dlq' = Settle(w, dlq)
  /\ Finish(w)
  /\ UNCHANGED <<ready, sent, seen, history, faults>>

-----------------------------------------------------------------------------
\* The connection of w ends and nothing reconnects: the broker requeues what w
\* has not settled, a running handler goes on, and the loop ends after it.
Disconnect(w) ==
  /\ pc[w] = "idle" \/ held[w]
  /\ ready' = Settle(w, ready)
  /\ held' = [held EXCEPT ![w] = FALSE]
  /\ pc' = IF pc[w] = "idle" THEN [pc EXCEPT ![w] = "down"] ELSE pc
  /\ orphaned' = orphaned \cup {e \in Events : Engaged(w, e)}
  /\ UNCHANGED <<dlq, sent, seen, cur, done, applied, completed, erased>>

\* The process ends at any point; the broker requeues what it had not settled.
Die(w) ==
  /\ pc[w] # "down"
  /\ ready' = Settle(w, ready)
  /\ Goto(w, "down")
  /\ cur' = [cur EXCEPT ![w] = NoMsg]
  /\ held' = [held EXCEPT ![w] = FALSE]
  /\ done' = [done EXCEPT ![w] = 0]
  /\ orphaned' = orphaned \cup {e \in Events : Engaged(w, e)}
  /\ UNCHANGED <<dlq, sent, seen, applied, completed, erased>>

\* The connection is lost.
ConnDrop(w) == Disturb("drop") /\ Disconnect(w)

\* The process crashes.
Crash(w) == Disturb("crash") /\ Die(w)

\* A planned stop, any number of times: boot's shutdown closes the connection and
\* then lets the process end, without waiting for the handler; module Boot says
\* when each of the two comes.
Stop(w) ==
  /\ "stop" \in Faults
  /\ Disconnect(w) \/ Die(w)
  /\ UNCHANGED faults

\* An operator replays a dead-lettered message.
Replay(m) ==
  /\ dlq[m] > 0
  /\ Disturb("replay")
  /\ dlq' = [dlq EXCEPT ![m] = @ - 1]
  /\ ready' = [ready EXCEPT ![m] = @ + 1]
  /\ UNCHANGED <<sent, seen, worker, history>>

\* The TTL index deletes a mark; a handler run is far shorter than the TTL, so
\* no worker is inside one for an event whose mark expires.
Reap(e) ==
  /\ e \in seen
  /\ \A w \in Workers : ~ Engaged(w, e)
  /\ Disturb("reap")
  /\ seen' = seen \ {e}
  /\ erased' = [erased EXCEPT ![e] = @ + 1]
  /\ UNCHANGED <<broker, worker, applied, completed, orphaned>>

\* Every consumer waits on an empty queue.
AwaitDelivery ==
  /\ \A w \in Workers : pc[w] = "idle"
  /\ \A m \in Messages : ready[m] = 0
  /\ UNCHANGED vars

-----------------------------------------------------------------------------
\* The code's own steps of worker w on event e.
Handle(w, e) ==
  \/ MarkFresh(w, e)
  \/ MarkDuplicate(w, e)
  \/ CallOk(w, e)
  \/ LookupMiss(w, e)
  \/ Return(w, e)
  \/ Unmark(w, e)

\* The steps of w on event e in which a Mongo command returns an error.
HandleError(w, e) ==
  \/ MarkFail(w, e)
  \/ MarkLost(w, e)
  \/ CallFail(w, e)
  \/ CallLost(w, e)
  \/ UnmarkFail(w, e)

Respond(w) == Ack(w) \/ NackRequeue(w) \/ NackDead(w)

Next ==
  \/ \E m \in Messages : Publish(m) \/ Replay(m)
  \/ \E e \in Events : Reap(e)
  \/ \E w \in Workers :
       \/ Start(w)
       \/ \E m \in Messages : Deliver(w, m)
       \/ \E e \in Events : Handle(w, e) \/ HandleError(w, e)
       \/ Respond(w)
       \/ ConnDrop(w)
       \/ Crash(w)
       \/ Stop(w)
  \/ AwaitDelivery

Spec == Init /\ [][Next]_vars

-----------------------------------------------------------------------------
(***************************************************************************)
(* Properties                                                              *)
(***************************************************************************)
\* Worker w has the unsettled delivery of e and has not decided to ack it.
HasCustody(w, e) == held[w] /\ cur[w] = e /\ pc[w] # "ack"

\* Some copy of e can still reach a handler: in the queue, in the DLQ, or with
\* a worker that has not decided to ack it.
InCustody(e) ==
  \/ ready[e] > 0
  \/ dlq[e] > 0
  \/ \E w \in Workers : HasCustody(w, e)

\* MarkSeen is a lock: whatever is redelivered, replayed or lost, two workers
\* are never inside the handler of one event, and its mark is there while one
\* is (consumer.go: MarkSeen before the handler, Unmark only after it).
HandlingExclusive ==
  \A w \in Workers, e \in Events : Engaged(w, e) =>
    /\ e \in seen
    /\ \A v \in Workers : Engaged(v, e) => v = w

\* The fan-out of a handler reaches its collections in order: over all the runs
\* for an event, failed and replayed ones included, no call has taken effect
\* more often than an earlier one (analytics.service.go, On* methods).
FanOutInOrder ==
  \A e \in Events : \A i, j \in 1 .. Calls[e] :
    i < j => applied[e][j] <= applied[e][i]

\* No double counting without an erased mark: each call of an event takes
\* effect at most once for the mark it has and once for each mark that Unmark
\* or the TTL deleted (system-design.md, "Duplicate delivery").
AtMostOncePerMark ==
  \A e \in Events, i \in Slots :
    applied[e][i] <= erased[e] + (IF e \in seen THEN 1 ELSE 0)

\* A handler that returned nil has made every call: an event without lookups
\* is completed at most as often as each of its calls took effect.
CompletedInFull ==
  \A e \in Events : \A i \in 1 .. Calls[e] :
    (\A j \in 1 .. i : <<e, j>> \notin Lookups) =>
      completed[e] <= applied[e][i]

\* A mark without a completed handler run is covered by a worker that is in the
\* handler and holds the delivery, so a duplicate may be acked; the exceptions
\* are exactly the events in orphaned (EventDeduper's comment in consumer.go).
MarkIsHonest ==
  \A e \in Registered \ orphaned :
    e \in seen /\ completed[e] = 0 =>
      \E w \in Workers : held[w] /\ Engaged(w, e)

\* A published event that no handler completed is still somewhere: the queue,
\* the DLQ or a worker's hands; again except for the events in orphaned.
NothingLost ==
  \A e \in Registered \ orphaned :
    sent[e] > 0 /\ completed[e] = 0 => InCustody(e)

\* What the workers make of event_ids is what its interface promises: a fresh
\* MarkSeen is a claim on the event that one worker has at a time, and that ends
\* with the handler's success, its Unmark, or a fault (consumer.go, EventDeduper).
Deduper == INSTANCE EventDeduper WITH
  Keys <- Events,
  Clients <- Workers,
  marks <- seen,
  claims <- [e \in Events |-> {w \in Workers : Engaged(w, e)}],
  finished <- completed

DeduperSpec == Deduper!Spec

\* "This is at-least-once" (docs/system-design.md): NothingLost without the
\* exception.
AtLeastOnce ==
  \A e \in Registered : sent[e] > 0 /\ completed[e] = 0 => InCustody(e)
=============================================================================
