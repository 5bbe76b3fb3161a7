------------------------------ MODULE Backfill ------------------------------
(***************************************************************************)
(* The command cmd/backfill-aggs: it pages through order-service's history *)
(* of one region and year and applies every order with OnOrderPlaced,      *)
(* deduped in event_ids under a key of its own.                            *)
(*                                                                         *)
(* Each run is a process that an operator starts; runs may overlap, die    *)
(* and be repeated.  Every Mongo command and every page request is a step. *)
(* OnOrderPlaced is NumCalls calls made one after the other, stopping at   *)
(* the first error, as in CoreEvents.                                      *)
(*                                                                         *)
(* The live consumer handles the order.placed events of some of the same   *)
(* orders with the same OnOrderPlaced, under marks of its own in           *)
(* event_ids: its steps on such an event are those of CoreEvents, without  *)
(* the queue.  That one handler at a time has an event in hand is what     *)
(* CoreEventsProofs proves; copies of an event that its mark turns away    *)
(* change nothing here.                                                    *)
(***************************************************************************)
EXTENDS Naturals, Sequences

CONSTANTS
  Runs,        \* runs of the command
  History,     \* the orders of the year, in order-service's order
  Unparsable,  \* the orders whose placedAt does not parse
  Limit,       \* -limit: the page size
  NumCalls,    \* the Mongo calls of OnOrderPlaced
  LiveOrders,  \* the orders whose order.placed event the live consumer gets
  Faults,      \* the kinds of disturbance that may happen
  MaxFaults    \* bound: disturbances in one behaviour

Orders == {History[i] : i \in DOMAIN History}

\* As in CoreEvents; connectFail: Mongo cannot be reached or indexed at the start;
\* fetchFail: a page request fails after its retries, or says success=false.
FaultKinds == {"connectFail", "fetchFail", "markFail", "markLost",
               "callFail", "callLost", "unmarkFail", "crash", "reap"}

ASSUME HistoryAssumption ==
  /\ History \in Seq(Orders)
  /\ \A i, j \in DOMAIN History : History[i] = History[j] => i = j
  /\ Unparsable \subseteq Orders
  /\ LiveOrders \subseteq Orders
ASSUME BackfillAssumption ==
  /\ Limit \in Nat \ {0}
  /\ NumCalls \in Nat
  /\ MaxFaults \in Nat
  /\ Faults \subseteq FaultKinds

VARIABLES
  pc,         \* pc[p]: the next step of run p
  dryRun,     \* dryRun[p]: the -dry-run flag
  next,       \* next[p]: the position in History of the order p looks at
  last,       \* last[p]: the position of the last order of p's page
  done,       \* done[p]: calls made for the present order
  report,     \* report[p]: the counters p logs at the end
  seen,       \* event_ids: the orders marked as backfilled
  liveAt,     \* liveAt[o]: where the live consumer is with o's event
  live,       \* live[o]: calls that the handler of o's event has made
  liveSeen,   \* event_ids: the orders whose event is marked as handled
  landed,     \* landed[o][i]: times call i of o took effect (history)
  completed,  \* completed[o]: times o was applied in full (history)
  erased,     \* erased[o]: times o's mark was deleted (history)
  liveErased, \* liveErased[o]: times the mark of o's event was deleted (history)
  orphaned,   \* orders whose mark a fault left behind (history)
  faults      \* disturbances so far

history == <<landed, completed, erased, orphaned>>
liveVars == <<liveAt, live, liveSeen, liveErased>>
vars == <<pc, dryRun, next, last, done, report, seen, liveVars,
          landed, completed, erased, orphaned, faults>>

\* new: not started; fetch: before a page; order: before an order's MarkSeen;
\* call: inside OnOrderPlaced; undo: before Unmark; ok: exit 0; failures: exit 1
\* after the summary; fatal: exit 1 before it; dead: killed.
Ended == {"ok", "failures", "fatal", "dead"}
Steps == {"new", "fetch", "order", "call", "undo"} \cup Ended

\* idle: no handler has o's event; call: inside OnOrderPlaced; failed: before
\* Unmark.
LiveSteps == {"idle", "call", "failed"}

Counters == {"fetched", "applied", "skippedDup", "failed"}

Init ==
  /\ pc = [p \in Runs |-> "new"]
  /\ dryRun \in [Runs -> BOOLEAN]
  /\ next = [p \in Runs |-> 1]
  /\ last = [p \in Runs |-> 0]
  /\ done = [p \in Runs |-> 0]
  /\ report = [p \in Runs |-> [c \in Counters |-> 0]]
  /\ seen = {}
  /\ liveAt = [o \in Orders |-> "idle"]
  /\ live = [o \in Orders |-> 0]
  /\ liveSeen = {}
  /\ liveErased = [o \in Orders |-> 0]
  /\ landed = [o \in Orders |-> [i \in 1 .. NumCalls |-> 0]]
  /\ completed = [o \in Orders |-> 0]
  /\ erased = [o \in Orders |-> 0]
  /\ orphaned = {}
  /\ faults = 0

-----------------------------------------------------------------------------
\* Run p has the order at next[p] in hand, under its mark.
Engaged(p, o) == pc[p] \in {"call", "undo"} /\ History[next[p]] = o

Disturb(kind) ==
  /\ kind \in Faults
  /\ faults < MaxFaults
  /\ faults' = faults + 1

Goto(p, step) == pc' = [pc EXCEPT ![p] = step]

Count(p, counter, n) == report' = [report EXCEPT ![p][counter] = @ + n]

\* After the last order of a page p asks for the next page, or ends when the
\* page said that there is none; a run with failures exits with 1.
Advance(p, failures) ==
  /\ next' = [next EXCEPT ![p] = @ + 1]
  /\ done' = [done EXCEPT ![p] = 0]
  /\ Goto(p, IF next[p] < last[p] THEN "order"
             ELSE IF last[p] < Len(History) THEN "fetch"
             ELSE IF failures > 0 THEN "failures" ELSE "ok")

\* The operator starts the command.
Start(p) ==
  /\ pc[p] = "new"
  /\ Goto(p, "fetch")
  /\ UNCHANGED <<liveVars, dryRun, next, last, done, report, seen, history, faults>>

\* Mongo is not there: fatal.  A dry run does not connect to it.
StartFail(p) ==
  /\ pc[p] = "new" /\ ~ dryRun[p]
  /\ Disturb("connectFail")
  /\ Goto(p, "fatal")
  /\ UNCHANGED <<liveVars, dryRun, next, last, done, report, seen, history>>

\* Mutant of FetchPage: the cursor points at the page's last order.
FetchPageOverlaps(p) ==
  LET first == IF next[p] > 1 THEN next[p] - 1 ELSE 1
      end == IF first + Limit - 1 < Len(History) THEN first + Limit - 1 ELSE Len(History)
  IN  /\ pc[p] = "fetch"
      /\ last' = [last EXCEPT ![p] = end]
      /\ next' = [next EXCEPT ![p] = first]
      /\ Count(p, "fetched", end + 1 - first)
      /\ Goto(p, IF end >= first THEN "order" ELSE "ok")
      /\ UNCHANGED <<liveVars, dryRun, done, seen, history, faults>>

\* Mutant of FetchPage: the cursor is never sent, and the first page comes again.
FetchPageNoCursor(p) ==
  LET end == IF Limit < Len(History) THEN Limit ELSE Len(History)
  IN  /\ pc[p] = "fetch"
      /\ next' = [next EXCEPT ![p] = 1]
      /\ last' = [last EXCEPT ![p] = end]
      /\ report' = [report EXCEPT ![p]["fetched"] = end]
      /\ Goto(p, IF end >= 1 THEN "order" ELSE "ok")
      /\ UNCHANGED <<liveVars, dryRun, done, seen, history, faults>>

\* A page of at most Limit orders comes back, and says truly whether there are
\* more; an empty history ends the run.
FetchPage(p) ==
  LET end == IF last[p] + Limit < Len(History) THEN last[p] + Limit ELSE Len(History)
  IN  /\ pc[p] = "fetch"
      /\ last' = [last EXCEPT ![p] = end]
      /\ Count(p, "fetched", end + 1 - next[p])
      /\ Goto(p, IF end >= next[p] THEN "order" ELSE "ok")
      /\ UNCHANGED <<liveVars, dryRun, next, done, seen, history, faults>>

\* The page request fails: fatal.
FetchFail(p) ==
  /\ pc[p] = "fetch"
  /\ Disturb("fetchFail")
  /\ Goto(p, "fatal")
  /\ UNCHANGED <<liveVars, dryRun, next, last, done, report, seen, history>>

\* A dry run only reports the order.
DryRun(p) ==
  /\ pc[p] = "order"
  /\ dryRun[p]
  /\ Advance(p, report[p].failed)
  /\ UNCHANGED <<liveVars, dryRun, last, report, seen, history, faults>>

\* Mutant of MarkFresh: the answer of MarkSeen is not looked at.
MarkFreshUnchecked(p, o) ==
  /\ pc[p] = "order" /\ ~ dryRun[p] /\ History[next[p]] = o
  /\ seen' = seen \cup {o}
  /\ Goto(p, IF o \in Unparsable THEN "undo" ELSE "call")
  /\ UNCHANGED <<liveVars, dryRun, next, last, done, report, history, faults>>

\* MarkSeen inserts the order's key; then placedAt is parsed.
MarkFresh(p, o) ==
  /\ pc[p] = "order" /\ ~ dryRun[p] /\ History[next[p]] = o
  /\ o \notin seen
  /\ seen' = seen \cup {o}
  /\ Goto(p, IF o \in Unparsable THEN "undo" ELSE "call")
  /\ UNCHANGED <<liveVars, dryRun, next, last, done, report, history, faults>>

\* MarkSeen finds the order already backfilled.
MarkDuplicate(p, o) ==
  /\ pc[p] = "order" /\ ~ dryRun[p] /\ History[next[p]] = o
  /\ o \in seen
  /\ Count(p, "skippedDup", 1)
  /\ Advance(p, report[p].failed)
  /\ UNCHANGED <<liveVars, dryRun, last, seen, history, faults>>

\* MarkSeen returns an error, without and with its insert: fatal.
MarkFail(p, o) ==
  /\ pc[p] = "order" /\ ~ dryRun[p] /\ History[next[p]] = o
  /\ Disturb("markFail")
  /\ Goto(p, "fatal")
  /\ UNCHANGED <<liveVars, dryRun, next, last, done, report, seen, history>>

MarkLost(p, o) ==
  /\ pc[p] = "order" /\ ~ dryRun[p] /\ History[next[p]] = o
  /\ o \notin seen
  /\ Disturb("markLost")
  /\ seen' = seen \cup {o}
  /\ orphaned' = orphaned \cup {o}
  /\ Goto(p, "fatal")
  /\ UNCHANGED <<liveVars, dryRun, next, last, done, report, landed, completed, erased>>

-----------------------------------------------------------------------------
\* Mutant of AtCall: one call too many.
AtCallOffByOne(p, o) ==
  /\ pc[p] = "call"
  /\ History[next[p]] = o
  /\ done[p] <= NumCalls

AtCall(p, o) ==
  /\ pc[p] = "call"
  /\ History[next[p]] = o
  /\ done[p] < NumCalls

TakeEffect(p, o) == landed' = [landed EXCEPT ![o][done[p] + 1] = @ + 1]

CallOk(p, o) ==
  /\ AtCall(p, o)
  /\ TakeEffect(p, o)
  /\ done' = [done EXCEPT ![p] = @ + 1]
  /\ UNCHANGED <<liveVars, pc, dryRun, next, last, report, seen, completed, erased, orphaned, faults>>

\* A call returns an error, without and with its effect: OnOrderPlaced fails.
CallFail(p, o) ==
  /\ AtCall(p, o)
  /\ Disturb("callFail")
  /\ Goto(p, "undo")
  /\ UNCHANGED <<liveVars, dryRun, next, last, done, report, seen, history>>

CallLost(p, o) ==
  /\ AtCall(p, o)
  /\ Disturb("callLost")
  /\ TakeEffect(p, o)
  /\ Goto(p, "undo")
  /\ UNCHANGED <<liveVars, dryRun, next, last, done, report, seen, completed, erased, orphaned>>

\* OnOrderPlaced returns nil.
Applied(p, o) ==
  /\ pc[p] = "call" /\ History[next[p]] = o
  /\ done[p] = NumCalls
  /\ completed' = [completed EXCEPT ![o] = @ + 1]
  /\ Count(p, "applied", 1)
  /\ Advance(p, report[p].failed)
  /\ UNCHANGED <<liveVars, dryRun, last, seen, landed, erased, orphaned, faults>>

\* Mutant of Unmark: the failure is not counted.
UnmarkUncounted(p, o) ==
  /\ pc[p] = "undo" /\ History[next[p]] = o
  /\ seen' = seen \ {o}
  /\ erased' = [erased EXCEPT ![o] = @ + 1]
  /\ Advance(p, report[p].failed)
  /\ UNCHANGED <<liveVars, dryRun, last, report, landed, completed, orphaned, faults>>

\* The order failed: its mark is deleted and the run goes on with the next one.
Unmark(p, o) ==
  /\ pc[p] = "undo" /\ History[next[p]] = o
  /\ seen' = seen \ {o}
  /\ erased' = [erased EXCEPT ![o] = @ + 1]
  /\ Count(p, "failed", 1)
  /\ Advance(p, report[p].failed + 1)
  /\ UNCHANGED <<liveVars, dryRun, last, landed, completed, orphaned, faults>>

\* The same when the delete fails: the error is ignored and the mark stays.
UnmarkFail(p, o) ==
  /\ pc[p] = "undo" /\ History[next[p]] = o
  /\ Disturb("unmarkFail")
  /\ orphaned' = orphaned \cup {o}
  /\ Count(p, "failed", 1)
  /\ Advance(p, report[p].failed + 1)
  /\ UNCHANGED <<liveVars, dryRun, last, seen, landed, completed, erased>>

-----------------------------------------------------------------------------
\* The command is killed.
Crash(p) ==
  /\ pc[p] \notin Ended \cup {"new"}
  /\ Disturb("crash")
  /\ Goto(p, "dead")
  /\ orphaned' = orphaned \cup {o \in Orders : Engaged(p, o)}
  /\ UNCHANGED <<liveVars, dryRun, next, last, done, report, seen, landed, completed, erased>>

\* The TTL index deletes a mark; a run holds one far shorter than the TTL.
Reap(o) ==
  /\ o \in seen
  /\ \A p \in Runs : ~ Engaged(p, o)
  /\ Disturb("reap")
  /\ seen' = seen \ {o}
  /\ erased' = [erased EXCEPT ![o] = @ + 1]
  /\ UNCHANGED <<liveVars, pc, dryRun, next, last, done, report, landed, completed, orphaned>>

-----------------------------------------------------------------------------
CommandVars == <<pc, dryRun, next, last, done, report, seen, completed, erased, orphaned>>

LiveGoto(o, step) == liveAt' = [liveAt EXCEPT ![o] = step]

\* Mutant of LiveMark: the answer of MarkSeen is not looked at.
LiveMarkUnchecked(o) ==
  /\ o \in LiveOrders /\ liveAt[o] = "idle"
  /\ liveSeen' = liveSeen \cup {o}
  /\ live' = [live EXCEPT ![o] = 0]
  /\ LiveGoto(o, "call")
  /\ UNCHANGED <<CommandVars, landed, liveErased, faults>>

\* A copy of o's event arrives, the first or one more (redelivered after a lost
\* ack, replayed from the dead-letter queue, published twice), and has no mark:
\* MarkSeen inserts it.
LiveMark(o) ==
  /\ o \in LiveOrders /\ liveAt[o] = "idle"
  /\ o \notin liveSeen
  /\ liveSeen' = liveSeen \cup {o}
  /\ live' = [live EXCEPT ![o] = 0]
  /\ LiveGoto(o, "call")
  /\ UNCHANGED <<CommandVars, landed, liveErased, faults>>

\* MarkSeen inserts the mark and returns an error: the event comes again, as a
\* duplicate.
LiveMarkLost(o) ==
  /\ o \in LiveOrders /\ liveAt[o] = "idle"
  /\ Disturb("markLost")
  /\ liveSeen' = liveSeen \cup {o}
  /\ UNCHANGED <<CommandVars, landed, liveAt, live, liveErased>>

AtLiveCall(o) == liveAt[o] = "call" /\ live[o] < NumCalls

TakeLiveEffect(o) == landed' = [landed EXCEPT ![o][live[o] + 1] = @ + 1]

\* The handler's next call takes effect.
LiveCallOk(o) ==
  /\ AtLiveCall(o)
  /\ TakeLiveEffect(o)
  /\ live' = [live EXCEPT ![o] = @ + 1]
  /\ UNCHANGED <<CommandVars, liveAt, liveSeen, liveErased, faults>>

\* It returns an error, without and with its effect: the handler fails.
LiveCallFail(o) ==
  /\ AtLiveCall(o)
  /\ Disturb("callFail")
  /\ LiveGoto(o, "failed")
  /\ UNCHANGED <<CommandVars, landed, live, liveSeen, liveErased>>

LiveCallLost(o) ==
  /\ AtLiveCall(o)
  /\ Disturb("callLost")
  /\ TakeLiveEffect(o)
  /\ LiveGoto(o, "failed")
  /\ UNCHANGED <<CommandVars, live, liveSeen, liveErased>>

\* The handler returns nil and the event is acked: its mark stays.
LiveReturn(o) ==
  /\ liveAt[o] = "call" /\ live[o] = NumCalls
  /\ LiveGoto(o, "idle")
  /\ UNCHANGED <<CommandVars, landed, live, liveSeen, liveErased, faults>>

\* The handler failed: the mark is deleted and the event goes to the dead-letter
\* queue, from where an operator may replay it.
LiveUnmark(o) ==
  /\ liveAt[o] = "failed"
  /\ liveSeen' = liveSeen \ {o}
  /\ liveErased' = [liveErased EXCEPT ![o] = @ + 1]
  /\ LiveGoto(o, "idle")
  /\ UNCHANGED <<CommandVars, landed, live, faults>>

\* The same when the delete fails: the error is logged and the mark stays.
LiveUnmarkFail(o) ==
  /\ liveAt[o] = "failed"
  /\ Disturb("unmarkFail")
  /\ LiveGoto(o, "idle")
  /\ UNCHANGED <<CommandVars, landed, live, liveSeen, liveErased>>

\* The service dies with the event in hand: the broker delivers it again, and the
\* mark stays.
LiveCrash(o) ==
  /\ liveAt[o] # "idle"
  /\ Disturb("crash")
  /\ LiveGoto(o, "idle")
  /\ UNCHANGED <<CommandVars, landed, live, liveSeen, liveErased>>

\* The TTL index deletes the mark of an event; a handler is far shorter.
LiveReap(o) ==
  /\ o \in liveSeen /\ liveAt[o] = "idle"
  /\ Disturb("reap")
  /\ liveSeen' = liveSeen \ {o}
  /\ liveErased' = [liveErased EXCEPT ![o] = @ + 1]
  /\ UNCHANGED <<CommandVars, landed, liveAt, live>>

LiveStep(o) ==
  \/ LiveMark(o)
  \/ LiveMarkLost(o)
  \/ LiveCallOk(o)
  \/ LiveCallFail(o)
  \/ LiveCallLost(o)
  \/ LiveReturn(o)
  \/ LiveUnmark(o)
  \/ LiveUnmarkFail(o)
  \/ LiveCrash(o)
  \/ LiveReap(o)

\* Every run has ended, and the live consumer has nothing in hand.
Rest ==
  /\ \A p \in Runs : pc[p] \in Ended
  /\ \A o \in Orders : liveAt[o] = "idle"
  /\ UNCHANGED vars

-----------------------------------------------------------------------------
\* The command's own steps on order o, and those in which a command fails.
Handle(p, o) ==
  \/ MarkFresh(p, o)
  \/ MarkDuplicate(p, o)
  \/ CallOk(p, o)
  \/ Applied(p, o)
  \/ Unmark(p, o)

HandleError(p, o) ==
  \/ MarkFail(p, o)
  \/ MarkLost(p, o)
  \/ CallFail(p, o)
  \/ CallLost(p, o)
  \/ UnmarkFail(p, o)

Work(p) == FetchPage(p) \/ DryRun(p) \/ \E o \in Orders : Handle(p, o)

Next ==
  \/ \E p \in Runs :
       \/ Start(p)
       \/ StartFail(p)
       \/ Work(p)
       \/ FetchFail(p)
       \/ \E o \in Orders : HandleError(p, o)
       \/ Crash(p)
  \/ \E o \in Orders : Reap(o) \/ LiveStep(o)
  \/ Rest

Spec == Init /\ [][Next]_vars

FairSpec == Spec /\ \A p \in Runs : WF_vars(Work(p))

-----------------------------------------------------------------------------
(***************************************************************************)
(* Properties                                                              *)
(***************************************************************************)
\* Every variable has its type.
TypeOK ==
  /\ pc \in [Runs -> Steps]
  /\ dryRun \in [Runs -> BOOLEAN]
  /\ next \in [Runs -> 1 .. Len(History) + 1]
  /\ last \in [Runs -> 0 .. Len(History)]
  /\ done \in [Runs -> 0 .. NumCalls]
  /\ report \in [Runs -> [Counters -> Nat]]
  /\ seen \subseteq Orders
  /\ liveAt \in [Orders -> LiveSteps]
  /\ live \in [Orders -> 0 .. NumCalls]
  /\ liveSeen \subseteq Orders
  /\ liveErased \in [Orders -> Nat]
  /\ landed \in [Orders -> [1 .. NumCalls -> Nat]]
  /\ completed \in [Orders -> Nat]
  /\ erased \in [Orders -> Nat]
  /\ orphaned \subseteq Orders
  /\ faults \in Nat

\* The summary adds up: a run that reaches it has fetched every order of the year
\* exactly once, and each is applied, skipped or failed in it, whatever the page
\* size and the overlapping runs; exit status 0 means that none failed (main's
\* loop and counters).
ReportAddsUp ==
  \A p \in Runs : pc[p] \in {"ok", "failures"} =>
    /\ report[p].fetched = Len(History)
    /\ pc[p] = "ok" <=> report[p].failed = 0
    /\ ~ dryRun[p] =>
         report[p].applied + report[p].skippedDup + report[p].failed = Len(History)

\* Exit status 0 can be believed: every order of the year is then applied in
\* full, or the run that marked it is still at it, has unmarked it and reports a
\* failure, or left the mark behind by a fault; no order falls silently between
\* two runs.
SuccessIsHonest ==
  \A p \in Runs, o \in Orders : pc[p] = "ok" /\ ~ dryRun[p] =>
    \/ completed[o] > 0
    \/ o \in orphaned
    \/ \E q \in Runs : Engaged(q, o) \/ (erased[o] > 0 /\ report[q].failed > 0)

\* Between them, overlapping and repeated runs and the live consumer count an
\* order at most once for each mark that it has, the command's and the event's,
\* and once for every such mark that was deleted: the double count that main.go's
\* "Idempotency" comment admits for an order handled by both is the only one that
\* comes without the deletion of a mark, whatever call fails, whoever dies and
\* however often the event is delivered or the command is run.
LandedOncePerMark ==
  \A o \in Orders, i \in 1 .. NumCalls :
    landed[o][i] <= erased[o] + (IF o \in seen THEN 1 ELSE 0)
                    + liveErased[o] + (IF o \in liveSeen THEN 1 ELSE 0)

\* The command makes of event_ids what the consumer makes of it: a fresh MarkSeen
\* is a claim of one run, which ends with the order applied, its mark deleted, or
\* a fault.
Deduper == INSTANCE EventDeduper WITH
  Keys <- Orders,
  Clients <- Runs,
  marks <- seen,
  claims <- [o \in Orders |-> {p \in Runs : Engaged(p, o)}],
  finished <- completed

DeduperSpec == Deduper!Spec

\* "Safe to re-run this command for the same region/year, it will skip orders
\* already applied" (main.go): no order is applied in full twice.
RerunSkipsApplied == \A o \in Orders : completed[o] <= 1

\* Every run that starts comes to its end: no page is asked for twice.
EveryRunEnds == \A p \in Runs : pc[p] = "fetch" ~> pc[p] \in Ended
=============================================================================
