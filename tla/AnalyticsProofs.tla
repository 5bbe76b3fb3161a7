--------------------------- MODULE AnalyticsProofs ---------------------------
(***************************************************************************)
(* Proofs, for every set of events, orders, workers and faults, that the   *)
(* documents of the aggregates say what the handlers' calls that landed    *)
(* amount to, and what follows from that for their readers.  The consumer  *)
(* is the one of CoreEvents, so its invariants are taken from there; on    *)
(* top of them stand that the saved contexts are the orders' own           *)
(* (ContextsTrue), that each document is a sum (RowsMatchEffects,          *)
(* ItemsInStep), and that a context is saved last (Saved).                 *)
(***************************************************************************)
EXTENDS Analytics, SetSums, TLAPS

\* The consumer again, with what is proved about it.
C == INSTANCE CoreEventsProofs WITH
  Malformed <- {}, Registered <- Events, BadPayload <- {},
  Calls <- NumCalls, MaxCalls <- MaxCalls, Lookups <- Finds

\* The calls of each handler, in the order in which it makes them.
LEMMA FanOuts ==
  ASSUME NEW type
  PROVE  /\ type = "order.placed" =>
              FanOut(type) = <<"restaurant", "branch", "product", "platform", "save">>
         /\ type = "order.delivered" =>
              FanOut(type) = <<"find", "restaurant", "branch", "platform">>
         /\ type = "order.rejected" =>
              FanOut(type) = <<"restaurant", "branch", "find", "platform">>
         /\ type = "payment.completed" =>
              FanOut(type) = <<"platform">>
BY DEF FanOut

\* So each type of event has its number of calls, within the bound.
LEMMA CallCounts ==
  ASSUME NEW e \in Events
  PROVE  /\ e.type = "order.placed" => NumCalls[e] = 5
         /\ e.type = "order.delivered" => NumCalls[e] = 4
         /\ e.type = "order.rejected" => NumCalls[e] = 4
         /\ e.type = "payment.completed" => NumCalls[e] = 1
         /\ NumCalls[e] \in 0 .. MaxCalls
<1>1. NumCalls[e] = Len(FanOut(e.type))
  BY DEF NumCalls
<1>2. e.type \in EventTypes
  BY EventsAssumption
<1> QED BY <1>1, <1>2, FanOuts DEF EventTypes, MaxCalls

\* The constants given to the consumer are ones it allows.
LEMMA ConsumerAssumptions ==
  C!MessagesAssumption /\ C!CallsAssumption /\ C!BoundsAssumption
<1>1. C!MessagesAssumption
  BY EventsAssumption DEF C!MessagesAssumption, C!Messages
<1>2. C!CallsAssumption
  <2>1. NumCalls \in [Events -> 0 .. MaxCalls]
    BY CallCounts DEF NumCalls
  <2>2. Finds \subseteq Events \X (1 .. MaxCalls)
    BY DEF Finds
  <2> QED BY <2>1, <2>2 DEF C!CallsAssumption, C!Slots, MaxCalls
<1>3. C!BoundsAssumption
  BY BoundsAssumption DEF C!BoundsAssumption, C!FaultKinds, Consumer!FaultKinds
<1> QED BY <1>1, <1>2, <1>3


\* The consumer that Analytics runs is the one the facts are about.
LEMMA SameConsumer ==
  /\ Consumer!Init <=> C!Init
  /\ UNCHANGED Consumer!vars <=> UNCHANGED C!vars
  /\ Consumer!Next <=> C!Next
<1> USE DEF Consumer!Messages, C!Messages, Consumer!Slots, C!Slots,
            Consumer!broker, C!broker, Consumer!worker, C!worker,
            Consumer!history, C!history, Consumer!vars, C!vars,
            Consumer!Engaged, C!Engaged, Consumer!Disturb, C!Disturb,
            Consumer!Goto, C!Goto, Consumer!Finish, C!Finish, Consumer!Settle, C!Settle
<1>1. Consumer!Init <=> C!Init
  BY DEF Consumer!Init, C!Init
<1>2. \A m : (Consumer!Publish(m) <=> C!Publish(m)) /\ (Consumer!Replay(m) <=> C!Replay(m))
  BY DEF Consumer!Publish, C!Publish, Consumer!Replay, C!Replay
<1>3. \A e : Consumer!Reap(e) <=> C!Reap(e)
  BY DEF Consumer!Reap, C!Reap
<1>4. \A w : Consumer!Start(w) <=> C!Start(w)
  BY DEF Consumer!Start, C!Start
<1>5. \A w, m : Consumer!Deliver(w, m) <=> C!Deliver(w, m)
  BY DEF Consumer!Deliver, C!Deliver
<1>6. \A w, e : Consumer!Handle(w, e) <=> C!Handle(w, e)
  BY DEF Consumer!Handle, C!Handle, Consumer!MarkFresh, C!MarkFresh,
         Consumer!MarkDuplicate, C!MarkDuplicate, Consumer!CallOk, C!CallOk,
         Consumer!LookupMiss, C!LookupMiss, Consumer!Return, C!Return,
         Consumer!Unmark, C!Unmark, Consumer!AtCall, C!AtCall,
         Consumer!TakeEffect, C!TakeEffect
<1>7. \A w, e : Consumer!HandleError(w, e) <=> C!HandleError(w, e)
  BY DEF Consumer!HandleError, C!HandleError, Consumer!MarkFail, C!MarkFail,
         Consumer!MarkLost, C!MarkLost, Consumer!CallFail, C!CallFail,
         Consumer!CallLost, C!CallLost, Consumer!UnmarkFail, C!UnmarkFail,
         Consumer!AtCall, C!AtCall, Consumer!TakeEffect, C!TakeEffect
<1>8. \A w : Consumer!Respond(w) <=> C!Respond(w)
  BY DEF Consumer!Respond, C!Respond, Consumer!Ack, C!Ack,
         Consumer!NackRequeue, C!NackRequeue, Consumer!NackDead, C!NackDead
<1>9. \A w : /\ Consumer!ConnDrop(w) <=> C!ConnDrop(w)
             /\ Consumer!Crash(w) <=> C!Crash(w)
             /\ Consumer!Stop(w) <=> C!Stop(w)
  BY DEF Consumer!ConnDrop, C!ConnDrop, Consumer!Crash, C!Crash, Consumer!Stop, C!Stop,
         Consumer!Disconnect, C!Disconnect, Consumer!Die, C!Die
<1>10. Consumer!AwaitDelivery <=> C!AwaitDelivery
  BY DEF Consumer!AwaitDelivery, C!AwaitDelivery
<1>11. Consumer!Next <=> C!Next
  BY <1>2, <1>3, <1>4, <1>5, <1>6, <1>7, <1>8, <1>9, <1>10, Zenon
     DEF Consumer!Next, C!Next
<1> QED BY <1>1, <1>11

\* Every step of the pipeline is one of the consumer, or leaves it alone.
LEMMA ConsumerStep == [Next]_vars => [Consumer!Next]_(Consumer!vars)
<1> SUFFICES ASSUME [Next]_vars PROVE Consumer!Next \/ UNCHANGED Consumer!vars
  OBVIOUS
<1>1. CASE Consume
  BY <1>1 DEF Consume, Consumer!Next, Consumer!Handle, Consumer!HandleError, Consumer!Messages
<1>2. CASE \E w \in Workers, e \in Events :
             CallOk(w, e) \/ CallLost(w, e) \/ CallFail(w, e) \/ LookupMiss(w, e)
  BY <1>2 DEF CallOk, CallLost, CallFail, LookupMiss,
              Consumer!Next, Consumer!Handle, Consumer!HandleError
<1>3. CASE \E w \in Workers : Leave(w)
  BY <1>3 DEF Leave, Consumer!Next
<1>4. CASE \E o \in DOMAIN Order : ReapContext(o)
  BY <1>4 DEF ReapContext, Consumer!vars
<1>5. CASE UNCHANGED vars
  BY <1>5 DEF vars, consumerVars
<1> QED BY <1>1, <1>2, <1>3, <1>4, <1>5 DEF Next

\* The pipeline runs the consumer of CoreEvents and nothing else: giving the
\* handlers' calls their effect adds no step to it (handlers.go, Register).
THEOREM ImplementsConsumer == Spec => Consumer!Spec
<1>1. Init => Consumer!Init
  BY DEF Init
<1>2. [Next]_vars => [Consumer!Next]_(Consumer!vars)
  BY ConsumerStep
<1> QED BY <1>1, <1>2, PTL DEF Spec, Consumer!Spec

\* So whatever is proved of the consumer holds of the pipeline.
LEMMA ConsumerSpec == Spec => C!Spec
<1>1. Init => C!Init
  BY SameConsumer DEF Init
<1>2. [Next]_vars => [C!Next]_(C!vars)
  BY ConsumerStep, SameConsumer
<1> QED BY <1>1, <1>2, PTL DEF Spec, C!Spec

-----------------------------------------------------------------------------
\* What one atomic change of the document at key does to a collection: the
\* amounts are added to its fields, and no other document changes.
Booked(old, new, key, amounts, fields) ==
  /\ DOMAIN new = DOMAIN old \cup {key}
  /\ \A k \in DOMAIN old \ {key} : new[k] = old[k]
  /\ \A f \in fields :
       Value(new, key, f)
         = Value(old, key, f) + (IF f \in DOMAIN amounts THEN amounts[f] ELSE 0)

\* An upsert books its $inc, whatever it $sets besides.
LEMMA UpsertBooks ==
  ASSUME NEW coll, NEW key, NEW zero, NEW inc, NEW set, NEW fields \in SUBSET DOMAIN zero,
         Rows(coll, zero), "currency" \notin fields, DOMAIN set \subseteq {"currency"},
         \A f \in fields : zero[f] = 0,
         \A f \in DOMAIN inc : inc[f] \in Nat
  PROVE  Booked(coll, Upsert(coll, key, zero, inc, set), key, inc, fields)
<1> DEFINE new == Upsert(coll, key, zero, inc, set)
           row == IF key \in DOMAIN coll THEN coll[key] ELSE zero
<1>1. DOMAIN new = DOMAIN coll \cup {key} /\ \A k \in DOMAIN coll \ {key} : new[k] = coll[k]
  BY DEF Upsert
<1>2. new[key] = Change(row, inc, set)
  BY DEF Upsert
<1>3. DOMAIN row = DOMAIN zero
  BY DEF Rows
<1>4. ASSUME NEW f \in fields
      PROVE  new[key][f] = Value(coll, key, f) + (IF f \in DOMAIN inc THEN inc[f] ELSE 0)
  <2>1. f \in DOMAIN row /\ f \notin DOMAIN set
    BY <1>3
  <2>2. new[key][f] = IF f \in DOMAIN inc THEN row[f] + inc[f] ELSE row[f]
    BY <1>2, <2>1 DEF Change
  <2>3. row[f] = Value(coll, key, f) /\ row[f] \in Nat
    BY <1>3 DEF Value, Rows
  <2> QED BY <2>2, <2>3
<1> QED BY <1>1, <1>4 DEF Booked, Value

\* An upsert keeps the documents in their shape.
LEMMA UpsertRows ==
  ASSUME NEW coll, NEW key, NEW zero, NEW inc, NEW set, Rows(coll, zero),
         \A f \in DOMAIN zero \ {"currency"} : zero[f] \in Nat /\ f \notin DOMAIN set,
         \A f \in DOMAIN inc : inc[f] \in Nat
  PROVE  Rows(Upsert(coll, key, zero, inc, set), zero)
<1> DEFINE new == Upsert(coll, key, zero, inc, set)
           row == IF key \in DOMAIN coll THEN coll[key] ELSE zero
<1>1. DOMAIN row = DOMAIN zero /\ \A f \in DOMAIN zero \ {"currency"} : row[f] \in Nat
  BY DEF Rows
<1> HIDE DEF row
<1>2. DOMAIN Change(row, inc, set) = DOMAIN zero
  BY <1>1 DEF Change
<1>3. ASSUME NEW f \in DOMAIN zero \ {"currency"}
      PROVE  Change(row, inc, set)[f] \in Nat
  <2>1. Change(row, inc, set)[f] = IF f \in DOMAIN inc THEN row[f] + inc[f] ELSE row[f]
    BY <1>1 DEF Change
  <2> QED BY <1>1, <2>1
<1>4. /\ DOMAIN new = DOMAIN coll \cup {key}
      /\ \A k \in DOMAIN coll \ {key} : new[k] = coll[k]
      /\ new[key] = Change(row, inc, set)
  BY DEF Upsert, row
<1> HIDE DEF new
<1>5. Rows(new, zero)
  BY <1>2, <1>3, <1>4 DEF Rows
<1> QED BY <1>5 DEF new

\* The amounts of an event are counts, and differ by its type.
LEMMA AmountsByType ==
  ASSUME NEW e \in Events
  PROVE  /\ e.type = "order.placed" =>
              Amounts(e) = [orders_count |-> 1, revenue_sum |-> Order[e.order].total]
         /\ e.type = "order.delivered" =>
              Amounts(e) = [delivery_ms_count |-> 1, delivery_ms_sum |-> Duration(e)]
         /\ e.type = "order.rejected" => Amounts(e) = [failed_count |-> 1]
         /\ e.type = "payment.completed" =>
              Amounts(e) = [online_payments_count |-> 1,
                            online_payments_amount_sum |-> Order[e.order].total]
BY DEF Amounts

\* The duration that counts is the one the handler books.
LEMMA DurationBooked ==
  ASSUME NEW e \in Events
  PROVE  Duration(e) = DeliveryMs(Order[e.order].placedAt, e.at) /\ Duration(e) \in Nat
<1> DEFINE t == e.at - Order[e.order].placedAt
<1>1. e.at \in Int /\ Order[e.order].placedAt \in Int /\ t \in Int
  BY EventsAssumption, OrdersAssumption
<1>2. PICK m \in {0, t} : \A y \in {0, t} : m >= y
  BY <1>1
<1>3. Duration(e) \in {0, t} /\ \A y \in {0, t} : Duration(e) >= y
  BY <1>2 DEF Duration, Max
<1>4. DeliveryMs(Order[e.order].placedAt, e.at) = IF t < 0 THEN 0 ELSE t
  BY <1>1 DEF DeliveryMs
<1> HIDE DEF t
<1> QED BY <1>1, <1>3, <1>4

\* What a call adds to a field is a number that never takes anything away.
LEMMA AmountsCount ==
  ASSUME NEW e \in Events, NEW f \in DOMAIN Amounts(e)
  PROVE  Amounts(e)[f] \in Nat
<1>1. e.type \in EventTypes /\ Order[e.order].total \in Nat /\ Duration(e) \in Nat
  BY EventsAssumption, OrdersAssumption, DurationBooked
<1> QED BY <1>1, AmountsByType DEF EventTypes

\* The effects of a call that lands once more grow by its event's amounts.
LEMMA EffectsGrow ==
  ASSUME NEW landed, NEW more, NEW e \in Events, NEW f, NEW S \in SUBSET Counting(f),
         \A d \in Events : landed[d] \in Nat,
         more[e] = landed[e] + 1, \A d \in Events \ {e} : more[d] = landed[d]
  PROVE  Effects(more, f, S) = Effects(landed, f, S) + (IF e \in S THEN Amounts(e)[f] ELSE 0)
<1> DEFINE old == [d \in S |-> landed[d] * Amounts(d)[f]]
           new == [d \in S |-> more[d] * Amounts(d)[f]]
<1>1. IsFiniteSet(S) /\ S \subseteq Events
  BY EventsAssumption, FS_Subset DEF Counting
<1>2. \A d \in S : Amounts(d)[f] \in Nat
  BY AmountsCount DEF Counting
<1>3. \A a, b \in Nat : a * b \in Nat /\ (a + 1) * b = a * b + b
  OBVIOUS
<1>4. Counts(old, S)
  BY <1>1, <1>2, <1>3 DEF Counts
<1>5. \A d \in S \ {e} : new[d] = old[d]
  BY <1>1
<1>6. CASE e \in S
  <2>1. new[e] = old[e] + Amounts(e)[f]
    BY <1>1, <1>2, <1>3, <1>6
  <2> HIDE DEF old, new
  <2>2. SumFunctionOnSet(new, S) = SumFunctionOnSet(old, S) + Amounts(e)[f]
    BY <1>1, <1>2, <1>4, <1>5, <1>6, <2>1, SumBump
  <2> QED BY <1>6, <2>2 DEF Effects, old, new
<1>7. CASE e \notin S
  <2>1. \A d \in S : old[d] = new[d]
    BY <1>5, <1>7
  <2> HIDE DEF old, new
  <2>2. SumFunctionOnSet(old, S) = SumFunctionOnSet(new, S) /\ SumFunctionOnSet(old, S) \in Nat
    BY <1>1, <1>4, <2>1, SumSame, SumNat
  <2> QED BY <1>7, <2>2 DEF Effects, old, new
<1> QED BY <1>6, <1>7

\* A change of a document and the landing of the call that makes it keep a
\* collection and the effects in step.
LEMMA AddsUpBooked ==
  ASSUME NEW old, NEW new, NEW fields, NEW landed, NEW more, NEW keys, NEW e \in Events,
         AddsUp(old, fields, landed, keys), Booked(old, new, keys[e], Amounts(e), fields),
         \A d \in Events : landed[d] \in Nat,
         more[e] = landed[e] + 1, \A d \in Events \ {e} : more[d] = landed[d]
  PROVE  AddsUp(new, fields, more, keys)
<1>1. DOMAIN new \subseteq {keys[d] : d \in Events}
  BY DEF AddsUp, Booked
<1>2. ASSUME NEW d \in Events, NEW f \in fields
      PROVE  Value(new, keys[d], f) = Effects(more, f, {c \in Counting(f) : keys[c] = keys[d]})
  <2> DEFINE S == {c \in Counting(f) : keys[c] = keys[d]}
  <2>1. Value(old, keys[d], f) = Effects(landed, f, S)
    BY DEF AddsUp
  <2>2. Effects(more, f, S) = Effects(landed, f, S) + (IF e \in S THEN Amounts(e)[f] ELSE 0)
    BY EffectsGrow
  <2>3. e \in S <=> keys[d] = keys[e] /\ f \in DOMAIN Amounts(e)
    BY DEF Counting
  <2>4. Effects(landed, f, S) \in Nat
    <3> DEFINE g == [c \in S |-> landed[c] * Amounts(c)[f]]
    <3>1. IsFiniteSet(S) /\ S \subseteq Events
      BY EventsAssumption, FS_Subset DEF Counting
    <3>2. \A c \in S : landed[c] \in Nat /\ Amounts(c)[f] \in Nat
      BY AmountsCount DEF Counting
    <3>3. Counts(g, S)
      BY <3>2 DEF Counts
    <3> HIDE DEF g
    <3> QED BY <3>1, <3>3, SumNat DEF Effects, g
  <2>5. keys[d] = keys[e] => Value(new, keys[d], f)
          = Value(old, keys[d], f) + (IF f \in DOMAIN Amounts(e) THEN Amounts(e)[f] ELSE 0)
    BY DEF Booked
  <2>6. keys[d] # keys[e] => Value(new, keys[d], f) = Value(old, keys[d], f)
    BY DEF Booked, Value
  <2>7. Value(new, keys[d], f) = Effects(more, f, S)
    <3> HIDE DEF S
    <3> QED BY <2>1, <2>2, <2>3, <2>4, <2>5, <2>6
  <2> QED BY <2>7
<1> QED BY <1>1, <1>2 DEF AddsUp

-----------------------------------------------------------------------------
\* The calls of this name among those of e's handler.
SlotsOf(call, e) == {i \in 1 .. NumCalls[e] : FanOut(e.type)[i] = call}

\* They are slots of the consumer, and finitely many.
LEMMA SlotsFinite ==
  ASSUME NEW call, NEW e \in Events
  PROVE  /\ IsFiniteSet(SlotsOf(call, e))
         /\ SlotsOf(call, e) \subseteq 1 .. NumCalls[e]
         /\ 1 .. NumCalls[e] \subseteq C!Slots
<1>1. NumCalls[e] \in Nat /\ NumCalls[e] <= 5
  BY CallCounts DEF MaxCalls
<1>2. 1 .. NumCalls[e] \subseteq C!Slots
  BY <1>1 DEF C!Slots, MaxCalls
<1>3. IsFiniteSet(1 .. NumCalls[e])
  BY <1>1, FS_Interval
<1>4. SlotsOf(call, e) \subseteq 1 .. NumCalls[e]
  BY DEF SlotsOf
<1> QED BY <1>2, <1>3, <1>4, FS_Subset

\* A landed call counts for its name and for no other.
LEMMA LandedCounts ==
  ASSUME NEW call, applied \in [Events -> [C!Slots -> Nat]]
  PROVE  \A d \in Events : Landed(call)[d] \in Nat
<1> SUFFICES ASSUME NEW d \in Events PROVE Landed(call)[d] \in Nat
  OBVIOUS
<1>1. Counts(applied[d], SlotsOf(call, d))
  BY SlotsFinite DEF Counts
<1>2. SumFunctionOnSet(applied[d], SlotsOf(call, d)) \in Nat
  BY <1>1, SlotsFinite, SumNat
<1> QED BY <1>2 DEF Landed, SlotsOf

\* Call i of e landing once more counts for the name of the call and no other.
LEMMA LandedGrows ==
  ASSUME NEW call, applied \in [Events -> [C!Slots -> Nat]],
         NEW e \in Events, NEW i \in 1 .. NumCalls[e],
         applied' = [applied EXCEPT ![e][i] = @ + 1]
  PROVE  /\ FanOut(e.type)[i] = call => Landed(call)'[e] = Landed(call)[e] + 1
         /\ FanOut(e.type)[i] # call => Landed(call)'[e] = Landed(call)[e]
         /\ \A d \in Events \ {e} : Landed(call)'[d] = Landed(call)[d]
<1>1. /\ \A d \in Events : Landed(call)[d] = SumFunctionOnSet(applied[d], SlotsOf(call, d))
      /\ \A d \in Events : Landed(call)'[d] = SumFunctionOnSet(applied'[d], SlotsOf(call, d))
  BY DEF Landed, SlotsOf
<1>2. \A d \in Events \ {e} : applied'[d] = applied[d]
  OBVIOUS
<1>3. i \in C!Slots /\ SlotsOf(call, e) \subseteq C!Slots /\ IsFiniteSet(SlotsOf(call, e))
  BY SlotsFinite
<1>4. Counts(applied[e], SlotsOf(call, e))
  BY <1>3 DEF Counts
<1>5. applied'[e][i] = applied[e][i] + 1 /\ \A j \in C!Slots \ {i} : applied'[e][j] = applied[e][j]
  BY <1>3
<1>6. i \in SlotsOf(call, e) <=> FanOut(e.type)[i] = call
  BY DEF SlotsOf
<1>7. ASSUME i \in SlotsOf(call, e)
      PROVE  SumFunctionOnSet(applied'[e], SlotsOf(call, e))
               = SumFunctionOnSet(applied[e], SlotsOf(call, e)) + 1
  <2> DEFINE S == SlotsOf(call, e)
             f == applied[e]
             g == applied'[e]
             one == 1
             k == i
  <2>1. /\ IsFiniteSet(S) /\ Counts(f, S) /\ k \in S /\ one \in Nat
        /\ g[k] = f[k] + one /\ \A j \in S \ {k} : g[j] = f[j]
    BY <1>3, <1>4, <1>5, <1>7
  <2> HIDE DEF S, f, g, one, k
  <2>2. SumFunctionOnSet(g, S) = SumFunctionOnSet(f, S) + one
    BY <2>1, SumBump
  <2> QED BY <2>2 DEF S, f, g, one
<1>8. ASSUME i \notin SlotsOf(call, e)
      PROVE  SumFunctionOnSet(applied'[e], SlotsOf(call, e))
               = SumFunctionOnSet(applied[e], SlotsOf(call, e))
  <2>1. \A j \in SlotsOf(call, e) : applied'[e][j] = applied[e][j]
    BY <1>3, <1>5, <1>8
  <2> QED BY <1>3, <2>1, SumSame
<1> QED BY <1>1, <1>2, <1>6, <1>7, <1>8

-----------------------------------------------------------------------------
\* The row that OnOrderPlaced saves for an order.
Context(o) == [currency |-> Order[o].currency, placedAt |-> Order[o].placedAt]

\* Whatever is looked up is what was saved, and a handler that is past its
\* lookup has it.
ContextsTrue ==
  /\ DOMAIN orderContexts \subseteq DOMAIN Order
  /\ \A o \in DOMAIN orderContexts : orderContexts[o] = Context(o)
  /\ context = [w \in Workers |-> context[w]]
  /\ \A w \in Workers : context[w] # NoContext => \E o \in DOMAIN Order : context[w] = Context(o)
  /\ \A w \in Workers, e \in Events :
       pc[w] = "call" /\ cur[w] = e /\ (\E i \in 1 .. done[w] : FanOut(e.type)[i] = "find") =>
         context[w] = Context(e.order)

\* The documents have their shape.
RowsOK ==
  /\ Rows(restaurantDays, ZeroDay)
  /\ Rows(branchDays, ZeroDay)
  /\ Rows(productDays, ZeroProductDay)
  /\ Rows(platformDays, ZeroPlatformDay)

\* An upsert of a restaurant or branch document: what it books, and the currency
\* it leaves.
LEMMA DayUpsert ==
  ASSUME NEW coll, NEW key, NEW inc, NEW set, Rows(coll, ZeroDay),
         \A f \in DOMAIN inc : inc[f] \in Nat, DOMAIN set \subseteq {"currency"}
  PROVE  /\ Booked(coll, Upsert(coll, key, ZeroDay, inc, set), key, inc, DayFields)
         /\ Rows(Upsert(coll, key, ZeroDay, inc, set), ZeroDay)
         /\ "currency" \in DOMAIN set =>
              Upsert(coll, key, ZeroDay, inc, set)[key].currency = set["currency"]
         /\ "currency" \notin DOMAIN set /\ "currency" \notin DOMAIN inc =>
              Upsert(coll, key, ZeroDay, inc, set)[key].currency
                = IF key \in DOMAIN coll THEN coll[key].currency ELSE NoCurrency
<1> DEFINE row == IF key \in DOMAIN coll THEN coll[key] ELSE ZeroDay
<1>1. /\ DayFields \in SUBSET DOMAIN ZeroDay /\ "currency" \notin DayFields
      /\ "currency" \in DOMAIN ZeroDay /\ ZeroDay.currency = NoCurrency
      /\ DayFields = DOMAIN ZeroDay \ {"currency"}
      /\ \A f \in DayFields : ZeroDay[f] = 0
  BY DEF DayFields, ZeroDay
<1>2. Booked(coll, Upsert(coll, key, ZeroDay, inc, set), key, inc, DayFields)
  BY <1>1, UpsertBooks
<1>3. Rows(Upsert(coll, key, ZeroDay, inc, set), ZeroDay)
  BY <1>1, UpsertRows
<1>4. Upsert(coll, key, ZeroDay, inc, set)[key] = Change(row, inc, set)
  BY DEF Upsert
<1>5. "currency" \in DOMAIN row
  BY <1>1 DEF Rows
<1>6. row["currency"] = IF key \in DOMAIN coll THEN coll[key].currency ELSE NoCurrency
  BY <1>1
<1> HIDE DEF row
<1>7. Change(row, inc, set)["currency"] =
        IF "currency" \in DOMAIN set THEN set["currency"]
        ELSE IF "currency" \in DOMAIN inc THEN row["currency"] + inc["currency"]
        ELSE row["currency"]
  BY <1>5 DEF Change
<1> QED BY <1>2, <1>3, <1>4, <1>6, <1>7

\* An upsert of a platform document.
LEMMA PlatformUpsertBooks ==
  ASSUME NEW coll, NEW date, NEW currency, NEW inc, Rows(coll, ZeroPlatformDay),
         \A f \in DOMAIN inc : inc[f] \in Nat
  PROVE  /\ Booked(coll, PlatformUpsert(coll, date, currency, inc), <<date, currency>>, inc,
                   DOMAIN ZeroPlatformDay)
         /\ Rows(PlatformUpsert(coll, date, currency, inc), ZeroPlatformDay)
<1>1. /\ DOMAIN ZeroPlatformDay \in SUBSET DOMAIN ZeroPlatformDay
      /\ "currency" \notin DOMAIN ZeroPlatformDay
      /\ \A f \in DOMAIN ZeroPlatformDay : ZeroPlatformDay[f] = 0
      /\ DOMAIN Nothing = {}
  BY DEF ZeroPlatformDay, Nothing
<1>2. /\ DOMAIN Nothing \subseteq {"currency"}
      /\ \A f \in DOMAIN ZeroPlatformDay \ {"currency"} :
           ZeroPlatformDay[f] \in Nat /\ f \notin DOMAIN Nothing
  BY <1>1
<1>3. Booked(coll, Upsert(coll, <<date, currency>>, ZeroPlatformDay, inc, Nothing),
             <<date, currency>>, inc, DOMAIN ZeroPlatformDay)
  BY <1>1, <1>2, UpsertBooks
<1>4. Rows(Upsert(coll, <<date, currency>>, ZeroPlatformDay, inc, Nothing), ZeroPlatformDay)
  BY <1>2, UpsertRows
<1> QED BY <1>3, <1>4 DEF PlatformUpsert

\* One call of e books its amounts to a collection of restaurants or branches,
\* under the key of e; only placed orders set the currency.
DayBooked(old, new, keys, e) ==
  /\ Booked(old, new, keys[e], Amounts(e), DayFields)
  /\ Rows(new, ZeroDay)
  /\ new[keys[e]].currency =
       IF e.type = "order.placed" THEN Order[e.order].currency
       ELSE IF keys[e] \in DOMAIN old THEN old[keys[e]].currency ELSE NoCurrency

PlatformBooked(old, new, e) ==
  /\ Booked(old, new, PlatformKeys[e], Amounts(e), DOMAIN ZeroPlatformDay)
  /\ Rows(new, ZeroPlatformDay)

\* Worker w makes call number i of the handler of e.
Making(w, e, i) ==
  /\ w \in Workers /\ e \in Events /\ i \in 1 .. NumCalls[e]
  /\ pc[w] = "call" /\ cur[w] = e /\ i = done[w] + 1

\* What the handler keeps from its lookup is the order's own context.
LEMMA LookedUp ==
  ASSUME NEW w, NEW e, NEW i, Making(w, e, i), ContextsTrue, done[w] \in Nat,
         NEW j \in Nat, 0 < j, j < i, FanOut(e.type)[j] = "find"
  PROVE  context[w] = Context(e.order)
<1>1. j \in 1 .. done[w]
  BY DEF Making
<1> QED BY <1>1 DEF Making, ContextsTrue

\* The calls that book to a day, by the type of the event.
CallBooks(e, i) ==
  /\ IF FanOut(e.type)[i] = "restaurant"
     THEN DayBooked(restaurantDays, restaurantDays', RestaurantKeys, e)
     ELSE UNCHANGED restaurantDays
  /\ IF FanOut(e.type)[i] = "branch"
     THEN DayBooked(branchDays, branchDays', BranchKeys, e)
     ELSE UNCHANGED branchDays
  /\ IF FanOut(e.type)[i] = "platform"
     THEN PlatformBooked(platformDays, platformDays', e)
     ELSE UNCHANGED platformDays

\* OnOrderPlaced books the order's subtotal to each document that it touches.
LEMMA PlacedBooks ==
  ASSUME NEW w, NEW e, NEW i, Making(w, e, i), RowsOK, NEW lines,
         e.type = "order.placed", Effect(w, e, lines)
  PROVE  CallBooks(e, i)
<1> DEFINE in == Order[e.order]
           inc == [orders_count |-> 1, revenue_sum |-> in.total]
           set == [currency |-> in.currency]
<1>1. e \in Events /\ NextCall(w, e) = FanOut(e.type)[i] /\ in.total \in Nat
  BY EventsAssumption, OrdersAssumption DEF Making, NextCall
<1>2. /\ Amounts(e) = inc /\ \A f \in DOMAIN inc : inc[f] \in Nat
      /\ DOMAIN set = {"currency"} /\ set["currency"] = in.currency
  BY <1>1, AmountsByType
<1>3. OnOrderPlaced(w, e, lines)
  BY DEF Effect, OnOrderDelivered, OnOrderRejected, OnPaymentCompleted
<1>4. /\ RestaurantKeys[e] = <<in.restaurant, Date(in.placedAt)>>
      /\ BranchKeys[e] = <<in.branch, Date(in.placedAt)>>
      /\ PlatformKeys[e] = <<Date(in.placedAt), in.currency>>
  BY <1>1 DEF RestaurantKeys, BranchKeys, PlatformKeys, DayOf, PlacedOn
<1>5. /\ NextCall(w, e) = "restaurant" =>
           restaurantDays' = Upsert(restaurantDays, RestaurantKeys[e], ZeroDay, inc, set)
      /\ NextCall(w, e) # "restaurant" => UNCHANGED restaurantDays
      /\ NextCall(w, e) = "branch" =>
           branchDays' = Upsert(branchDays, BranchKeys[e], ZeroDay, inc, set)
      /\ NextCall(w, e) # "branch" => UNCHANGED branchDays
      /\ NextCall(w, e) = "platform" =>
           platformDays' = PlatformUpsert(platformDays, Date(in.placedAt), in.currency, inc)
      /\ NextCall(w, e) # "platform" => UNCHANGED platformDays
  BY <1>3, <1>4 DEF OnOrderPlaced, RestaurantApplyOrderPlaced, BranchApplyOrderPlaced,
                    PlatformApplyOrderPlaced
<1> HIDE DEF inc, set
<1>6. /\ Rows(restaurantDays, ZeroDay) /\ Rows(branchDays, ZeroDay)
      /\ Rows(platformDays, ZeroPlatformDay)
  BY DEF RowsOK
<1>7. NextCall(w, e) = "restaurant" => DayBooked(restaurantDays, restaurantDays', RestaurantKeys, e)
  BY <1>2, <1>5, <1>6, DayUpsert DEF DayBooked
<1>8. NextCall(w, e) = "branch" => DayBooked(branchDays, branchDays', BranchKeys, e)
  BY <1>2, <1>5, <1>6, DayUpsert DEF DayBooked
<1>9. NextCall(w, e) = "platform" => PlatformBooked(platformDays, platformDays', e)
  BY <1>2, <1>4, <1>5, <1>6, PlatformUpsertBooks DEF PlatformBooked
<1> QED BY <1>1, <1>5, <1>7, <1>8, <1>9 DEF CallBooks

\* OnOrderDelivered books under the day of the context that it looked up, which is
\* the day of the order.
LEMMA DeliveredBooks ==
  ASSUME NEW w, NEW e, NEW i, Making(w, e, i), RowsOK, ContextsTrue, done[w] \in Nat,
         NEW lines, e.type = "order.delivered", Effect(w, e, lines)
  PROVE  CallBooks(e, i)
<1> DEFINE in == Order[e.order]
           inc == [delivery_ms_count |-> 1, delivery_ms_sum |-> Duration(e)]
           call == FanOut(e.type)[i]
<1>1. e \in Events /\ NextCall(w, e) = call
  BY DEF Making, NextCall
<1>2. Amounts(e) = inc /\ \A f \in DOMAIN inc : inc[f] \in Nat /\ f # "currency"
  BY <1>1, AmountsByType, DurationBooked
<1>3. OnOrderDelivered(w, e)
  BY DEF Effect, OnOrderPlaced, OnOrderRejected, OnPaymentCompleted
<1>4. call # "find" => context[w] = Context(e.order)
  <2>1. FanOut(e.type) = <<"find", "restaurant", "branch", "platform">>
    BY FanOuts
  <2>2. i \in Nat /\ 0 < i /\ i <= 4
    BY CallCounts DEF Making
  <2>3. call # "find" => 1 < i
    BY <2>1, <2>2
  <2> QED BY <2>1, <2>3, LookedUp
<1>5. /\ RestaurantKeys[e] = <<in.restaurant, PlacedOn(e)>>
      /\ BranchKeys[e] = <<in.branch, PlacedOn(e)>>
      /\ PlatformKeys[e] = <<PlacedOn(e), in.currency>>
  BY <1>1 DEF RestaurantKeys, BranchKeys, PlatformKeys, DayOf
<1>6. call # "find" => /\ DeliveryDate(w, e) = PlacedOn(e)
                       /\ DeliveryMs(context[w].placedAt, e.at) = Duration(e)
  BY <1>1, <1>4, DurationBooked DEF Context, DeliveryDate, PlacedOn
<1>7. /\ call = "restaurant" =>
           restaurantDays' = Upsert(restaurantDays, RestaurantKeys[e], ZeroDay, inc, Nothing)
      /\ call # "restaurant" => UNCHANGED restaurantDays
      /\ call = "branch" =>
           branchDays' = Upsert(branchDays, BranchKeys[e], ZeroDay, inc, Nothing)
      /\ call # "branch" => UNCHANGED branchDays
      /\ call = "platform" =>
           platformDays' = PlatformUpsert(platformDays, PlacedOn(e), in.currency, inc)
      /\ call # "platform" => UNCHANGED platformDays
  <2>1. [delivery_ms_sum |-> Duration(e), delivery_ms_count |-> 1] = inc
    OBVIOUS
  <2> HIDE DEF inc
  <2> QED
    BY <1>1, <1>3, <1>5, <1>6, <2>1
    DEF OnOrderDelivered, FindContext, collections, RestaurantApplyOrderDelivered,
        BranchApplyOrderDelivered, PlatformApplyOrderDelivered
<1> HIDE DEF inc, call
<1>8. /\ Rows(restaurantDays, ZeroDay) /\ Rows(branchDays, ZeroDay)
      /\ Rows(platformDays, ZeroPlatformDay) /\ DOMAIN Nothing = {}
  BY DEF RowsOK, Nothing
<1>9. call = "restaurant" => DayBooked(restaurantDays, restaurantDays', RestaurantKeys, e)
  BY <1>2, <1>7, <1>8, DayUpsert DEF DayBooked
<1>10. call = "branch" => DayBooked(branchDays, branchDays', BranchKeys, e)
  BY <1>2, <1>7, <1>8, DayUpsert DEF DayBooked
<1>11. call = "platform" => PlatformBooked(platformDays, platformDays', e)
  BY <1>2, <1>5, <1>7, <1>8, PlatformUpsertBooks DEF PlatformBooked
<1> QED BY <1>7, <1>9, <1>10, <1>11 DEF CallBooks, call

\* OnOrderRejected books to the restaurant and the branch under the event's own day
\* and to the platform under the currency of the context that it looked up.
LEMMA RejectedBooks ==
  ASSUME NEW w, NEW e, NEW i, Making(w, e, i), RowsOK, ContextsTrue, done[w] \in Nat,
         NEW lines, e.type = "order.rejected", Effect(w, e, lines)
  PROVE  CallBooks(e, i)
<1> DEFINE in == Order[e.order]
           inc == [failed_count |-> 1]
           call == FanOut(e.type)[i]
<1>1. e \in Events /\ NextCall(w, e) = call
  BY DEF Making, NextCall
<1>2. Amounts(e) = inc /\ \A f \in DOMAIN inc : inc[f] \in Nat /\ f # "currency"
  BY <1>1, AmountsByType
<1>3. OnOrderRejected(w, e)
  BY DEF Effect, OnOrderPlaced, OnOrderDelivered, OnPaymentCompleted
<1>4. call = "platform" => context[w].currency = in.currency
  <2>1. FanOut(e.type) = <<"restaurant", "branch", "find", "platform">>
    BY FanOuts
  <2>2. i \in Nat /\ 0 < i /\ i <= 4
    BY CallCounts DEF Making
  <2>3. call = "platform" => 3 < i
    BY <2>1, <2>2
  <2>4. call = "platform" => context[w] = Context(e.order)
    BY <2>1, <2>3, LookedUp
  <2> QED BY <2>4 DEF Context
<1>5. /\ RestaurantKeys[e] = <<in.restaurant, Date(e.at)>>
      /\ BranchKeys[e] = <<in.branch, Date(e.at)>>
      /\ PlatformKeys[e] = <<Date(e.at), in.currency>>
  BY <1>1 DEF RestaurantKeys, BranchKeys, PlatformKeys, DayOf
<1>6. /\ call = "restaurant" =>
           restaurantDays' = Upsert(restaurantDays, RestaurantKeys[e], ZeroDay, inc, Nothing)
      /\ call # "restaurant" => UNCHANGED restaurantDays
      /\ call = "branch" =>
           branchDays' = Upsert(branchDays, BranchKeys[e], ZeroDay, inc, Nothing)
      /\ call # "branch" => UNCHANGED branchDays
      /\ call = "platform" =>
           platformDays' = PlatformUpsert(platformDays, Date(e.at), in.currency, inc)
      /\ call # "platform" => UNCHANGED platformDays
  BY <1>1, <1>3, <1>4, <1>5
  DEF OnOrderRejected, FindContext, collections, RestaurantApplyOrderRejected,
      BranchApplyOrderRejected, PlatformApplyOrderRejected
<1> HIDE DEF inc, call
<1>7. /\ Rows(restaurantDays, ZeroDay) /\ Rows(branchDays, ZeroDay)
      /\ Rows(platformDays, ZeroPlatformDay) /\ DOMAIN Nothing = {}
  BY DEF RowsOK, Nothing
<1>8. call = "restaurant" => DayBooked(restaurantDays, restaurantDays', RestaurantKeys, e)
  BY <1>2, <1>6, <1>7, DayUpsert DEF DayBooked
<1>9. call = "branch" => DayBooked(branchDays, branchDays', BranchKeys, e)
  BY <1>2, <1>6, <1>7, DayUpsert DEF DayBooked
<1>10. call = "platform" => PlatformBooked(platformDays, platformDays', e)
  BY <1>2, <1>5, <1>6, <1>7, PlatformUpsertBooks DEF PlatformBooked
<1> QED BY <1>6, <1>8, <1>9, <1>10 DEF CallBooks, call

\* OnPaymentCompleted books to the platform only.
LEMMA PaymentBooks ==
  ASSUME NEW w, NEW e, NEW i, Making(w, e, i), RowsOK, NEW lines,
         e.type = "payment.completed", Effect(w, e, lines)
  PROVE  CallBooks(e, i)
<1> DEFINE in == Order[e.order]
           inc == [online_payments_count |-> 1, online_payments_amount_sum |-> in.total]
<1>1. /\ e \in Events /\ NextCall(w, e) = FanOut(e.type)[i] /\ in.total \in Nat
      /\ Rows(platformDays, ZeroPlatformDay)
  BY EventsAssumption, OrdersAssumption DEF Making, NextCall, RowsOK
<1>2. Amounts(e) = inc /\ \A f \in DOMAIN inc : inc[f] \in Nat
  BY <1>1, AmountsByType
<1>3. OnPaymentCompleted(w, e)
  BY DEF Effect, OnOrderPlaced, OnOrderDelivered, OnOrderRejected
<1>4. /\ NextCall(w, e) = "platform" /\ UNCHANGED <<restaurantDays, branchDays>>
      /\ platformDays' = PlatformUpsert(platformDays, Date(e.at), in.currency, inc)
      /\ PlatformKeys[e] = <<Date(e.at), in.currency>>
  BY <1>1, <1>3 DEF OnPaymentCompleted, PlatformApplyPaymentCompleted, PlatformKeys, DayOf
<1> HIDE DEF inc
<1>5. PlatformBooked(platformDays, platformDays', e)
  BY <1>1, <1>2, <1>4, PlatformUpsertBooks DEF PlatformBooked
<1> QED BY <1>1, <1>4, <1>5 DEF CallBooks

\* The effect of one call: it books the amounts of its event to the document of
\* its event in the collection it writes, and leaves the others alone.
LEMMA EffectBooks ==
  ASSUME NEW w, NEW e, NEW i, Making(w, e, i), RowsOK, ContextsTrue, done[w] \in Nat,
         NEW lines, Effect(w, e, lines)
  PROVE  CallBooks(e, i)
<1>1. e.type \in EventTypes
  BY EventsAssumption DEF Making
<1> QED
  BY <1>1, PlacedBooks, DeliveredBooks, RejectedBooks, PaymentBooks DEF EventTypes

\* The calls that book to no day: the bulk write of the line items, the lookup
\* of the order's context, and its saving.
CallKeeps(w, e, i, lines) ==
  /\ IF FanOut(e.type)[i] = "product"
     THEN /\ e.type = "order.placed"
          /\ productDays' = ApplyOrderPlacedItems(productDays, Order[e.order].branch, PlacedOn(e),
                                                  Order[e.order].currency, Order[e.order].items,
                                                  lines)
          /\ lineApplied' = [lineApplied EXCEPT ![e] =
               [l \in Lines(e) |-> IF l \in lines THEN @[l] + 1 ELSE @[l]]]
     ELSE UNCHANGED <<productDays, lineApplied>>
  /\ IF FanOut(e.type)[i] = "save"
     THEN /\ e.type = "order.placed"
          /\ orderContexts' = [o \in DOMAIN orderContexts \cup {e.order} |->
                                 IF o = e.order THEN Context(e.order) ELSE orderContexts[o]]
     ELSE UNCHANGED orderContexts
  /\ IF FanOut(e.type)[i] = "find"
     THEN /\ e.order \in DOMAIN orderContexts
          /\ context' = [context EXCEPT ![w] = orderContexts[e.order]]
     ELSE UNCHANGED context

\* What a call does to the products, the saved contexts and the lookups.
LEMMA EffectKeeps ==
  ASSUME NEW w, NEW e, NEW i, Making(w, e, i), NEW lines, Effect(w, e, lines)
  PROVE  CallKeeps(w, e, i, lines)
<1> DEFINE call == FanOut(e.type)[i]
<1>1. e \in Events /\ NextCall(w, e) = call /\ e.type \in EventTypes
  BY EventsAssumption DEF Making, NextCall
<1>2. CASE e.type = "order.placed"
  <2>1. OnOrderPlaced(w, e, lines)
    BY <1>2 DEF Effect, OnOrderDelivered, OnOrderRejected, OnPaymentCompleted
  <2> HIDE DEF call
  <2>2. /\ call \in {"restaurant", "branch", "product", "platform", "save"} /\ UNCHANGED context
        /\ call # "product" => UNCHANGED <<productDays, lineApplied>>
        /\ call # "save" => UNCHANGED orderContexts
    BY <1>1, <2>1 DEF OnOrderPlaced
  <2>3. call = "product" =>
          /\ productDays' = ApplyOrderPlacedItems(productDays, Order[e.order].branch, PlacedOn(e),
                                                  Order[e.order].currency, Order[e.order].items,
                                                  lines)
          /\ lineApplied' = [lineApplied EXCEPT ![e] =
               [l \in Lines(e) |-> IF l \in lines THEN @[l] + 1 ELSE @[l]]]
    BY <1>1, <2>1 DEF OnOrderPlaced, PlacedOn
  <2>4. call = "save" =>
          orderContexts' = [o \in DOMAIN orderContexts \cup {e.order} |->
                              IF o = e.order THEN Context(e.order) ELSE orderContexts[o]]
    BY <1>1, <2>1 DEF OnOrderPlaced, SaveContext, Context
  <2> QED BY <1>2, <2>2, <2>3, <2>4 DEF CallKeeps, call
<1>3. CASE e.type = "order.delivered"
  <2>1. OnOrderDelivered(w, e)
    BY <1>3 DEF Effect, OnOrderPlaced, OnOrderRejected, OnPaymentCompleted
  <2> HIDE DEF call
  <2>2. /\ call \in {"find", "restaurant", "branch", "platform"}
        /\ UNCHANGED <<productDays, lineApplied, orderContexts>>
        /\ call # "find" => UNCHANGED context
        /\ call = "find" => /\ e.order \in DOMAIN orderContexts
                            /\ context' = [context EXCEPT ![w] = orderContexts[e.order]]
    BY <1>1, <2>1 DEF OnOrderDelivered, FindContext, collections
  <2> QED BY <2>2 DEF CallKeeps, call
<1>4. CASE e.type = "order.rejected"
  <2>1. OnOrderRejected(w, e)
    BY <1>4 DEF Effect, OnOrderPlaced, OnOrderDelivered, OnPaymentCompleted
  <2> HIDE DEF call
  <2>2. /\ call \in {"restaurant", "branch", "find", "platform"}
        /\ UNCHANGED <<productDays, lineApplied, orderContexts>>
        /\ call # "find" => UNCHANGED context
        /\ call = "find" => /\ e.order \in DOMAIN orderContexts
                            /\ context' = [context EXCEPT ![w] = orderContexts[e.order]]
    BY <1>1, <2>1 DEF OnOrderRejected, FindContext, collections
  <2> QED BY <2>2 DEF CallKeeps, call
<1>5. CASE e.type = "payment.completed"
  <2>1. OnPaymentCompleted(w, e)
    BY <1>5 DEF Effect, OnOrderPlaced, OnOrderDelivered, OnOrderRejected
  <2>2. call = "platform" /\ UNCHANGED <<productDays, lineApplied, orderContexts, context>>
    BY <1>1, <2>1 DEF OnPaymentCompleted
  <2> QED BY <2>2 DEF CallKeeps
<1> QED BY <1>1, <1>2, <1>3, <1>4, <1>5 DEF EventTypes

-----------------------------------------------------------------------------
\* What the consumer's proofs say of its variables.
ConsumerFacts == C!TypeOK /\ C!Lock /\ C!Counting

\* The consumer's type, its lock and its counts hold all along.
LEMMA ConsumerCorrect == Spec => []ConsumerFacts
<1>1. C!Init => C!Lock /\ C!Counting
  BY ConsumerAssumptions, C!LockInit, C!CountingInit
<1>2. C!TypeOK /\ C!Lock /\ C!Counting /\ [C!Next]_(C!vars) => C!Lock' /\ C!Counting'
  BY ConsumerAssumptions, C!LockStep, C!CountingStep
<1>3. C!Spec => []C!TypeOK
  BY ConsumerAssumptions, C!TypeCorrect
<1>4. Spec => C!Spec
  BY ConsumerSpec
<1> QED BY <1>1, <1>2, <1>3, <1>4, PTL DEF C!Spec, ConsumerFacts

\* A step in which one Mongo call of a handler takes effect; of the bulk write,
\* for these lines.
Call(w, e, i, lines) ==
  /\ Making(w, e, i)
  /\ lines \in SUBSET Lines(e)
  /\ Effect(w, e, lines)
  /\ applied' = [applied EXCEPT ![e][i] = @ + 1]

\* A step that changes no document and makes no call.
Quiet == UNCHANGED <<collections, lineApplied, applied>>

\* Every step is a call, the end of a context's row, or changes no document.
LEMMA StepKinds ==
  ASSUME ConsumerFacts, [Next]_vars
  PROVE  \/ Quiet
         \/ \E w \in Workers, e \in Events :
              \E i \in 1 .. NumCalls[e] : \E lines \in SUBSET Lines(e) : Call(w, e, i, lines)
         \/ \E o \in DOMAIN Order : ReapContext(o)
<1>1. ASSUME NEW w \in Workers, NEW e \in Events, Consumer!AtCall(w, e), Consumer!TakeEffect(w, e),
             NEW lines \in SUBSET Lines(e), Effect(w, e, lines)
      PROVE  done[w] + 1 \in 1 .. NumCalls[e] /\ Call(w, e, done[w] + 1, lines)
  <2>1. done[w] \in 0 .. MaxCalls /\ NumCalls[e] \in 0 .. MaxCalls
    BY CallCounts DEF ConsumerFacts, C!TypeOK
  <2>2. /\ pc[w] = "call" /\ cur[w] = e /\ done[w] < NumCalls[e]
        /\ applied' = [applied EXCEPT ![e][done[w] + 1] = @ + 1]
    BY <1>1 DEF Consumer!AtCall, Consumer!TakeEffect
  <2>3. done[w] + 1 \in 1 .. NumCalls[e]
    BY <2>1, <2>2 DEF MaxCalls
  <2> QED BY <1>1, <2>2, <2>3 DEF Call, Making
<1>2. ASSUME NEW w \in Workers, NEW e \in Events, CallOk(w, e)
      PROVE  \E i \in 1 .. NumCalls[e] : \E lines \in SUBSET Lines(e) : Call(w, e, i, lines)
  <2>1. /\ Consumer!AtCall(w, e) /\ Consumer!TakeEffect(w, e)
        /\ Lines(e) \in SUBSET Lines(e) /\ Effect(w, e, Lines(e))
    BY <1>2 DEF CallOk, Consumer!CallOk
  <2> QED BY <1>1, <2>1
<1>3. ASSUME NEW w \in Workers, NEW e \in Events, CallLost(w, e)
      PROVE  \E i \in 1 .. NumCalls[e] : \E lines \in SUBSET Lines(e) : Call(w, e, i, lines)
  <2>1. Consumer!AtCall(w, e) /\ Consumer!TakeEffect(w, e)
    BY <1>3 DEF CallLost, Consumer!CallLost
  <2>2. PICK lines \in SUBSET Lines(e) : Effect(w, e, lines)
    BY <1>3 DEF CallLost
  <2> QED BY <1>1, <2>1, <2>2
<1>4. ASSUME NEW w \in Workers, NEW e \in Events, CallFail(w, e) \/ LookupMiss(w, e)
      PROVE  Quiet
  BY <1>4 DEF CallFail, LookupMiss, Consumer!CallFail, Consumer!LookupMiss, Consumer!history, Quiet
<1>5. ASSUME NEW w \in Workers, Leave(w) PROVE Quiet
  BY <1>5 DEF Leave, Consumer!Respond, Consumer!Ack, Consumer!NackRequeue, Consumer!NackDead,
              Consumer!Crash, Consumer!Die, Consumer!history, Quiet
<1>6. CASE Consume
  BY <1>6 DEF Consume, Consumer!Publish, Consumer!Replay, Consumer!Reap, Consumer!Start,
              Consumer!ConnDrop, Consumer!Disconnect, Consumer!Deliver, Consumer!MarkFresh,
              Consumer!MarkDuplicate, Consumer!MarkFail, Consumer!MarkLost, Consumer!Return,
              Consumer!Unmark, Consumer!UnmarkFail, Consumer!AwaitDelivery, Consumer!vars,
              Consumer!history, Quiet
<1>7. CASE UNCHANGED vars
  BY <1>7 DEF vars, consumerVars, Consumer!vars, Quiet
<1> QED BY <1>2, <1>3, <1>4, <1>5, <1>6, <1>7 DEF Next

-----------------------------------------------------------------------------
\* A worker that is in the handler after a step was in it before, with the same
\* calls made, or has made none.
StillInCall(w) ==
  pc'[w] = "call" =>
    (pc[w] = "call" /\ cur'[w] = cur[w] /\ done'[w] = done[w]) \/ done'[w] = 0

\* So the steps that look nothing up and save nothing keep the contexts true.
LEMMA ContextsFrame ==
  ASSUME ContextsTrue, context' = context, orderContexts' = orderContexts,
         \A w \in Workers : StillInCall(w)
  PROVE  ContextsTrue'
BY DEF ContextsTrue, StillInCall

\* The consumer's own steps.
LEMMA ConsumeKeepsCalls ==
  ASSUME ConsumerFacts, Consume
  PROVE  \A w \in Workers : StillInCall(w)
<1> SUFFICES ASSUME NEW v \in Workers PROVE StillInCall(v)
  OBVIOUS
<1> USE DEF StillInCall, Consumer!Goto, Consumer!worker, ConsumerFacts, C!TypeOK
<1>1. ASSUME NEW e \in Events, Consumer!Publish(e) \/ Consumer!Replay(e) \/ Consumer!Reap(e)
      PROVE  StillInCall(v)
  BY <1>1 DEF Consumer!Publish, Consumer!Replay, Consumer!Reap
<1>2. ASSUME NEW w \in Workers, Consumer!Start(w) \/ Consumer!ConnDrop(w) PROVE StillInCall(v)
  BY <1>2 DEF Consumer!Start, Consumer!ConnDrop, Consumer!Disconnect
<1>3. ASSUME NEW w \in Workers, NEW e \in Events, Consumer!MarkFresh(w, e)
      PROVE  StillInCall(v)
  <2>1. done[w] = 0
    BY <1>3 DEF Consumer!MarkFresh, C!Lock, C!WorkerOK
  <2> QED BY <1>3, <2>1 DEF Consumer!MarkFresh
<1>4. ASSUME NEW w \in Workers, NEW e \in Events,
             \/ Consumer!Deliver(w, e) \/ Consumer!MarkDuplicate(w, e)
             \/ Consumer!MarkFail(w, e) \/ Consumer!MarkLost(w, e)
      PROVE  StillInCall(v)
  BY <1>4 DEF Consumer!Deliver, Consumer!MarkDuplicate, Consumer!MarkFail, Consumer!MarkLost
<1>5. ASSUME NEW w \in Workers, NEW e \in Events,
             Consumer!Return(w, e) \/ Consumer!Unmark(w, e) \/ Consumer!UnmarkFail(w, e)
      PROVE  StillInCall(v)
  BY <1>5 DEF Consumer!Return, Consumer!Unmark, Consumer!UnmarkFail
<1>6. CASE Consumer!AwaitDelivery
  BY <1>6 DEF Consumer!AwaitDelivery, Consumer!vars
<1> QED BY <1>1, <1>2, <1>3, <1>4, <1>5, <1>6 DEF Consume

\* A call looks up what was saved and saves what is true.
LEMMA ContextsCall ==
  ASSUME ConsumerFacts, ContextsTrue, NEW w \in Workers, NEW e \in Events,
         NEW i \in 1 .. NumCalls[e], NEW lines, Making(w, e, i), Effect(w, e, lines),
         UNCHANGED cur, \A v \in Workers \ {w} : pc'[v] = pc[v] /\ done'[v] = done[v],
         pc'[w] = "call" => done'[w] = i
  PROVE  ContextsTrue'
<1> DEFINE call == FanOut(e.type)[i]
<1>1. e.order \in DOMAIN Order /\ i \in Nat /\ done[w] \in Nat /\ i = done[w] + 1
  BY EventsAssumption DEF Making, ConsumerFacts, C!TypeOK
<1>2. CallKeeps(w, e, i, lines)
  BY EffectKeeps
<1>3. /\ DOMAIN orderContexts' \subseteq DOMAIN Order
      /\ \A o \in DOMAIN orderContexts' : orderContexts'[o] = Context(o)
  BY <1>1, <1>2 DEF CallKeeps, ContextsTrue
<1>4. /\ context' = [v \in Workers |-> context'[v]]
      /\ \A v \in Workers \ {w} : context'[v] = context[v]
      /\ call = "find" => context'[w] = Context(e.order)
      /\ call # "find" => context'[w] = context[w]
  BY <1>2 DEF CallKeeps, ContextsTrue
<1>5. \A v \in Workers : context'[v] # NoContext => \E o \in DOMAIN Order : context'[v] = Context(o)
  BY <1>1, <1>4 DEF ContextsTrue
<1>6. ASSUME NEW v \in Workers, NEW d \in Events, pc'[v] = "call", cur'[v] = d,
             NEW j \in 1 .. done'[v], FanOut(d.type)[j] = "find"
      PROVE  context'[v] = Context(d.order)
  <2>1. CASE v # w
    BY <1>4, <1>6, <2>1 DEF ContextsTrue
  <2>2. CASE v = w /\ j = i
    <3>1. d = e
      BY <1>6, <2>2 DEF Making
    <3> QED BY <1>4, <1>6, <2>2, <3>1
  <2>3. CASE v = w /\ j # i
    <3>1. d = e /\ j \in 1 .. done[w] /\ pc[w] = "call" /\ cur[w] = e
      BY <1>1, <1>6, <2>3 DEF Making
    <3>2. context[w] = Context(e.order)
      BY <1>6, <2>3, <3>1 DEF ContextsTrue
    <3> QED BY <1>4, <2>3, <3>1, <3>2
  <2> QED BY <2>1, <2>2, <2>3
<1> QED BY <1>3, <1>4, <1>5, <1>6 DEF ContextsTrue

\* No step saves or keeps a context other than the order's.
LEMMA ContextsStep ==
  ASSUME ConsumerFacts, ContextsTrue, [Next]_vars
  PROVE  ContextsTrue'
<1> USE DEF Consumer!Goto
<1>1. ASSUME NEW w \in Workers, NEW e \in Events, CallOk(w, e)
      PROVE  ContextsTrue'
  <2>1. /\ Consumer!AtCall(w, e) /\ Effect(w, e, Lines(e))
        /\ done' = [done EXCEPT ![w] = @ + 1] /\ UNCHANGED <<pc, cur>>
    BY <1>1 DEF CallOk, Consumer!CallOk
  <2>2. done \in [Workers -> 0 .. MaxCalls] /\ NumCalls[e] \in 0 .. MaxCalls
    BY CallCounts DEF ConsumerFacts, C!TypeOK
  <2>3. Making(w, e, done[w] + 1) /\ done[w] + 1 \in 1 .. NumCalls[e]
    BY <2>1, <2>2 DEF Making, Consumer!AtCall, MaxCalls
  <2>4. done'[w] = done[w] + 1 /\ \A v \in Workers \ {w} : done'[v] = done[v]
    BY <2>1, <2>2
  <2> QED BY <2>1, <2>3, <2>4, ContextsCall
<1>2. ASSUME NEW w \in Workers, NEW e \in Events, CallLost(w, e)
      PROVE  ContextsTrue'
  <2>1. /\ Consumer!AtCall(w, e) /\ pc' = [pc EXCEPT ![w] = "failed"] /\ UNCHANGED <<cur, done>>
    BY <1>2 DEF CallLost, Consumer!CallLost
  <2>2. done \in [Workers -> 0 .. MaxCalls] /\ pc \in [Workers -> C!Steps]
        /\ NumCalls[e] \in 0 .. MaxCalls
    BY CallCounts DEF ConsumerFacts, C!TypeOK
  <2>3. Making(w, e, done[w] + 1) /\ done[w] + 1 \in 1 .. NumCalls[e]
    BY <2>1, <2>2 DEF Making, Consumer!AtCall, MaxCalls
  <2>4. pc'[w] = "failed" /\ \A v \in Workers \ {w} : pc'[v] = pc[v]
    BY <2>1, <2>2
  <2>5. PICK lines \in SUBSET Lines(e) : Effect(w, e, lines)
    BY <1>2 DEF CallLost
  <2> QED BY <2>1, <2>3, <2>4, <2>5, ContextsCall
<1>3. ASSUME NEW w \in Workers, NEW e \in Events, CallFail(w, e) \/ LookupMiss(w, e)
      PROVE  ContextsTrue'
  <2>1. /\ UNCHANGED <<context, orderContexts, cur, done>>
        /\ \E step \in {"failed", "ack"} : pc' = [pc EXCEPT ![w] = step]
    BY <1>3 DEF CallFail, LookupMiss, Consumer!CallFail, Consumer!LookupMiss, collections
  <2>2. \A v \in Workers : StillInCall(v)
    BY <2>1 DEF StillInCall, ConsumerFacts, C!TypeOK
  <2> QED BY <2>1, <2>2, ContextsFrame
<1>4. ASSUME NEW w \in Workers, Leave(w)
      PROVE  ContextsTrue'
  <2>1. /\ context' = [context EXCEPT ![w] = NoContext] /\ UNCHANGED orderContexts
        /\ \E step \in {"idle", "down"} : pc' = [pc EXCEPT ![w] = step]
        /\ \A v \in Workers \ {w} : cur'[v] = cur[v] /\ done'[v] = done[v]
    BY <1>4 DEF Leave, Consumer!Respond, Consumer!Ack, Consumer!NackRequeue, Consumer!NackDead,
                Consumer!Finish, Consumer!Crash, Consumer!Die, collections, ConsumerFacts, C!TypeOK
  <2>2. pc'[w] # "call" /\ \A v \in Workers \ {w} : pc'[v] = pc[v] /\ context'[v] = context[v]
    BY <2>1 DEF ConsumerFacts, C!TypeOK, ContextsTrue
  <2> QED BY <2>1, <2>2 DEF ContextsTrue
<1>5. CASE Consume
  <2>1. UNCHANGED <<context, orderContexts>>
    BY <1>5 DEF Consume, collections
  <2> QED BY <1>5, <2>1, ConsumeKeepsCalls, ContextsFrame
<1>6. ASSUME NEW o \in DOMAIN Order, ReapContext(o)
      PROVE  ContextsTrue'
  BY <1>6 DEF ReapContext, ContextsTrue
<1>7. CASE UNCHANGED vars
  BY <1>7 DEF vars, consumerVars, Consumer!vars, collections, ContextsTrue
<1> QED BY <1>1, <1>2, <1>3, <1>4, <1>5, <1>6, <1>7 DEF Next

\* At the start nothing is saved or looked up.
LEMMA ContextsInit == Init => ContextsTrue
BY DEF Init, NoRows, ContextsTrue, Consumer!Init

\* So every context is true whenever a handler books under it.
LEMMA ContextsCorrect == Spec => []ContextsTrue
<1>1. ConsumerFacts /\ ContextsTrue /\ [Next]_vars => ContextsTrue'
  BY ContextsStep
<1> QED BY <1>1, ContextsInit, ConsumerCorrect, PTL DEF Spec

-----------------------------------------------------------------------------
\* The document that line l of e's items belongs to, and the lines of e that
\* belong to one document.
ItemKey(e, l) == <<Order[e.order].branch, Order[e.order].items[l].product, PlacedOn(e)>>
LinesAt(e, lines, k) == {l \in lines : ItemKey(e, l) = k}

\* What a set of e's lines adds up to in a field.
LineSum(e, S, f) == SumFunctionOnSet([l \in S |-> Order[e.order].items[l][f]], S)
Quantities(e, S) == LineSum(e, S, "quantity")
Totals(e, S) == LineSum(e, S, "lineTotal")

\* The quantities and the totals of any lines of an event are numbers.
LEMMA LinesCount ==
  ASSUME NEW e \in Events, NEW S \in SUBSET Lines(e)
  PROVE  IsFiniteSet(S) /\ Quantities(e, S) \in Nat /\ Totals(e, S) \in Nat
<1> DEFINE q == [l \in S |-> Order[e.order].items[l]["quantity"]]
           t == [l \in S |-> Order[e.order].items[l]["lineTotal"]]
<1>1. /\ IsFiniteSet(Lines(e))
      /\ \A l \in Lines(e) : /\ Order[e.order].items[l].quantity \in Nat
                             /\ Order[e.order].items[l].lineTotal \in Nat
  BY EventsAssumption, OrdersAssumption DEF Lines
<1>2. IsFiniteSet(S)
  BY <1>1, FS_Subset
<1>3. Counts(q, S) /\ Counts(t, S)
  BY <1>1 DEF Counts
<1> HIDE DEF q, t
<1>4. SumFunctionOnSet(q, S) \in Nat /\ SumFunctionOnSet(t, S) \in Nat
  BY <1>2, <1>3, SumNat
<1> QED BY <1>2, <1>4 DEF Quantities, Totals, LineSum, q, t

\* The bulk write adds to every document what its lines amount to, and keeps the
\* documents in their shape.
LEMMA ItemsBook ==
  ASSUME NEW coll, Rows(coll, ZeroProductDay), NEW e \in Events, NEW lines \in SUBSET Lines(e),
         NEW new, new = ApplyOrderPlacedItems(coll, Order[e.order].branch, PlacedOn(e),
                                              Order[e.order].currency, Order[e.order].items, lines)
  PROVE  /\ DOMAIN new = DOMAIN coll \cup {ItemKey(e, l) : l \in lines}
         /\ Rows(new, ZeroProductDay)
         /\ \A k : Value(new, k, "quantity_sum")
                     = Value(coll, k, "quantity_sum") + Quantities(e, LinesAt(e, lines, k))
         /\ \A k : Value(new, k, "revenue_sum")
                     = Value(coll, k, "revenue_sum") + Totals(e, LinesAt(e, lines, k))
<1> DEFINE items == Order[e.order].items
           At(k) == LinesAt(e, lines, k)
           row(k) == IF k \in DOMAIN coll THEN coll[k] ELSE ZeroProductDay
           set == [currency |-> Order[e.order].currency]
<1>1. new = [k \in DOMAIN coll \cup {ItemKey(e, l) : l \in lines} |->
               IF At(k) = {} THEN coll[k] ELSE Change(row(k), LineSums(items, At(k)), set)]
  BY DEF ApplyOrderPlacedItems, LinesAt, ItemKey
<1>2. ASSUME NEW k
      PROVE  /\ At(k) \in SUBSET Lines(e)
             /\ LineSums(items, At(k)) = [quantity_sum |-> Quantities(e, At(k)),
                                          revenue_sum |-> Totals(e, At(k))]
             /\ Quantities(e, At(k)) \in Nat /\ Totals(e, At(k)) \in Nat
             /\ At(k) # {} <=> \E l \in lines : ItemKey(e, l) = k
             /\ At(k) = {} => Quantities(e, At(k)) = 0 /\ Totals(e, At(k)) = 0
  <2>1. At(k) \in SUBSET Lines(e) /\ (At(k) # {} <=> \E l \in lines : ItemKey(e, l) = k)
    BY DEF LinesAt
  <2> HIDE DEF At
  <2>2. LineSums(items, At(k)) = [quantity_sum |-> Quantities(e, At(k)),
                                  revenue_sum |-> Totals(e, At(k))]
    BY DEF LineSums, Quantities, Totals, LineSum
  <2>3. ASSUME At(k) = {} PROVE Quantities(e, At(k)) = 0 /\ Totals(e, At(k)) = 0
    BY <2>3, SumEmpty DEF Quantities, Totals, LineSum
  <2> QED BY <2>1, <2>2, <2>3, LinesCount
<1>3. ASSUME NEW k
      PROVE  /\ DOMAIN row(k) = {"quantity_sum", "revenue_sum", "currency"}
             /\ row(k)["quantity_sum"] \in Nat /\ row(k)["revenue_sum"] \in Nat
             /\ row(k)["quantity_sum"] = Value(coll, k, "quantity_sum")
             /\ row(k)["revenue_sum"] = Value(coll, k, "revenue_sum")
  <2>1. /\ DOMAIN ZeroProductDay = {"quantity_sum", "revenue_sum", "currency"}
        /\ ZeroProductDay["quantity_sum"] = 0 /\ ZeroProductDay["revenue_sum"] = 0
    BY DEF ZeroProductDay
  <2> QED BY <2>1 DEF Rows, Value
<1>4. ASSUME NEW k, At(k) # {}
      PROVE  /\ k \in DOMAIN new
             /\ DOMAIN new[k] = {"quantity_sum", "revenue_sum", "currency"}
             /\ new[k]["quantity_sum"] = row(k)["quantity_sum"] + Quantities(e, At(k))
             /\ new[k]["revenue_sum"] = row(k)["revenue_sum"] + Totals(e, At(k))
  <2> DEFINE inc == [quantity_sum |-> Quantities(e, At(k)), revenue_sum |-> Totals(e, At(k))]
             before == row(k)
  <2>1. k \in DOMAIN new /\ new[k] = Change(before, inc, set)
    BY <1>1, <1>2, <1>4
  <2>2. DOMAIN before = {"quantity_sum", "revenue_sum", "currency"}
    BY <1>3
  <2>3. DOMAIN inc = {"quantity_sum", "revenue_sum"} /\ DOMAIN set = {"currency"}
    OBVIOUS
  <2>4. inc["quantity_sum"] = Quantities(e, At(k)) /\ inc["revenue_sum"] = Totals(e, At(k))
    OBVIOUS
  <2> HIDE DEF before, inc, set
  <2>5. /\ DOMAIN new[k] = {"quantity_sum", "revenue_sum", "currency"}
        /\ new[k]["quantity_sum"] = before["quantity_sum"] + inc["quantity_sum"]
        /\ new[k]["revenue_sum"] = before["revenue_sum"] + inc["revenue_sum"]
    BY <2>1, <2>2, <2>3 DEF Change
  <2> QED BY <2>1, <2>4, <2>5 DEF before
<1>5. ASSUME NEW k, At(k) = {}
      PROVE  /\ k \in DOMAIN new <=> k \in DOMAIN coll
             /\ k \in DOMAIN coll => new[k] = coll[k]
  BY <1>1, <1>2, <1>5
<1>6. DOMAIN new = DOMAIN coll \cup {ItemKey(e, l) : l \in lines}
  BY <1>1
<1>7. /\ \A k : Quantities(e, At(k)) \in Nat /\ Totals(e, At(k)) \in Nat
      /\ \A k : At(k) = {} => Quantities(e, At(k)) = 0 /\ Totals(e, At(k)) = 0
  BY <1>2
<1> HIDE DEF At, row
<1>8. ASSUME NEW k
      PROVE  /\ Value(new, k, "quantity_sum")
                  = Value(coll, k, "quantity_sum") + Quantities(e, At(k))
             /\ Value(new, k, "revenue_sum") = Value(coll, k, "revenue_sum") + Totals(e, At(k))
  <2>1. CASE At(k) # {}
    BY <1>3, <1>4, <2>1 DEF Value
  <2>2. CASE At(k) = {}
    <3>1. /\ Value(new, k, "quantity_sum") = Value(coll, k, "quantity_sum")
          /\ Value(new, k, "revenue_sum") = Value(coll, k, "revenue_sum")
      BY <1>5, <2>2 DEF Value
    <3>2. Value(coll, k, "quantity_sum") \in Nat /\ Value(coll, k, "revenue_sum") \in Nat
      BY <1>3
    <3> QED BY <1>7, <2>2, <3>1, <3>2
  <2> QED BY <2>1, <2>2
<1>9. ASSUME NEW k \in DOMAIN new
      PROVE  /\ DOMAIN new[k] = {"quantity_sum", "revenue_sum", "currency"}
             /\ new[k]["quantity_sum"] \in Nat /\ new[k]["revenue_sum"] \in Nat
  <2>1. CASE At(k) # {}
    <3>1. /\ DOMAIN new[k] = {"quantity_sum", "revenue_sum", "currency"}
          /\ new[k]["quantity_sum"] = row(k)["quantity_sum"] + Quantities(e, At(k))
          /\ new[k]["revenue_sum"] = row(k)["revenue_sum"] + Totals(e, At(k))
      BY <1>4, <2>1
    <3>2. row(k)["quantity_sum"] \in Nat /\ row(k)["revenue_sum"] \in Nat
      BY <1>3
    <3> QED BY <1>7, <3>1, <3>2
  <2>2. CASE At(k) = {}
    <3>1. DOMAIN ZeroProductDay = {"quantity_sum", "revenue_sum", "currency"}
      BY DEF ZeroProductDay
    <3> QED BY <1>5, <2>2, <3>1 DEF Rows
  <2> QED BY <2>1, <2>2
<1>10. Rows(new, ZeroProductDay)
  <2>1. DOMAIN ZeroProductDay = {"quantity_sum", "revenue_sum", "currency"}
    BY DEF ZeroProductDay
  <2> QED BY <1>9, <2>1 DEF Rows
<1> QED BY <1>6, <1>8, <1>10 DEF At

-----------------------------------------------------------------------------
\* Before anything landed every effect is nothing.
LEMMA NoEffects ==
  ASSUME NEW landed, NEW f, NEW S \in SUBSET Counting(f), \A d \in Events : landed[d] = 0
  PROVE  Effects(landed, f, S) = 0
<1> DEFINE g == [d \in S |-> landed[d] * Amounts(d)[f]]
<1>1. IsFiniteSet(S)
  BY EventsAssumption, FS_Subset DEF Counting
<1>2. \A n \in Nat : 0 * n = 0
  OBVIOUS
<1>3. \A d \in S : g[d] = 0
  BY <1>2, AmountsCount DEF Counting
<1> HIDE DEF g
<1>4. SumFunctionOnSet(g, S) = 0
  BY <1>1, <1>3, SumZero
<1> QED BY <1>4 DEF Effects, g

\* Without documents nothing has landed.
LEMMA DaysInit == Init => RowsOK /\ RowsMatchEffects
<1> SUFFICES ASSUME Init PROVE RowsOK /\ RowsMatchEffects
  OBVIOUS
<1>1. /\ restaurantDays = NoRows /\ branchDays = NoRows /\ productDays = NoRows
      /\ platformDays = NoRows /\ DOMAIN NoRows = {}
      /\ \A e \in Events : applied[e] = [i \in C!Slots |-> 0]
  BY DEF Init, NoRows, Consumer!Init, Consumer!Slots, C!Slots
<1>2. ASSUME NEW call, NEW e \in Events PROVE Landed(call)[e] = 0
  <2>1. IsFiniteSet(SlotsOf(call, e)) /\ \A i \in SlotsOf(call, e) : applied[e][i] = 0
    BY <1>1, SlotsFinite
  <2>2. SumFunctionOnSet(applied[e], SlotsOf(call, e)) = 0
    BY <2>1, SumZero
  <2> QED BY <2>2 DEF Landed, SlotsOf
<1>3. ASSUME NEW fields, NEW call, NEW keys PROVE AddsUp(NoRows, fields, Landed(call), keys)
  <2>1. ASSUME NEW e \in Events, NEW f \in fields
        PROVE  Value(NoRows, keys[e], f)
                 = Effects(Landed(call), f, {d \in Counting(f) : keys[d] = keys[e]})
    <3>1. {d \in Counting(f) : keys[d] = keys[e]} \in SUBSET Counting(f)
      OBVIOUS
    <3>2. Effects(Landed(call), f, {d \in Counting(f) : keys[d] = keys[e]}) = 0
      BY <1>2, <3>1, NoEffects
    <3> QED BY <1>1, <3>2 DEF Value
  <2> QED BY <1>1, <2>1 DEF AddsUp
<1> QED BY <1>1, <1>3 DEF RowsOK, Rows, RowsMatchEffects

\* The next call of an event keeps a collection of days and its effects in step,
\* whether it writes to this collection or not.
LEMMA AddsUpCall ==
  ASSUME ConsumerFacts, NEW name, NEW e \in Events, NEW i \in 1 .. NumCalls[e],
         applied' = [applied EXCEPT ![e][i] = @ + 1],
         NEW old, NEW new, NEW fields, NEW keys, AddsUp(old, fields, Landed(name), keys),
         IF FanOut(e.type)[i] = name
         THEN Booked(old, new, keys[e], Amounts(e), fields) ELSE new = old
  PROVE  AddsUp(new, fields, Landed(name)', keys)
<1>1. applied \in [Events -> [C!Slots -> Nat]]
  BY DEF ConsumerFacts, C!TypeOK
<1>2. /\ \A d \in Events : Landed(name)[d] \in Nat
      /\ \A d \in Events \ {e} : Landed(name)'[d] = Landed(name)[d]
  BY <1>1, LandedCounts, LandedGrows
<1>3. CASE FanOut(e.type)[i] = name
  <2>1. Landed(name)'[e] = Landed(name)[e] + 1
    BY <1>1, <1>3, LandedGrows
  <2> QED BY <1>2, <1>3, <2>1, AddsUpBooked
<1>4. CASE FanOut(e.type)[i] # name
  <2>1. \A d \in Events : Landed(name)'[d] = Landed(name)[d]
    BY <1>1, <1>2, <1>4, LandedGrows
  <2>2. Landed(name)' = Landed(name)
    BY <2>1 DEF Landed
  <2> QED BY <1>4, <2>2
<1> QED BY <1>3, <1>4

\* A call adds its event's amounts to the one document that it touches and counts
\* itself as applied; no other step touches either.
LEMMA DaysStep ==
  ASSUME ConsumerFacts, ContextsTrue, RowsOK, RowsMatchEffects, [Next]_vars
  PROVE  RowsOK' /\ RowsMatchEffects'
<1>1. CASE Quiet
  <2>1. /\ UNCHANGED <<restaurantDays, branchDays, productDays, platformDays>>
        /\ \A name : Landed(name)' = Landed(name)
    BY <1>1 DEF Quiet, collections, Landed
  <2> QED BY <2>1 DEF RowsOK, RowsMatchEffects
<1>2. ASSUME NEW w \in Workers, NEW e \in Events, NEW i \in 1 .. NumCalls[e],
             NEW lines \in SUBSET Lines(e), Call(w, e, i, lines)
      PROVE  RowsOK' /\ RowsMatchEffects'
  <2>1. /\ Making(w, e, i) /\ Effect(w, e, lines) /\ done[w] \in Nat
        /\ applied' = [applied EXCEPT ![e][i] = @ + 1]
    BY <1>2 DEF Call, ConsumerFacts, C!TypeOK
  <2>2. CallBooks(e, i)
    BY <2>1, EffectBooks
  <2>3. CallKeeps(w, e, i, lines)
    BY <2>1, EffectKeeps
  <2>4. AddsUp(restaurantDays', DayFields, Landed("restaurant")', RestaurantKeys)
    BY <2>1, <2>2, AddsUpCall DEF CallBooks, DayBooked, RowsMatchEffects
  <2>5. AddsUp(branchDays', DayFields, Landed("branch")', BranchKeys)
    BY <2>1, <2>2, AddsUpCall DEF CallBooks, DayBooked, RowsMatchEffects
  <2>6. AddsUp(platformDays', DOMAIN ZeroPlatformDay, Landed("platform")', PlatformKeys)
    BY <2>1, <2>2, AddsUpCall DEF CallBooks, PlatformBooked, RowsMatchEffects
  <2>7. /\ Rows(restaurantDays', ZeroDay) /\ Rows(branchDays', ZeroDay)
        /\ Rows(platformDays', ZeroPlatformDay)
    BY <2>2 DEF CallBooks, DayBooked, PlatformBooked, RowsOK
  <2>8. Rows(productDays', ZeroProductDay)
    BY <2>3, ItemsBook DEF CallKeeps, RowsOK
  <2> QED BY <2>4, <2>5, <2>6, <2>7, <2>8 DEF RowsOK, RowsMatchEffects
<1>3. ASSUME NEW o \in DOMAIN Order, ReapContext(o)
      PROVE  RowsOK' /\ RowsMatchEffects'
  <2>1. /\ UNCHANGED <<restaurantDays, branchDays, productDays, platformDays>>
        /\ \A name : Landed(name)' = Landed(name)
    BY <1>3 DEF ReapContext, Landed
  <2> QED BY <2>1 DEF RowsOK, RowsMatchEffects
<1> QED BY <1>1, <1>2, <1>3, StepKinds

\* The document of every key is the sum of what its landed calls amount to.
THEOREM EffectsCorrect == Spec => []RowsMatchEffects
<1>1. ConsumerFacts /\ ContextsTrue /\ RowsOK /\ RowsMatchEffects /\ [Next]_vars
        => RowsOK' /\ RowsMatchEffects'
  BY DaysStep
<1> QED BY <1>1, DaysInit, ConsumerCorrect, ContextsCorrect, PTL DEF Spec

-----------------------------------------------------------------------------
\* The documents keep their shape.
LEMMA RowsCorrect == Spec => []RowsOK
<1>1. ConsumerFacts /\ ContextsTrue /\ RowsOK /\ RowsMatchEffects /\ [Next]_vars
        => RowsOK' /\ RowsMatchEffects'
  BY DaysStep
<1> QED BY <1>1, DaysInit, ConsumerCorrect, ContextsCorrect, PTL DEF Spec

\* Every variable has its type and every document its shape.
THEOREM TypeCorrect == Spec => []TypeOK
<1>1. ConsumerFacts => Consumer!TypeOK
  BY DEF ConsumerFacts, C!TypeOK, Consumer!TypeOK, C!Messages, Consumer!Messages,
         C!Slots, Consumer!Slots, C!Steps, Consumer!Steps
<1>2. ContextsTrue => /\ DOMAIN orderContexts \subseteq DOMAIN Order
                      /\ \A w \in Workers : context[w] # NoContext => context[w].placedAt \in Int
  BY OrdersAssumption DEF ContextsTrue, Context
<1>3. ConsumerFacts /\ ContextsTrue /\ RowsOK => TypeOK
  BY <1>1, <1>2 DEF TypeOK, RowsOK
<1> QED BY <1>3, ConsumerCorrect, ContextsCorrect, RowsCorrect, PTL

-----------------------------------------------------------------------------
\* A field of a document that is not zero comes from a landed call.
LEMMA EffectsPositive ==
  ASSUME NEW coll, NEW fields, NEW landed, NEW keys, AddsUp(coll, fields, landed, keys),
         \A e \in Events : landed[e] \in Nat,
         NEW k \in DOMAIN coll, NEW f \in fields, coll[k][f] > 0
  PROVE  \E e \in Counting(f) : keys[e] = k /\ landed[e] > 0
<1>1. PICK e \in Events : keys[e] = k
  BY DEF AddsUp
<1> DEFINE S == {d \in Counting(f) : keys[d] = keys[e]}
           g == [d \in S |-> landed[d] * Amounts(d)[f]]
<1>2. coll[k][f] = SumFunctionOnSet(g, S)
  BY <1>1 DEF AddsUp, Value, Effects
<1>3. \A m, n \in Nat : m * n \in Nat /\ 0 * n = 0
  OBVIOUS
<1>4. IsFiniteSet(S) /\ \A d \in S : landed[d] \in Nat /\ Amounts(d)[f] \in Nat
  BY EventsAssumption, FS_Subset, AmountsCount DEF Counting
<1>5. Counts(g, S)
  BY <1>3, <1>4 DEF Counts
<1>6. \E d \in S : g[d] > 0
  <2> HIDE DEF S, g
  <2>1. SumFunctionOnSet(g, S) > 0
    BY <1>2
  <2> QED BY <1>4, <1>5, <2>1, SumPositive
<1>7. PICK d \in S : g[d] > 0
  BY <1>6
<1>8. landed[d] # 0
  <2> SUFFICES ASSUME landed[d] = 0 PROVE FALSE
    OBVIOUS
  <2>1. g[d] = 0 * Amounts(d)[f] /\ Amounts(d)[f] \in Nat
    BY <1>4
  <2> QED BY <1>3, <1>7, <2>1
<1> QED BY <1>1, <1>4, <1>7, <1>8

\* A landed call that adds something shows in the document of its event.
LEMMA EffectsShow ==
  ASSUME NEW coll, NEW fields, NEW landed, NEW keys, AddsUp(coll, fields, landed, keys),
         \A e \in Events : landed[e] \in Nat,
         NEW f \in fields, NEW e \in Counting(f), landed[e] > 0, Amounts(e)[f] = 1
  PROVE  keys[e] \in DOMAIN coll /\ coll[keys[e]][f] > 0
<1> DEFINE S == {d \in Counting(f) : keys[d] = keys[e]}
           g == [d \in S |-> landed[d] * Amounts(d)[f]]
<1>1. e \in Events /\ e \in S
  BY DEF Counting
<1>2. Value(coll, keys[e], f) = SumFunctionOnSet(g, S)
  BY <1>1 DEF AddsUp, Effects
<1>3. IsFiniteSet(S) /\ \A d \in S : landed[d] \in Nat /\ Amounts(d)[f] \in Nat
  BY EventsAssumption, FS_Subset, AmountsCount DEF Counting
<1>4. \A m, n \in Nat : m * n \in Nat /\ m * 1 = m
  OBVIOUS
<1>5. Counts(g, S)
  BY <1>3, <1>4 DEF Counts
<1>6. g[e] = landed[e] /\ landed[e] \in Nat
  BY <1>1, <1>3, <1>4
<1>7. Value(coll, keys[e], f) > 0
  <2> HIDE DEF S, g
  <2>1. g[e] <= SumFunctionOnSet(g, S) /\ SumFunctionOnSet(g, S) \in Nat
    BY <1>1, <1>3, <1>5, SumAtLeast, SumNat
  <2> QED BY <1>2, <1>6, <2>1
<1> QED BY <1>7 DEF Value

\* Which call of a handler writes which collection of days.
LEMMA LandedByType ==
  ASSUME applied \in [Events -> [C!Slots -> Nat]], NEW e \in Events
  PROVE  /\ e.type = "order.placed" => /\ Landed("restaurant")[e] = applied[e][1]
                                       /\ Landed("branch")[e] = applied[e][2]
                                       /\ Landed("platform")[e] = applied[e][4]
         /\ e.type = "order.delivered" => /\ Landed("restaurant")[e] = applied[e][2]
                                          /\ Landed("branch")[e] = applied[e][3]
                                          /\ Landed("platform")[e] = applied[e][4]
         /\ e.type = "order.rejected" => /\ Landed("restaurant")[e] = applied[e][1]
                                         /\ Landed("branch")[e] = applied[e][2]
                                         /\ Landed("platform")[e] = applied[e][4]
         /\ e.type = "payment.completed" => /\ Landed("restaurant")[e] = 0
                                            /\ Landed("branch")[e] = 0
                                            /\ Landed("platform")[e] = applied[e][1]
<1>1. \A name : Landed(name)[e] = SumFunctionOnSet(applied[e], SlotsOf(name, e))
  BY DEF Landed, SlotsOf
<1>2. ASSUME NEW name, NEW i \in C!Slots, SlotsOf(name, e) = {i}
      PROVE  Landed(name)[e] = applied[e][i]
  <2>1. applied[e][i] \in Nat
    OBVIOUS
  <2>2. SumFunctionOnSet(applied[e], {i}) = applied[e][i]
    BY <2>1, SumSingle
  <2> QED BY <1>1, <1>2, <2>2
<1>3. ASSUME NEW name, SlotsOf(name, e) = {} PROVE Landed(name)[e] = 0
  BY <1>1, <1>3, SumEmpty
<1>4. 1 \in C!Slots /\ 2 \in C!Slots /\ 3 \in C!Slots /\ 4 \in C!Slots
  BY DEF C!Slots, MaxCalls
<1>5. ASSUME e.type = "order.placed"
      PROVE  /\ SlotsOf("restaurant", e) = {1} /\ SlotsOf("branch", e) = {2}
             /\ SlotsOf("platform", e) = {4}
  <2>1. /\ FanOut(e.type) = <<"restaurant", "branch", "product", "platform", "save">>
        /\ NumCalls[e] = 5
    BY <1>5, FanOuts, CallCounts
  <2> QED BY <2>1 DEF SlotsOf
<1>6. ASSUME e.type = "order.delivered"
      PROVE  /\ SlotsOf("restaurant", e) = {2} /\ SlotsOf("branch", e) = {3}
             /\ SlotsOf("platform", e) = {4}
  <2>1. FanOut(e.type) = <<"find", "restaurant", "branch", "platform">> /\ NumCalls[e] = 4
    BY <1>6, FanOuts, CallCounts
  <2> QED BY <2>1 DEF SlotsOf
<1>7. ASSUME e.type = "order.rejected"
      PROVE  /\ SlotsOf("restaurant", e) = {1} /\ SlotsOf("branch", e) = {2}
             /\ SlotsOf("platform", e) = {4}
  <2>1. FanOut(e.type) = <<"restaurant", "branch", "find", "platform">> /\ NumCalls[e] = 4
    BY <1>7, FanOuts, CallCounts
  <2> QED BY <2>1 DEF SlotsOf
<1>8. ASSUME e.type = "payment.completed"
      PROVE  /\ SlotsOf("restaurant", e) = {} /\ SlotsOf("branch", e) = {}
             /\ SlotsOf("platform", e) = {1}
  <2>1. FanOut(e.type) = <<"platform">> /\ NumCalls[e] = 1
    BY <1>8, FanOuts, CallCounts
  <2> QED BY <2>1 DEF SlotsOf
<1> QED BY <1>2, <1>3, <1>4, <1>5, <1>6, <1>7, <1>8

\* Which fields the events of a type count for.
LEMMA CountingByType ==
  ASSUME NEW e \in Events
  PROVE  /\ e \in Counting("orders_count") <=> e.type = "order.placed"
         /\ e \in Counting("revenue_sum") <=> e.type = "order.placed"
         /\ e \in Counting("delivery_ms_count") <=> e.type = "order.delivered"
         /\ e \in Counting("delivery_ms_sum") <=> e.type = "order.delivered"
         /\ e \in Counting("failed_count") <=> e.type = "order.rejected"
         /\ e \in Counting("online_payments_count") <=> e.type = "payment.completed"
         /\ e \in Counting("online_payments_amount_sum") <=> e.type = "payment.completed"
<1>1. e.type \in EventTypes
  BY EventsAssumption
<1>2. CASE e.type = "order.placed"
  <2>1. DOMAIN Amounts(e) = {"orders_count", "revenue_sum"}
    BY <1>2, AmountsByType
  <2> QED BY <1>2, <2>1 DEF Counting
<1>3. CASE e.type = "order.delivered"
  <2>1. DOMAIN Amounts(e) = {"delivery_ms_count", "delivery_ms_sum"}
    BY <1>3, AmountsByType
  <2> QED BY <1>3, <2>1 DEF Counting
<1>4. CASE e.type = "order.rejected"
  <2>1. DOMAIN Amounts(e) = {"failed_count"}
    BY <1>4, AmountsByType
  <2> QED BY <1>4, <2>1 DEF Counting
<1>5. CASE e.type = "payment.completed"
  <2>1. DOMAIN Amounts(e) = {"online_payments_count", "online_payments_amount_sum"}
    BY <1>5, AmountsByType
  <2> QED BY <1>5, <2>1 DEF Counting
<1> QED BY <1>1, <1>2, <1>3, <1>4, <1>5 DEF EventTypes

-----------------------------------------------------------------------------
\* Some event has placed order o and run its handler to the last call.
PlacedInFull(o) ==
  \E p \in Events : p.type = "order.placed" /\ p.order = o /\ applied[p][5] > 0

\* What is saved, and what a delivery has looked up, was placed in full: the row
\* may be gone by then, so the landed lookup has to remember it.
Saved ==
  /\ \A o \in DOMAIN orderContexts : PlacedInFull(o)
  /\ \A e \in Events : e.type = "order.delivered" /\ applied[e][1] > 0 => PlacedInFull(e.order)

\* A call lands at its slot; no count ever falls.
LEMMA AppliedGrows ==
  ASSUME ConsumerFacts, NEW e \in Events, NEW i \in 1 .. NumCalls[e],
         applied' = [applied EXCEPT ![e][i] = @ + 1]
  PROVE  /\ applied'[e][i] > 0
         /\ \A d \in Events, j \in C!Slots : /\ applied'[d][j] >= applied[d][j]
                                             /\ d # e \/ j # i => applied'[d][j] = applied[d][j]
<1>1. i \in C!Slots
  BY SlotsFinite
<1>2. applied \in [Events -> [C!Slots -> Nat]]
  BY DEF ConsumerFacts, C!TypeOK
<1>3. applied'[e][i] = applied[e][i] + 1 /\ applied[e][i] \in Nat
  BY <1>1, <1>2
<1>4. \A d \in Events, j \in C!Slots : d # e \/ j # i => applied'[d][j] = applied[d][j]
  BY <1>1, <1>2
<1>5. \A d \in Events, j \in C!Slots : applied[d][j] \in Nat
  BY <1>2
<1> QED BY <1>3, <1>4, <1>5

\* The context is the last call of OnOrderPlaced, so it is saved after the others.
LEMMA SavedStep ==
  ASSUME ConsumerFacts, Saved, [Next]_vars
  PROVE  Saved'
<1>1. ASSUME UNCHANGED applied, DOMAIN orderContexts' \subseteq DOMAIN orderContexts
      PROVE  Saved'
  BY <1>1 DEF Saved, PlacedInFull
<1>2. CASE Quiet
  BY <1>1, <1>2 DEF Quiet, collections
<1>3. ASSUME NEW o \in DOMAIN Order, ReapContext(o) PROVE Saved'
  BY <1>1, <1>3 DEF ReapContext
<1>4. ASSUME NEW w \in Workers, NEW e \in Events, NEW i \in 1 .. NumCalls[e],
             NEW lines \in SUBSET Lines(e), Call(w, e, i, lines)
      PROVE  Saved'
  <2> DEFINE call == FanOut(e.type)[i]
  <2>1. CallKeeps(w, e, i, lines)
    BY <1>4, EffectKeeps DEF Call
  <2>2. /\ applied'[e][i] > 0
        /\ \A d \in Events, j \in C!Slots : /\ applied'[d][j] >= applied[d][j]
                                            /\ d # e \/ j # i => applied'[d][j] = applied[d][j]
    BY <1>4, AppliedGrows DEF Call
  <2>3. /\ 1 \in C!Slots /\ 5 \in C!Slots
        /\ \A d \in Events, j \in C!Slots : applied[d][j] \in Nat /\ applied'[d][j] \in Int
    <3>1. 1 \in C!Slots /\ 5 \in C!Slots /\ i \in C!Slots
      BY SlotsFinite DEF C!Slots, MaxCalls
    <3>2. applied \in [Events -> [C!Slots -> Nat]]
      BY DEF ConsumerFacts, C!TypeOK
    <3>3. applied' \in [Events -> [C!Slots -> Nat]]
      <4> DEFINE row == [applied[e] EXCEPT ![i] = @ + 1]
      <4>1. row \in [C!Slots -> Nat]
        BY <3>1, <3>2
      <4>2. applied' = [applied EXCEPT ![e] = row]
        BY <1>4 DEF Call
      <4> QED BY <3>2, <4>1, <4>2
    <3> QED BY <3>1, <3>2, <3>3
  <2>4. \A o : PlacedInFull(o) => PlacedInFull(o)'
    BY <2>2, <2>3 DEF PlacedInFull
  <2>5. call = "save" => PlacedInFull(e.order)'
    <3>1. call = "save" => e.type = "order.placed"
      BY <2>1 DEF CallKeeps
    <3>2. e.type = "order.placed" /\ call = "save" => i = 5
      BY FanOuts, CallCounts
    <3> QED BY <2>2, <3>1, <3>2 DEF PlacedInFull
  <2>6. \A o \in DOMAIN orderContexts' : PlacedInFull(o)'
    BY <2>1, <2>4, <2>5 DEF CallKeeps, Saved
  <2>7. ASSUME NEW d \in Events, d.type = "order.delivered", applied'[d][1] > 0
        PROVE  PlacedInFull(d.order)'
    <3>1. CASE d = e /\ i = 1
      <4>1. call = "find"
        BY <2>7, <3>1, FanOuts
      <4> QED BY <2>1, <2>4, <3>1, <4>1 DEF CallKeeps, Saved
    <3>2. CASE d # e \/ i # 1
      BY <2>2, <2>3, <2>4, <2>7, <3>2 DEF Saved
    <3> QED BY <3>1, <3>2
  <2> QED BY <2>6, <2>7 DEF Saved
<1> QED BY <1>2, <1>3, <1>4, StepKinds

\* So an order with a saved context has had every call of its event.
LEMMA SavedCorrect == Spec => []Saved
<1>1. Init => Saved
  <2> SUFFICES ASSUME Init PROVE Saved
    OBVIOUS
  <2>1. DOMAIN orderContexts = {} /\ \A e \in Events : applied[e] = [i \in C!Slots |-> 0]
    BY DEF Init, NoRows, Consumer!Init, Consumer!Slots, C!Slots
  <2>2. 1 \in C!Slots
    BY DEF C!Slots, MaxCalls
  <2> QED BY <2>1, <2>2 DEF Saved
<1>2. ConsumerFacts /\ Saved /\ [Next]_vars => Saved'
  BY SavedStep
<1> QED BY <1>1, <1>2, ConsumerCorrect, PTL DEF Spec

\* A delivery that has counted anywhere is of an order that has counted
\* everywhere.
LEMMA DeliveredOrder ==
  ASSUME ConsumerFacts, Saved, NEW e \in Events, e.type = "order.delivered",
         NEW i \in {2, 3, 4}, applied[e][i] > 0
  PROVE  \E p \in Events : /\ p.type = "order.placed" /\ p.order = e.order
                           /\ applied[p][1] > 0 /\ applied[p][2] > 0 /\ applied[p][4] > 0
<1>1. /\ C!FanOutInOrder /\ NumCalls[e] = 4
      /\ \A d \in Events, j \in 1 .. 5 : applied[d][j] \in Nat
  BY CallCounts DEF ConsumerFacts, C!Counting, C!TypeOK, C!Slots, MaxCalls
<1>2. applied[e][i] <= applied[e][1]
  <2>1. 1 \in 1 .. NumCalls[e] /\ i \in 1 .. NumCalls[e] /\ 1 < i
    BY <1>1
  <2> QED BY <1>1, <2>1 DEF C!FanOutInOrder
<1>3. PICK p \in Events : p.type = "order.placed" /\ p.order = e.order /\ applied[p][5] > 0
  <2>1. applied[e][1] > 0
    BY <1>1, <1>2
  <2> QED BY <2>1 DEF Saved, PlacedInFull
<1>4. NumCalls[p] = 5
  BY <1>3, CallCounts
<1>5. \A j \in {1, 2, 4} : applied[p][5] <= applied[p][j]
  <2>1. \A j \in {1, 2, 4} : j \in 1 .. NumCalls[p] /\ 5 \in 1 .. NumCalls[p] /\ j < 5
    BY <1>4
  <2> QED BY <1>1, <2>1 DEF C!FanOutInOrder
<1> QED BY <1>1, <1>3, <1>5

\* In one collection: a document with a delivery has an order, when the landed
\* calls of a delivery and of its order go to the same document.
LEMMA OrdersFirst ==
  ASSUME NEW coll, NEW fields, NEW landed, NEW keys, AddsUp(coll, fields, landed, keys),
         \A e \in Events : landed[e] \in Nat,
         "orders_count" \in fields, "delivery_ms_count" \in fields,
         \A e \in Events : e.type = "order.delivered" /\ landed[e] > 0 =>
           \E p \in Events : p.type = "order.placed" /\ keys[p] = keys[e] /\ landed[p] > 0
  PROVE  \A k \in DOMAIN coll : coll[k].delivery_ms_count > 0 => coll[k].orders_count > 0
<1> SUFFICES ASSUME NEW k \in DOMAIN coll, coll[k].delivery_ms_count > 0
             PROVE  coll[k].orders_count > 0
  OBVIOUS
<1>1. PICK e \in Counting("delivery_ms_count") : keys[e] = k /\ landed[e] > 0
  BY EffectsPositive
<1>2. e \in Events /\ e.type = "order.delivered"
  BY <1>1, CountingByType DEF Counting
<1>3. PICK p \in Events : p.type = "order.placed" /\ keys[p] = keys[e] /\ landed[p] > 0
  BY <1>1, <1>2
<1>4. p \in Counting("orders_count") /\ Amounts(p)["orders_count"] = 1
  BY <1>3, CountingByType, AmountsByType
<1>5. coll[keys[p]]["orders_count"] > 0
  BY <1>3, <1>4, EffectsShow
<1> QED BY <1>1, <1>3, <1>5

\* No day shows a delivery before it shows an order: the context that the
\* delivery needs is written last (OnOrderPlaced).
THEOREM DeliveriesFollowOrders == Spec => []DeliveredAfterPlaced
<1>1. ASSUME ConsumerFacts, Saved, RowsMatchEffects PROVE DeliveredAfterPlaced
  <2>1. applied \in [Events -> [C!Slots -> Nat]]
    BY <1>1 DEF ConsumerFacts, C!TypeOK
  <2>2. \A name : \A e \in Events : Landed(name)[e] \in Nat
    BY <2>1, LandedCounts
  <2>3. ASSUME NEW e \in Events, e.type = "order.delivered",
               NEW name \in {"restaurant", "branch", "platform"}, Landed(name)[e] > 0
        PROVE  \E p \in Events : /\ p.type = "order.placed" /\ p.order = e.order
                                 /\ Landed("restaurant")[p] > 0 /\ Landed("branch")[p] > 0
                                 /\ Landed("platform")[p] > 0
    <3>1. \E i \in {2, 3, 4} : applied[e][i] > 0
      BY <2>1, <2>3, LandedByType
    <3>2. PICK p \in Events : /\ p.type = "order.placed" /\ p.order = e.order
                              /\ applied[p][1] > 0 /\ applied[p][2] > 0 /\ applied[p][4] > 0
      BY <1>1, <2>3, <3>1, DeliveredOrder
    <3> QED BY <2>1, <3>2, LandedByType
  <2>4. \A e, p \in Events :
          e.type = "order.delivered" /\ p.type = "order.placed" /\ p.order = e.order =>
            /\ RestaurantKeys[p] = RestaurantKeys[e] /\ BranchKeys[p] = BranchKeys[e]
            /\ PlatformKeys[p] = PlatformKeys[e]
    BY DEF RestaurantKeys, BranchKeys, PlatformKeys, DayOf, PlacedOn
  <2>5. /\ "orders_count" \in DayFields /\ "delivery_ms_count" \in DayFields
        /\ "orders_count" \in DOMAIN ZeroPlatformDay
        /\ "delivery_ms_count" \in DOMAIN ZeroPlatformDay
    BY DEF DayFields, ZeroDay, ZeroPlatformDay
  <2>6. \A k \in DOMAIN restaurantDays :
          restaurantDays[k].delivery_ms_count > 0 => restaurantDays[k].orders_count > 0
    <3>1. AddsUp(restaurantDays, DayFields, Landed("restaurant"), RestaurantKeys)
      BY <1>1 DEF RowsMatchEffects
    <3> QED BY <2>2, <2>3, <2>4, <2>5, <3>1, OrdersFirst
  <2>7. \A k \in DOMAIN branchDays :
          branchDays[k].delivery_ms_count > 0 => branchDays[k].orders_count > 0
    <3>1. AddsUp(branchDays, DayFields, Landed("branch"), BranchKeys)
      BY <1>1 DEF RowsMatchEffects
    <3> QED BY <2>2, <2>3, <2>4, <2>5, <3>1, OrdersFirst
  <2>8. \A k \in DOMAIN platformDays :
          platformDays[k].delivery_ms_count > 0 => platformDays[k].orders_count > 0
    <3>1. AddsUp(platformDays, DOMAIN ZeroPlatformDay, Landed("platform"), PlatformKeys)
      BY <1>1 DEF RowsMatchEffects
    <3> QED BY <2>2, <2>3, <2>4, <2>5, <3>1, OrdersFirst
  <2> QED BY <2>6, <2>7, <2>8 DEF DeliveredAfterPlaced
<1> QED BY <1>1, ConsumerCorrect, SavedCorrect, EffectsCorrect, PTL

-----------------------------------------------------------------------------
\* What the landed calls of all events book to day d.
DayEffects(landed, f, d) == Effects(landed, f, {e \in Counting(f) : DayOf(e) = d})

\* A field summed over the documents of a day is what landed for that day.
LEMMA DaySumIsEffects ==
  ASSUME NEW coll, NEW fields, NEW landed, NEW keys, AddsUp(coll, fields, landed, keys),
         \A e \in Events : landed[e] \in Nat,
         NEW i, \A e \in Events : keys[e][i] = DayOf(e),
         NEW f \in fields, NEW d
  PROVE  DaySum(coll, i, d, f) = DayEffects(landed, f, d)
<1> DEFINE S == {e \in Counting(f) : DayOf(e) = d}
           g == [e \in S |-> landed[e] * Amounts(e)[f]]
           K == {keys[e] : e \in S}
           found == {k \in DOMAIN coll : k[i] = d}
           value == [k \in K \cup found |-> Value(coll, k, f)]
           key == [e \in S |-> keys[e]]
<1>1. \A m, n \in Nat : m * n \in Nat /\ 0 * n = 0
  OBVIOUS
<1>2. /\ IsFiniteSet(S) /\ S \subseteq Events
      /\ \A e \in S : landed[e] \in Nat /\ Amounts(e)[f] \in Nat
  BY EventsAssumption, FS_Subset, AmountsCount DEF Counting
<1>3. Counts(g, S)
  BY <1>1, <1>2 DEF Counts
<1>4. IsFiniteSet(Events) /\ IsFiniteSet(K) /\ IsFiniteSet(K \cup found)
  <2>1. IsFiniteSet({keys[e] : e \in Events})
    BY EventsAssumption, FiniteImage
  <2>2. K \cup found \subseteq {keys[e] : e \in Events}
    BY <1>2 DEF AddsUp
  <2> QED BY EventsAssumption, <2>1, <2>2, FS_Subset
<1>5. ASSUME NEW e \in Events, keys[e][i] = d
      PROVE  Value(coll, keys[e], f) = SumFunctionOnSet(g, {c \in S : key[c] = keys[e]})
  <2> DEFINE T == {c \in Counting(f) : keys[c] = keys[e]}
             h == [c \in T |-> landed[c] * Amounts(c)[f]]
  <2>1. T = {c \in S : key[c] = keys[e]}
    BY <1>5 DEF Counting
  <2>2. IsFiniteSet(T) /\ \A c \in T : h[c] = g[c]
    BY <1>2, <2>1, FS_Subset
  <2>3. Value(coll, keys[e], f) = SumFunctionOnSet(h, T)
    BY DEF AddsUp, Effects
  <2> HIDE DEF T, h, g
  <2>4. SumFunctionOnSet(h, T) = SumFunctionOnSet(g, T)
    BY <2>2, SumSame
  <2> QED BY <2>1, <2>3, <2>4
<1>6. \A k \in K : value[k] = SumFunctionOnSet(g, Under(key, S, k))
  BY <1>2, <1>5 DEF Under
<1>7. \A e \in S : key[e] \in K
  OBVIOUS
<1>8. ASSUME NEW k \in found, k \notin K PROVE value[k] = 0
  <2>1. PICK e \in Events : keys[e] = k
    BY <1>8 DEF AddsUp
  <2>2. {c \in S : key[c] = keys[e]} = {}
    BY <1>8, <2>1
  <2> HIDE DEF S, g, key, K
  <2>3. Value(coll, k, f) = 0
    BY <1>5, <1>8, <2>1, <2>2, SumEmpty
  <2> QED BY <2>3
<1>9. ASSUME NEW k \in K, k \notin found PROVE value[k] = 0
  <2>1. PICK e \in S : k = keys[e]
    OBVIOUS
  <2>2. k[i] = d
    BY <1>2, <2>1
  <2> QED BY <1>9, <2>2 DEF Value
<1>10. DaySum(coll, i, d, f) = SumFunctionOnSet(value, found)
  <2> DEFINE old == [k \in found |-> coll[k][f]]
  <2>1. IsFiniteSet(found) /\ \A k \in found : old[k] = value[k]
    BY <1>4, FS_Subset DEF Value
  <2>2. DaySum(coll, i, d, f) = SumFunctionOnSet(old, found)
    BY DEF DaySum
  <2> HIDE DEF found, old, value
  <2> QED BY <2>1, <2>2, SumSame
<1>11. DayEffects(landed, f, d) = SumFunctionOnSet(g, S)
  BY DEF DayEffects, Effects
<1> HIDE DEF S, g, K, found, value, key
<1>12. SumFunctionOnSet(value, K) = SumFunctionOnSet(g, S)
  <2>1. IsFiniteSet(K) /\ IsFiniteSet(S)
    BY <1>2, <1>4
  <2> QED BY <1>3, <1>6, <1>7, <2>1, SumByKey
<1>13. Counts(value, K \cup found)
  <2>1. \A k \in K : value[k] \in Nat
    <3> SUFFICES ASSUME NEW k \in K PROVE value[k] \in Nat
      OBVIOUS
    <3>1. IsFiniteSet(Under(key, S, k)) /\ Counts(g, Under(key, S, k))
      BY <1>2, <1>3, FS_Subset DEF Counts, Under
    <3> QED BY <1>6, <3>1, SumNat
  <2> QED BY <1>8, <2>1 DEF Counts
<1>14. SumFunctionOnSet(value, K \cup found) = SumFunctionOnSet(value, K)
  BY <1>4, <1>8, <1>13, SumSupport
<1>15. SumFunctionOnSet(value, K \cup found) = SumFunctionOnSet(value, found)
  BY <1>4, <1>9, <1>13, SumSupport
<1> QED BY <1>10, <1>11, <1>12, <1>14, <1>15

\* The days of the three collections, as sums of what landed.
LEMMA DaySums ==
  ASSUME ConsumerFacts, RowsMatchEffects, NEW d
  PROVE  /\ \A f \in DayFields :
              /\ DaySum(restaurantDays, 2, d, f) = DayEffects(Landed("restaurant"), f, d)
              /\ DaySum(branchDays, 2, d, f) = DayEffects(Landed("branch"), f, d)
         /\ \A f \in DOMAIN ZeroPlatformDay :
              DaySum(platformDays, 1, d, f) = DayEffects(Landed("platform"), f, d)
<1>1. \A name : \A e \in Events : Landed(name)[e] \in Nat
  BY LandedCounts DEF ConsumerFacts, C!TypeOK
<1>2. \A e \in Events : /\ RestaurantKeys[e][2] = DayOf(e) /\ BranchKeys[e][2] = DayOf(e)
                        /\ PlatformKeys[e][1] = DayOf(e)
  BY DEF RestaurantKeys, BranchKeys, PlatformKeys
<1>3. ASSUME NEW f \in DayFields
      PROVE  DaySum(restaurantDays, 2, d, f) = DayEffects(Landed("restaurant"), f, d)
  BY <1>1, <1>2, DaySumIsEffects DEF RowsMatchEffects
<1>4. ASSUME NEW f \in DayFields
      PROVE  DaySum(branchDays, 2, d, f) = DayEffects(Landed("branch"), f, d)
  BY <1>1, <1>2, DaySumIsEffects DEF RowsMatchEffects
<1>5. ASSUME NEW f \in DOMAIN ZeroPlatformDay
      PROVE  DaySum(platformDays, 1, d, f) = DayEffects(Landed("platform"), f, d)
  BY <1>1, <1>2, DaySumIsEffects DEF RowsMatchEffects
<1> QED BY <1>3, <1>4, <1>5

\* Calls that landed more often book at least as much.
LEMMA EffectsMonotone ==
  ASSUME NEW less, NEW more, NEW f, NEW S \in SUBSET Counting(f),
         \A e \in S : less[e] \in Nat /\ more[e] \in Nat /\ less[e] <= more[e]
  PROVE  Effects(less, f, S) <= Effects(more, f, S)
<1> DEFINE a == [e \in S |-> less[e] * Amounts(e)[f]]
           b == [e \in S |-> more[e] * Amounts(e)[f]]
<1>1. ASSUME NEW m \in Nat, NEW n \in Nat, NEW x \in Nat, m <= n
      PROVE  m * x \in Nat /\ n * x \in Nat /\ m * x <= n * x
  <2>1. n * x = m * x + (n - m) * x /\ (n - m) * x \in Nat /\ m * x \in Nat
    BY <1>1
  <2> QED BY <2>1
<1>2. IsFiniteSet(S) /\ \A e \in S : Amounts(e)[f] \in Nat
  BY EventsAssumption, FS_Subset, AmountsCount DEF Counting
<1>3. \A e \in S : a[e] \in Nat /\ b[e] \in Nat /\ a[e] <= b[e]
  BY <1>1, <1>2
<1> HIDE DEF a, b
<1>4. SumFunctionOnSet(a, S) <= SumFunctionOnSet(b, S)
  BY <1>2, <1>3, SumMonotone DEF Counts
<1> QED BY <1>4 DEF Effects, a, b

\* A handler writes the restaurant before the branch, and the branch before the
\* platform.
LEMMA LandedInOrder ==
  ASSUME ConsumerFacts, NEW e \in Events, e.type # "payment.completed"
  PROVE  /\ Landed("branch")[e] <= Landed("restaurant")[e]
         /\ Landed("platform")[e] <= Landed("branch")[e]
<1>1. applied \in [Events -> [C!Slots -> Nat]] /\ C!FanOutInOrder /\ e.type \in EventTypes
  BY EventsAssumption DEF ConsumerFacts, C!TypeOK, C!Counting
<1>2. NumCalls[e] \in Nat /\ 4 <= NumCalls[e]
  BY <1>1, CallCounts DEF EventTypes, MaxCalls
<1>3. \A i, j \in {1, 2, 3, 4} : i < j => applied[e][j] <= applied[e][i]
  <2>1. \A i \in {1, 2, 3, 4} : i \in 1 .. NumCalls[e]
    BY <1>2
  <2> QED BY <1>1, <2>1 DEF C!FanOutInOrder
<1>4. /\ applied[e][2] <= applied[e][1] /\ applied[e][3] <= applied[e][2]
      /\ applied[e][4] <= applied[e][2] /\ applied[e][4] <= applied[e][3]
  BY <1>3
<1> QED BY <1>1, <1>4, LandedByType DEF EventTypes

\* On every day the restaurants are at least as far as the branches and these as
\* the platform, whatever fails in between (the order of the calls in On*).
THEOREM NarrowerAhead == Spec => []PlatformNeverAhead
<1>1. ASSUME ConsumerFacts, RowsMatchEffects PROVE PlatformNeverAhead
  <2> SUFFICES ASSUME NEW d \in Dates, NEW f \in DayFields
               PROVE  /\ DaySum(branchDays, 2, d, f) <= DaySum(restaurantDays, 2, d, f)
                      /\ DaySum(platformDays, 1, d, f) <= DaySum(branchDays, 2, d, f)
    BY DEF PlatformNeverAhead
  <2> DEFINE S == {e \in Counting(f) : DayOf(e) = d}
  <2>1. f \in DOMAIN ZeroPlatformDay
    BY DEF DayFields, ZeroDay, ZeroPlatformDay
  <2>2. ASSUME NEW e \in S PROVE e \in Events /\ e.type # "payment.completed"
    <3>1. f # "online_payments_count" /\ f # "online_payments_amount_sum"
      BY DEF DayFields, ZeroDay
    <3>2. f \in {"orders_count", "revenue_sum", "delivery_ms_sum", "delivery_ms_count",
                 "failed_count"}
      BY DEF DayFields, ZeroDay
    <3> QED BY <3>2, CountingByType DEF Counting
  <2>3. \A name : \A e \in Events : Landed(name)[e] \in Nat
    BY <1>1, LandedCounts DEF ConsumerFacts, C!TypeOK
  <2>4. \A e \in S : /\ Landed("branch")[e] <= Landed("restaurant")[e]
                     /\ Landed("platform")[e] <= Landed("branch")[e]
    BY <1>1, <2>2, LandedInOrder
  <2>5. Effects(Landed("branch"), f, S) <= Effects(Landed("restaurant"), f, S)
    BY <2>2, <2>3, <2>4, EffectsMonotone
  <2>6. Effects(Landed("platform"), f, S) <= Effects(Landed("branch"), f, S)
    BY <2>2, <2>3, <2>4, EffectsMonotone
  <2> QED BY <1>1, <2>1, <2>5, <2>6, DaySums DEF DayEffects
<1> QED BY <1>1, ConsumerCorrect, EffectsCorrect, PTL

-----------------------------------------------------------------------------
\* After a clean end every call before a lookup has landed exactly once.
LEMMA CleanLandsOnce ==
  ASSUME ConsumerFacts, C!NothingLost, Clean, NEW e \in Events, NEW i \in 1 .. NumCalls[e],
         \A j \in 1 .. i : FanOut(e.type)[j] # "find"
  PROVE  applied[e][i] = 1
<1>1. /\ sent[e] > 0 /\ ready[e] = 0 /\ dlq[e] = 0 /\ erased[e] = 0 /\ e \notin orphaned
      /\ \A w \in Workers : cur[w] # e
  BY DEF Clean
<1>2. completed[e] \in Nat /\ completed[e] # 0
  BY <1>1 DEF C!NothingLost, C!InCustody, C!HasCustody, ConsumerFacts, C!TypeOK
<1>3. completed[e] <= applied[e][i]
  <2>1. \A j \in 1 .. i : <<e, j>> \notin Finds
    BY DEF Finds
  <2> QED BY <2>1 DEF ConsumerFacts, C!Counting, C!CompletedInFull
<1>4. i \in C!Slots /\ applied[e][i] \in Nat
  BY SlotsFinite DEF ConsumerFacts, C!TypeOK
<1>5. applied[e][i] <= 1
  BY <1>1, <1>4 DEF ConsumerFacts, C!Counting, C!AtMostOncePerMark
<1> QED BY <1>2, <1>3, <1>4, <1>5

\* Calls that landed once book the true total.
LEMMA OnceIsTrue ==
  ASSUME NEW landed, NEW f, NEW d, \A e \in Counting(f) : landed[e] = 1
  PROVE  DayEffects(landed, f, d) = TrueTotal(d, f)
<1> DEFINE S == {e \in Counting(f) : DayOf(e) = d}
           a == [e \in S |-> landed[e] * Amounts(e)[f]]
           b == [e \in S |-> Amounts(e)[f]]
<1>1. IsFiniteSet(S) /\ \A e \in S : Amounts(e)[f] \in Nat
  BY EventsAssumption, FS_Subset, AmountsCount DEF Counting
<1>2. \A n \in Nat : 1 * n = n
  OBVIOUS
<1>3. \A e \in S : a[e] = b[e]
  BY <1>1, <1>2
<1> HIDE DEF a, b
<1>4. SumFunctionOnSet(a, S) = SumFunctionOnSet(b, S)
  BY <1>1, <1>3, SumSame
<1> QED BY <1>4 DEF DayEffects, Effects, TrueTotal, a, b

\* However events are ordered, duplicated and redelivered, a clean end counts
\* what comes before a lookup exactly once (README.md, on replays).
THEOREM CleanCountsOnce == Spec => []CountedOnce
<1>1. ASSUME ConsumerFacts, C!NothingLost, RowsMatchEffects PROVE CountedOnce
  <2> SUFFICES ASSUME Clean, NEW d \in Dates
               PROVE  /\ \A f \in {"orders_count", "revenue_sum", "failed_count"} :
                           /\ DaySum(restaurantDays, 2, d, f) = TrueTotal(d, f)
                           /\ DaySum(branchDays, 2, d, f) = TrueTotal(d, f)
                      /\ \A f \in {"orders_count", "revenue_sum",
                                   "online_payments_count", "online_payments_amount_sum"} :
                           DaySum(platformDays, 1, d, f) = TrueTotal(d, f)
    BY DEF CountedOnce
  <2>1. applied \in [Events -> [C!Slots -> Nat]]
    BY <1>1 DEF ConsumerFacts, C!TypeOK
  <2>2. ASSUME NEW e \in Events, e.type = "order.placed"
        PROVE  /\ Landed("restaurant")[e] = 1 /\ Landed("branch")[e] = 1
               /\ Landed("platform")[e] = 1
    <3>1. /\ FanOut(e.type) = <<"restaurant", "branch", "product", "platform", "save">>
          /\ NumCalls[e] = 5
      BY <2>2, FanOuts, CallCounts
    <3>2. \A i \in {1, 2, 4} : /\ i \in 1 .. NumCalls[e]
                               /\ \A j \in 1 .. i : FanOut(e.type)[j] # "find"
      BY <3>1
    <3>3. \A i \in {1, 2, 4} : applied[e][i] = 1
      BY <1>1, <3>2, CleanLandsOnce
    <3> QED BY <2>1, <2>2, <3>3, LandedByType
  <2>3. ASSUME NEW e \in Events, e.type = "order.rejected"
        PROVE  Landed("restaurant")[e] = 1 /\ Landed("branch")[e] = 1
    <3>1. FanOut(e.type) = <<"restaurant", "branch", "find", "platform">> /\ NumCalls[e] = 4
      BY <2>3, FanOuts, CallCounts
    <3>2. \A i \in {1, 2} : /\ i \in 1 .. NumCalls[e]
                            /\ \A j \in 1 .. i : FanOut(e.type)[j] # "find"
      BY <3>1
    <3>3. \A i \in {1, 2} : applied[e][i] = 1
      BY <1>1, <3>2, CleanLandsOnce
    <3> QED BY <2>1, <2>3, <3>3, LandedByType
  <2>4. ASSUME NEW e \in Events, e.type = "payment.completed"
        PROVE  Landed("platform")[e] = 1
    <3>1. FanOut(e.type) = <<"platform">> /\ NumCalls[e] = 1
      BY <2>4, FanOuts, CallCounts
    <3>2. 1 \in 1 .. NumCalls[e] /\ \A j \in 1 .. 1 : FanOut(e.type)[j] # "find"
      BY <3>1
    <3>3. applied[e][1] = 1
      BY <1>1, <3>2, CleanLandsOnce
    <3> QED BY <2>1, <2>4, <3>3, LandedByType
  <2>5. ASSUME NEW f \in {"orders_count", "revenue_sum", "failed_count"}
        PROVE  /\ DaySum(restaurantDays, 2, d, f) = TrueTotal(d, f)
               /\ DaySum(branchDays, 2, d, f) = TrueTotal(d, f)
    <3>1. f \in DayFields
      BY DEF DayFields, ZeroDay
    <3>2. \A e \in Counting(f) : Landed("restaurant")[e] = 1 /\ Landed("branch")[e] = 1
      BY <2>2, <2>3, <2>5, CountingByType DEF Counting
    <3> QED BY <1>1, <3>1, <3>2, DaySums, OnceIsTrue
  <2>6. ASSUME NEW f \in {"orders_count", "revenue_sum",
                          "online_payments_count", "online_payments_amount_sum"}
        PROVE  DaySum(platformDays, 1, d, f) = TrueTotal(d, f)
    <3>1. f \in DOMAIN ZeroPlatformDay
      BY DEF ZeroPlatformDay
    <3>2. \A e \in Counting(f) : Landed("platform")[e] = 1
      BY <2>2, <2>4, <2>6, CountingByType DEF Counting
    <3> QED BY <1>1, <3>1, <3>2, DaySums, OnceIsTrue
  <2> QED BY <2>5, <2>6
<1>2. C!Spec => []C!NothingLost
  <2>1. C!Spec => [](C!MarkIsHonest /\ C!NothingLost)
    BY ConsumerAssumptions, C!CustodyCorrect
  <2> QED BY <2>1, PTL
<1> QED BY <1>1, <1>2, ConsumerCorrect, ConsumerSpec, EffectsCorrect, PTL

-----------------------------------------------------------------------------
\* The events that sell at the branch and on the day of a product's document, and
\* what they have sold of it.
PlacedAt(k) ==
  {e \in Events : /\ e.type = "order.placed"
                  /\ Order[e.order].branch = k[1]
                  /\ PlacedOn(e) = k[3]}
SoldAt(k, f) == SumFunctionOnSet([e \in PlacedAt(k) |-> Sold(e, k[2], f)], PlacedAt(k))

ItemKeys == UNION {{ItemKey(e, l) : l \in Lines(e)} : e \in Events}

\* Every product's document, the missing ones included, is what its lines sold.
ItemsInStep ==
  /\ lineApplied = [e \in Events |-> lineApplied[e]]
  /\ \A e \in Events : lineApplied[e] \in [Lines(e) -> Nat]
  /\ DOMAIN productDays \subseteq ItemKeys
  /\ \A k \in ItemKeys :
       /\ Value(productDays, k, "quantity_sum") = SoldAt(k, "quantity")
       /\ Value(productDays, k, "revenue_sum") = SoldAt(k, "lineTotal")

\* The lines of e for a product.
LinesOf(e, lines, product) == {l \in lines : Order[e.order].items[l].product = product}

\* What a product's lines of e have sold is a count.
LEMMA SoldCounts ==
  ASSUME NEW e \in Events, lineApplied[e] \in [Lines(e) -> Nat], NEW product,
         NEW f \in {"quantity", "lineTotal"}
  PROVE  Sold(e, product, f) \in Nat
<1> DEFINE L == {l \in Lines(e) : Order[e.order].items[l].product = product}
           g == [l \in L |-> lineApplied[e][l] * Order[e.order].items[l][f]]
<1>1. IsFiniteSet(L) /\ \A l \in L : lineApplied[e][l] \in Nat /\ Order[e.order].items[l][f] \in Nat
  BY EventsAssumption, OrdersAssumption, FS_Subset DEF Lines
<1>2. \A m, n \in Nat : m * n \in Nat
  OBVIOUS
<1>3. Counts(g, L)
  BY <1>1, <1>2 DEF Counts
<1> HIDE DEF g
<1>4. SumFunctionOnSet(g, L) \in Nat
  BY <1>1, <1>3, SumNat
<1> QED BY <1>4 DEF Sold, g

\* The upserts of some lines of e that landed add to what its product has sold.
LEMMA SoldGrows ==
  ASSUME NEW e \in Events, lineApplied[e] \in [Lines(e) -> Nat], NEW lines \in SUBSET Lines(e),
         \A l \in Lines(e) :
           lineApplied'[e][l] = IF l \in lines THEN lineApplied[e][l] + 1 ELSE lineApplied[e][l],
         NEW product, NEW f \in {"quantity", "lineTotal"}
  PROVE  Sold(e, product, f)' = Sold(e, product, f) + LineSum(e, LinesOf(e, lines, product), f)
<1> DEFINE items == Order[e.order].items
           S == LinesOf(e, lines, product)
           L == {l \in Lines(e) : items[l].product = product}
           old == [l \in L |-> lineApplied[e][l] * items[l][f]]
           new == [l \in L |-> lineApplied'[e][l] * items[l][f]]
           more == [l \in L |-> IF l \in S THEN items[l][f] ELSE 0]
           added == [l \in S |-> items[l][f]]
<1>1. /\ IsFiniteSet(L) /\ S \in SUBSET L /\ L \subseteq Lines(e)
      /\ \A l \in L : items[l][f] \in Nat /\ lineApplied[e][l] \in Nat
      /\ \A l \in L : l \in S <=> l \in lines
  BY EventsAssumption, OrdersAssumption, FS_Subset DEF Lines, LinesOf
<1>2. \A m, n \in Nat : m * n \in Nat /\ (m + 1) * n = m * n + n
  OBVIOUS
<1>3. Counts(old, L) /\ Counts(more, L)
  BY <1>1, <1>2 DEF Counts
<1>4. \A l \in L : new[l] = old[l] + more[l]
  <2> SUFFICES ASSUME NEW l \in L PROVE new[l] = old[l] + more[l]
    OBVIOUS
  <2>1. CASE l \in S
    <3>1. lineApplied'[e][l] = lineApplied[e][l] + 1
      BY <1>1, <2>1
    <3> QED BY <1>1, <1>2, <2>1, <3>1
  <2>2. CASE l \notin S
    <3>1. lineApplied'[e][l] = lineApplied[e][l] /\ old[l] \in Nat
      BY <1>1, <1>3, <2>2 DEF Counts
    <3> QED BY <2>2, <3>1
  <2> QED BY <2>1, <2>2
<1>5. /\ \A l \in L \ S : more[l] = 0
      /\ \A l \in S : more[l] = added[l]
  BY <1>1
<1>6. IsFiniteSet(S)
  BY <1>1, FS_Subset
<1>7. /\ Sold(e, product, f)' = SumFunctionOnSet(new, L)
      /\ Sold(e, product, f) = SumFunctionOnSet(old, L)
  BY DEF Sold, Lines
<1> HIDE DEF L, old, new, more, S
<1>8. SumFunctionOnSet(new, L) = SumFunctionOnSet(old, L) + SumFunctionOnSet(more, L)
  BY <1>1, <1>3, <1>4, SumPlus
<1>9. SumFunctionOnSet(more, L) = SumFunctionOnSet(more, S)
  BY <1>1, <1>3, <1>5, SumSupport
<1>10. SumFunctionOnSet(more, S) = SumFunctionOnSet(added, S)
  <2> HIDE DEF added
  <2> QED BY <1>5, <1>6, SumSame
<1> QED BY <1>7, <1>8, <1>9, <1>10 DEF LineSum, S

\* One handler's lines sell more at their own documents and at no other.
LEMMA SoldAtGrows ==
  ASSUME ItemsInStep, NEW e \in Events, e.type = "order.placed", NEW lines \in SUBSET Lines(e),
         lineApplied' = [lineApplied EXCEPT ![e] =
               [l \in Lines(e) |-> IF l \in lines THEN @[l] + 1 ELSE @[l]]],
         NEW k \in ItemKeys, NEW f \in {"quantity", "lineTotal"}
  PROVE  SoldAt(k, f)' = SoldAt(k, f) + LineSum(e, LinesAt(e, lines, k), f)
<1> DEFINE P == PlacedAt(k)
           S == LinesAt(e, lines, k)
           added == LineSum(e, S, f)
           old == [d \in P |-> Sold(d, k[2], f)]
           new == [d \in P |-> Sold(d, k[2], f)']
<1>1. IsFiniteSet(P) /\ P \subseteq Events
  BY EventsAssumption, FS_Subset DEF PlacedAt
<1>2. Counts(old, P)
  BY <1>1, SoldCounts DEF Counts, ItemsInStep
<1>3. \A d \in P \ {e} : new[d] = old[d]
  <2>1. \A d \in Events \ {e} : lineApplied'[d] = lineApplied[d]
    BY DEF ItemsInStep
  <2> QED BY <1>1, <2>1 DEF Sold
<1>4. SoldAt(k, f)' = SumFunctionOnSet(new, P) /\ SoldAt(k, f) = SumFunctionOnSet(old, P)
  BY DEF SoldAt, PlacedAt
<1>5. PICK c \in Events : \E m \in Lines(c) : k = ItemKey(c, m)
  BY DEF ItemKeys
<1>6. /\ k = <<k[1], k[2], k[3]>>
      /\ \A l \in Lines(e) : ItemKey(e, l) = k <=> /\ Order[e.order].branch = k[1]
                                                   /\ Order[e.order].items[l].product = k[2]
                                                   /\ PlacedOn(e) = k[3]
  BY <1>5 DEF ItemKey
<1>7. CASE e \in P
  <2>1. S = LinesOf(e, lines, k[2])
    BY <1>6, <1>7 DEF LinesAt, LinesOf, PlacedAt
  <2>2. /\ lineApplied[e] \in [Lines(e) -> Nat]
        /\ \A l \in Lines(e) :
             lineApplied'[e][l] = IF l \in lines THEN lineApplied[e][l] + 1 ELSE lineApplied[e][l]
    BY DEF ItemsInStep
  <2>3. new[e] = old[e] + added
    <3> HIDE DEF S
    <3>1. Sold(e, k[2], f)' = Sold(e, k[2], f) + added
      BY <2>1, <2>2, SoldGrows
    <3> QED BY <1>7, <3>1
  <2>4. added \in Nat
    <3> DEFINE g == [l \in S |-> Order[e.order].items[l][f]]
    <3>1. IsFiniteSet(S) /\ Counts(g, S)
      BY EventsAssumption, OrdersAssumption, FS_Subset DEF Lines, LinesAt, Counts
    <3> HIDE DEF g, S
    <3>2. SumFunctionOnSet(g, S) \in Nat
      BY <3>1, SumNat
    <3> QED BY <3>2 DEF LineSum, g
  <2> HIDE DEF P, S, added, old, new
  <2>5. SumFunctionOnSet(new, P) = SumFunctionOnSet(old, P) + added
    BY <1>1, <1>2, <1>3, <1>7, <2>3, <2>4, SumBump
  <2> QED BY <1>4, <2>5 DEF added, S
<1>8. CASE e \notin P
  <2>1. S = {}
    BY <1>6, <1>8 DEF LinesAt, PlacedAt
  <2>2. added = 0
    <3> HIDE DEF S
    <3> QED BY <2>1, SumEmpty DEF LineSum
  <2>3. \A d \in P : old[d] = new[d]
    BY <1>3, <1>8
  <2> HIDE DEF P, S, added, old, new
  <2>4. SumFunctionOnSet(old, P) = SumFunctionOnSet(new, P) /\ SumFunctionOnSet(old, P) \in Nat
    BY <1>1, <1>2, <2>3, SumSame, SumNat
  <2> QED BY <1>4, <2>2, <2>4 DEF added, S
<1> QED BY <1>7, <1>8

\* Without products no line has landed.
LEMMA ItemsInit == Init => ItemsInStep
<1> SUFFICES ASSUME Init PROVE ItemsInStep
  OBVIOUS
<1>1. /\ DOMAIN productDays = {}
      /\ lineApplied = [e \in Events |-> [l \in Lines(e) |-> 0]]
  BY DEF Init, NoRows
<1>2. \A e \in Events : lineApplied[e] \in [Lines(e) -> Nat]
  BY <1>1
<1>3. ASSUME NEW e \in Events, NEW product, NEW f \in {"quantity", "lineTotal"}
      PROVE  Sold(e, product, f) = 0
  <2> DEFINE L == {l \in Lines(e) : Order[e.order].items[l].product = product}
             g == [l \in L |-> lineApplied[e][l] * Order[e.order].items[l][f]]
  <2>1. IsFiniteSet(L) /\ \A l \in L : lineApplied[e][l] = 0 /\ Order[e.order].items[l][f] \in Nat
    BY <1>1, EventsAssumption, OrdersAssumption, FS_Subset DEF Lines
  <2>2. \A n \in Nat : 0 * n = 0
    OBVIOUS
  <2>3. \A l \in L : g[l] = 0
    BY <2>1, <2>2
  <2> HIDE DEF g
  <2>4. SumFunctionOnSet(g, L) = 0
    BY <2>1, <2>3, SumZero
  <2> QED BY <2>4 DEF Sold, g
<1>4. ASSUME NEW k, NEW f \in {"quantity", "lineTotal"} PROVE SoldAt(k, f) = 0
  <2> DEFINE g == [e \in PlacedAt(k) |-> Sold(e, k[2], f)]
  <2>1. IsFiniteSet(PlacedAt(k)) /\ \A e \in PlacedAt(k) : g[e] = 0
    BY <1>3, EventsAssumption, FS_Subset DEF PlacedAt
  <2> HIDE DEF g
  <2>2. SumFunctionOnSet(g, PlacedAt(k)) = 0
    BY <2>1, SumZero
  <2> QED BY <2>2 DEF SoldAt, g
<1> QED BY <1>1, <1>2, <1>4 DEF ItemsInStep, Value

\* A bulk write adds each line that lands to its product and counts it; no other
\* step touches either.
LEMMA ItemsStep ==
  ASSUME ConsumerFacts, RowsOK, ItemsInStep, [Next]_vars
  PROVE  ItemsInStep'
<1>1. ASSUME UNCHANGED <<productDays, lineApplied>> PROVE ItemsInStep'
  BY <1>1 DEF ItemsInStep, SoldAt, PlacedAt, Sold
<1>2. CASE Quiet
  BY <1>1, <1>2 DEF Quiet, collections
<1>3. ASSUME NEW o \in DOMAIN Order, ReapContext(o) PROVE ItemsInStep'
  BY <1>1, <1>3 DEF ReapContext
<1>4. ASSUME NEW w \in Workers, NEW e \in Events, NEW i \in 1 .. NumCalls[e],
             NEW lines \in SUBSET Lines(e), Call(w, e, i, lines)
      PROVE  ItemsInStep'
  <2>1. CallKeeps(w, e, i, lines)
    BY <1>4, EffectKeeps DEF Call
  <2>2. CASE FanOut(e.type)[i] # "product"
    BY <1>1, <2>1, <2>2 DEF CallKeeps
  <2>3. CASE FanOut(e.type)[i] = "product"
    <3>1. /\ e.type = "order.placed"
          /\ productDays' = ApplyOrderPlacedItems(productDays, Order[e.order].branch, PlacedOn(e),
                                                  Order[e.order].currency, Order[e.order].items,
                                                  lines)
          /\ lineApplied' = [lineApplied EXCEPT ![e] =
               [l \in Lines(e) |-> IF l \in lines THEN @[l] + 1 ELSE @[l]]]
      BY <2>1, <2>3 DEF CallKeeps
    <3>2. /\ DOMAIN productDays' = DOMAIN productDays \cup {ItemKey(e, l) : l \in lines}
          /\ \A k : Value(productDays', k, "quantity_sum")
                      = Value(productDays, k, "quantity_sum")
                          + Quantities(e, LinesAt(e, lines, k))
          /\ \A k : Value(productDays', k, "revenue_sum")
                      = Value(productDays, k, "revenue_sum") + Totals(e, LinesAt(e, lines, k))
      BY <3>1, ItemsBook DEF RowsOK
    <3>3. DOMAIN productDays' \subseteq ItemKeys
      <4>1. {ItemKey(e, l) : l \in lines} \subseteq ItemKeys
        BY DEF ItemKeys
      <4> QED BY <3>2, <4>1 DEF ItemsInStep
    <3>4. \A k \in ItemKeys :
            /\ SoldAt(k, "quantity")' = SoldAt(k, "quantity") + Quantities(e, LinesAt(e, lines, k))
            /\ SoldAt(k, "lineTotal")' = SoldAt(k, "lineTotal") + Totals(e, LinesAt(e, lines, k))
      BY <3>1, SoldAtGrows DEF Quantities, Totals
    <3>5. \A k \in ItemKeys :
            /\ Value(productDays', k, "quantity_sum") = SoldAt(k, "quantity")'
            /\ Value(productDays', k, "revenue_sum") = SoldAt(k, "lineTotal")'
      BY <3>2, <3>4 DEF ItemsInStep
    <3>6. /\ lineApplied' = [d \in Events |-> lineApplied'[d]]
          /\ \A d \in Events : lineApplied'[d] \in [Lines(d) -> Nat]
      <4> DEFINE row == [l \in Lines(e) |-> IF l \in lines THEN lineApplied[e][l] + 1
                                            ELSE lineApplied[e][l]]
      <4>1. row \in [Lines(e) -> Nat]
        BY DEF ItemsInStep
      <4>2. lineApplied' = [lineApplied EXCEPT ![e] = row]
        BY <3>1
      <4> HIDE DEF row
      <4> QED BY <4>1, <4>2 DEF ItemsInStep
    <3> QED BY <3>3, <3>5, <3>6 DEF ItemsInStep, Value
  <2> QED BY <2>2, <2>3
<1> QED BY <1>2, <1>3, <1>4, StepKinds

\* Every product's document is the sum of its line items that landed.
THEOREM ItemsCorrect == Spec => []ItemsMatchEffects
<1>1. ConsumerFacts /\ RowsOK /\ ItemsInStep /\ [Next]_vars => ItemsInStep'
  BY ItemsStep
<1>2. ItemsInStep => ItemsMatchEffects
  BY DEF ItemsInStep, ItemsMatchEffects, Value, SoldAt, PlacedAt
<1> QED BY <1>1, <1>2, ItemsInit, ConsumerCorrect, RowsCorrect, PTL DEF Spec
====
