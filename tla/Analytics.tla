----------------------------- MODULE Analytics ------------------------------
(***************************************************************************)
(* The event pipeline as a whole: the consumer of CoreEvents running the   *)
(* handlers of app/analytics/eventhandlers, whose On* methods in           *)
(* app/analytics/service write the collections of Aggregates one Mongo     *)
(* call at a time.                                                         *)
(*                                                                         *)
(* An event is a record: its type, the order it is about and its own time. *)
(* What a payload repeats about the order (restaurant, branch, currency,   *)
(* total, items) is the record Order[o]: order-service sends the same      *)
(* values in every event of an order.                                      *)
(***************************************************************************)
EXTENDS Aggregates

CONSTANTS
  Workers, NoMsg, MaxSends, Faults, MaxFaults,   \* as in CoreEvents
  Events,      \* records [type, order, at]
  Order,       \* Order[o]: restaurant, branch, currency, total, placedAt, items
  NoContext    \* no order_context row looked up

VARIABLES
  ready, dlq, sent, seen, pc, cur, held, done,
  applied, completed, erased, orphaned, faults,  \* as in CoreEvents
  restaurantDays, branchDays, productDays, platformDays, orderContexts,
  context,      \* context[w]: the order_context row w's handler looked up
  lineApplied   \* lineApplied[e][l]: times line l of e's items landed (history)

\* Mutant of FanOut: OnOrderPlaced saves the order's context first.
FanOutContextFirst(type) ==
  CASE type = "order.placed"      -> <<"save", "restaurant", "branch", "product", "platform">>
    [] type = "order.delivered"   -> <<"find", "restaurant", "branch", "platform">>
    [] type = "order.rejected"    -> <<"restaurant", "branch", "find", "platform">>
    [] type = "payment.completed" -> <<"platform">>

\* Mutant of FanOut: OnOrderPlaced counts for the platform first.
FanOutPlatformFirst(type) ==
  CASE type = "order.placed"      -> <<"platform", "restaurant", "branch", "product", "save">>
    [] type = "order.delivered"   -> <<"find", "restaurant", "branch", "platform">>
    [] type = "order.rejected"    -> <<"restaurant", "branch", "find", "platform">>
    [] type = "payment.completed" -> <<"platform">>

\* Mutant of FanOut: OnOrderPlaced writes its line items first.
FanOutProductFirst(type) ==
  CASE type = "order.placed"      -> <<"product", "restaurant", "branch", "platform", "save">>
    [] type = "order.delivered"   -> <<"find", "restaurant", "branch", "platform">>
    [] type = "order.rejected"    -> <<"restaurant", "branch", "find", "platform">>
    [] type = "payment.completed" -> <<"platform">>

\* The Mongo calls of each handler, in the order its On* method makes them.
FanOut(type) ==
  CASE type = "order.placed"      -> <<"restaurant", "branch", "product", "platform", "save">>
    [] type = "order.delivered"   -> <<"find", "restaurant", "branch", "platform">>
    [] type = "order.rejected"    -> <<"restaurant", "branch", "find", "platform">>
    [] type = "payment.completed" -> <<"platform">>

MaxCalls == 5
NumCalls == [e \in Events |-> Len(FanOut(e.type))]
Finds == {s \in Events \X (1 .. MaxCalls) :
            s[2] <= NumCalls[s[1]] /\ FanOut(s[1].type)[s[2]] = "find"}

Consumer == INSTANCE CoreEvents WITH
  Malformed <- {}, Registered <- Events, BadPayload <- {},
  Calls <- NumCalls, MaxCalls <- MaxCalls, Lookups <- Finds

EventTypes == {"order.placed", "order.delivered", "order.rejected", "payment.completed"}

\* Events are of the four registered types and of known orders.
ASSUME EventsAssumption ==
  /\ IsFiniteSet(Events)
  /\ NoMsg \notin Events
  /\ \A e \in Events : e.type \in EventTypes /\ e.order \in DOMAIN Order /\ e.at \in Int
\* Amounts and quantities are order-service's and none of them is negative: nothing
\* here checks them, and int64 is taken to hold their sums.
ASSUME OrdersAssumption ==
  \A o \in DOMAIN Order :
    /\ Order[o].total \in Nat
    /\ Order[o].placedAt \in Int
    /\ IsFiniteSet(DOMAIN Order[o].items)
    /\ \A l \in DOMAIN Order[o].items :
         Order[o].items[l].quantity \in Nat /\ Order[o].items[l].lineTotal \in Nat
ASSUME BoundsAssumption ==
  MaxSends \in Nat /\ MaxFaults \in Nat /\ Faults \subseteq Consumer!FaultKinds

consumerVars == Consumer!vars
collections == <<restaurantDays, branchDays, productDays, platformDays, orderContexts>>
vars == <<consumerVars, collections, context, lineApplied>>

\* The Mongo call that the handler of e makes next.
NextCall(w, e) == FanOut(e.type)[done[w] + 1]

Lines(e) == DOMAIN Order[e.order].items

\* EnsureIndexes has made the collections, empty under their unique indexes.
Init ==
  /\ Consumer!Init
  /\ restaurantDays = NoRows
  /\ branchDays = NoRows
  /\ productDays = NoRows
  /\ platformDays = NoRows
  /\ orderContexts = NoRows
  /\ context = [w \in Workers |-> NoContext]
  /\ lineApplied = [e \in Events |-> [l \in Lines(e) |-> 0]]

-----------------------------------------------------------------------------
\* The next Mongo call of OnOrderPlaced takes effect; of the bulk write, the
\* upserts of these lines.
OnOrderPlaced(w, e, lines) ==
  LET in == Order[e.order]
      date == Date(in.placedAt)
  IN  /\ e.type = "order.placed"
      /\ \/ /\ NextCall(w, e) = "restaurant"
            /\ restaurantDays' = RestaurantApplyOrderPlaced(restaurantDays, in)
            /\ UNCHANGED <<branchDays, productDays, platformDays, orderContexts, lineApplied>>
         \/ /\ NextCall(w, e) = "branch"
            /\ branchDays' = BranchApplyOrderPlaced(branchDays, in.branch, date, in.currency, in.total)
            /\ UNCHANGED <<restaurantDays, productDays, platformDays, orderContexts, lineApplied>>
         \/ /\ NextCall(w, e) = "product"
            /\ productDays' = ApplyOrderPlacedItems(productDays, in.branch, date,
                                                    in.currency, in.items, lines)
            /\ lineApplied' = [lineApplied EXCEPT ![e] =
                 [l \in Lines(e) |-> IF l \in lines THEN @[l] + 1 ELSE @[l]]]
            /\ UNCHANGED <<restaurantDays, branchDays, platformDays, orderContexts>>
         \/ /\ NextCall(w, e) = "platform"
            /\ platformDays' = PlatformApplyOrderPlaced(platformDays, date, in.currency, in.total)
            /\ UNCHANGED <<restaurantDays, branchDays, productDays, orderContexts, lineApplied>>
         \/ /\ NextCall(w, e) = "save"
            /\ orderContexts' = SaveContext(orderContexts, e.order, in.currency, in.placedAt)
            /\ UNCHANGED <<restaurantDays, branchDays, productDays, platformDays, lineApplied>>
      /\ UNCHANGED context

\* The duration OnOrderDelivered books, 0 when the clocks disagree.
DeliveryMs(placedAt, deliveredAt) ==
  IF deliveredAt < placedAt THEN 0 ELSE deliveredAt - placedAt

\* orderContexts.Find finds a row, which the handler keeps.
FindContext(w, e) ==
  /\ e.order \in DOMAIN orderContexts
  /\ context' = [context EXCEPT ![w] = orderContexts[e.order]]
  /\ UNCHANGED <<collections, lineApplied>>

\* Mutant of DeliveryDate: the day of the delivery.
DeliveryDateOwn(w, e) == Date(e.at)

\* The day OnOrderDelivered books a duration to: the day of placing.
DeliveryDate(w, e) == Date(context[w].placedAt)

\* The next Mongo call of OnOrderDelivered takes effect: the duration goes to
\* the day the order was placed on.
OnOrderDelivered(w, e) ==
  LET in == Order[e.order]
      deliveryMs == DeliveryMs(context[w].placedAt, e.at)
  IN  /\ e.type = "order.delivered"
      /\ \/ NextCall(w, e) = "find" /\ FindContext(w, e)
         \/ /\ NextCall(w, e) = "restaurant"
            /\ restaurantDays' = RestaurantApplyOrderDelivered(
                                   restaurantDays, in.restaurant, DeliveryDate(w, e), deliveryMs)
            /\ UNCHANGED <<branchDays, productDays, platformDays, orderContexts,
                           context, lineApplied>>
         \/ /\ NextCall(w, e) = "branch"
            /\ branchDays' = BranchApplyOrderDelivered(
                               branchDays, in.branch, DeliveryDate(w, e), deliveryMs)
            /\ UNCHANGED <<restaurantDays, productDays, platformDays, orderContexts,
                           context, lineApplied>>
         \/ /\ NextCall(w, e) = "platform"
            /\ platformDays' = PlatformApplyOrderDelivered(
                                 platformDays, DeliveryDate(w, e), in.currency, deliveryMs)
            /\ UNCHANGED <<restaurantDays, branchDays, productDays, orderContexts,
                           context, lineApplied>>

\* The next Mongo call of OnOrderRejected takes effect: the failure goes to the
\* day it happened on, and the platform row needs the order's currency.
OnOrderRejected(w, e) ==
  LET in == Order[e.order]
      date == Date(e.at)
  IN  /\ e.type = "order.rejected"
      /\ \/ /\ NextCall(w, e) = "restaurant"
            /\ restaurantDays' = RestaurantApplyOrderRejected(restaurantDays, in.restaurant, date)
            /\ UNCHANGED <<branchDays, productDays, platformDays, orderContexts,
                           context, lineApplied>>
         \/ /\ NextCall(w, e) = "branch"
            /\ branchDays' = BranchApplyOrderRejected(branchDays, in.branch, date)
            /\ UNCHANGED <<restaurantDays, productDays, platformDays, orderContexts,
                           context, lineApplied>>
         \/ NextCall(w, e) = "find" /\ FindContext(w, e)
         \/ /\ NextCall(w, e) = "platform"
            /\ platformDays' = PlatformApplyOrderRejected(platformDays, date, context[w].currency)
            /\ UNCHANGED <<restaurantDays, branchDays, productDays, orderContexts,
                           context, lineApplied>>

\* The one Mongo call of OnPaymentCompleted takes effect.
OnPaymentCompleted(w, e) ==
  LET in == Order[e.order]
  IN  /\ e.type = "payment.completed"
      /\ NextCall(w, e) = "platform"
      /\ platformDays' = PlatformApplyPaymentCompleted(
                           platformDays, Date(e.at), in.currency, in.total)
      /\ UNCHANGED <<restaurantDays, branchDays, productDays, orderContexts,
                     context, lineApplied>>

\* The handler registered for e's type makes its next call.
Effect(w, e, lines) ==
  \/ OnOrderPlaced(w, e, lines)
  \/ OnOrderDelivered(w, e)
  \/ OnOrderRejected(w, e)
  \/ OnPaymentCompleted(w, e)

-----------------------------------------------------------------------------
\* An order without items makes no call at the product step.
MakesCall(w, e) == NextCall(w, e) = "product" => Lines(e) # {}

CallOk(w, e) == Consumer!CallOk(w, e) /\ Effect(w, e, Lines(e))

\* An unordered bulk write that fails may have applied any of its upserts.
CallLost(w, e) ==
  /\ Consumer!CallLost(w, e)
  /\ MakesCall(w, e)
  /\ \E lines \in SUBSET Lines(e) : Effect(w, e, lines)

CallFail(w, e) ==
  /\ Consumer!CallFail(w, e)
  /\ MakesCall(w, e)
  /\ UNCHANGED <<collections, context, lineApplied>>

LookupMiss(w, e) ==
  /\ Consumer!LookupMiss(w, e)
  /\ e.order \notin DOMAIN orderContexts
  /\ UNCHANGED <<collections, context, lineApplied>>

\* The delivery of w ends, and with it the handler's local variables.
Leave(w) ==
  /\ Consumer!Respond(w) \/ Consumer!Crash(w)
  /\ context' = [context EXCEPT ![w] = NoContext]
  /\ UNCHANGED <<collections, lineApplied>>

\* The TTL index of order_context deletes a row, at any time and any number of
\* times.
ReapContext(o) ==
  /\ "reap" \in Faults
  /\ o \in DOMAIN orderContexts
  /\ orderContexts' = [p \in DOMAIN orderContexts \ {o} |-> orderContexts[p]]
  /\ UNCHANGED <<ready, dlq, sent, seen, pc, cur, held, done, applied, completed, erased,
                 orphaned, faults, restaurantDays, branchDays, productDays, platformDays,
                 context, lineApplied>>

\* The consumer's steps that touch no aggregate.
Consume ==
  /\ \/ \E e \in Events : Consumer!Publish(e) \/ Consumer!Replay(e) \/ Consumer!Reap(e)
     \/ \E w \in Workers :
          \/ Consumer!Start(w)
          \/ Consumer!ConnDrop(w)
          \/ \E e \in Events :
               \/ Consumer!Deliver(w, e)
               \/ Consumer!MarkFresh(w, e)
               \/ Consumer!MarkDuplicate(w, e)
               \/ Consumer!MarkFail(w, e)
               \/ Consumer!MarkLost(w, e)
               \/ Consumer!Return(w, e)
               \/ Consumer!Unmark(w, e)
               \/ Consumer!UnmarkFail(w, e)
     \/ Consumer!AwaitDelivery
  /\ UNCHANGED <<collections, context, lineApplied>>

Next ==
  \/ Consume
  \/ \E w \in Workers, e \in Events :
       CallOk(w, e) \/ CallLost(w, e) \/ CallFail(w, e) \/ LookupMiss(w, e)
  \/ \E w \in Workers : Leave(w)
  \/ \E o \in DOMAIN Order : ReapContext(o)

Spec == Init /\ [][Next]_vars

-----------------------------------------------------------------------------
(***************************************************************************)
(* Properties                                                              *)
(***************************************************************************)
Rows(coll, zero) ==
  \A k \in DOMAIN coll :
    /\ DOMAIN coll[k] = DOMAIN zero
    /\ \A f \in DOMAIN zero \ {"currency"} : coll[k][f] \in Nat

\* The collections hold documents of their own shape, with counters in Nat, and
\* the consumer keeps its types.
TypeOK ==
  /\ Consumer!TypeOK
  /\ Rows(restaurantDays, ZeroDay)
  /\ Rows(branchDays, ZeroDay)
  /\ Rows(productDays, ZeroProductDay)
  /\ Rows(platformDays, ZeroPlatformDay)
  /\ DOMAIN orderContexts \subseteq DOMAIN Order
  /\ \A w \in Workers : context[w] # NoContext => context[w].placedAt \in Int

\* How often the call of this name took effect for each event.
Landed(call) ==
  [e \in Events |->
     SumFunctionOnSet(applied[e], {i \in 1 .. NumCalls[e] : FanOut(e.type)[i] = call})]

PlacedOn(e) == Date(Order[e.order].placedAt)
Duration(e) == Max({0, e.at - Order[e.order].placedAt})

\* What one landed call of e adds to a day, and to which day: placed orders and
\* deliveries to the day of placing, failures and payments to their own day.
Amounts(e) ==
  CASE e.type = "order.placed" ->
         [orders_count |-> 1, revenue_sum |-> Order[e.order].total]
    [] e.type = "order.delivered" ->
         [delivery_ms_count |-> 1, delivery_ms_sum |-> Duration(e)]
    [] e.type = "order.rejected" ->
         [failed_count |-> 1]
    [] e.type = "payment.completed" ->
         [online_payments_count |-> 1, online_payments_amount_sum |-> Order[e.order].total]
DayOf(e) ==
  IF e.type \in {"order.placed", "order.delivered"} THEN PlacedOn(e) ELSE Date(e.at)

\* The events that count for a field, and the document each one belongs to.
Counting(f) == {e \in Events : f \in DOMAIN Amounts(e)}
RestaurantKeys == [e \in Events |-> <<Order[e.order].restaurant, DayOf(e)>>]
BranchKeys == [e \in Events |-> <<Order[e.order].branch, DayOf(e)>>]
PlatformKeys == [e \in Events |-> <<DayOf(e), Order[e.order].currency>>]

\* What the landed calls of the events in S add up to.
Effects(landed, f, S) ==
  SumFunctionOnSet([e \in S |-> landed[e] * Amounts(e)[f]], S)

\* The value of a field, 0 while there is no document.
Value(coll, k, f) == IF k \in DOMAIN coll THEN coll[k][f] ELSE 0

\* Every field of every document is what the landed calls add up to, each under
\* its own key, and there is no other document.
AddsUp(coll, fields, landed, keys) ==
  /\ DOMAIN coll \subseteq {keys[e] : e \in Events}
  /\ \A e \in Events, f \in fields :
       Value(coll, keys[e], f)
         = Effects(landed, f, {d \in Counting(f) : keys[d] = keys[e]})

DayFields == DOMAIN ZeroDay \ {"currency"}

\* Every document is the sum of the calls that landed, each booked under its own
\* key and day: whatever is duplicated, retried, reordered, interrupted or half
\* applied, nothing is booked to another row (the On* methods and repositories).
RowsMatchEffects ==
  /\ AddsUp(restaurantDays, DayFields, Landed("restaurant"), RestaurantKeys)
  /\ AddsUp(branchDays, DayFields, Landed("branch"), BranchKeys)
  /\ AddsUp(platformDays, DOMAIN ZeroPlatformDay, Landed("platform"), PlatformKeys)

\* What the line items of e that landed add to the document of a product.
Sold(e, product, f) ==
  LET lines == {l \in Lines(e) : Order[e.order].items[l].product = product}
  IN  SumFunctionOnSet([l \in lines |-> lineApplied[e][l] * Order[e.order].items[l][f]], lines)

\* The line items of one branch, product and day add up the same way.
ItemsMatchEffects ==
  \A k \in DOMAIN productDays :
    LET placed == {e \in Events : /\ e.type = "order.placed"
                                  /\ Order[e.order].branch = k[1]
                                  /\ PlacedOn(e) = k[3]}
        Total(f) == SumFunctionOnSet([e \in placed |-> Sold(e, k[2], f)], placed)
    IN  /\ productDays[k].quantity_sum = Total("quantity")
        /\ productDays[k].revenue_sum = Total("lineTotal")

\* order_context is written last, so that a delivery never books into a day that
\* has not counted its order: a row with deliveries has orders, in all three
\* collections (OnOrderPlaced and OnOrderDelivered in analytics.service.go).  The
\* comment of RestaurantDayRepo.ApplyOrderDelivered expects such rows, created by
\* a delivery that overtook its order; the service drops that delivery before the
\* upsert instead, and what is lost by it DeliveriesConverge shows.
DeliveredAfterPlaced ==
  LET OrdersFirst(coll) == \A k \in DOMAIN coll :
        coll[k].delivery_ms_count > 0 => coll[k].orders_count > 0
  IN  OrdersFirst(restaurantDays) /\ OrdersFirst(branchDays) /\ OrdersFirst(platformDays)

Dates == {Date(e.at) : e \in Events} \cup {PlacedOn(e) : e \in Events}

\* A field summed over the documents of a day; component i of a key is the date.
DaySum(coll, i, d, f) ==
  LET found == {k \in DOMAIN coll : k[i] = d}
  IN  SumFunctionOnSet([k \in found |-> coll[k][f]], found)

\* On every day the restaurants count at least what the branches count, and the
\* branches at least what the platform counts: a failed or interrupted fan-out
\* leaves the narrower collection ahead, never the platform.
PlatformNeverAhead ==
  \A d \in Dates, f \in DayFields :
    /\ DaySum(branchDays, 2, d, f) <= DaySum(restaurantDays, 2, d, f)
    /\ DaySum(platformDays, 1, d, f) <= DaySum(branchDays, 2, d, f)

\* Every event was published and none is queued, being handled, dead-lettered,
\* orphaned by a fault or ever unmarked.
Clean ==
  \A e \in Events :
    /\ sent[e] > 0 /\ ready[e] = 0 /\ dlq[e] = 0 /\ erased[e] = 0
    /\ e \notin orphaned
    /\ \A w \in Workers : cur[w] # e

\* The total a complete day must show, from the events alone.
TrueTotal(d, f) ==
  LET counted == {e \in Counting(f) : DayOf(e) = d}
  IN  SumFunctionOnSet([e \in counted |-> Amounts(e)[f]], counted)

\* However events are ordered, duplicated and redelivered, a clean end counts
\* every placed order and every failure exactly once for its restaurant and its
\* branch, and every placed order and payment for the platform.
CountedOnce ==
  Clean => \A d \in Dates :
    /\ \A f \in {"orders_count", "revenue_sum", "failed_count"} :
         /\ DaySum(restaurantDays, 2, d, f) = TrueTotal(d, f)
         /\ DaySum(branchDays, 2, d, f) = TrueTotal(d, f)
    /\ \A f \in {"orders_count", "revenue_sum",
                 "online_payments_count", "online_payments_amount_sum"} :
         DaySum(platformDays, 1, d, f) = TrueTotal(d, f)

\* "Replaying events (even out of order) always converges to the same totals"
\* (README.md), and the upsert "covers the (rare, out-of-order) case where
\* delivered arrives and the placed row hasn't been created yet"
\* (restaurant_day.repo.go): a clean end also counts every delivery, those that
\* overtook their order or came when its context had expired among them.
DeliveriesConverge ==
  Clean => \A d \in Dates :
    DaySum(restaurantDays, 2, d, "delivery_ms_count") = TrueTotal(d, "delivery_ms_count")

\* "FailureRate is a fraction (0..1)" (dto/failures.response.go): no more
\* failures than orders on a day that has orders, once all is settled cleanly.
FailureRateIsFraction ==
  Clean => \A k \in DOMAIN restaurantDays :
    restaurantDays[k].orders_count > 0 =>
      restaurantDays[k].failed_count <= restaurantDays[k].orders_count

\* "Handlers must be safe to call more than once for the same eventId"
\* (lib/coreevents/payloads.go): no call of an event is counted twice.
HandlersRerunSafely ==
  \A e \in Events : \A i \in 1 .. NumCalls[e] : applied[e][i] <= 1
=============================================================================
