----------------------------- MODULE Aggregates -----------------------------
(***************************************************************************)
(* The write side of app/analytics/repository: what one call of each       *)
(* repository does to its collection.                                      *)
(*                                                                         *)
(* A collection is a function from the keys of its unique index to rows; a *)
(* key outside the domain has no document.  A row is a record of counters, *)
(* with the currency where the document $sets one.  updated_at is left     *)
(* out: nothing reads it.  Times are integers, and a date is a day number, *)
(* which orders like its YYYY-MM-DD form.                                  *)
(***************************************************************************)
EXTENDS Integers, Sequences, FiniteSets, FiniteSetsExt, Functions

CONSTANT DayLength   \* the time units of one UTC day

ASSUME DayAssumption == DayLength \in Nat \ {0}

\* time.Time.UTC().Format("2006-01-02")
Date(t) == t \div DayLength

NoRows == [k \in {} |-> {}]
NoCurrency == "none"

\* The documents before their first $inc: a missing field counts as 0.
ZeroDay == [orders_count |-> 0, revenue_sum |-> 0, delivery_ms_sum |-> 0,
            delivery_ms_count |-> 0, failed_count |-> 0, currency |-> NoCurrency]
ZeroProductDay == [quantity_sum |-> 0, revenue_sum |-> 0, currency |-> NoCurrency]
ZeroPlatformDay == [orders_count |-> 0, revenue_sum |-> 0, delivery_ms_sum |-> 0,
                    delivery_ms_count |-> 0, failed_count |-> 0,
                    online_payments_count |-> 0, online_payments_amount_sum |-> 0]

\* $inc and $set on one document; inc and set are records over its fields.
Change(row, inc, set) ==
  [f \in DOMAIN row |->
     IF f \in DOMAIN set THEN set[f]
     ELSE IF f \in DOMAIN inc THEN row[f] + inc[f] ELSE row[f]]

Nothing == [f \in {} |-> 0]

\* Mutant of Upsert: the document is replaced by the update.
UpsertReplaces(coll, key, zero, inc, set) ==
  [k \in DOMAIN coll \cup {key} |-> IF k = key THEN inc ELSE coll[k]]

\* UpdateOne with upsert: one atomic change of the document at key, created
\* from zero when it is missing.
Upsert(coll, key, zero, inc, set) ==
  [k \in DOMAIN coll \cup {key} |->
     IF k = key
     THEN Change(IF key \in DOMAIN coll THEN coll[key] ELSE zero, inc, set)
     ELSE coll[k]]

-----------------------------------------------------------------------------
\* Mutant of RestaurantApplyOrderPlaced: the count is set, not incremented.
RestaurantPlacedSetsCount(coll, in) ==
  Upsert(coll, <<in.restaurant, Date(in.placedAt)>>, ZeroDay,
         [revenue_sum |-> in.total], [orders_count |-> 1, currency |-> in.currency])

\* Mutant of RestaurantApplyOrderPlaced: the currency is set on insert only.
RestaurantPlacedCurrencyOnInsert(coll, in) ==
  LET key == <<in.restaurant, Date(in.placedAt)>>
  IN  Upsert(coll, key, ZeroDay, [orders_count |-> 1, revenue_sum |-> in.total],
             IF key \in DOMAIN coll THEN Nothing ELSE [currency |-> in.currency])

\* agg_restaurant_day, keyed by <<restaurant_id, date>>.
RestaurantApplyOrderPlaced(coll, in) ==
  Upsert(coll, <<in.restaurant, Date(in.placedAt)>>, ZeroDay,
         [orders_count |-> 1, revenue_sum |-> in.total], [currency |-> in.currency])

RestaurantApplyOrderDelivered(coll, restaurant, date, deliveryMs) ==
  Upsert(coll, <<restaurant, date>>, ZeroDay,
         [delivery_ms_sum |-> deliveryMs, delivery_ms_count |-> 1], Nothing)

RestaurantApplyOrderRejected(coll, restaurant, date) ==
  Upsert(coll, <<restaurant, date>>, ZeroDay, [failed_count |-> 1], Nothing)

-----------------------------------------------------------------------------
\* agg_branch_day, keyed by <<branch_id, date>>.
BranchApplyOrderPlaced(coll, branch, date, currency, total) ==
  Upsert(coll, <<branch, date>>, ZeroDay,
         [orders_count |-> 1, revenue_sum |-> total], [currency |-> currency])

BranchApplyOrderDelivered(coll, branch, date, deliveryMs) ==
  Upsert(coll, <<branch, date>>, ZeroDay,
         [delivery_ms_sum |-> deliveryMs, delivery_ms_count |-> 1], Nothing)

BranchApplyOrderRejected(coll, branch, date) ==
  Upsert(coll, <<branch, date>>, ZeroDay, [failed_count |-> 1], Nothing)

-----------------------------------------------------------------------------
\* Mutant of LineSums: counts lines instead of units.
LineSumsByLine(items, lines) ==
  [quantity_sum |-> Cardinality(lines),
   revenue_sum |-> SumFunctionOnSet([l \in lines |-> items[l].lineTotal], lines)]

\* The $inc of the upserts of these lines, which all go to one document.
LineSums(items, lines) ==
  [quantity_sum |-> SumFunctionOnSet([l \in lines |-> items[l].quantity], lines),
   revenue_sum |-> SumFunctionOnSet([l \in lines |-> items[l].lineTotal], lines)]

\* agg_product_day, keyed by <<branch_id, product_id, date>>: the unordered
\* BulkWrite of one upsert per line item.  lines is the set of lines whose
\* upsert landed, all of them unless the write returned an error.
ApplyOrderPlacedItems(coll, branch, date, currency, items, lines) ==
  LET KeyOf(l) == <<branch, items[l].product, date>>
      LinesAt(k) == {l \in lines : KeyOf(l) = k}
      RowAt(k) == IF k \in DOMAIN coll THEN coll[k] ELSE ZeroProductDay
  IN  [k \in DOMAIN coll \cup {KeyOf(l) : l \in lines} |->
         IF LinesAt(k) = {} THEN coll[k]
         ELSE Change(RowAt(k), LineSums(items, LinesAt(k)), [currency |-> currency])]

-----------------------------------------------------------------------------
\* agg_platform_day, keyed by <<date, currency>>.
PlatformUpsert(coll, date, currency, inc) ==
  Upsert(coll, <<date, currency>>, ZeroPlatformDay, inc, Nothing)

PlatformApplyOrderPlaced(coll, date, currency, total) ==
  PlatformUpsert(coll, date, currency, [orders_count |-> 1, revenue_sum |-> total])

PlatformApplyOrderDelivered(coll, date, currency, deliveryMs) ==
  PlatformUpsert(coll, date, currency,
                 [delivery_ms_sum |-> deliveryMs, delivery_ms_count |-> 1])

PlatformApplyOrderRejected(coll, date, currency) ==
  PlatformUpsert(coll, date, currency, [failed_count |-> 1])

PlatformApplyPaymentCompleted(coll, date, currency, amount) ==
  PlatformUpsert(coll, date, currency,
                 [online_payments_count |-> 1, online_payments_amount_sum |-> amount])

-----------------------------------------------------------------------------
\* order_context, keyed by the order id; an upsert that overwrites.
SaveContext(coll, order, currency, placedAt) ==
  [o \in DOMAIN coll \cup {order} |->
     IF o = order THEN [currency |-> currency, placedAt |-> placedAt] ELSE coll[o]]
=============================================================================
