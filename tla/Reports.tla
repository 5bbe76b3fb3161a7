------------------------------ MODULE Reports -------------------------------
(***************************************************************************)
(* The read side: the Get* methods of app/analytics/service over the       *)
(* queries of app/analytics/repository.                                    *)
(*                                                                         *)
(* A report is a function from the key of each row (its date, or its       *)
(* currency) to the row; that the rows come sorted by key is left out.  A  *)
(* failure rate is the pair of its numerator and denominator.              *)
(***************************************************************************)
EXTENDS Aggregates

InvalidDateRange == "ANALYTICS_INVALID_DATE_RANGE"

\* Mutant of InRange: the last day is left out.
InRangeHalfOpen(d, from, to) == from <= d /\ d < to

\* Both bounds of a range are inclusive.
InRange(d, from, to) == from <= d /\ d <= to

\* FindByDateRange of agg_restaurant_day and agg_branch_day: the dates found.
FindByDateRange(coll, id, from, to) ==
  {d \in {k[2] : k \in DOMAIN coll} : <<id, d>> \in DOMAIN coll /\ InRange(d, from, to)}

\* Integer division, and 0 for a row without anything to divide by.
Average(sum, count) == IF count > 0 THEN sum \div count ELSE 0

Rate(failed, orders) == IF orders > 0 THEN <<failed, orders>> ELSE <<0, 1>>

-----------------------------------------------------------------------------
GetRestaurantDays(coll, restaurant, from, to) ==
  IF from > to THEN InvalidDateRange
  ELSE [d \in FindByDateRange(coll, restaurant, from, to) |->
          LET row == coll[<<restaurant, d>>]
          IN  [currency |-> row.currency, ordersCount |-> row.orders_count,
               revenueSumMinor |-> row.revenue_sum,
               avgOrderMinor |-> Average(row.revenue_sum, row.orders_count)]]

\* The same rows for a branch, from agg_branch_day.
GetBranchDays(coll, branch, from, to) ==
  IF from > to THEN InvalidDateRange
  ELSE [d \in FindByDateRange(coll, branch, from, to) |->
          LET row == coll[<<branch, d>>]
          IN  [currency |-> row.currency, ordersCount |-> row.orders_count,
               revenueSumMinor |-> row.revenue_sum,
               avgOrderMinor |-> Average(row.revenue_sum, row.orders_count)]]

GetProductDays(coll, branch, product, from, to) ==
  IF from > to THEN InvalidDateRange
  ELSE LET found == {k \in DOMAIN coll :
                       k[1] = branch /\ k[2] = product /\ InRange(k[3], from, to)}
       IN  [d \in {k[3] : k \in found} |->
              LET row == coll[<<branch, product, d>>]
              IN  [currency |-> row.currency, quantitySum |-> row.quantity_sum,
                   revenueSumMinor |-> row.revenue_sum,
                   avgUnitPriceMinor |-> Average(row.revenue_sum, row.quantity_sum)]]

GetRestaurantFailures(coll, restaurant, from, to) ==
  IF from > to THEN InvalidDateRange
  ELSE [d \in FindByDateRange(coll, restaurant, from, to) |->
          LET row == coll[<<restaurant, d>>]
          IN  [ordersCount |-> row.orders_count, failedCount |-> row.failed_count,
               failureRate |-> Rate(row.failed_count, row.orders_count)]]

GetRestaurantDeliveryAvg(coll, restaurant, from, to) ==
  IF from > to THEN InvalidDateRange
  ELSE [d \in FindByDateRange(coll, restaurant, from, to) |->
          LET row == coll[<<restaurant, d>>]
          IN  [deliveredCount |-> row.delivery_ms_count,
               avgDeliveryMs |-> Average(row.delivery_ms_sum, row.delivery_ms_count)]]

-----------------------------------------------------------------------------
\* Mutant of CountActiveInRange: any row makes a restaurant active.
CountActiveAnyRow(coll, from, to) ==
  Cardinality({k[1] : k \in {k \in DOMAIN coll : InRange(k[2], from, to)}})

\* The distinct restaurants with a row in range that counts an order.
CountActiveInRange(coll, from, to) ==
  Cardinality({k[1] : k \in {k \in DOMAIN coll :
                 InRange(k[2], from, to) /\ coll[k].orders_count > 0}})

GetActiveRestaurants(coll, from, to) ==
  IF from > to THEN InvalidDateRange ELSE CountActiveInRange(coll, from, to)

GetPlatformDays(coll, from, to) ==
  IF from > to THEN InvalidDateRange
  ELSE [k \in {k \in DOMAIN coll : InRange(k[1], from, to)} |->
          [ordersCount |-> coll[k].orders_count, revenueSumMinor |-> coll[k].revenue_sum,
           avgOrderMinor |-> Average(coll[k].revenue_sum, coll[k].orders_count)]]

\* The $group by currency: every counter summed over the range.
SummaryByCurrency(coll, from, to) ==
  LET found == {k \in DOMAIN coll : InRange(k[1], from, to)}
      group(c) == {k \in found : k[2] = c}
  IN  [c \in {k[2] : k \in found} |->
         [f \in DOMAIN ZeroPlatformDay |->
            SumFunctionOnSet([k \in group(c) |-> coll[k][f]], group(c))]]

GetPlatformSummary(coll, from, to) ==
  IF from > to THEN InvalidDateRange
  ELSE LET totals == SummaryByCurrency(coll, from, to)
       IN  [c \in DOMAIN totals |->
              LET t == totals[c]
              IN  [ordersCount |-> t.orders_count, revenueSumMinor |-> t.revenue_sum,
                   avgOrderMinor |-> Average(t.revenue_sum, t.orders_count),
                   failedCount |-> t.failed_count,
                   failureRate |-> Rate(t.failed_count, t.orders_count),
                   deliveredCount |-> t.delivery_ms_count,
                   avgDeliveryMs |-> Average(t.delivery_ms_sum, t.delivery_ms_count),
                   onlinePaymentsCount |-> t.online_payments_count,
                   onlinePaymentsAmountSumMinor |-> t.online_payments_amount_sum]]
=============================================================================
