-------------------------- MODULE AnalyticsReports --------------------------
(***************************************************************************)
(* What the read endpoints may answer at any moment of the event pipeline: *)
(* the reports of Reports over every reachable state of Analytics.         *)
(***************************************************************************)
EXTENDS Analytics, Reports

ReportedRestaurants == {Order[o].restaurant : o \in DOMAIN Order}
Ranges == {r \in Dates \X Dates : r[1] <= r[2]}

\* The events that book a field to restaurant r on day d.
BookedBy(r, d, f) == {e \in Counting(f) : RestaurantKeys[e] = <<r, d>>}

\* A reported average lies between the smallest and the largest amount it
\* averages, even over rows that a failed and replayed event counted twice: sum
\* and count change in one $inc (restaurant_day.repo.go, GetRestaurantDays).
AveragesPlausible ==
  \A r \in ReportedRestaurants, g \in Ranges :
    LET days == GetRestaurantDays(restaurantDays, r, g[1], g[2])
        delivery == GetRestaurantDeliveryAvg(restaurantDays, r, g[1], g[2])
    IN  \A d \in DOMAIN days :
          /\ days[d].ordersCount > 0 =>
               \E a, b \in BookedBy(r, d, "revenue_sum") :
                 /\ Amounts(a).revenue_sum <= days[d].avgOrderMinor
                 /\ days[d].avgOrderMinor <= Amounts(b).revenue_sum
          /\ delivery[d].deliveredCount > 0 =>
               \E a, b \in BookedBy(r, d, "delivery_ms_sum") :
                 /\ Amounts(a).delivery_ms_sum <= delivery[d].avgDeliveryMs
                 /\ delivery[d].avgDeliveryMs <= Amounts(b).delivery_ms_sum

\* The summary of a range is the sum of the summaries of its parts, and of the
\* rows that GetPlatformDays lists for it: no day is counted twice or dropped at
\* a bound (SummaryByCurrency and FindByDateRange in platform_day.repo.go).
SummariesAddUp ==
  LET Sum(c, from, to, f) ==
        LET summary == GetPlatformSummary(platformDays, from, to)
        IN  IF c \in DOMAIN summary THEN summary[c][f] ELSE 0
  IN  \A g \in Ranges :
        LET days == GetPlatformDays(platformDays, g[1], g[2])
        IN  \A c \in {k[2] : k \in DOMAIN platformDays}, f \in {"ordersCount", "revenueSumMinor"} :
              /\ LET listed == {k \in DOMAIN days : k[2] = c}
                 IN  Sum(c, g[1], g[2], f)
                       = SumFunctionOnSet([k \in listed |-> days[k][f]], listed)
              /\ \A m \in g[1] .. (g[2] - 1) :
                   Sum(c, g[1], g[2], f) = Sum(c, g[1], m, f) + Sum(c, m + 1, g[2], f)

\* A restaurant is active exactly when its own report shows an order: a row that
\* only failures created does not count (CountActiveInRange).
ActiveMeansOrders ==
  \A g \in Ranges :
    GetActiveRestaurants(restaurantDays, g[1], g[2]) =
      Cardinality({r \in ReportedRestaurants :
        LET days == GetRestaurantDays(restaurantDays, r, g[1], g[2])
        IN  \E d \in DOMAIN days : days[d].ordersCount > 0})

\* A product that the product report shows for a day was sold in an order that
\* the branch report of that day already counts, whichever step of OnOrderPlaced
\* failed: the line items are written after the branch.
ProductsBehindBranch ==
  \A k \in DOMAIN productDays :
    LET days == GetBranchDays(branchDays, k[1], k[3], k[3])
    IN  k[3] \in DOMAIN days /\ days[k[3]].ordersCount > 0

\* The currencies of the placed orders that the document at k counts.
CountedCurrencies(landed, keys, k) ==
  {Order[e.order].currency :
     e \in {e \in Counting("orders_count") : keys[e] = k /\ landed[e] > 0}}

\* The currency of a document is one that it counts, or none.
CurrencyCounted(coll, landed, keys) ==
  \A k \in DOMAIN coll :
    LET counted == CountedCurrencies(landed, keys, k)
    IN  IF counted = {} THEN coll[k].currency = NoCurrency ELSE coll[k].currency \in counted

\* Line l of e went into the product's document at k.
SoldInto(k, e, l) ==
  /\ e.type = "order.placed"
  /\ k = <<Order[e.order].branch, Order[e.order].items[l].product, PlacedOn(e)>>
  /\ lineApplied[e][l] > 0

\* A day that shows orders shows the currency of one of them, and a day without
\* orders shows none, whether a failure or an order made the row, and whichever
\* of two branches with different currencies came last (api-contracts.md: the
\* currency of the most recently applied event).  A product's day shows that of an
\* order which sold it, also when the bulk write was applied in part.
CurrencyOfAnOrder ==
  /\ CurrencyCounted(restaurantDays, Landed("restaurant"), RestaurantKeys)
  /\ CurrencyCounted(branchDays, Landed("branch"), BranchKeys)
  /\ \A k \in DOMAIN productDays : \E e \in Events : \E l \in Lines(e) :
       SoldInto(k, e, l) /\ productDays[k].currency = Order[e.order].currency
=============================================================================
