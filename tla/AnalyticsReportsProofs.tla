----------------------- MODULE AnalyticsReportsProofs -----------------------
(***************************************************************************)
(* Proofs, for every set of events, orders and workers and every length of *)
(* a day, that the reports of Reports hold what their readers rely on      *)
(* whatever state the event pipeline is in.                                *)
(***************************************************************************)
EXTENDS AnalyticsReports, AnalyticsProofs

\* Days are numbers.
LEMMA DatesAreNumbers ==
  /\ \A e \in Events : PlacedOn(e) \in Int /\ DayOf(e) \in Int
  /\ Dates \subseteq Int
<1>1. \A t \in Int : Date(t) \in Int
  BY DayAssumption DEF Date
<1>2. \A e \in Events : e.at \in Int /\ Order[e.order].placedAt \in Int
  BY EventsAssumption, OrdersAssumption
<1>3. \A e \in Events : PlacedOn(e) \in Int /\ DayOf(e) \in Int
  BY <1>1, <1>2 DEF PlacedOn, DayOf
<1>4. Dates \subseteq Int
  BY <1>1, <1>2, <1>3 DEF Dates
<1> QED BY <1>3, <1>4

\* A range that parseRange accepts starts no later than it ends.
LEMMA RangesAreNumbers ==
  ASSUME NEW g \in Ranges
  PROVE  g[1] \in Int /\ g[2] \in Int /\ g[1] <= g[2] /\ ~ (g[1] > g[2])
<1>1. g[1] \in Dates /\ g[2] \in Dates /\ g[1] <= g[2]
  BY DEF Ranges
<1>2. g[1] \in Int /\ g[2] \in Int
  BY <1>1, DatesAreNumbers
<1> DEFINE a == g[1]
           b == g[2]
<1> HIDE DEF a, b
<1>3. a \in Int /\ b \in Int /\ a <= b => ~ (a > b)
  OBVIOUS
<1> QED BY <1>1, <1>2, <1>3 DEF a, b

-----------------------------------------------------------------------------
\* Every product's document comes from an order whose items have landed.
SoldFirst ==
  \A k \in DOMAIN productDays :
    \E e \in Events : /\ e.type = "order.placed" /\ applied[e][3] > 0
                      /\ \E l \in Lines(e) : ItemKey(e, l) = k

\* The branch is the call before the products, so its document is there first.
LEMMA SoldFirstStep ==
  ASSUME ConsumerFacts, RowsOK, SoldFirst, [Next]_vars
  PROVE  SoldFirst'
<1>1. CASE Quiet
  BY <1>1 DEF Quiet, collections, SoldFirst
<1>2. ASSUME NEW o \in DOMAIN Order, ReapContext(o) PROVE SoldFirst'
  BY <1>2 DEF ReapContext, SoldFirst
<1>3. ASSUME NEW w \in Workers, NEW e \in Events, NEW i \in 1 .. NumCalls[e],
             NEW lines \in SUBSET Lines(e), Call(w, e, i, lines)
      PROVE  SoldFirst'
  <2>1. CallKeeps(w, e, i, lines)
    BY <1>3, EffectKeeps DEF Call
  <2>2. /\ applied'[e][i] > 0
        /\ \A d \in Events : applied[d][3] > 0 => applied'[d][3] > 0
    <3>1. applied' = [applied EXCEPT ![e][i] = @ + 1]
      BY <1>3 DEF Call
    <3>2. 3 \in C!Slots
      BY DEF C!Slots, MaxCalls
    <3>3. applied'[e][i] > 0
      BY <3>1, AppliedGrows
    <3>4. \A d \in Events : d # e \/ i # 3 => applied'[d][3] = applied[d][3]
      BY <3>1, <3>2, AppliedGrows
    <3> QED BY <3>3, <3>4
  <2>3. CASE FanOut(e.type)[i] # "product"
    BY <2>1, <2>2, <2>3 DEF CallKeeps, SoldFirst
  <2>4. CASE FanOut(e.type)[i] = "product"
    <3>1. /\ e.type = "order.placed"
          /\ productDays' = ApplyOrderPlacedItems(productDays, Order[e.order].branch, PlacedOn(e),
                                                  Order[e.order].currency, Order[e.order].items,
                                                  lines)
      BY <2>1, <2>4 DEF CallKeeps
    <3>2. Rows(productDays, ZeroProductDay)
      BY DEF RowsOK
    <3>3. DOMAIN productDays' = DOMAIN productDays \cup {ItemKey(e, l) : l \in lines}
      BY <3>1, <3>2, ItemsBook, ZenonT(30)
    <3>4. i = 3
      BY <2>4, <3>1, FanOuts, CallCounts
    <3> QED BY <2>2, <3>1, <3>3, <3>4 DEF SoldFirst
  <2> QED BY <2>3, <2>4
<1> QED BY <1>1, <1>2, <1>3, StepKinds

\* So no product is sold on a day of a branch without a document.
LEMMA SoldFirstCorrect == Spec => []SoldFirst
<1>1. Init => SoldFirst
  BY DEF Init, NoRows, SoldFirst
<1>2. ConsumerFacts /\ RowsOK /\ SoldFirst /\ [Next]_vars => SoldFirst'
  BY SoldFirstStep
<1> QED BY <1>1, <1>2, ConsumerCorrect, RowsCorrect, PTL DEF Spec

\* A product that is reported for a day was sold in an order that the branch
\* counts for that day (OnOrderPlaced writes the branch first).
THEOREM ProductsFollowBranch == Spec => []ProductsBehindBranch
<1>1. ASSUME ConsumerFacts, SoldFirst, RowsMatchEffects PROVE ProductsBehindBranch
  <2> SUFFICES ASSUME NEW k \in DOMAIN productDays
               PROVE  LET days == GetBranchDays(branchDays, k[1], k[3], k[3])
                      IN  k[3] \in DOMAIN days /\ days[k[3]].ordersCount > 0
    BY DEF ProductsBehindBranch
  <2>1. PICK e \in Events : /\ e.type = "order.placed" /\ applied[e][3] > 0
                            /\ \E l \in Lines(e) : ItemKey(e, l) = k
    BY <1>1 DEF SoldFirst
  <2>2. /\ applied \in [Events -> [C!Slots -> Nat]] /\ C!FanOutInOrder /\ NumCalls[e] = 5
        /\ 2 \in C!Slots /\ 3 \in C!Slots
    BY <1>1, <2>1, CallCounts DEF ConsumerFacts, C!TypeOK, C!Counting, C!Slots, MaxCalls
  <2>3. applied[e][3] <= applied[e][2] /\ applied[e][2] \in Nat /\ applied[e][3] \in Nat
    <3>1. 2 \in 1 .. NumCalls[e] /\ 3 \in 1 .. NumCalls[e] /\ 2 < 3
      BY <2>2
    <3> QED BY <2>2, <3>1 DEF C!FanOutInOrder
  <2>4. Landed("branch")[e] > 0 /\ \A d \in Events : Landed("branch")[d] \in Nat
    BY <2>1, <2>2, <2>3, LandedByType, LandedCounts
  <2>5. BranchKeys[e] = <<k[1], k[3]>> /\ k[3] \in Int
    BY <2>1, DatesAreNumbers DEF ItemKey, BranchKeys, DayOf
  <2>6. "orders_count" \in DayFields /\ e \in Counting("orders_count")
        /\ Amounts(e)["orders_count"] = 1
    BY <2>1, CountingByType, AmountsByType DEF DayFields, ZeroDay
  <2>7. /\ <<k[1], k[3]>> \in DOMAIN branchDays
        /\ branchDays[<<k[1], k[3]>>].orders_count > 0
    BY <1>1, <2>4, <2>5, <2>6, EffectsShow DEF RowsMatchEffects
  <2>8. k[3] \in FindByDateRange(branchDays, k[1], k[3], k[3])
    <3>1. k[3] \in {c[2] : c \in DOMAIN branchDays}
      <4>1. <<k[1], k[3]>>[2] = k[3]
        OBVIOUS
      <4> QED BY <2>7, <4>1
    <3> QED BY <2>5, <2>7, <3>1 DEF FindByDateRange, InRange
  <2>9. ~ (k[3] > k[3])
    BY <2>5
  <2> QED BY <2>7, <2>8, <2>9 DEF GetBranchDays
<1> QED BY <1>1, ConsumerCorrect, SoldFirstCorrect, EffectsCorrect, PTL

-----------------------------------------------------------------------------
\* A report of a restaurant's days, row by row.
LEMMA RestaurantReport ==
  ASSUME NEW r, NEW g \in Ranges,
         NEW days, days = GetRestaurantDays(restaurantDays, r, g[1], g[2])
  PROVE  /\ \A d : d \in DOMAIN days <=>
              <<r, d>> \in DOMAIN restaurantDays /\ InRange(d, g[1], g[2])
         /\ \A d \in DOMAIN days :
              LET row == restaurantDays[<<r, d>>]
              IN  /\ days[d].ordersCount = row.orders_count
                  /\ days[d].avgOrderMinor = Average(row.revenue_sum, row.orders_count)
<1>1. ~ (g[1] > g[2])
  BY RangesAreNumbers
<1>2. \A d : d \in FindByDateRange(restaurantDays, r, g[1], g[2])
               <=> <<r, d>> \in DOMAIN restaurantDays /\ InRange(d, g[1], g[2])
  <2>1. \A d : <<r, d>> \in DOMAIN restaurantDays => d \in {k[2] : k \in DOMAIN restaurantDays}
    <3>1. \A d : <<r, d>>[2] = d
      OBVIOUS
    <3> QED BY <3>1
  <2> QED BY <2>1 DEF FindByDateRange
<1> QED BY <1>1, <1>2 DEF GetRestaurantDays

\* The count of active restaurants is the count of restaurants whose own report
\* shows an order (CountActiveInRange).
THEOREM ActiveCorrect == Spec => []ActiveMeansOrders
<1>1. ASSUME RowsMatchEffects PROVE ActiveMeansOrders
  <2> SUFFICES ASSUME NEW g \in Ranges
               PROVE  GetActiveRestaurants(restaurantDays, g[1], g[2]) =
                        Cardinality({r \in ReportedRestaurants :
                          LET days == GetRestaurantDays(restaurantDays, r, g[1], g[2])
                          IN  \E d \in DOMAIN days : days[d].ordersCount > 0})
    BY DEF ActiveMeansOrders
  <2> DEFINE Shown(r) ==
               LET days == GetRestaurantDays(restaurantDays, r, g[1], g[2])
               IN  \E d \in DOMAIN days : days[d].ordersCount > 0
             Rows_ == {k \in DOMAIN restaurantDays :
                         InRange(k[2], g[1], g[2]) /\ restaurantDays[k].orders_count > 0}
  <2>1. \A r : Shown(r) <=> \E d : <<r, d>> \in Rows_
    <3> SUFFICES ASSUME NEW r PROVE Shown(r) <=> \E d : <<r, d>> \in Rows_
      OBVIOUS
    <3> DEFINE days == GetRestaurantDays(restaurantDays, r, g[1], g[2])
    <3>1. \A d : d \in DOMAIN days <=> <<r, d>> \in DOMAIN restaurantDays /\ InRange(d, g[1], g[2])
      BY RestaurantReport
    <3>2. \A d \in DOMAIN days : days[d].ordersCount = restaurantDays[<<r, d>>].orders_count
      BY RestaurantReport
    <3>3. \A d : <<r, d>>[2] = d
      OBVIOUS
    <3> HIDE DEF days
    <3>4. (\E d \in DOMAIN days : days[d].ordersCount > 0) <=> \E d : <<r, d>> \in Rows_
      BY <3>1, <3>2, <3>3
    <3> QED BY <3>4 DEF days
  <2>2. \A k \in Rows_ : k = <<k[1], k[2]>> /\ k[1] \in ReportedRestaurants
    <3>1. \A e \in Events : e.order \in DOMAIN Order
      BY EventsAssumption
    <3> QED BY <1>1, <3>1 DEF RowsMatchEffects, AddsUp, RestaurantKeys, ReportedRestaurants
  <2>3. {k[1] : k \in Rows_} = {r \in ReportedRestaurants : \E d : <<r, d>> \in Rows_}
    <3>1. \A r, d : <<r, d>>[1] = r
      OBVIOUS
    <3> HIDE DEF Rows_
    <3> QED BY <2>2, <3>1
  <2>4. {r \in ReportedRestaurants : Shown(r)} = {k[1] : k \in Rows_}
    <3> HIDE DEF Shown, Rows_
    <3> QED BY <2>1, <2>3
  <2>5. GetActiveRestaurants(restaurantDays, g[1], g[2]) = Cardinality({k[1] : k \in Rows_})
    BY RangesAreNumbers DEF GetActiveRestaurants, CountActiveInRange
  <2> QED BY <2>4, <2>5
<1> QED BY <1>1, EffectsCorrect, PTL

-----------------------------------------------------------------------------
\* A document shows the currency of a placed order that it counts, or none while
\* it counts no order: CurrencyCounted, by the orders themselves.
CurrencyShown(coll, landed, keys) ==
  \A k \in DOMAIN coll :
    \/ \E e \in Events : /\ e.type = "order.placed" /\ keys[e] = k /\ landed[e] > 0
                         /\ coll[k].currency = Order[e.order].currency
    \/ /\ coll[k].currency = NoCurrency
       /\ \A e \in Events : e.type = "order.placed" /\ keys[e] = k => ~ (landed[e] > 0)

\* A document that holds the currency of a counted order is reported with it.
LEMMA CurrencyOfShown ==
  ASSUME NEW coll, NEW landed, NEW keys, CurrencyShown(coll, landed, keys)
  PROVE  CurrencyCounted(coll, landed, keys)
<1> SUFFICES ASSUME NEW k \in DOMAIN coll
             PROVE  LET counted == CountedCurrencies(landed, keys, k)
                    IN  IF counted = {} THEN coll[k].currency = NoCurrency
                        ELSE coll[k].currency \in counted
  BY DEF CurrencyCounted
<1>1. \A c : c \in CountedCurrencies(landed, keys, k)
               <=> \E e \in Events : /\ e.type = "order.placed" /\ keys[e] = k /\ landed[e] > 0
                                     /\ c = Order[e.order].currency
  <2>1. \A e : e \in Counting("orders_count") <=> e \in Events /\ e.type = "order.placed"
    <3>1. \A e \in Events : e \in Counting("orders_count") <=> e.type = "order.placed"
      BY CountingByType
    <3> QED BY <3>1 DEF Counting
  <2> QED BY <2>1 DEF CountedCurrencies
<1> QED BY <1>1 DEF CurrencyShown

\* The next call of an event keeps the currencies of a collection true, whether
\* it writes to this collection or not.
LEMMA CurrencyCall ==
  ASSUME ConsumerFacts, NEW name, NEW e \in Events, NEW i \in 1 .. NumCalls[e],
         applied' = [applied EXCEPT ![e][i] = @ + 1],
         NEW old, NEW new, NEW keys, AddsUp(old, DayFields, Landed(name), keys),
         CurrencyShown(old, Landed(name), keys),
         IF FanOut(e.type)[i] = name THEN DayBooked(old, new, keys, e) ELSE new = old
  PROVE  CurrencyShown(new, Landed(name)', keys)
<1>1. applied \in [Events -> [C!Slots -> Nat]]
  BY DEF ConsumerFacts, C!TypeOK
<1>2. \A d \in Events : Landed(name)[d] \in Nat
  BY <1>1, LandedCounts
<1>3. CASE FanOut(e.type)[i] # name
  <2>1. \A d \in Events : Landed(name)'[d] = Landed(name)[d]
    BY <1>1, <1>3, LandedGrows
  <2>2. Landed(name)' = Landed(name)
    BY <2>1 DEF Landed
  <2> QED BY <1>3, <2>2
<1>4. CASE FanOut(e.type)[i] = name
  <2> PICK landed, more : landed = Landed(name) /\ more = Landed(name)'
    OBVIOUS
  <2>1. more[e] > 0 /\ \A d \in Events \ {e} : more[d] = landed[d]
    <3>1. Landed(name)'[e] = Landed(name)[e] + 1
      BY <1>1, <1>4, LandedGrows
    <3>2. \A d \in Events \ {e} : Landed(name)'[d] = Landed(name)[d]
      BY <1>1, LandedGrows
    <3>3. \A n \in Nat : n + 1 > 0
      OBVIOUS
    <3> QED BY <1>2, <3>1, <3>2, <3>3
  <2>2. \A d \in Events : landed[d] > 0 => more[d] > 0
    BY <2>1
  <2>3. /\ DOMAIN new = DOMAIN old \cup {keys[e]}
        /\ \A k \in DOMAIN old \ {keys[e]} : new[k] = old[k]
        /\ new[keys[e]].currency =
             IF e.type = "order.placed" THEN Order[e.order].currency
             ELSE IF keys[e] \in DOMAIN old THEN old[keys[e]].currency ELSE NoCurrency
    BY <1>4 DEF DayBooked, Booked
  <2>4. CurrencyShown(old, landed, keys)
    OBVIOUS
  <2>5. ASSUME keys[e] \notin DOMAIN old, NEW d \in Events, d.type = "order.placed",
               keys[d] = keys[e], landed[d] > 0
        PROVE  FALSE
    <3>1. "orders_count" \in DayFields /\ d \in Counting("orders_count")
          /\ Amounts(d)["orders_count"] = 1
      BY <2>5, CountingByType, AmountsByType DEF DayFields, ZeroDay
    <3> QED BY <1>2, <2>5, <3>1, EffectsShow
  <2>6. ASSUME NEW k \in DOMAIN new, k # keys[e]
        PROVE  \/ \E d \in Events : /\ d.type = "order.placed" /\ keys[d] = k /\ more[d] > 0
                                    /\ new[k].currency = Order[d.order].currency
               \/ /\ new[k].currency = NoCurrency
                  /\ \A d \in Events : d.type = "order.placed" /\ keys[d] = k => ~ (more[d] > 0)
    <3>1. k \in DOMAIN old /\ new[k] = old[k]
      BY <2>3, <2>6
    <3>2. \A d \in Events : keys[d] = k => more[d] = landed[d]
      BY <2>1, <2>6
    <3> QED BY <2>2, <2>4, <3>1, <3>2 DEF CurrencyShown
  <2>7. ASSUME e.type = "order.placed"
        PROVE  \E d \in Events : /\ d.type = "order.placed" /\ keys[d] = keys[e] /\ more[d] > 0
                                 /\ new[keys[e]].currency = Order[d.order].currency
    BY <2>1, <2>3, <2>7
  <2>8. ASSUME e.type # "order.placed"
        PROVE  \/ \E d \in Events : /\ d.type = "order.placed" /\ keys[d] = keys[e] /\ more[d] > 0
                                    /\ new[keys[e]].currency = Order[d.order].currency
               \/ /\ new[keys[e]].currency = NoCurrency
                  /\ \A d \in Events : d.type = "order.placed" /\ keys[d] = keys[e]
                                         => ~ (more[d] > 0)
    <3>1. \A d \in Events : d.type = "order.placed" => more[d] = landed[d]
      BY <2>1, <2>8
    <3>2. CASE keys[e] \in DOMAIN old
      <4>1. new[keys[e]].currency = old[keys[e]].currency
        BY <2>3, <2>8, <3>2
      <4> QED BY <2>2, <2>4, <3>1, <3>2, <4>1 DEF CurrencyShown
    <3>3. CASE keys[e] \notin DOMAIN old
      BY <2>3, <2>5, <2>8, <3>1, <3>3
    <3> QED BY <3>2, <3>3
  <2>9. CurrencyShown(new, more, keys)
    BY <2>6, <2>7, <2>8 DEF CurrencyShown
  <2> QED BY <2>9
<1> QED BY <1>3, <1>4

\* The currencies that the days of restaurants and branches show.
Currencies ==
  /\ CurrencyShown(restaurantDays, Landed("restaurant"), RestaurantKeys)
  /\ CurrencyShown(branchDays, Landed("branch"), BranchKeys)

\* Only OnOrderPlaced sets a currency, in the write that counts the order.
LEMMA CurrenciesStep ==
  ASSUME ConsumerFacts, ContextsTrue, RowsOK, RowsMatchEffects, Currencies, [Next]_vars
  PROVE  Currencies'
<1>1. ASSUME UNCHANGED <<restaurantDays, branchDays, applied>> PROVE Currencies'
  <2>1. \A name : Landed(name)' = Landed(name)
    BY <1>1 DEF Landed
  <2> QED BY <1>1, <2>1 DEF Currencies
<1>2. CASE Quiet
  BY <1>1, <1>2 DEF Quiet, collections
<1>3. ASSUME NEW o \in DOMAIN Order, ReapContext(o) PROVE Currencies'
  BY <1>1, <1>3 DEF ReapContext
<1>4. ASSUME NEW w \in Workers, NEW e \in Events, NEW i \in 1 .. NumCalls[e],
             NEW lines \in SUBSET Lines(e), Call(w, e, i, lines)
      PROVE  Currencies'
  <2>1. /\ Making(w, e, i) /\ Effect(w, e, lines) /\ done[w] \in Nat
        /\ applied' = [applied EXCEPT ![e][i] = @ + 1]
    BY <1>4 DEF Call, ConsumerFacts, C!TypeOK
  <2>2. CallBooks(e, i)
    BY <2>1, EffectBooks
  <2>3. CurrencyShown(restaurantDays', Landed("restaurant")', RestaurantKeys)
    BY <2>1, <2>2, CurrencyCall DEF CallBooks, Currencies, RowsMatchEffects
  <2>4. CurrencyShown(branchDays', Landed("branch")', BranchKeys)
    BY <2>1, <2>2, CurrencyCall DEF CallBooks, Currencies, RowsMatchEffects
  <2> QED BY <2>3, <2>4 DEF Currencies
<1> QED BY <1>2, <1>3, <1>4, StepKinds

\* The currency that a product's day shows is that of an order that sold it.
ItemCurrencies ==
  \A k \in DOMAIN productDays : \E e \in Events : \E l \in Lines(e) :
    SoldInto(k, e, l) /\ productDays[k].currency = Order[e.order].currency

\* The bulk write gives the documents of its lines the currency of the order.
LEMMA ItemCurrencyBooked ==
  ASSUME NEW coll, Rows(coll, ZeroProductDay), NEW e \in Events, NEW lines \in SUBSET Lines(e),
         NEW new, new = ApplyOrderPlacedItems(coll, Order[e.order].branch, PlacedOn(e),
                                              Order[e.order].currency, Order[e.order].items, lines)
  PROVE  \A k \in DOMAIN new :
           \/ \E l \in lines : ItemKey(e, l) = k /\ new[k].currency = Order[e.order].currency
           \/ k \in DOMAIN coll /\ new[k] = coll[k]
<1> SUFFICES ASSUME NEW k \in DOMAIN new
             PROVE  \/ \E l \in lines : /\ ItemKey(e, l) = k
                                         /\ new[k].currency = Order[e.order].currency
                    \/ k \in DOMAIN coll /\ new[k] = coll[k]
  OBVIOUS
<1> DEFINE At == LinesAt(e, lines, k)
           row == IF k \in DOMAIN coll THEN coll[k] ELSE ZeroProductDay
           inc == LineSums(Order[e.order].items, At)
           set == [currency |-> Order[e.order].currency]
<1>1. /\ DOMAIN new = DOMAIN coll \cup {ItemKey(e, l) : l \in lines}
      /\ new[k] = IF At = {} THEN coll[k] ELSE Change(row, inc, set)
  BY DEF ApplyOrderPlacedItems, LinesAt, ItemKey
<1>2. At # {} <=> \E l \in lines : ItemKey(e, l) = k
  BY DEF LinesAt
<1>3. "currency" \in DOMAIN row
  BY DEF Rows, ZeroProductDay
<1>4. "currency" \in DOMAIN set /\ set["currency"] = Order[e.order].currency
  OBVIOUS
<1> HIDE DEF At, row, inc, set
<1>5. Change(row, inc, set)["currency"] = Order[e.order].currency
  BY <1>3, <1>4 DEF Change
<1> QED BY <1>1, <1>2, <1>5

\* A line that landed once has landed ever since.
LEMMA LinesStay ==
  ASSUME ItemsInStep, NEW e \in Events, NEW lines \in SUBSET Lines(e),
         lineApplied' = [lineApplied EXCEPT ![e] =
           [l \in Lines(e) |-> IF l \in lines THEN @[l] + 1 ELSE @[l]]]
  PROVE  /\ \A d \in Events : \A l \in Lines(d) :
              lineApplied[d][l] > 0 => lineApplied'[d][l] > 0
         /\ \A l \in lines : lineApplied'[e][l] > 0
<1> DEFINE row == [l \in Lines(e) |-> IF l \in lines THEN lineApplied[e][l] + 1
                                      ELSE lineApplied[e][l]]
<1>1. /\ lineApplied = [d \in Events |-> lineApplied[d]]
      /\ \A l \in Lines(e) : lineApplied[e][l] \in Nat
  BY DEF ItemsInStep
<1>2. /\ \A l \in Lines(e) : lineApplied[e][l] > 0 => row[l] > 0
      /\ \A l \in lines : row[l] > 0
  BY <1>1
<1>3. lineApplied' = [lineApplied EXCEPT ![e] = row]
  OBVIOUS
<1> HIDE DEF row
<1>4. /\ lineApplied'[e] = row
      /\ \A d \in Events : d # e => lineApplied'[d] = lineApplied[d]
  BY <1>1, <1>3
<1> QED BY <1>2, <1>4

\* Only a bulk write sets the currency of a product's day, with the line it adds.
LEMMA ItemCurrenciesStep ==
  ASSUME ConsumerFacts, RowsOK, ItemsInStep, ItemCurrencies, [Next]_vars
  PROVE  ItemCurrencies'
<1>1. ASSUME UNCHANGED <<productDays, lineApplied>> PROVE ItemCurrencies'
  BY <1>1 DEF ItemCurrencies, SoldInto
<1>2. CASE Quiet
  BY <1>1, <1>2 DEF Quiet, collections
<1>3. ASSUME NEW o \in DOMAIN Order, ReapContext(o) PROVE ItemCurrencies'
  BY <1>1, <1>3 DEF ReapContext
<1>4. ASSUME NEW w \in Workers, NEW e \in Events, NEW i \in 1 .. NumCalls[e],
             NEW lines \in SUBSET Lines(e), Call(w, e, i, lines)
      PROVE  ItemCurrencies'
  <2>1. CallKeeps(w, e, i, lines)
    BY <1>4, EffectKeeps DEF Call
  <2>2. CASE FanOut(e.type)[i] # "product"
    BY <1>1, <2>1, <2>2 DEF CallKeeps
  <2>3. CASE FanOut(e.type)[i] = "product"
    <3>1. /\ e.type = "order.placed"
          /\ productDays' = ApplyOrderPlacedItems(productDays, Order[e.order].branch, PlacedOn(e),
                                                  Order[e.order].currency, Order[e.order].items,
                                                  lines)
          /\ lineApplied' = [lineApplied EXCEPT ![e] =
               [l \in Lines(e) |-> IF l \in lines THEN @[l] + 1 ELSE @[l]]]
      BY <2>1, <2>3 DEF CallKeeps
    <3>2. /\ \A d \in Events : \A l \in Lines(d) :
               lineApplied[d][l] > 0 => lineApplied'[d][l] > 0
          /\ \A l \in lines : lineApplied'[e][l] > 0
      BY <3>1, LinesStay
    <3>3. SUFFICES ASSUME NEW k \in DOMAIN productDays'
                   PROVE  \E d \in Events : \E l \in Lines(d) :
                            /\ SoldInto(k, d, l)'
                            /\ productDays'[k].currency = Order[d.order].currency
      BY DEF ItemCurrencies
    <3>4. Rows(productDays, ZeroProductDay)
      BY DEF RowsOK
    <3>5. \/ \E l \in lines : /\ ItemKey(e, l) = k
                              /\ productDays'[k].currency = Order[e.order].currency
          \/ k \in DOMAIN productDays /\ productDays'[k] = productDays[k]
      <4>1. \A n : n = ApplyOrderPlacedItems(productDays, Order[e.order].branch, PlacedOn(e),
                                   Order[e.order].currency, Order[e.order].items, lines)
               => \A j \in DOMAIN n :
                    \/ \E l \in lines : /\ ItemKey(e, l) = j
                                       /\ n[j].currency = Order[e.order].currency
                    \/ j \in DOMAIN productDays /\ n[j] = productDays[j]
        BY <3>4, ItemCurrencyBooked
      <4> QED BY <3>1, <4>1
    <3>6. CASE \E l \in lines : /\ ItemKey(e, l) = k
                               /\ productDays'[k].currency = Order[e.order].currency
      BY <3>1, <3>2, <3>6 DEF SoldInto, ItemKey
    <3>7. CASE k \in DOMAIN productDays /\ productDays'[k] = productDays[k]
      BY <3>2, <3>7 DEF ItemCurrencies, SoldInto
    <3> QED BY <3>5, <3>6, <3>7
  <2> QED BY <2>2, <2>3
<1> QED BY <1>2, <1>3, <1>4, StepKinds

\* The currency of a day is the currency of one of the orders that it counts, and
\* that of a product's day the currency of an order that sold the product.
THEOREM CurrencyCorrect == Spec => []CurrencyOfAnOrder
<1>1. Init => Currencies /\ ItemCurrencies
  BY DEF Init, NoRows, Currencies, CurrencyShown, ItemCurrencies
<1>2. ConsumerFacts /\ ContextsTrue /\ RowsOK /\ RowsMatchEffects /\ Currencies /\ [Next]_vars
        => Currencies'
  BY CurrenciesStep
<1>3. ConsumerFacts /\ RowsOK /\ ItemsInStep /\ [Next]_vars => ItemsInStep'
  BY ItemsStep
<1>4. ConsumerFacts /\ RowsOK /\ ItemsInStep /\ ItemCurrencies /\ [Next]_vars
        => ItemCurrencies'
  BY ItemCurrenciesStep
<1>5. Currencies /\ ItemCurrencies => CurrencyOfAnOrder
  BY CurrencyOfShown DEF Currencies, ItemCurrencies, CurrencyOfAnOrder
<1> QED BY <1>1, <1>2, <1>3, <1>4, <1>5, ItemsInit, ConsumerCorrect, ContextsCorrect,
           RowsCorrect, EffectsCorrect, PTL DEF Spec

-----------------------------------------------------------------------------
\* The platform's documents in a range of days, of one currency, and the sum of
\* a counter over them: a row of the summary.
Group(from, to, c) == {k \in {k \in DOMAIN platformDays : InRange(k[1], from, to)} : k[2] = c}
GroupSum(from, to, c, f) ==
  SumFunctionOnSet([k \in Group(from, to, c) |-> platformDays[k][f]], Group(from, to, c))

\* What the summary shows for a currency.
Shown(from, to, c, f) ==
  LET summary == GetPlatformSummary(platformDays, from, to)
  IN  IF c \in DOMAIN summary THEN summary[c][f] ELSE 0

\* A column of listed rows, added up.
RowSum(days, listed, f) == SumFunctionOnSet([k \in listed |-> days[k][f]], listed)

\* The documents of the platform are finitely many, and their days are numbers.
LEMMA PlatformDocuments ==
  ASSUME RowsMatchEffects
  PROVE  IsFiniteSet(DOMAIN platformDays) /\ \A k \in DOMAIN platformDays : k[1] \in Int
<1>1. DOMAIN platformDays \subseteq {PlatformKeys[e] : e \in Events}
  BY DEF RowsMatchEffects, AddsUp
<1>2. IsFiniteSet({PlatformKeys[e] : e \in Events})
  BY EventsAssumption, FiniteImage
<1>3. \A e \in Events : PlatformKeys[e][1] \in Int
  BY DatesAreNumbers DEF PlatformKeys
<1> QED BY <1>1, <1>2, <1>3, FS_Subset

\* The summary's $group by currency sums each counter over the currency's
\* documents, and a currency without documents is not shown.
LEMMA SummaryShows ==
  ASSUME NEW from, NEW to, ~ (from > to), NEW c
  PROVE  /\ Shown(from, to, c, "ordersCount") = GroupSum(from, to, c, "orders_count")
         /\ Shown(from, to, c, "revenueSumMinor") = GroupSum(from, to, c, "revenue_sum")
<1> DEFINE found == {k \in DOMAIN platformDays : InRange(k[1], from, to)}
           summary == GetPlatformSummary(platformDays, from, to)
           totals == SummaryByCurrency(platformDays, from, to)
<1>1. totals = [d \in {k[2] : k \in found} |->
                  [f \in DOMAIN ZeroPlatformDay |-> GroupSum(from, to, d, f)]]
  BY DEF SummaryByCurrency, GroupSum, Group
<1>2. "orders_count" \in DOMAIN ZeroPlatformDay /\ "revenue_sum" \in DOMAIN ZeroPlatformDay
  BY DEF ZeroPlatformDay
<1>3. /\ DOMAIN totals = {k[2] : k \in found}
      /\ \A d \in DOMAIN totals : /\ totals[d].orders_count = GroupSum(from, to, d, "orders_count")
                                  /\ totals[d].revenue_sum = GroupSum(from, to, d, "revenue_sum")
  BY <1>1, <1>2
<1> HIDE DEF totals
<1>4. /\ DOMAIN summary = DOMAIN totals
      /\ \A d \in DOMAIN totals : /\ summary[d].ordersCount = totals[d].orders_count
                                  /\ summary[d].revenueSumMinor = totals[d].revenue_sum
  BY DEF GetPlatformSummary, totals
<1>5. ASSUME c \notin DOMAIN totals, NEW f PROVE GroupSum(from, to, c, f) = 0
  <2>1. Group(from, to, c) = {}
    BY <1>3, <1>5 DEF Group
  <2> QED BY <2>1, SumEmpty DEF GroupSum
<1> HIDE DEF summary
<1> QED BY <1>3, <1>4, <1>5 DEF Shown, summary

\* The rows that are listed for a currency add up to what the summary shows.
LEMMA ListedAddUp ==
  ASSUME NEW from, NEW to, ~ (from > to), NEW c, IsFiniteSet(DOMAIN platformDays),
         NEW days, days = GetPlatformDays(platformDays, from, to),
         NEW listed, listed = {k \in DOMAIN days : k[2] = c}
  PROVE  /\ RowSum(days, listed, "ordersCount") = GroupSum(from, to, c, "orders_count")
         /\ RowSum(days, listed, "revenueSumMinor") = GroupSum(from, to, c, "revenue_sum")
<1>1. /\ DOMAIN days = {k \in DOMAIN platformDays : InRange(k[1], from, to)}
      /\ \A k \in DOMAIN days : /\ days[k]["ordersCount"] = platformDays[k]["orders_count"]
                                /\ days[k]["revenueSumMinor"] = platformDays[k]["revenue_sum"]
  BY DEF GetPlatformDays
<1>2. listed = Group(from, to, c)
  BY <1>1 DEF Group
<1>3. [k \in listed |-> days[k]["ordersCount"]]
        = [k \in Group(from, to, c) |-> platformDays[k]["orders_count"]]
  BY <1>1, <1>2
<1>4. [k \in listed |-> days[k]["revenueSumMinor"]]
        = [k \in Group(from, to, c) |-> platformDays[k]["revenue_sum"]]
  BY <1>1, <1>2
<1> QED BY <1>2, <1>3, <1>4 DEF RowSum, GroupSum

\* A range split after day m: every document is in one of the two parts.
LEMMA GroupSplits ==
  ASSUME RowsOK, RowsMatchEffects, NEW from \in Int, NEW to \in Int,
         NEW m \in from .. (to - 1), NEW c, NEW f \in DOMAIN ZeroPlatformDay
  PROVE  GroupSum(from, to, c, f) = GroupSum(from, m, c, f) + GroupSum(m + 1, to, c, f)
<1> DEFINE all == Group(from, to, c)
           A == Group(from, m, c)
           B == Group(m + 1, to, c)
           h == [k \in DOMAIN platformDays |-> platformDays[k][f]]
<1>1. /\ IsFiniteSet(DOMAIN platformDays) /\ \A k \in DOMAIN platformDays : k[1] \in Int
      /\ \A S \in SUBSET DOMAIN platformDays : IsFiniteSet(S)
  BY PlatformDocuments, FS_Subset
<1>2. all \subseteq DOMAIN platformDays /\ A \subseteq DOMAIN platformDays
      /\ B \subseteq DOMAIN platformDays
  BY DEF Group
<1>3. A \cup B = all /\ A \cap B = {}
  BY <1>1 DEF Group, InRange
<1>4. f # "currency"
  BY DEF ZeroPlatformDay
<1>5. \A k \in DOMAIN platformDays : h[k] = platformDays[k][f] /\ h[k] \in Nat
  BY <1>4 DEF RowsOK, Rows
<1>6. Counts(h, all)
  BY <1>2, <1>5 DEF Counts
<1>7. ASSUME NEW S \in SUBSET DOMAIN platformDays
      PROVE  SumFunctionOnSet([k \in S |-> platformDays[k][f]], S) = SumFunctionOnSet(h, S)
  <2> DEFINE j == [k \in S |-> platformDays[k][f]]
  <2>1. \A k \in S : j[k] = h[k]
    OBVIOUS
  <2> HIDE DEF j, h
  <2>2. SumFunctionOnSet(j, S) = SumFunctionOnSet(h, S)
    BY <1>1, <2>1, SumSame
  <2> QED BY <2>2 DEF j
<1>8. /\ GroupSum(from, to, c, f) = SumFunctionOnSet(h, all)
      /\ GroupSum(from, m, c, f) = SumFunctionOnSet(h, A)
      /\ GroupSum(m + 1, to, c, f) = SumFunctionOnSet(h, B)
  BY <1>2, <1>7 DEF GroupSum
<1> HIDE DEF all, A, B, h
<1>9. SumFunctionOnSet(h, all) = SumFunctionOnSet(h, A) + SumFunctionOnSet(h, B)
  BY <1>1, <1>2, <1>3, <1>6, SumDisjoint
<1> QED BY <1>8, <1>9

\* The summary of a range is the sum of its parts' and of the rows listed for it.
THEOREM SummariesCorrect == Spec => []SummariesAddUp
<1>1. ASSUME RowsOK, RowsMatchEffects PROVE SummariesAddUp
  <2> SUFFICES ASSUME NEW g \in Ranges, NEW c, NEW f \in {"ordersCount", "revenueSumMinor"}
               PROVE  LET days == GetPlatformDays(platformDays, g[1], g[2])
                          listed == {k \in DOMAIN days : k[2] = c}
                      IN  /\ Shown(g[1], g[2], c, f)
                               = SumFunctionOnSet([k \in listed |-> days[k][f]], listed)
                          /\ \A m \in g[1] .. (g[2] - 1) :
                               Shown(g[1], g[2], c, f)
                                 = Shown(g[1], m, c, f) + Shown(m + 1, g[2], c, f)
    BY DEF SummariesAddUp, Shown
  <2> PICK from, to : from = g[1] /\ to = g[2]
    OBVIOUS
  <2>1. from \in Int /\ to \in Int /\ ~ (from > to)
    BY RangesAreNumbers
  <2> DEFINE days == GetPlatformDays(platformDays, from, to)
             listed == {k \in DOMAIN days : k[2] = c}
             Field(n) == IF n = "ordersCount" THEN "orders_count" ELSE "revenue_sum"
  <2>2. IsFiniteSet(DOMAIN platformDays) /\ Field(f) \in DOMAIN ZeroPlatformDay
    BY <1>1, PlatformDocuments DEF ZeroPlatformDay
  <2>3. \A a, b : ~ (a > b) => Shown(a, b, c, f) = GroupSum(a, b, c, Field(f))
    BY SummaryShows
  <2>4. SumFunctionOnSet([k \in listed |-> days[k][f]], listed) = GroupSum(from, to, c, Field(f))
    <3>1. days = GetPlatformDays(platformDays, from, to) /\ listed = {k \in DOMAIN days : k[2] = c}
      OBVIOUS
    <3> HIDE DEF days, listed
    <3>2. /\ RowSum(days, listed, "ordersCount") = GroupSum(from, to, c, "orders_count")
          /\ RowSum(days, listed, "revenueSumMinor") = GroupSum(from, to, c, "revenue_sum")
      BY <2>1, <2>2, <3>1, ListedAddUp
    <3>3. RowSum(days, listed, f) = GroupSum(from, to, c, Field(f))
      BY <3>2
    <3> QED BY <3>3 DEF RowSum
  <2>5. ASSUME NEW m \in from .. (to - 1)
        PROVE  Shown(from, to, c, f) = Shown(from, m, c, f) + Shown(m + 1, to, c, f)
    <3>1. ~ (from > m) /\ ~ (m + 1 > to)
      BY <2>1
    <3>2. GroupSum(from, to, c, Field(f))
            = GroupSum(from, m, c, Field(f)) + GroupSum(m + 1, to, c, Field(f))
      BY <1>1, <2>1, <2>2, GroupSplits
    <3> QED BY <2>1, <2>3, <3>1, <3>2
  <2> QED BY <2>1, <2>3, <2>4, <2>5
<1> QED BY <1>1, RowsCorrect, EffectsCorrect, PTL

-----------------------------------------------------------------------------
\* The events that book a field to the document at k.
BookedAt(keys, k, f) == {e \in Counting(f) : keys[e] = k}

\* The quotient of two fields that the same events book, one of them by 1 each,
\* lies between two amounts that were booked.
LEMMA AverageOfField ==
  ASSUME NEW coll, NEW landed, NEW keys, AddsUp(coll, DayFields, landed, keys),
         \A e \in Events : landed[e] \in Nat,
         NEW count \in DayFields, NEW sum \in DayFields, Counting(count) = Counting(sum),
         \A e \in Counting(count) : Amounts(e)[count] = 1,
         NEW k \in DOMAIN coll, coll[k][count] > 0
  PROVE  \E a, b \in BookedAt(keys, k, sum) :
           /\ Amounts(a)[sum] <= Average(coll[k][sum], coll[k][count])
           /\ Average(coll[k][sum], coll[k][count]) <= Amounts(b)[sum]
<1> DEFINE S == BookedAt(keys, k, sum)
           w == [e \in S |-> landed[e] * Amounts(e)[count]]
           p == [e \in S |-> landed[e] * Amounts(e)[sum]]
           a == [e \in S |-> Amounts(e)[sum]]
<1>1. PICK e \in Events : keys[e] = k
  BY DEF AddsUp
<1>2. coll[k][count] = Effects(landed, count, BookedAt(keys, k, count))
      /\ coll[k][sum] = Effects(landed, sum, BookedAt(keys, k, sum))
  BY <1>1 DEF AddsUp, Value, BookedAt
<1>3. BookedAt(keys, k, count) = S
  BY DEF BookedAt
<1>4. coll[k][count] = SumFunctionOnSet(w, S) /\ coll[k][sum] = SumFunctionOnSet(p, S)
  BY <1>2, <1>3 DEF Effects
<1>5. IsFiniteSet(S) /\ S \subseteq Events
  BY EventsAssumption, FS_Subset DEF BookedAt, Counting
<1>6. \A d \in S : /\ landed[d] \in Nat /\ Amounts(d)[sum] \in Nat
                   /\ Amounts(d)[count] = 1
  <2>1. \A d \in S : d \in Counting(sum) /\ d \in Counting(count) /\ d \in Events
    BY DEF BookedAt, Counting
  <2> QED BY <2>1, AmountsCount DEF Counting
<1>7. \A m, n \in Nat : m * 1 = m /\ m * n = n * m
  OBVIOUS
<1>8. /\ \A d \in S : w[d] = landed[d] /\ a[d] = Amounts(d)[sum] /\ p[d] = a[d] * w[d]
      /\ Counts(w, S) /\ Counts(a, S)
  BY <1>6, <1>7 DEF Counts
<1> HIDE DEF S, w, p, a
<1>9. /\ \E x \in S : a[x] <= SumFunctionOnSet(p, S) \div SumFunctionOnSet(w, S)
      /\ \E y \in S : SumFunctionOnSet(p, S) \div SumFunctionOnSet(w, S) <= a[y]
  BY <1>4, <1>5, <1>8, AverageBetween
<1>10. Average(coll[k][sum], coll[k][count]) = SumFunctionOnSet(p, S) \div SumFunctionOnSet(w, S)
  BY <1>4 DEF Average
<1>11. \E x, y \in S : /\ Amounts(x)[sum] <= Average(coll[k][sum], coll[k][count])
                       /\ Average(coll[k][sum], coll[k][count]) <= Amounts(y)[sum]
  BY <1>8, <1>9, <1>10
<1> QED BY <1>11 DEF S

\* An average that a report of a restaurant shows is one that could be.
THEOREM AveragesCorrect == Spec => []AveragesPlausible
<1>1. ASSUME ConsumerFacts, RowsMatchEffects PROVE AveragesPlausible
  <2> SUFFICES ASSUME NEW r \in ReportedRestaurants, NEW g \in Ranges,
                      NEW d \in DOMAIN GetRestaurantDays(restaurantDays, r, g[1], g[2])
               PROVE  LET days == GetRestaurantDays(restaurantDays, r, g[1], g[2])
                          delivery == GetRestaurantDeliveryAvg(restaurantDays, r, g[1], g[2])
                      IN  /\ days[d].ordersCount > 0 =>
                               \E a, b \in BookedBy(r, d, "revenue_sum") :
                                 /\ Amounts(a).revenue_sum <= days[d].avgOrderMinor
                                 /\ days[d].avgOrderMinor <= Amounts(b).revenue_sum
                          /\ delivery[d].deliveredCount > 0 =>
                               \E a, b \in BookedBy(r, d, "delivery_ms_sum") :
                                 /\ Amounts(a).delivery_ms_sum <= delivery[d].avgDeliveryMs
                                 /\ delivery[d].avgDeliveryMs <= Amounts(b).delivery_ms_sum
    BY DEF AveragesPlausible
  <2> DEFINE days == GetRestaurantDays(restaurantDays, r, g[1], g[2])
             delivery == GetRestaurantDeliveryAvg(restaurantDays, r, g[1], g[2])
             k == <<r, d>>
             row == restaurantDays[k]
  <2>1. /\ k \in DOMAIN restaurantDays /\ d \in FindByDateRange(restaurantDays, r, g[1], g[2])
        /\ days[d].ordersCount = row.orders_count
        /\ days[d].avgOrderMinor = Average(row.revenue_sum, row.orders_count)
    BY RestaurantReport, RangesAreNumbers DEF GetRestaurantDays
  <2>2. /\ delivery[d].deliveredCount = row.delivery_ms_count
        /\ delivery[d].avgDeliveryMs = Average(row.delivery_ms_sum, row.delivery_ms_count)
    BY <2>1, RangesAreNumbers DEF GetRestaurantDeliveryAvg
  <2>3. /\ AddsUp(restaurantDays, DayFields, Landed("restaurant"), RestaurantKeys)
        /\ \A e \in Events : Landed("restaurant")[e] \in Nat
    BY <1>1, LandedCounts DEF RowsMatchEffects, ConsumerFacts, C!TypeOK
  <2>4. /\ "orders_count" \in DayFields /\ "revenue_sum" \in DayFields
        /\ "delivery_ms_count" \in DayFields /\ "delivery_ms_sum" \in DayFields
    BY DEF DayFields, ZeroDay
  <2>5. /\ Counting("orders_count") = Counting("revenue_sum")
        /\ Counting("delivery_ms_count") = Counting("delivery_ms_sum")
    <3>1. \A f : Counting(f) \subseteq Events
      BY DEF Counting
    <3>2. \A e : e \in Counting("orders_count") <=> e \in Counting("revenue_sum")
      BY <3>1, CountingByType
    <3>3. \A e : e \in Counting("delivery_ms_count") <=> e \in Counting("delivery_ms_sum")
      BY <3>1, CountingByType
    <3>4. Counting("orders_count") = Counting("revenue_sum")
      BY <3>2, Zenon
    <3>5. Counting("delivery_ms_count") = Counting("delivery_ms_sum")
      BY <3>3, Zenon
    <3> QED BY <3>4, <3>5
  <2>6. /\ \A e \in Counting("orders_count") : Amounts(e)["orders_count"] = 1
        /\ \A e \in Counting("delivery_ms_count") : Amounts(e)["delivery_ms_count"] = 1
    <3>1. \A f : Counting(f) \subseteq Events
      BY DEF Counting
    <3> QED BY <3>1, CountingByType, AmountsByType
  <2>7. \A f : BookedBy(r, d, f) = BookedAt(RestaurantKeys, k, f)
    BY DEF BookedBy, BookedAt
  <2> HIDE DEF days, delivery, k
  <2>8. row["orders_count"] > 0 =>
          \E a, b \in BookedAt(RestaurantKeys, k, "revenue_sum") :
            /\ Amounts(a)["revenue_sum"] <= Average(row["revenue_sum"], row["orders_count"])
            /\ Average(row["revenue_sum"], row["orders_count"]) <= Amounts(b)["revenue_sum"]
    BY <2>1, <2>3, <2>4, <2>5, <2>6, AverageOfField
  <2>9. row["delivery_ms_count"] > 0 =>
          \E a, b \in BookedAt(RestaurantKeys, k, "delivery_ms_sum") :
            /\ Amounts(a)["delivery_ms_sum"]
                 <= Average(row["delivery_ms_sum"], row["delivery_ms_count"])
            /\ Average(row["delivery_ms_sum"], row["delivery_ms_count"])
                 <= Amounts(b)["delivery_ms_sum"]
    BY <2>1, <2>3, <2>4, <2>5, <2>6, AverageOfField
  <2> HIDE DEF row
  <2>10. /\ days[d].ordersCount > 0 =>
              \E a, b \in BookedBy(r, d, "revenue_sum") :
                /\ Amounts(a).revenue_sum <= days[d].avgOrderMinor
                /\ days[d].avgOrderMinor <= Amounts(b).revenue_sum
         /\ delivery[d].deliveredCount > 0 =>
              \E a, b \in BookedBy(r, d, "delivery_ms_sum") :
                /\ Amounts(a).delivery_ms_sum <= delivery[d].avgDeliveryMs
                /\ delivery[d].avgDeliveryMs <= Amounts(b).delivery_ms_sum
    BY <2>1, <2>2, <2>7, <2>8, <2>9
  <2> QED BY <2>10 DEF days, delivery
<1> QED BY <1>1, ConsumerCorrect, EffectsCorrect, PTL
====
