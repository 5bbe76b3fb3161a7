----------------------------- MODULE MCAnalytics ----------------------------
\* Small instances of Analytics: orders of one restaurant in two branches with a
\* currency each, a placed on day 0, b and c on day 1 (a day has 4 time units).
EXTENDS AnalyticsReports, TLC

CONSTANTS w1, w2, EventNames

Item(p, q, t) == [product |-> p, quantity |-> q, lineTotal |-> t]
MCOrder ==
  "a" :> [restaurant |-> "r", branch |-> "ba", currency |-> "EGP", total |-> 7,
          placedAt |-> 2, items |-> <<Item("p", 1, 3), Item("q", 2, 4)>>] @@
  "b" :> [restaurant |-> "r", branch |-> "bb", currency |-> "SAR", total |-> 5,
          placedAt |-> 5, items |-> <<>>] @@
  "c" :> [restaurant |-> "r", branch |-> "ba", currency |-> "EGP", total |-> 2,
          placedAt |-> 6, items |-> <<Item("p", 1, 1), Item("q", 1, 1)>>]

Event(type, order, at) == [type |-> type, order |-> order, at |-> at]
AllEvents ==
  "placedA" :> Event("order.placed", "a", 2) @@
  "placedB" :> Event("order.placed", "b", 5) @@
  "placedC" :> Event("order.placed", "c", 6) @@
  "deliveredA" :> Event("order.delivered", "a", 6) @@
  "deliveredB" :> Event("order.delivered", "b", 4) @@
  "rejectedA" :> Event("order.rejected", "a", 5) @@
  "rejectedB" :> Event("order.rejected", "b", 6) @@
  "rejectedC" :> Event("order.rejected", "c", 7) @@
  "paidB" :> Event("payment.completed", "b", 8)

MCEvents == {AllEvents[n] : n \in EventNames}

\* The broker delivers in any order, so what is published before the consumer
\* starts may still be handled in every order.
PublishedFirst ==
  (\E w \in Workers : pc[w] # "down") => \A e \in Events : sent[e] = MaxSends

WorkerSymmetry == Permutations(Workers)
=============================================================================
