SPECIFICATION Spec
CONSTANTS
  w1 = w1
  w2 = w2
  NoMsg = NoMsg
  NoContext = NoContext
  Workers = {w1}
  EventNames = {"placedB", "placedC", "deliveredB", "rejectedC", "paidB"}
  Events <- MCEvents
  Order <- MCOrder
  DayLength = 4
  MaxSends = 1
  Faults = {"markFail", "callFail", "callLost", "replay", "drop"}
  MaxFaults = 2
INVARIANTS
  CountedOnce
  AveragesPlausible
  SummariesAddUp
  ActiveMeansOrders
  ProductsBehindBranch
  CurrencyOfAnOrder
CONSTRAINT PublishedFirst
