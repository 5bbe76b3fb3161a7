SPECIFICATION Spec
CONSTANTS
  w1 = w1
  w2 = w2
  NoMsg = NoMsg
  NoContext = NoContext
  Workers = {w1}
  EventNames = {"placedA", "deliveredA"}
  Events <- MCEvents
  Order <- MCOrder
  DayLength = 4
  MaxSends = 1
  Faults = {"reap"}
  MaxFaults = 0
INVARIANT DeliveriesConverge
