SPECIFICATION Spec
CONSTANTS
  w1 = w1
  w2 = w2
  NoMsg = NoMsg
  NoContext = NoContext
  Workers = {w1}
  EventNames = {"placedA", "placedB", "rejectedA", "rejectedB"}
  Events <- MCEvents
  Order <- MCOrder
  DayLength = 4
  MaxSends = 1
  Faults = {}
  MaxFaults = 0
INVARIANT FailureRateIsFraction
