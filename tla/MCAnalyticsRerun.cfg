SPECIFICATION Spec
CONSTANTS
  w1 = w1
  w2 = w2
  NoMsg = NoMsg
  NoContext = NoContext
  Workers = {w1}
  EventNames = {"placedA"}
  Events <- MCEvents
  Order <- MCOrder
  DayLength = 4
  MaxSends = 1
  Faults = {"callFail", "replay"}
  MaxFaults = 2
INVARIANT HandlersRerunSafely
