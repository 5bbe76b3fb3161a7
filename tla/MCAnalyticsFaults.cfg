SPECIFICATION Spec
CONSTANTS
  w1 = w1
  w2 = w2
  NoMsg = NoMsg
  NoContext = NoContext
  Workers = {w1, w2}
  EventNames = {"placedA", "deliveredA"}
  Events <- MCEvents
  Order <- MCOrder
  DayLength = 4
  MaxSends = 1
  Faults = {"markFail", "markLost", "callFail", "callLost", "unmarkFail", "drop", "crash", "replay", "reap"}
  MaxFaults = 3
SYMMETRY WorkerSymmetry
INVARIANTS
  TypeOK
  RowsMatchEffects
  ItemsMatchEffects
  DeliveredAfterPlaced
  PlatformNeverAhead
