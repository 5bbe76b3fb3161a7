SPECIFICATION Spec
CONSTANTS
  p1 = p1
  p2 = p2
  o1 = o1
  o2 = o2
  o3 = o3
  History <- MCHistory
  Limit = 2
  NumCalls = 2
  Runs = {p1, p2}
  LiveOrders = {}
  Unparsable = {o2}
  Faults = {"reap"}
  MaxFaults = 1
INVARIANT RerunSkipsApplied
