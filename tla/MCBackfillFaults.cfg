SPECIFICATION FairSpec
CONSTANTS
  p1 = p1
  p2 = p2
  o1 = o1
  o2 = o2
  o3 = o3
  History <- MCHistory
  Limit = 2
  NumCalls = 2
  Runs = {p1, p2}
  LiveOrders = {o2}
  Unparsable = {o3}
  Faults = {"connectFail", "fetchFail", "markFail", "markLost", "callFail", "callLost", "unmarkFail", "crash", "reap"}
  MaxFaults = 2
INVARIANTS
  TypeOK
  ReportAddsUp
  SuccessIsHonest
  LandedOncePerMark
PROPERTIES
  EveryRunEnds
  DeduperSpec
