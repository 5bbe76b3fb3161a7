SPECIFICATION Spec
CONSTANTS
  e1 = e1
  e2 = e2
  bad = bad
  unk = unk
  junk = junk
  w1 = w1
  w2 = w2
  NoMsg = NoMsg
  Workers = {w1, w2}
  Events = {e1, e2}
  Malformed = {}
  Registered <- MCRegistered
  BadPayload <- MCBadPayload
  Calls <- MCCalls
  MaxCalls = 2
  Lookups <- MCLookups
  MaxSends = 1
  Faults = {"markFail", "markLost", "callFail", "callLost", "unmarkFail", "drop", "crash", "stop", "replay", "reap"}
  MaxFaults = 2
SYMMETRY WorkerSymmetry
INVARIANTS
  TypeOK
  HandlingExclusive
  FanOutInOrder
  AtMostOncePerMark
  CompletedInFull
  MarkIsHonest
  NothingLost
PROPERTY DeduperSpec
