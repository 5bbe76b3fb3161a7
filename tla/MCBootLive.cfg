SPECIFICATION BootFairSpec
CONSTANTS
  e1 = e1
  bad = bad
  unk = unk
  junk = junk
  w1 = w1
  NoMsg = NoMsg
  Workers = {w1}
  Events = {e1, bad, unk}
  Malformed = {junk}
  Registered <- MCRegistered
  BadPayload <- MCBadPayload
  Calls <- MCCalls
  MaxCalls = 2
  Lookups = {}
  MaxSends = 1
  Faults = {"markFail", "markLost", "callFail", "callLost", "unmarkFail", "drop", "crash", "stop", "replay", "reap"}
  MaxFaults = 1
  MaxAttempts = 2
  Troubles = {"signal", "mongoFail", "indexFail", "brokerFail", "consumeFail", "httpFail", "kill"}
  MaxTroubles = 1
INVARIANTS
  BootTypeOK
  IndexedBeforeConsuming
PROPERTIES
  ConsumerSpec
  EveryMessageSettles
  EveryStopCompletes
