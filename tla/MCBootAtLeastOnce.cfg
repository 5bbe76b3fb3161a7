SPECIFICATION BootSpec
CONSTANTS
  e1 = e1
  bad = bad
  unk = unk
  junk = junk
  w1 = w1
  NoMsg = NoMsg
  Workers = {w1}
  Events = {e1}
  Malformed = {}
  Registered <- MCRegistered
  BadPayload <- MCBadPayload
  Calls <- MCCalls
  MaxCalls = 2
  Lookups = {}
  MaxSends = 1
  Faults = {"stop"}
  MaxFaults = 0
  MaxAttempts = 2
  Troubles = {"signal"}
  MaxTroubles = 1
INVARIANT AtLeastOnce
