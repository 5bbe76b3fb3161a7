SPECIFICATION GateFairSpec
CONSTANTS
  q1 = q1
  q2 = q2
  Nothing = Nothing
  Junk = Junk
  Requests = {q1, q2}
  Roles = {"owner"}
  Claims = {"system_admin", "restaurant_user", "other"}
  Answers = {"ok", "hollow", "error", "refused"}
  Credentials <- MCCredentials
  Queries <- MCQueries
  TTL = 2
  MaxLag = 1
  MaxRetries = 1
  MaxTime = 3
  MaxVersion = 1
INVARIANTS
  GateTypeOK
  BoundedStaleness
  ServedOnProof
  ReadBehindChecks
  RepliesTellCause
PROPERTY EveryRequestAnswered
