SPECIFICATION Spec
CONSTANTS
  q1 = q1
  q2 = q2
  Nothing = Nothing
  Requests = {q1, q2}
  Roles = {"owner"}
  Claims = {"restaurant_user"}
  Answers = {"ok"}
  TTL = 2
  MaxLag = 1
  MaxRetries = 1
  MaxTime = 2
  MaxVersion = 1
INVARIANT NextRequestFresh
