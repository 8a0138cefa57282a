SPECIFICATION Spec
CONSTANTS
  Attempt = {a1, a2, a3}
  NoKey = NoKey
  BadKey = BadKey
  None = None
  k1 = k1
  u1 = u1
  u2 = u2
  p1 = p1
  p2 = p2
  Key <- MCKey
  User <- MCUser
  Fingerprint <- MCFingerprint
  Request <- MCRequest
  Detached <- MCDetachedP2
  Outlives = FALSE
INVARIANTS
  JoinedAtMostOnce
  RowTellsTheTruth
  AnswersAreTrue
PROPERTIES
  ImplementsOnceOnly
CHECK_DEADLOCK FALSE
