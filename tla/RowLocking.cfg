SPECIFICATION FairSpec
CONSTANTS
  r1 = r1
  r2 = r2
  h1 = h1
  h2 = h2
  Item = {1, 2}
  Reservation = {r1, r2}
  ItemOf <- MCItemOf
  FromProject = {r2}
  RowsOf <- MCRowsOf
  Ops = {"approve", "file", "accept", "receive", "reclaim", "close", "release", "handBack", "toSub", "toMain", "create", "copy"}
  MaxLines = 2
  Handler = {h1, h2}
  Detector = TRUE
  None = None
INVARIANTS
  LocksAreSound
PROPERTIES
  EveryoneEnds
