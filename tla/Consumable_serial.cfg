SPECIFICATION Spec
CONSTANTS
  r1 = r1
  r2 = r2
  main = main
  sub = sub
  Reservation = {r1}
  Pool = {main}
  MainPool = main
  PoolOf <- MCOneShelf
  Opening <- MCOpening3
  MaxQty = 3
  MaxAlloc = 3
  MaxReturn = 2
  MaxShelf = 3
  Handler = {h1}
  Ops = {"approve", "accept", "reclaim", "scrap", "file", "receive", "callOff", "cancel", "reject", "handBack", "uncancel", "release"}
  None = None
INVARIANTS
  ClosedHoldsNothing
PROPERTIES
  StockIsKept
CHECK_DEADLOCK FALSE
