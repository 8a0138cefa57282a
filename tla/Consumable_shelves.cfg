SPECIFICATION Spec
CONSTANTS
  r1 = r1
  r2 = r2
  main = main
  sub = sub
  Reservation = {r1, r2}
  Pool = {main, sub}
  MainPool = main
  PoolOf <- MCTwoShelves
  Opening <- MCOpening1
  MaxQty = 1
  MaxAlloc = 2
  MaxReturn = 1
  MaxShelf = 1
  Handler = {h1, h2}
  Ops = {"approve", "reclaim", "scrap", "cancel", "release", "receive", "file", "handBack", "remove"}
  None = None
SYMMETRY Symmetry
INVARIANTS
  ShelvesAddUp
PROPERTIES
  StockIsKept
CHECK_DEADLOCK FALSE
