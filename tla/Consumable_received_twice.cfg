SPECIFICATION Spec
CONSTANTS
  r1 = r1
  r2 = r2
  main = main
  sub = sub
  Reservation = {r1}
  Pool = {main}
  MainPool = main
  PoolOf <- MCOneShelf
  Opening <- MCOpening2
  MaxQty = 2
  MaxAlloc = 3
  MaxReturn = 2
  MaxShelf = 4
  Handler = {h1, h2}
  Ops = {"approve", "file", "receive"}
  None = None
SYMMETRY Symmetry
PROPERTIES
  IssuedNeverFalls
CHECK_DEADLOCK FALSE
