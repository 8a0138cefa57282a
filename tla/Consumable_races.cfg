SPECIFICATION Spec
CONSTANTS
  r1 = r1
  r2 = r2
  main = main
  sub = sub
  Reservation = {r1}
  Pool = {main}
  MainPool = main
  PoolOf <- MCOneShelf
  Opening <- MCOpening3
  MaxQty = 3
  MaxAlloc = 3
  MaxReturn = 3
  MaxShelf = 3
  Handler = {h1, h2, h3}
  Ops = {"approve", "accept", "file"}
  None = None
SYMMETRY Symmetry
INVARIANTS
  ClaimsAreOut
  IssuedAsStated
PROPERTIES
  TerminalStays
CHECK_DEADLOCK FALSE
