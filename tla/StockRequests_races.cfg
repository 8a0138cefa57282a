SPECIFICATION Spec
CONSTANTS
  main = main
  s1 = s1
  s2 = s2
  h1 = h1
  h2 = h2
  Consumable = {c1}
  AssetItem = unit
  Asset = {1}
  Sub = {s1, s2}
  Main = main
  Active = {s1}
  OpeningStock <- MCOpening1
  MaxQty = 1
  MaxDocs = 2
  Handler = {h1, h2}
  Request = {q1}
  Ops = {"transfer", "approve", "edit", "decide", "allocate", "crash"}
  None = None
SYMMETRY Symmetry
INVARIANTS
  StoresAddUp
  ApprovedNamesItsTransfer
CHECK_DEADLOCK FALSE
