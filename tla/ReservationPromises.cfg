SPECIFICATION Spec
CONSTANTS
  main = main
  sub = sub
  h1 = h1
  h2 = h2
  t1 = t1
  Item = {1, 2, 3}
  AssetItem = {2}
  HourlyItem = {3}
  Pool = {main, sub}
  MaxDay = 2
  Open = Open
  Instance <- MCInstances
  MaxAsks = 3
  Handler = {h1, h2}
  None = None
INVARIANTS
  PromisesCovered
PROPERTIES
  DeliveredIsKept
  EditsAsShown
CHECK_DEADLOCK FALSE
