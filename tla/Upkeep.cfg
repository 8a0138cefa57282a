\* The low-stock checks, the reminders, the copies of projects, the catalogue's
\* rows and the lists remembered of other services.
CONSTANTS
  main = main
  other = other
  n1 = n1
  n2 = n2
  n3 = n3
  m1 = m1
  m2 = m2
  c1 = c1
  j1 = j1
  j2 = j2
  x1 = x1
  x2 = x2
  y1 = y1
  y2 = y2
  none = none
  root = root
  gone = gone
  Shelf = {main, other}
  MainShelf = main
  Check = {n1, n2, n3}
  Clerk = {c1}
  MaxStock = 2
  MaxWrites = 4
  Nothing = none
  Replica = {m1, m2}
  Record <- MCRecords
  MaxToday = 9
  MaxRestarts = 1
  NoRun = none
  Job = {j1, j2}
  Tree <- MCTree
  Attempt = {m1, m2}
  Original <- MCOriginal
  LateRows = {"r5"}
  Lost = {"q1"}
  MaxTries = 3
  NoRow = none
  NoWork = none
  Category = {n1, n2, n3}
  Item = {n1, n2, n3}
  Editor = {m1, m2}
  Shape = {x1, x2}
  Label = {y1, y2}
  File = {n1, n2, n3}
  MAX_IMAGES = 2
  NoParent = root
  NoCode = none
  Absent = gone
  Resting = none
  Caller = {m1, m2}
  TTL = 1
  TIMEOUT = 1
  MaxClock = 4
  MaxFlips = 2
  NoList = none
  NoAsk = none
SPECIFICATION Spec
SYMMETRY MCSymmetry
INVARIANTS
  OncePerBreach
  RemindedForAWeek
  CopiesStandAlone
  CategoriesFormATree
  CardsInOrder
  ListsAreRecent
CHECK_DEADLOCK FALSE
