SPECIFICATION Spec
CONSTANTS
  h1 = h1
  h2 = h2
  r1 = r1
  r2 = r2
  r3 = r3
  o1 = o1
  p1 = p1
  p2 = p2
  u1 = u1
  u2 = u2
  q1 = q1
  None = None
  Handler = {h1, h2}
  Unit = {u1, u2}
  Person = {p1, p2}
  Object = {o1}
  Row = {r1, r2, r3}
  Request = {q1}
  MaxCustody = 4
  MaxAlloc = 3
  MaxTransfers = 4
  Never <- MCNever
  Edit <- MCEdit
  Instance <- MCInstances
SYMMETRY MCSymmetry
INVARIANTS
  HoldersAnswer
  BookedApart
  IssuedWithinRequest
  MoneyOfAJob
CHECK_DEADLOCK FALSE
