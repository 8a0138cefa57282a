SPECIFICATION Spec
CONSTANTS
  h1 = h1
  h2 = h2
  NewItem = new
  Own = own
  Short = short
  None = None
  Handler = {h1, h2}
  Item = {i1}
  Line = {i1, new}
  Requisition = {own, short}
  MaxEdition = 2
  MaxOrders = 2
  MaxHour = 3
  Instance <- MCInstances
INVARIANTS
  NothingPassesUnapproved
  OrderedAsApproved
  FailedCheckoutLeavesNothing
  ReadyMeansThere
  RemindersKept
PROPERTIES
  EndsAreFinal
CHECK_DEADLOCK FALSE
