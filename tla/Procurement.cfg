SPECIFICATION Spec
CONSTANTS
  i1 = i1
  i2 = i2
  desk = desk
  store = store
  Item = {i1, i2}
  Draft <- MCEdits
  Instance <- MCInstances
  Price = {2}
  MaxQty = 2
  MaxAttempt = 2
  MaxEdition = 2
  MaxTransfers = 3
  MaxPayment = 3
  Handler = {desk, store}
  None = None
INVARIANTS
  LinesCountTheStock
  PaymentsAreSound
  WaitingCanEnd
PROPERTIES
  ReceivedWhenComplete
  SettlementSquares
  FinalStays
CHECK_DEADLOCK FALSE
