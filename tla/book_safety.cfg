SPECIFICATION MCSpec
CONSTANTS
  OrderId = {o1, o2, o3}
  NoId = NoId
  Price = {1, 2, 3}
  MaxQty = 2
  Kinds = {"ADD", "CANCEL", "MODIFY", "TRADE"}
  MaxMessages = 4
SYMMETRY Symmetry
INVARIANTS
  TypeOK
  BookConsistent
  LevelQuantityIsSum
  Uncrossed
  NoSpentOrders
  GuessOnlyWhenExhausted
  L2BookShowsOrders
PROPERTY PriceTimePriority
CHECK_DEADLOCK FALSE
