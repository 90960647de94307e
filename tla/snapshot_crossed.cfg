SPECIFICATION FeedSpec
CONSTANTS
  OrderId = {1, 2, 3, 100}
  NoId = NoId
  Price = {1}
  MaxQty = 2
  Kinds = {"ADD", "CANCEL", "MODIFY", "TRADE"}
  Requests = {"ADD", "CANCEL"}
  MaxRequests = 4
  MaxLevels = 1
INVARIANT UncrossedBetween
CHECK_DEADLOCK FALSE
