SPECIFICATION FeedSpec
CONSTANTS
  OrderId = {1, 2, 3, 100, 101}
  NoId = NoId
  Price = {1, 2}
  MaxQty = 1
  Kinds = {"ADD", "CANCEL", "MODIFY", "TRADE"}
  Requests = {"ADD"}
  MaxRequests = 3
  MaxLevels = 2
INVARIANT LeadingFindsEmptyQueue
CHECK_DEADLOCK FALSE
