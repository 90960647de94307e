SPECIFICATION FeedSpec
CONSTANTS
  OrderId = {1, 2, 100}
  NoId = NoId
  Price = {1}
  MaxQty = 1
  Kinds = {"ADD", "CANCEL", "MODIFY", "TRADE"}
  Requests = {"ADD"}
  MaxRequests = 2
  MaxLevels = 1
INVARIANT MatchesSnapshot
CHECK_DEADLOCK FALSE
