SPECIFICATION LLSpec
CONSTANTS
  OrderId = {o1, o2, o3}
  NoId = NoId
  Price = {1, 2}
  MaxQty = 2
  Kinds = {"ADD", "CANCEL", "MODIFY", "TRADE"}
  Requests = {"ADD"}
  MaxRequests = 3
PROPERTY ExpectedTradeKeepsBook
CHECK_DEADLOCK FALSE
