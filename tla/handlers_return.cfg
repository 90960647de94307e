SPECIFICATION LLFairSpec
CONSTANTS
  OrderId = {o1, o2}
  NoId = NoId
  Price = {1, 2}
  MaxQty = 2
  Kinds = {"ADD", "CANCEL", "MODIFY", "TRADE"}
  Requests = {"ADD"}
  MaxRequests = 2
PROPERTY HandlersReturn
CHECK_DEADLOCK FALSE
