SPECIFICATION LLSpec
CONSTANTS
  OrderId = {o1, o2, o3}
  NoId = NoId
  Price = {1, 2}
  MaxQty = 1
  Kinds = {"ADD", "CANCEL", "MODIFY", "TRADE"}
  Requests = {"ADD", "MODIFY"}
  MaxRequests = 4
INVARIANT ModifyMovesOrder
CHECK_DEADLOCK FALSE
