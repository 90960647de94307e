SPECIFICATION OrdersLeadSpec
CONSTANTS
  OrderId = {o1, o2, o3, o4}
  NoId = NoId
  Price = {1}
  MaxQty = 3
  Kinds = {"ADD", "CANCEL", "MODIFY", "TRADE"}
  Requests = {"ADD", "CANCEL"}
  MaxRequests = 3
SYMMETRY Symmetry
INVARIANT LateTradesKnown
CHECK_DEADLOCK FALSE
