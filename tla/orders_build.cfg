SPECIFICATION OrdersSpec
CONSTANTS
  OrderId = {o1, o2, o3, o4}
  NoId = NoId
  Price = {1, 2, 3}
  MaxQty = 2
  Kinds = {"ADD", "CANCEL", "MODIFY", "TRADE"}
  Requests = {"ADD"}
  MaxRequests = 4
SYMMETRY Symmetry
INVARIANT OrdersBuildBook
CHECK_DEADLOCK FALSE
