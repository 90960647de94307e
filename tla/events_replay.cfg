SPECIFICATION BMSpec
CONSTANTS
  OrderId = {o1, o2, o3}
  NoId = NoId
  Price = {1, 2}
  MaxQty = 2
  Kinds = {"ADD", "CANCEL", "MODIFY", "TRADE"}
  Requests = {"ADD", "CANCEL"}
  MaxRequests = 4
SYMMETRY Symmetry
INVARIANT ReplicaTracksBook
PROPERTY IsMatchingBook
CHECK_DEADLOCK FALSE
