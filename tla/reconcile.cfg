SPECIFICATION LLSpec
CONSTANTS
  OrderId = {o1, o2, o3, o4}
  NoId = NoId
  Price = {1}
  MaxQty = 3
  Kinds = {"ADD", "TRADE"}
  Requests = {"ADD"}
  MaxRequests = 4
SYMMETRY Symmetry
INVARIANTS
  Reconciled
  SidesExpectSameTrades
CHECK_DEADLOCK FALSE
