SPECIFICATION MCSFairSpec
CONSTANTS
  OrderId = {1, 100, 101}
  NoId = NoId
  Price = {1, 2}
  MaxQty = 2
  Kinds = {"ADD", "CANCEL", "MODIFY", "TRADE"}
  MaxLevels = 2
  MaxMessages = 3
  MaxLoad = 4
INVARIANTS
  SnapTypeOK
  BookConsistent
  LevelQuantityIsSum
  NoSpentOrders
  GuessesApplicable
  SnapshotApplied
PROPERTY LoopsEnd
CHECK_DEADLOCK FALSE
