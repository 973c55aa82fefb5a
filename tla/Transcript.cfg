SPECIFICATION HistorySpec
CONSTANTS
  CallIDs = {"a", "b"}
  UserTags = {}
  NoID = "none"
  NoTag = "noTag"
  History <- shapes
  MaxLength = 5
  MaxCacheBreakpoints = 1
INVARIANTS ValidatorsAgree RepairSound WireKeepsExchanges
CHECK_DEADLOCK FALSE
