SPECIFICATION FairSpec
CONSTANTS
  CallIDs = {"a", "b"}
  UserTags <- tags
  NoID = "none"
  NoTag = 0
  MaxUnits = 3
  Histories <- histories
  Counters <- counters
  Count <- Total
  UnitCount <- UnitTotal
  Budgets = {1, 3}
INVARIANTS EvictionSound SentFits ExchangesLeaveWhole
PROPERTY CompactionEnds
CHECK_DEADLOCK FALSE
