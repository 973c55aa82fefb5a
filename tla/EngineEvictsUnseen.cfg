SPECIFICATION Spec
CONSTANTS
  CallIDs <- ids
  UserTags = {"u1", "u2"}
  NoID <- noID
  NoTag = "noTag"
  Runs = {r1}
  MaxRounds = 3
  QueueCapacity = 2
  Turns <- TwoTurns
  InjectionBatches <- Batches
  Configs <- BudgetConfigs
INVARIANT ToolResultsReachModel
CHECK_DEADLOCK FALSE
