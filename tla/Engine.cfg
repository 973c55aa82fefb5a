SPECIFICATION LoopSpec
CONSTANTS
  CallIDs <- ids
  UserTags = {"u1", "u2", "u3"}
  NoID <- noID
  NoTag = "noTag"
  Runs = {r1}
  MaxRounds = 3
  QueueCapacity = 1
  Turns <- ReuseTurns
  InjectionBatches <- Batches
  Configs <- LoopConfigs
INVARIANTS TypeOK SentLegal ReturnedReplayable RoundsBounded ErrorReportedOnce ExecutorUsable FinalAnswerForced
PROPERTY RunReturns
CHECK_DEADLOCK FALSE
