SPECIFICATION Spec
CONSTANTS
  CallIDs <- ids
  UserTags = {"u1", "u2", "u3"}
  NoID <- noID
  NoTag = "noTag"
  Runs = {r1, r2}
  MaxRounds = 2
  QueueCapacity = 2
  Turns <- OneCallTurns
  InjectionBatches <- NoBatches
  Configs <- AutoConfigs
SYMMETRY RunSymmetry
INVARIANTS QueuedExactlyOnce
CHECK_DEADLOCK FALSE
