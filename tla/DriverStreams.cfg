SPECIFICATION Spec
CONSTANTS
  Calls <- MCCalls
  MaxChunks = 4
  MaxEvents = 7
  MaxToolIndex = 1
  FinishReasons <- MCFinishReasons
  UsageFrames <- MCUsageFrames
  StopReasons <- MCStopReasons
  MaxBlocks = 2
INVARIANTS
  ReasonsAgree
  AnswerWhole
  UsageKept
PROPERTY
  ImplementsContract
CHECK_DEADLOCK FALSE
