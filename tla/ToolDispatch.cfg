SPECIFICATION FairSpec
CONSTANTS
  Callers = {p1, p2}
  NumCalls = 3
  MaxConcurrentTools = 2
  Untimed = {3}
INVARIANTS TypeOK WorkersBounded NothingLeftBehind
PROPERTIES ImplementsToolRound CallersReturn
CHECK_DEADLOCK FALSE
