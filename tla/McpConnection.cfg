SPECIFICATION FairSpec
CONSTANTS
  Closers = {c1, c2}
  Refreshers = {f1}
  Calls = {k1, k2}
  Starter = starter
  Pages = 2
INVARIANTS EndReportedOnce ClosedMeansStopped ToolsUsable
PROPERTIES ReportsFinal ConnectionEnds
CHECK_DEADLOCK FALSE
