SPECIFICATION AssemblySpec
CONSTANTS
  Indexes = {0, 1, 9}
  IDs = {"a", "b", "c"}
  NoID = "none"
  Sizes = {1}
  Providers = {{"indexes"}, {"ids"}, {"indexes", "ids"}}
  MaxToolCallsPerRound = 4
  MaxArguments = 2
  MaxDeltas = 5
INVARIANTS DrainedSound
CHECK_DEADLOCK FALSE
