SPECIFICATION Spec
CONSTANTS
  MaxStopWords = 4
  GLMContextSize = 6
  GLMMaxOutputTokens = 3
  AnthropicContextSize = 5
  DefaultOutputReserve = 1
  Clients <- MCClients
  MaxSettings = 2
  Values <- MCValues
  ToolLists <- MCToolLists
  Injected <- MCInjected
  Finishes <- MCFinishes
INVARIANTS
  AcceptedIsSent
  SentIsSupported
  TargetWhole
  RepairAccounted
CHECK_DEADLOCK FALSE
