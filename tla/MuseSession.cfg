\* Sessions of two turns with up to two calls, in parallel or not, one
\* change of the tool list; the fields of a request vary one at a time.
CONSTANTS
  None = None
  Absent = Absent
  Null = Null
  Bad = Bad
  Letters = {"t", "p", "n", "u", "c", "functions"}
  Foreign = {"!"}
  MaxFunctionNameBytes = 6
  SafeChars = {"a", "b"}
  MaxIdentifierBytes = 2
  MaxOutputTokens = 4
  Launches <- MCLaunches
  Sessions <- MCSessions
  ToolLists <- MCToolLists
  UnknownCalls <- MCUnknownCalls
  Outputs <- MCOutputs
  MaxTurns = 2
  MaxParallel = 2
SPECIFICATION Spec
INVARIANTS
  CallsReplayed
  ResultsFollowCalls
  SessionContinues
  ToolsReachable
  NothingLost
CHECK_DEADLOCK FALSE
