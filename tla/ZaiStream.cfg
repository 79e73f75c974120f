SPECIFICATION Spec
CONSTANTS
  None = None
  Chunks <- AllChunks
  RequestKey <- Key
  SafeChars = {"a", "b", "k"}
  Tools <- AllTools
  FreeformTools <- Freeforms
  Chars = {"a", "b", "k", "/", ":"}
  Words = {"r", "t", "x", "y", "z", "v", "w", "m", "l", "{}", "{input:", "}"}
  Letters = {"muse", "read", "patch", "guess"}
  Foreign = {}
  MaxFunctionNameBytes = 64
  MaxIdentifierBytes = 2
  MaxBufferedBytes = 2
  MaxU64 = 3
  MaxWire = 4
INVARIANTS ItemsBracketed ItemsMatchDeltas OutputExact CallsDelivered NothingUnsaid OutputAccepted
PROPERTIES KeepsPromise
