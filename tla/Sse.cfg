SPECIFICATION FairSpec
CONSTANTS
  LF = LF
  CR = CR
  Lines <- AllLines
  Parse <- LineParse
  Chunks <- AllChunks
  Ids = {"r1", "r2", "m1", "m2"}
  MaxEventBytes = 4
  MaxSeq = 3
  MaxWire = 6
INVARIANTS TypeOK ForwardedMatchesWire FailureSequence FailureIdentity
PROPERTIES Terminates KeepsPromise
