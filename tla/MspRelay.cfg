SPECIFICATION FairSpec
CONSTANTS
  Ids = {"a", "b"}
  Capacities = {1, 2}
  ClientFrames <- AllFrames
  RogueFrames <- Rogue
  MaxFrames = 2
  MaxNotices = 1
INVARIANTS ProviderBoundary PendingExact AnswersPass FlushedBeforeReturn ResultsPaired
PROPERTIES ShutsDown EveryRequestAnswered
