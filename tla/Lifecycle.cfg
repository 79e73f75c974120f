SPECIFICATION FairSpec
CONSTANTS
  ReadyTimeout = 3
  CatalogTimeout = 2
INVARIANTS NothingLeftBehind StartupFailureReported
PROPERTIES OrphanEnds WaitsForMuseOnly
