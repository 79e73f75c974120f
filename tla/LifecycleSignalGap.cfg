SPECIFICATION Spec
CONSTANTS
  ReadyTimeout = 3
  CatalogTimeout = 2
INVARIANTS SignalsForwarded
