SPECIFICATION FairSpec
CONSTANTS
  None = None
  Requests <- MCRequests
  Catalog <- MCCatalog
  Statuses = {200, 400, 401, 404, 429, 503}
  Documents <- MCDocuments
  MaxErrorBytes = 2
  ChunkSizes = {1, 2}
  MaxEvents = 2
INVARIANTS FailureTruthful
PROPERTIES KeepsPromise Answered
