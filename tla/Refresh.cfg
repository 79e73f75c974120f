SPECIFICATION FairSpec
CONSTANTS
  Processes = {"a", "b"}
  Requests = {"r1", "r2"}
  Owners <- AllOwners
  MaxPrestreamAttempts = 2
  MaxGen = 3
  MaxExpiring = 1
INVARIANTS RefusedOnlyAfterLoss SendsBounded
PROPERTIES GivesUpOnNewest OnlyAuthorityBlocks
