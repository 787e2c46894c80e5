SPECIFICATION FairSpec
CONSTANTS
  r1 = r1
  r2 = r2
  r3 = r3
  milk = milk
  rice = rice
  ghost = ghost
  Requests = {r1, r2}
  StockItems = {milk, rice}
  NoDocument = {ghost}
  Pricing <- MCPricing
  Kinds <- AllKinds
  LineChoices <- SignedLines
  OpeningQty <- MCOpeningQty
  OpeningLines <- MCOpeningLines
  MaxAttempts = 2
  MaxInFlight = 2
CHECK_DEADLOCK FALSE
INVARIANTS
  BilledOnceUnlessRetried
  EntriesWithinQty
PROPERTIES
  EveryRequestEnds
