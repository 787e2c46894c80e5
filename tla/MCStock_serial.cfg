SPECIFICATION Spec
CONSTANTS
  r1 = r1
  r2 = r2
  r3 = r3
  milk = milk
  rice = rice
  ghost = ghost
  Requests = {r1, r2, r3}
  StockItems = {milk, rice}
  NoDocument = {ghost}
  Pricing <- MCPricing
  Kinds <- Balanced
  LineChoices <- TwoLines
  OpeningQty <- MCOpeningQty
  OpeningLines <- MCOpeningLines
  MaxAttempts = 1
  MaxInFlight = 1
SYMMETRY Symmetric
CHECK_DEADLOCK FALSE
INVARIANTS
  BooksAgreeWhenSerial
