SPECIFICATION Spec
CONSTANTS
  r1 = r1
  r2 = r2
  r3 = r3
  milk = milk
  rice = rice
  ghost = ghost
  Requests = {r1, r2, r3}
  StockItems = {milk}
  NoDocument = {ghost}
  Pricing <- OnlyMilkPricing
  Kinds <- Checked
  LineChoices <- SameItemTwice
  OpeningQty <- OnlyMilkQty
  OpeningLines <- OnlyMilkLines
  MaxAttempts = 2
  MaxInFlight = 2
SYMMETRY Symmetric
CHECK_DEADLOCK FALSE
INVARIANTS
  QtyOnHandNotNegative
  EntriesHaveTheirHeader
