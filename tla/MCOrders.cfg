SPECIFICATION Spec
CONSTANTS
  r1 = r1
  r2 = r2
  r3 = r3
  milk = milk
  rice = rice
  here = here
  there = there
  Requests = {r1, r2, r3}
  StockItems = {milk, rice}
  Warehouses = {here, there}
  Documents <- Both
  Loads <- OverlapAndSerial
SYMMETRY Symmetric
CHECK_DEADLOCK FALSE
INVARIANTS
  QtyOnHoldNotNegative
  RefundsWhatWasReleased
  HoldsMatchOrdersWhenSerial
  SoldOnceWhenSerial
PROPERTIES
  ClosedOrdersStayWhenSerial
