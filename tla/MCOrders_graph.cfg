SPECIFICATION FairSpec
CONSTANTS
  r1 = r1
  r2 = r2
  r3 = r3
  milk = milk
  rice = rice
  here = here
  there = there
  Requests = {r1, r2, r3}
  StockItems = {milk, rice}
  Warehouses = {here, there}
  Documents <- Both
  Loads <- OnHoldOrders
CHECK_DEADLOCK FALSE
PROPERTIES
  OrdersFollowTheirGraph
