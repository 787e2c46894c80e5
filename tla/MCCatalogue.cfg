SPECIFICATION Spec
CONSTANTS
  north = north
  south = south
  s1 = s1
  tea = tea
  Requests = {1, 2, 3}
  Warehouses = {north, south}
  Skus = {s1}
  Names = {tea}
  Points = {1, 2}
  Stocks <- MCStocks
  Loads <- MCLoads
  MaxLooks = 1
CHECK_DEADLOCK FALSE
INVARIANTS
  PlacesAndItemsAgree
  PurchasesAreForShortPlaces
