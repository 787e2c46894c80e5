SPECIFICATION Spec
CONSTANTS
  r1 = r1
  r2 = r2
  r3 = r3
  r4 = r4
  milk = milk
  lamp = lamp
  grocer = grocer
  bazaar = bazaar
  Requests = {r1, r2, r3, r4}
  Entities = {grocer, bazaar}
  StockItems = {milk, lamp}
  EntityOf <- MCEntityOf
  Unit = 2
  Loads <- MCLoads
SYMMETRY Symmetric
CHECK_DEADLOCK FALSE
INVARIANTS
  ItemsAreWorthTheirQty
  SubTotalAddsUpWhenSerial
  OneEntityWhenSerial
PROPERTIES
  OrdersEmptyTheirCartWhenSerial
