SPECIFICATION Spec
CONSTANTS
  r1 = r1
  r2 = r2
  ann = ann
  bob = bob
  c1 = c1
  c2 = c2
  cafe = cafe
  shop = shop
  None = None
  Requests = {r1, r2}
  Emails = {ann, bob}
  Codes = {c1, c2}
  Names = {cafe, shop}
  Loads <- MCLoads
SYMMETRY Symmetric
CHECK_DEADLOCK FALSE
INVARIANTS
  VerifiedHaveCarts
  CartsPerCode
  StatusHasDocuments
  StatusTellsWhenSerial
PROPERTIES
  StatusAdvancesWhenSerial
  FollowsLifecycle
