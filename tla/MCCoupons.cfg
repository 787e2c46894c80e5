SPECIFICATION FairSpec
CONSTANTS
  ten = ten
  half = half
  ann = ann
  bob = bob
  shop = shop
  s1 = s1
  Requests = {1, 2, 3, 4}
  Sweeps = {s1}
  Codes = {ten, half}
  Owners = {shop}
  Customers = {ann, bob}
  Ranges <- OneOrTwoCodes
  Edits <- EitherEdit
  Loads <- MCLoads
  MaxTime = 1
CHECK_DEADLOCK FALSE
INVARIANTS
  DiscountsAreRecorded
  UsedOnlyWhenFull
  OncePerCustomerWhenSerial
  LimitRespectedWhenSerial
PROPERTIES
  FullCouponsAreMarked
  ExpiredCouponsClose
