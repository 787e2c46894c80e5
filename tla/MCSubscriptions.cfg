SPECIFICATION Spec
CONSTANTS
  r1 = r1
  r2 = r2
  eve = eve
  joe = joe
  sam = sam
  cashier = cashier
  pro = pro
  Requests = {r1, r2}
  Staff = {eve, joe, sam}
  Plans = {cashier, pro}
  PlanLimit <- MCPlanLimit
  PlanPrice <- MCPlanPrice
  ExtraPrice <- MCExtraPrice
  UserLists <- OneUser
  Unit = 2
  ExtraLimits = {0, 1, 2}
  Loads <- MCLoads
SYMMETRY Symmetric
CHECK_DEADLOCK FALSE
INVARIANTS
  OvershootIsBounded
  NothingDangles
  WithinLimitWhenSerial
  MembersAreActiveWhenSerial
  PricesAgreeWhenSerial
