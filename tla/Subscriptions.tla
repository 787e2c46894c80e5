--------------------------- MODULE Subscriptions ---------------------------
(***************************************************************************)
(* The package of one business owner (subscribtion.service.ts), and the    *)
(* profiles of the staff it pays for (createProfile, renewUser and         *)
(* deactiveUser of users.service.ts).                                      *)
(*                                                                         *)
(* The owner's limits are kept twice, in the package and in the owner's    *)
(* own document, which is read once, when a request is authenticated.      *)
(* Dates, and the jobs that compare them, are left out.                    *)
(***************************************************************************)
EXTENDS Integers, Sequences, FiniteSets, Arrays

CONSTANTS
  Requests,    \* the requests being served; each is followed by another
  Staff,       \* the users an owner may create, by email
  Plans,       \* subscriptionType and pricing
  PlanLimit,   \* packages[subscriptionType].limit
  PlanPrice,   \* pricing[subscriptionType], for the pricing of the plan
  Unit,        \* the parts of a user that an extraLimit may count
  ExtraPrice,  \* pricing.EXTRA_USER for one part, for the pricing of the plan
  UserLists,   \* the users of a dto
  ExtraLimits, \* the extraLimit of a dto, in parts: @IsNumber() @Min(0)
  Loads        \* what may be asked of the service, see Load

Deactivations == {"ACTIVATE", "DEACTIVATE"}
AllKinds == {"CREATE", "ENTITY", "PROFILE", "ADD", "REMOVE", "UPGRADE", "EXTRA", "RENEW"}
  \union Deactivations

ASSUME PlansAssumption ==
  PlanLimit \in [Plans -> Nat] /\ PlanPrice \in [Plans -> Nat] /\ ExtraPrice \in [Plans -> Nat]
ASSUME UnitAssumption == Unit \in Nat \ {0}
ASSUME DtosAssumption == UserLists \subseteq Seq(Staff) /\ ExtraLimits \subseteq Nat

\* The handlers in use, how many requests are served at a time (a bound), and
\* the plans and extraLimits an owner signs up for.
Load == [kinds: SUBSET AllKinds, atOnce: Nat \ {0}, plans: SUBSET Plans, limits: SUBSET Nat]
ASSUME LoadsAssumption == Loads \subseteq Load
ASSUME RequestsAssumption == IsFiniteSet(Requests)

VARIABLES
  load,      \* the load of this behaviour
  packages,  \* the packages of the owner, oldest first; findOne means the first
  owner,     \* the owner's document
  staff,     \* active, inactive, or not there yet
  pc,        \* the next step of a request
  call,      \* what was requested, with req.user
  local,     \* variables of the handler
  lost       \* whether the process has exited under a request

vars == <<load, packages, owner, staff, pc, call, local, lost>>
docs == <<load, packages, owner, staff>>

NoCall == [kind |-> "none"]
NewLocal == [users |-> <<>>, line |-> 1, found |-> {}]

Working(r) == pc[r] # "idle"

\* What an owner may sign up with, extra users included.
SignedUp == [status: {"PENDING"}, plan: load.plans, extraLimit: load.limits, price: {0}]

\* The owner has verified the email.
Init ==
  /\ load \in Loads
  /\ packages = <<>>
  /\ owner \in SignedUp
  /\ staff = [u \in Staff |-> "none"]
  /\ pc = [r \in Requests |-> "idle"]
  /\ call = [r \in Requests |-> NoCall]
  /\ local = [r \in Requests |-> NewLocal]
  /\ lost = FALSE

-----------------------------------------------------------------------------
(* Requests *)

Serves(r, kinds, at) == pc[r] = at /\ call[r].kind \in kinds
Goto(r, at) == pc' = [pc EXCEPT ![r] = at] /\ UNCHANGED <<call, lost>>
Move(r, at) == Goto(r, at) /\ UNCHANGED <<docs, local>>
NextLine(r, at) == Goto(r, at) /\ local' = [local EXCEPT ![r].line = local[r].line + 1]

\* The request is answered, with an exception when there is one.
Answer(r) ==
  /\ pc' = [pc EXCEPT ![r] = "idle"]
  /\ call' = [call EXCEPT ![r] = NoCall]
  /\ local' = [local EXCEPT ![r] = NewLocal]
  /\ UNCHANGED lost
Fail(r) == Answer(r) /\ UNCHANGED docs

me(r) == call[r].user
Exists == packages # <<>>
Package == packages[1]

Dtos ==
  [kind: {"CREATE", "ENTITY"}]
    \union [kind: {"PROFILE", "RENEW"}, id: Staff]
    \union [kind: {"ADD", "REMOVE"}, users: UserLists]
    \union [kind: {"UPGRADE"}, plan: Plans]
    \union [kind: {"EXTRA"}, extraLimit: ExtraLimits]
    \union [kind: Deactivations, id: Staff \union {"owner"}]
\* JwtStrategy.validate reads the owner's document, and the handler keeps it.
Arrive(r) ==
  /\ pc[r] = "idle"
  /\ Cardinality({o \in Requests : Working(o)}) < load.atOnce
  /\ \E dto \in Dtos :
       /\ dto.kind \in load.kinds
       /\ call' = [call EXCEPT ![r] = [kind |-> dto.kind, dto |-> dto, user |-> owner]]
  /\ pc' = [pc EXCEPT ![r] = "find"]
  /\ UNCHANGED <<docs, local, lost>>

\* findOne({ownerId}), kept as packageExist.
FindPackage(r, at) ==
  IF ~Exists
  THEN Fail(r)
  ELSE /\ local' = [local EXCEPT ![r].users = Package.users]
       /\ Goto(r, at)
       /\ UNCHANGED docs

\* findByIdAndUpdate of the package, and of a user.
UpdatePackage(package) == packages' = [packages EXCEPT ![1] = package]
UpdateUser(u, status) == staff' = [staff EXCEPT ![u] = status]

-----------------------------------------------------------------------------
(* createPackage, and the end of createEntities *)

PriceOf(plan, extraLimit) == PlanPrice[plan] + extraLimit * ExtraPrice[plan]

\* '082' when there is a package, '043' unless the owner was PENDING on arrival.
CreateFind(r) ==
  /\ Serves(r, {"CREATE"}, "find")
  /\ IF Exists \/ me(r).status # "PENDING" THEN Fail(r) ELSE Move(r, "create")

CreatePackage(r) ==
  /\ Serves(r, {"CREATE"}, "create")
  /\ packages' = Append(packages,
       [users |-> <<>>, plan |-> me(r).plan, extraLimit |-> me(r).extraLimit,
        price |-> PriceOf(me(r).plan, me(r).extraLimit)])
  /\ Goto(r, "owner")
  /\ UNCHANGED <<load, owner, staff, local>>

CreateUpdateOwner(r) ==
  /\ Serves(r, {"CREATE"}, "owner")
  /\ owner' = [owner EXCEPT !.status = "PAID",
                            !.price = PriceOf(me(r).plan, me(r).extraLimit)]
  /\ Answer(r)
  /\ UNCHANGED <<load, packages, staff>>

\* '054' unless PAID; the documents it creates first are not modelled.
EntityUpdateOwner(r) ==
  /\ Serves(r, {"ENTITY"}, "find")
  /\ \/ Fail(r)
     \/ /\ me(r).status = "PAID"
        /\ owner' = [owner EXCEPT !.status = "COMPLETED"]
        /\ Answer(r)
        /\ UNCHANGED <<load, packages, staff>>

-----------------------------------------------------------------------------
(* createProfile, addUsersToPackage, removeUsersFromPackage, renewUser *)

\* The whole users of an extraLimit, and those it has begun.
Floor(extraLimit) == extraLimit \div Unit
Ceiling(extraLimit) == (extraLimit + Unit - 1) \div Unit

\* n users are as many as the limit, n >= limit + extraLimit, from here on.
LimitOf(user) == PlanLimit[user.plan] + Ceiling(user.extraLimit)

\* Mutation: one more than the limit.
HasRoomForOneMore(r) == Len(Package.users) <= LimitOf(me(r))

\* '057' when the users of the package, as found, are as many as the limit.
HasRoom(r) == Len(Package.users) < LimitOf(me(r))

ProfileFind(r) ==
  /\ Serves(r, {"PROFILE"}, "find")
  /\ IF me(r).status # "COMPLETED" \/ ~Exists
     THEN Fail(r)
     ELSE IF HasRoom(r) THEN FindPackage(r, "create") ELSE Fail(r)

\* The email is looked up, and create is refused by the index on it.
ProfileCreate(r) ==
  /\ Serves(r, {"PROFILE"}, "create")
  /\ IF staff[call[r].dto.id] # "none"
     THEN Fail(r)
     ELSE /\ UpdateUser(call[r].dto.id, "active")
          /\ Goto(r, "push")
          /\ UNCHANGED <<load, packages, owner, local>>

ProfilePush(r) ==
  /\ Serves(r, {"PROFILE"}, "push")
  /\ UpdatePackage([Package EXCEPT !.users = Append(Package.users, call[r].dto.id)])
  /\ Answer(r)
  /\ UNCHANGED <<load, owner, staff>>

\* Both checks stand in the loop, and neither depends on the turn.
AddFind(r) ==
  /\ Serves(r, {"ADD"}, "find")
  /\ IF me(r).status # "COMPLETED" \/ ~Exists
     THEN Fail(r)
     ELSE IF \/ call[r].dto.users = <<>>
             \/ /\ HasRoom(r)
                /\ Len(call[r].dto.users) <= PlanLimit[me(r).plan] + Floor(me(r).extraLimit)
          THEN FindPackage(r, "users") ELSE Fail(r)

RemoveFind(r) ==
  /\ Serves(r, {"REMOVE"}, "find")
  /\ IF me(r).status # "COMPLETED" THEN Fail(r) ELSE FindPackage(r, "users")

\* One turn of the loop over dto.users: '002' for a user that is not there.
ThisUser(r) == call[r].dto.users[local[r].line]

\* Mutation: a removed user stays active.
RemoveKeepsActive(r) ==
  Serves(r, {"REMOVE"}, "users") /\ local[r].line <= Len(call[r].dto.users) /\
  NextLine(r, "users") /\ UNCHANGED <<load, packages, owner, staff>>

RemoveUser(r) ==
  /\ Serves(r, {"REMOVE"}, "users")
  /\ local[r].line <= Len(call[r].dto.users)
  /\ IF staff[ThisUser(r)] = "none"
     THEN Fail(r)
     ELSE UpdateUser(ThisUser(r), "inactive") /\ NextLine(r, "users")
            /\ UNCHANGED <<load, packages, owner>>

\* Mutation: the user is not looked up.
AddAnyUser(r) ==
  Serves(r, {"ADD"}, "users") /\ local[r].line <= Len(call[r].dto.users) /\ Move(r, "push")

AddUser(r) ==
  /\ Serves(r, {"ADD"}, "users")
  /\ local[r].line <= Len(call[r].dto.users)
  /\ IF staff[ThisUser(r)] = "none"
     THEN Fail(r)
     ELSE /\ UpdateUser(ThisUser(r), "active")
          /\ Goto(r, "push")
          /\ UNCHANGED <<load, packages, owner, local>>

AddPush(r) ==
  /\ Serves(r, {"ADD"}, "push")
  /\ UpdatePackage([Package EXCEPT !.users = Append(Package.users, ThisUser(r))])
  /\ NextLine(r, "users")
  /\ UNCHANGED <<load, owner, staff>>

UsersEnd(r) ==
  /\ Serves(r, {"ADD", "REMOVE"}, "users")
  /\ local[r].line > Len(call[r].dto.users)
  /\ IF call[r].kind = "ADD" THEN Answer(r) /\ UNCHANGED docs ELSE Move(r, "pull")

RemovePull(r) ==
  /\ Serves(r, {"REMOVE"}, "pull")
  /\ UpdatePackage([Package EXCEPT !.users =
       Pull(Package.users, {call[r].dto.users[n] : n \in DOMAIN call[r].dto.users})])
  /\ Answer(r)
  /\ UNCHANGED <<load, owner, staff>>

\* renewUser: active again, whether or not the package has a place for the user.
RenewUser(r) ==
  /\ Serves(r, {"RENEW"}, "find")
  /\ IF me(r).status # "COMPLETED" \/ staff[call[r].dto.id] = "none"
     THEN Fail(r)
     ELSE /\ UpdateUser(call[r].dto.id, "active")
          /\ Answer(r)
          /\ UNCHANGED <<load, packages, owner>>

-----------------------------------------------------------------------------
(* deactiveUser, asked for by the administrator, with active true or false *)

\* The user and, of an owner, all the staff; '404' when the user is not there.
DeactiveFind(r) ==
  /\ Serves(r, Deactivations, "find")
  /\ LET id == call[r].dto.id
         created == {u \in Staff : staff[u] # "none"}
     IN IF id # "owner" /\ id \notin created
        THEN Fail(r)
        ELSE /\ local' = [local EXCEPT ![r].found = IF id = "owner" THEN created ELSE {id}]
             /\ Goto(r, "staff")
             /\ UNCHANGED docs

\* updateMany writes one document after another, and the package none.
DeactiveStaff(r) ==
  /\ Serves(r, Deactivations, "staff")
  /\ \E u \in local[r].found :
       /\ UpdateUser(u, IF call[r].kind = "ACTIVATE" THEN "active" ELSE "inactive")
       /\ local' = [local EXCEPT ![r].found = local[r].found \ {u}]
  /\ Goto(r, "staff")
  /\ UNCHANGED <<load, packages, owner>>

\* The owner is deactivated too, which no handler here reads.
DeactiveEnd(r) == Serves(r, Deactivations, "staff") /\ local[r].found = {} /\ Fail(r)

-----------------------------------------------------------------------------
(* upgradeOrDownGradePackage and updateExtraLimit *)

ChangeFind(r) == Serves(r, {"UPGRADE", "EXTRA"}, "find") /\ FindPackage(r, "package")

UpgradePrice(r) == PriceOf(call[r].dto.plan, me(r).extraLimit)

\* Mutation: all extra users are charged on top of the price.
ExtraPriceOnTop(r) == me(r).price + call[r].dto.extraLimit * ExtraPrice[me(r).plan]

\* What the change costs is added to the price as it was on arrival.
ExtraNewPrice(r) ==
  me(r).price + (call[r].dto.extraLimit - me(r).extraLimit) * ExtraPrice[me(r).plan]

UpgradePackage(r) ==
  /\ Serves(r, {"UPGRADE"}, "package")
  /\ UpdatePackage([Package EXCEPT !.plan = call[r].dto.plan, !.price = UpgradePrice(r)])
  /\ Goto(r, "owner")
  /\ UNCHANGED <<load, owner, staff, local>>

UpgradeUpdateOwner(r) ==
  /\ Serves(r, {"UPGRADE"}, "owner")
  /\ owner' = [owner EXCEPT !.plan = call[r].dto.plan, !.price = UpgradePrice(r)]
  /\ Goto(r, "evict")
  /\ UNCHANGED <<load, packages, staff, local>>

ExtraUpdatePackage(r) ==
  /\ Serves(r, {"EXTRA"}, "package")
  /\ UpdatePackage([Package EXCEPT !.extraLimit = call[r].dto.extraLimit,
                                   !.price = ExtraNewPrice(r)])
  /\ Goto(r, "owner")
  /\ UNCHANGED <<load, owner, staff, local>>

ExtraUpdateOwner(r) ==
  /\ Serves(r, {"EXTRA"}, "owner")
  /\ owner' = [owner EXCEPT !.extraLimit = call[r].dto.extraLimit,
                            !.price = ExtraNewPrice(r)]
  /\ Goto(r, "evict")
  /\ UNCHANGED <<load, packages, staff, local>>

\* How many of the users found are too many, a part of one being one more: an
\* upgrade forgets the extra ones.
Excess(r) ==
  Len(local[r].users) -
    IF call[r].kind = "UPGRADE" THEN PlanLimit[call[r].dto.plan]
    ELSE PlanLimit[me(r).plan] + Floor(call[r].dto.extraLimit)

\* The first so many are deactivated and pulled, one by one.
EvictUser(r) ==
  /\ Serves(r, {"UPGRADE", "EXTRA"}, "evict")
  /\ local[r].line <= Excess(r)
  /\ UpdateUser(local[r].users[local[r].line], "inactive")
  /\ Goto(r, "evictPull")
  /\ UNCHANGED <<load, packages, owner, local>>

EvictPull(r) ==
  /\ Serves(r, {"UPGRADE", "EXTRA"}, "evictPull")
  /\ UpdatePackage([Package EXCEPT !.users =
       Pull(Package.users, {local[r].users[local[r].line]})])
  /\ NextLine(r, "evict")
  /\ UNCHANGED <<load, owner, staff>>

EvictEnd(r) ==
  /\ Serves(r, {"UPGRADE", "EXTRA"}, "evict")
  /\ local[r].line > Excess(r)
  /\ Answer(r) /\ UNCHANGED docs

-----------------------------------------------------------------------------

\* The process exits, loses the requests at work, and is started again.
ProcessExit ==
  /\ \E r \in Requests : Working(r)
  /\ pc' = [r \in Requests |-> "idle"]
  /\ call' = [r \in Requests |-> NoCall]
  /\ local' = [r \in Requests |-> NewLocal]
  /\ lost' = TRUE
  /\ UNCHANGED docs

Handler(r) ==
  \/ CreateFind(r) \/ CreatePackage(r) \/ CreateUpdateOwner(r) \/ EntityUpdateOwner(r)
  \/ ProfileFind(r) \/ ProfileCreate(r) \/ ProfilePush(r)
  \/ AddFind(r) \/ AddUser(r) \/ AddPush(r) \/ UsersEnd(r)
  \/ RemoveFind(r) \/ RemoveUser(r) \/ RemovePull(r) \/ RenewUser(r)
  \/ DeactiveFind(r) \/ DeactiveStaff(r) \/ DeactiveEnd(r)
  \/ ChangeFind(r) \/ UpgradePackage(r) \/ UpgradeUpdateOwner(r)
  \/ ExtraUpdatePackage(r) \/ ExtraUpdateOwner(r)
  \/ EvictUser(r) \/ EvictPull(r) \/ EvictEnd(r)

Next == (\E r \in Requests : Arrive(r) \/ Handler(r)) \/ ProcessExit

Spec == Init /\ [][Next]_vars

-----------------------------------------------------------------------------
(* Properties *)

Serial == load.atOnce = 1
Quiet == \A r \in Requests : ~Working(r)
Members == IF Exists THEN {Package.users[n] : n \in DOMAIN Package.users} ELSE {}

\* However requests interleave, the users of a package exceed its limit by less
\* than the number of requests that are served at a time, as long as a request
\* brings one user and nobody changes the limit.
OvershootIsBounded ==
  (load.kinds \intersect {"UPGRADE", "EXTRA"} = {} /\ \A us \in UserLists : Len(us) <= 1) =>
    (Exists /\ Len(Package.users) > 0 =>
       Len(Package.users) <= LimitOf(owner) + load.atOnce - 1)

\* In any interleaving, and through exits, a member of a package has a profile,
\* and an owner who has paid has a package.
NothingDangles ==
  /\ \A u \in Members : staff[u] # "none"
  /\ owner.status # "PENDING" => Exists

\* One request at a time and at rest, when none was lost, the users of a package
\* are within the limit, after a downgrade and a lower extraLimit too.  Left out
\* are requests that bring several users: the check does not count them.
WithinLimitWhenSerial ==
  (Serial /\ Quiet /\ ~lost /\ \A us \in UserLists : Len(us) <= 1) =>
    (Exists => Len(Package.users) <= LimitOf(owner))

\* One request at a time and at rest, when no request was lost, the active staff
\* are members of the package unless users are renewed or activated, and the
\* members are active unless users are deactivated, which leaves them where they
\* are.  A removal of several users may stop half-way.
MembersAreActiveWhenSerial ==
  LET active == {u \in Staff : staff[u] = "active"} IN
  (Serial /\ Quiet /\ ~lost /\ \A us \in UserLists : Len(us) <= 1) =>
    /\ load.kinds \intersect {"RENEW", "ACTIVATE"} = {} => active \subseteq Members
    /\ "DEACTIVATE" \notin load.kinds => Members \subseteq active

\* One request at a time and at rest, when none was lost, the package and its
\* owner agree on the plan, the extra users and the price, and the price is that
\* of the plan with so many extra users.
PricesAgreeWhenSerial ==
  (Serial /\ Quiet /\ ~lost /\ Exists) =>
    /\ Package.plan = owner.plan /\ Package.extraLimit = owner.extraLimit
    /\ Package.price = owner.price
    /\ owner.price = PriceOf(owner.plan, owner.extraLimit)
=============================================================================
