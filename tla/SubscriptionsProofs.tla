------------------------ MODULE SubscriptionsProofs ------------------------
(***************************************************************************)
(* Theorems about Subscriptions: that nothing dangles and by how much the  *)
(* limit is passed, for any requests and interleaving; and that one        *)
(* request at a time the package is within its limit, its members are the  *)
(* active staff, and its price is the owner's.                             *)
(***************************************************************************)
EXTENDS Subscriptions, ArraysProofs

USE DEF Deactivations
-----------------------------------------------------------------------------
(* Types *)

PackageDoc == [users: Seq(Staff), plan: Plans, extraLimit: Nat, price: Int]
OwnerDoc == [status: {"PENDING", "PAID", "COMPLETED"}, plan: Plans, extraLimit: Nat, price: Int]
Calls == {c \in [kind: AllKinds, dto: Dtos, user: OwnerDoc] : c.dto.kind = c.kind}
Locals == [users: Seq(Staff), line: Nat \ {0}, found: SUBSET Staff]

\* The steps of a handler.
StepsOf(kind) ==
  CASE kind = "CREATE" -> {"find", "create", "owner"}
    [] kind = "PROFILE" -> {"find", "create", "push"}
    [] kind = "ADD" -> {"find", "users", "push"}
    [] kind = "REMOVE" -> {"find", "users", "pull"}
    [] kind \in {"UPGRADE", "EXTRA"} -> {"find", "package", "owner", "evict", "evictPull"}
    [] kind \in Deactivations -> {"find", "staff"}
    [] OTHER -> {"find"}
Steps == {"idle", "find", "create", "owner", "push", "users", "pull", "package", "evict", "evictPull",
          "staff"}

\* Where a request can be, with what.
Placed(r) ==
  \/ pc[r] = "idle" /\ call[r] = NoCall /\ local[r] = NewLocal
  \/ /\ call[r] \in Calls /\ call[r].kind \in load.kinds
     /\ pc[r] \in StepsOf(call[r].kind)
     /\ pc[r] = "push" /\ call[r].kind = "ADD" => local[r].line <= Len(call[r].dto.users)
     /\ pc[r] = "evictPull" => local[r].line <= Excess(r)
     /\ pc[r] \in {"find", "create"} => local[r].line = 1

TypeOK ==
  /\ load \in Loads
  /\ packages \in Seq(PackageDoc)
  /\ owner \in OwnerDoc
  /\ staff \in [Staff -> {"none", "active", "inactive"}]
  /\ pc \in [Requests -> Steps]
  /\ call \in [Requests -> Calls \union {NoCall}]
  /\ local \in [Requests -> Locals]
  /\ lost \in BOOLEAN
  /\ \A r \in Requests : Placed(r)

\* A part of a user is no whole one, and takes the place of one.
LEMMA Parts ==
  ASSUME NEW x \in Nat
  PROVE  Floor(x) \in Nat /\ Ceiling(x) \in Nat /\ Floor(x) <= Ceiling(x)
BY UnitAssumption DEF Floor, Ceiling

LEMMA DtoType ==
  ASSUME NEW c \in Calls
  PROVE  /\ c.kind \in AllKinds /\ c.user \in OwnerDoc
         /\ c.user.status \in {"PENDING", "PAID", "COMPLETED"}
         /\ c.user.plan \in Plans /\ c.user.extraLimit \in Nat /\ c.user.price \in Int
         /\ c.kind \in {"PROFILE", "RENEW"} => c.dto.id \in Staff
         /\ c.kind \in {"ADD", "REMOVE"} => c.dto.users \in UserLists /\ c.dto.users \in Seq(Staff)
         /\ c.kind = "UPGRADE" => c.dto.plan \in Plans
         /\ c.kind = "EXTRA" => c.dto.extraLimit \in Nat /\ Floor(c.dto.extraLimit) \in Nat
         /\ c.kind \in Deactivations => c.dto.id \in Staff \union {"owner"}
<1>1. c.kind \in AllKinds /\ c.user \in OwnerDoc /\ c.dto \in Dtos /\ c.dto.kind = c.kind
  BY DEF Calls
<1>2. c.kind \in {"PROFILE", "RENEW"} => c.dto.id \in Staff
  BY <1>1 DEF Dtos
<1>3. c.kind \in {"ADD", "REMOVE"} => c.dto.users \in UserLists
  BY <1>1 DEF Dtos
<1>4. c.kind = "UPGRADE" => c.dto.plan \in Plans
  BY <1>1 DEF Dtos
<1>5. c.kind = "EXTRA" => c.dto.extraLimit \in Nat
  BY <1>1, DtosAssumption DEF Dtos
<1>6. c.kind = "EXTRA" => Floor(c.dto.extraLimit) \in Nat
  BY <1>5, Parts
<1>7. c.kind \in Deactivations => c.dto.id \in Staff \union {"owner"}
  BY <1>1 DEF Dtos, Deactivations
<1> QED BY <1>1, <1>2, <1>3, <1>4, <1>5, <1>6, <1>7, DtosAssumption DEF OwnerDoc

LEMMA PriceType ==
  ASSUME NEW plan \in Plans, NEW n \in Int
  PROVE  /\ PriceOf(plan, n) \in Int /\ n * ExtraPrice[plan] \in Int
         /\ PlanLimit[plan] \in Nat /\ PlanPrice[plan] \in Nat /\ ExtraPrice[plan] \in Nat
<1>1. PlanLimit[plan] \in Nat /\ PlanPrice[plan] \in Nat /\ ExtraPrice[plan] \in Nat
  BY PlansAssumption
<1> QED BY <1>1 DEF PriceOf

\* What is known of the fields of a package.
LEMMA PackageType ==
  ASSUME packages \in Seq(PackageDoc), Exists
  PROVE  /\ Package \in PackageDoc
         /\ Package.users \in Seq(Staff) /\ Package.plan \in Plans
         /\ Package.extraLimit \in Nat /\ Package.price \in Int
         /\ Len(Package.users) \in Nat
<1>1. Package \in PackageDoc
  BY DEF Exists, Package
<1> QED BY <1>1 DEF PackageDoc

LEMMA UpdatedPackage ==
  ASSUME packages \in Seq(PackageDoc), Exists, NEW package \in PackageDoc, UpdatePackage(package)
  PROVE  packages' \in Seq(PackageDoc) /\ Exists' /\ Package' = package
BY DEF UpdatePackage, Exists, Package

LEMMA AppendedPackage ==
  ASSUME packages \in Seq(PackageDoc), NEW package \in PackageDoc,
         packages' = Append(packages, package)
  PROVE  /\ packages' \in Seq(PackageDoc) /\ Exists'
         /\ IF Exists THEN Package' = Package ELSE Package' = package
BY DEF Exists, Package

\* The fields of the record a package becomes.
LEMMA UsersUpdate ==
  ASSUME NEW p \in PackageDoc, NEW users \in Seq(Staff)
  PROVE  /\ [p EXCEPT !.users = users] \in PackageDoc
         /\ [p EXCEPT !.users = users].users = users
         /\ [p EXCEPT !.users = users].plan = p.plan
         /\ [p EXCEPT !.users = users].extraLimit = p.extraLimit
         /\ [p EXCEPT !.users = users].price = p.price
BY DEF PackageDoc

-----------------------------------------------------------------------------
(* What a step of a handler does, said of the state it leaves *)

Others(r) ==
  /\ load' = load /\ lost' = lost
  /\ \A o \in Requests \ {r} : pc'[o] = pc[o] /\ call'[o] = call[o] /\ local'[o] = local[o]

Ends(r) == pc'[r] = "idle" /\ call'[r] = NoCall /\ local'[r] = NewLocal
Goes(r, at) == pc'[r] = at /\ call'[r] = call[r]
Keeps(r, at) == Goes(r, at) /\ local'[r] = local[r]
Turns(r, at) == Goes(r, at) /\ local'[r].users = local[r].users /\ local'[r].line = local[r].line + 1

\* Whom a request is about to push, or to pull.
Whom(r) == IF call[r].kind = "PROFILE" THEN call[r].dto.id ELSE ThisUser(r)
Leaving(r) == {call[r].dto.users[n] : n \in DOMAIN call[r].dto.users}

NewUsers(users) ==
  /\ Exists /\ Exists' /\ UNCHANGED <<owner, staff>>
  /\ Package'.users = users /\ Package'.plan = Package.plan
  /\ Package'.extraLimit = Package.extraLimit /\ Package'.price = Package.price

NewTerms(plan, extraLimit, price) ==
  /\ Exists /\ Exists' /\ UNCHANGED <<owner, staff>>
  /\ Package'.users = Package.users /\ Package'.plan = plan
  /\ Package'.extraLimit = extraLimit /\ Package'.price = price

NewOwner(plan, extraLimit, price) ==
  /\ UNCHANGED <<packages, staff>>
  /\ owner'.plan = plan /\ owner'.extraLimit = extraLimit /\ owner'.price = price

NewStaff(u, status) ==
  /\ UNCHANGED <<packages, owner>>
  /\ u \in Staff /\ staff' = [staff EXCEPT ![u] = status]

\* The request is answered, and nothing changes.
Gives(r) ==
  /\ Ends(r) /\ UNCHANGED docs
  /\ \/ pc[r] = "find"
     \/ pc[r] = "create" /\ call[r].kind = "PROFILE"
     \/ pc[r] = "users" /\ (call[r].kind = "ADD" \/ local[r].line <= Len(call[r].dto.users))
     \/ pc[r] = "evict" /\ local[r].line > Excess(r)
     \/ pc[r] = "staff"

\* The package is found, or is to be created; or the staff are found.
Finds(r) ==
  /\ UNCHANGED docs /\ pc[r] = "find"
  /\ \/ /\ call[r].kind = "CREATE" /\ ~Exists /\ Keeps(r, "create")
     \/ /\ Exists /\ local'[r].users = Package.users /\ local'[r].line = 1
        /\ \/ call[r].kind = "PROFILE" /\ HasRoom(r) /\ Goes(r, "create")
           \/ /\ call[r].kind = "ADD" /\ Goes(r, "users")
              /\ HasRoom(r) \/ call[r].dto.users = <<>>
           \/ call[r].kind = "REMOVE" /\ Goes(r, "users")
           \/ call[r].kind \in {"UPGRADE", "EXTRA"} /\ Goes(r, "package")
     \/ /\ call[r].kind \in Deactivations /\ Goes(r, "staff")
        /\ \A u \in local'[r].found : staff[u] # "none"

Proceeds(r) ==
  /\ UNCHANGED docs /\ pc[r] = "users" /\ call[r].kind = "REMOVE"
  /\ local[r].line > Len(call[r].dto.users) /\ Keeps(r, "pull")

Creates(r) ==
  /\ UNCHANGED <<owner, staff>>
  /\ pc[r] = "create" /\ call[r].kind = "CREATE" /\ Keeps(r, "owner") /\ Exists'
  /\ IF Exists THEN Package' = Package
     ELSE /\ Package'.users = <<>> /\ Package'.plan = me(r).plan
          /\ Package'.extraLimit = me(r).extraLimit
          /\ Package'.price = PriceOf(me(r).plan, me(r).extraLimit)

WritesOwner(r) ==
  \/ /\ pc[r] = "owner" /\ call[r].kind = "CREATE" /\ Ends(r) /\ owner'.status = "PAID"
     /\ NewOwner(owner.plan, owner.extraLimit, PriceOf(me(r).plan, me(r).extraLimit))
  \/ /\ pc[r] = "find" /\ call[r].kind = "ENTITY" /\ Ends(r) /\ me(r).status = "PAID"
     /\ NewOwner(owner.plan, owner.extraLimit, owner.price)
  \/ /\ pc[r] = "owner" /\ call[r].kind = "UPGRADE" /\ Keeps(r, "evict") /\ owner'.status = owner.status
     /\ NewOwner(call[r].dto.plan, owner.extraLimit, UpgradePrice(r))
  \/ /\ pc[r] = "owner" /\ call[r].kind = "EXTRA" /\ Keeps(r, "evict") /\ owner'.status = owner.status
     /\ NewOwner(owner.plan, call[r].dto.extraLimit, ExtraNewPrice(r))

WritesStaff(r) ==
  \/ /\ pc[r] = "create" /\ call[r].kind = "PROFILE" /\ Keeps(r, "push")
     /\ NewStaff(call[r].dto.id, "active")
  \/ /\ pc[r] = "users" /\ call[r].kind = "ADD" /\ Keeps(r, "push")
     /\ local[r].line <= Len(call[r].dto.users) /\ NewStaff(ThisUser(r), "active")
  \/ /\ pc[r] = "users" /\ call[r].kind = "REMOVE" /\ Turns(r, "users")
     /\ local[r].line <= Len(call[r].dto.users) /\ NewStaff(ThisUser(r), "inactive")
  \/ /\ pc[r] = "find" /\ call[r].kind = "RENEW" /\ Ends(r) /\ NewStaff(call[r].dto.id, "active")
  \/ /\ pc[r] = "evict" /\ Keeps(r, "evictPull") /\ local[r].line <= Excess(r)
     /\ NewStaff(local[r].users[local[r].line], "inactive")
  \/ /\ pc[r] = "staff" /\ call[r].kind \in Deactivations /\ Goes(r, "staff")
     /\ local'[r].found \subseteq local[r].found
     /\ \E u \in local[r].found :
          NewStaff(u, IF call[r].kind = "ACTIVATE" THEN "active" ELSE "inactive")

WritesPackage(r) ==
  \/ /\ pc[r] = "push" /\ call[r].kind = "PROFILE" /\ Ends(r)
     /\ NewUsers(Append(Package.users, Whom(r)))
  \/ /\ pc[r] = "push" /\ call[r].kind = "ADD" /\ Turns(r, "users")
     /\ NewUsers(Append(Package.users, Whom(r)))
  \/ /\ pc[r] = "pull" /\ call[r].kind = "REMOVE" /\ Ends(r)
     /\ NewUsers(Pull(Package.users, Leaving(r)))
  \/ /\ pc[r] = "package" /\ call[r].kind = "UPGRADE" /\ Keeps(r, "owner")
     /\ NewTerms(call[r].dto.plan, Package.extraLimit, UpgradePrice(r))
  \/ /\ pc[r] = "package" /\ call[r].kind = "EXTRA" /\ Keeps(r, "owner")
     /\ NewTerms(Package.plan, call[r].dto.extraLimit, ExtraNewPrice(r))
  \/ /\ pc[r] = "evictPull" /\ Turns(r, "evict")
     /\ NewUsers(Pull(Package.users, {local[r].users[local[r].line]}))

Step(r) ==
  /\ Others(r) /\ pc[r] # "idle"
  /\ \/ Gives(r) \/ Finds(r) \/ Proceeds(r) \/ Creates(r)
     \/ WritesOwner(r) \/ WritesStaff(r) \/ WritesPackage(r)

-----------------------------------------------------------------------------
(* Steps keep the types *)

\* What must be there for a request to be where it is.
Found(r) ==
  /\ pc[r] # "idle" /\ me(r).status # "PENDING" => Exists
  /\ pc[r] \in {"owner", "push", "users", "pull", "package", "evict", "evictPull"} => Exists
  /\ pc[r] = "create" /\ call[r].kind = "PROFILE" => Exists
  /\ pc[r] = "push" => staff[Whom(r)] # "none"
  /\ pc[r] = "staff" => \A u \in local[r].found : staff[u] # "none"

SoundInv == TypeOK /\ NothingDangles /\ \A r \in Requests : Found(r)

\* The types of what a step says of its request.
Shape(r) ==
  /\ Others(r)
  /\ pc' \in [Requests -> Steps]
  /\ call' \in [Requests -> Calls \union {NoCall}]
  /\ local' \in [Requests -> Locals]
  /\ \A o \in Requests : Placed(o)'

LEMMA WorkingType ==
  ASSUME TypeOK, NEW r \in Requests, pc[r] # "idle"
  PROVE  /\ call[r] \in Calls /\ call[r].kind \in load.kinds /\ call[r].kind \in AllKinds
         /\ pc[r] \in StepsOf(call[r].kind)
         /\ local[r].users \in Seq(Staff) /\ local[r].line \in Nat \ {0}
         /\ local[r].found \subseteq Staff
         /\ pc[r] = "push" /\ call[r].kind = "ADD" => local[r].line <= Len(call[r].dto.users)
         /\ pc[r] = "evictPull" => local[r].line <= Excess(r)
         /\ pc[r] \in {"find", "create"} => local[r].line = 1
BY DtoType DEF TypeOK, Placed, Locals

LEMMA OthersPlaced ==
  ASSUME TypeOK, NEW r \in Requests, Others(r), Placed(r)'
  PROVE  \A o \in Requests : Placed(o)'
<1> SUFFICES ASSUME NEW o \in Requests, o # r PROVE Placed(o)'
  OBVIOUS
<1>1. /\ pc'[o] = pc[o] /\ call'[o] = call[o] /\ local'[o] = local[o] /\ load' = load
      /\ Placed(o)
  BY DEF Others, TypeOK
<1>2. Excess(o)' = Excess(o)
  BY <1>1 DEF Excess, me
<1> QED BY <1>1, <1>2 DEF Placed

LEMMA AnswerStep ==
  ASSUME TypeOK, NEW r \in Requests, Answer(r), load' = load
  PROVE  Shape(r) /\ Ends(r)
<1>1. /\ pc' \in [Requests -> Steps] /\ call' \in [Requests -> Calls \union {NoCall}]
      /\ Others(r) /\ Ends(r)
  BY DEF TypeOK, Answer, Others, Ends, Steps
<1>2. NewLocal \in Locals
  BY DEF NewLocal, Locals
<1>3. local' \in [Requests -> Locals]
  BY <1>2 DEF TypeOK, Answer
<1>4. Placed(r)'
  BY <1>1 DEF Ends, Placed
<1> QED BY <1>1, <1>3, <1>4, OthersPlaced DEF Shape

LEMMA PlacedAfter ==
  ASSUME TypeOK, NEW r \in Requests, Others(r), pc[r] # "idle", NEW at, Goes(r, at),
         at \in StepsOf(call[r].kind) \ {"find"},
         at = "push" /\ call[r].kind = "ADD" => local'[r].line <= Len(call[r].dto.users),
         at = "evictPull" => local'[r] = local[r] /\ local[r].line <= Excess(r),
         at = "create" => local'[r].line = 1
  PROVE  Placed(r)'
<1>1. call'[r] = call[r] /\ pc'[r] = at /\ load' = load /\ call[r] \in Calls /\ call[r].kind \in load.kinds
  BY WorkingType DEF Goes, Others
<1>2. at = "evictPull" => local'[r].line <= Excess(r)'
  BY <1>1 DEF Excess, me
<1> QED BY <1>1, <1>2 DEF Placed

LEMMA KeepStep ==
  ASSUME TypeOK, NEW r \in Requests, pc[r] # "idle", NEW at, Goto(r, at), UNCHANGED <<load, local>>,
         at \in StepsOf(call[r].kind) \ {"find"},
         at = "push" /\ call[r].kind = "ADD" => local[r].line <= Len(call[r].dto.users),
         at = "evictPull" => local[r].line <= Excess(r),
         at = "create" => local[r].line = 1
  PROVE  Shape(r) /\ Keeps(r, at)
<1>1. at \in Steps
  BY DEF StepsOf, Steps
<1>2. /\ pc' \in [Requests -> Steps] /\ call' \in [Requests -> Calls \union {NoCall}]
      /\ local' \in [Requests -> Locals] /\ Others(r) /\ Keeps(r, at)
  BY <1>1 DEF TypeOK, Goto, Others, Keeps, Goes
<1>3. Placed(r)'
  BY <1>2, PlacedAfter DEF Keeps
<1> QED BY <1>2, <1>3, OthersPlaced DEF Shape

LEMMA TurnStep ==
  ASSUME TypeOK, NEW r \in Requests, pc[r] # "idle", NEW at \in {"users", "evict"}, NextLine(r, at),
         load' = load, at \in StepsOf(call[r].kind)
  PROVE  Shape(r) /\ Turns(r, at)
<1> DEFINE loc == [local[r] EXCEPT !.line = local[r].line + 1]
<1>0. local[r] \in Locals /\ local[r].users \in Seq(Staff) /\ local[r].line \in Nat \ {0}
  BY DEF TypeOK, Locals
<1>1. /\ loc \in Locals /\ loc.users = local[r].users /\ loc.line = local[r].line + 1
  <2>1. local[r].line + 1 \in Nat \ {0}
    BY <1>0
  <2> QED BY <1>0, <2>1 DEF Locals
<1>2. local' = [local EXCEPT ![r] = loc]
  BY DEF NextLine
<1> HIDE DEF loc
<1>3. /\ pc' \in [Requests -> Steps] /\ call' \in [Requests -> Calls \union {NoCall}]
      /\ local' \in [Requests -> Locals] /\ Others(r) /\ Turns(r, at)
  BY <1>1, <1>2 DEF TypeOK, NextLine, Goto, Others, Turns, Goes, Steps
<1>4. Placed(r)'
  BY <1>3, PlacedAfter DEF Turns
<1> QED BY <1>3, <1>4, OthersPlaced DEF Shape

LEMMA FindStep ==
  ASSUME TypeOK, NEW r \in Requests, pc[r] = "find", NEW at, FindPackage(r, at), Exists,
         at \in StepsOf(call[r].kind) \ {"find", "push", "evictPull"}
  PROVE  /\ Shape(r) /\ Goes(r, at) /\ UNCHANGED docs
         /\ local'[r].users = Package.users /\ local'[r].line = 1
<1> DEFINE loc == [local[r] EXCEPT !.users = Package.users]
<1>1. local[r] \in Locals /\ local[r].line = 1 /\ Package.users \in Seq(Staff) /\ at \in Steps
  BY PackageType, WorkingType DEF TypeOK, Steps, StepsOf
<1>2. /\ loc \in Locals /\ loc.users = Package.users /\ loc.line = 1
  BY <1>1 DEF Locals
<1>3. local' = [local EXCEPT ![r] = loc]
  BY DEF FindPackage
<1> HIDE DEF loc
<1>4. /\ pc' \in [Requests -> Steps] /\ call' \in [Requests -> Calls \union {NoCall}]
      /\ local' \in [Requests -> Locals] /\ Others(r) /\ Goes(r, at) /\ UNCHANGED docs
      /\ local'[r].users = Package.users /\ local'[r].line = 1
  BY <1>1, <1>2, <1>3 DEF TypeOK, FindPackage, Goto, Others, Goes, docs
<1>5. Placed(r)'
  BY <1>4, PlacedAfter
<1> QED BY <1>4, <1>5, OthersPlaced DEF Shape

\* With the documents' types, the invariant of types.
LEMMA ShapeType ==
  ASSUME TypeOK, NEW r \in Requests, Shape(r),
         packages' \in Seq(PackageDoc), owner' \in OwnerDoc,
         staff' \in [Staff -> {"none", "active", "inactive"}]
  PROVE  TypeOK'
BY DEF TypeOK, Shape, Others

LEMMA DocsType ==
  ASSUME TypeOK, NEW r \in Requests, Shape(r), UNCHANGED docs
  PROVE  TypeOK'
BY ShapeType DEF TypeOK, docs

LEMMA StaffType ==
  ASSUME TypeOK, NEW r \in Requests, Shape(r), NEW u \in Staff, NEW status \in {"active", "inactive"},
         UpdateUser(u, status), UNCHANGED <<packages, owner>>
  PROVE  TypeOK' /\ NewStaff(u, status)
<1>1. staff' \in [Staff -> {"none", "active", "inactive"}]
  BY DEF TypeOK, UpdateUser
<1>2. packages' \in Seq(PackageDoc) /\ owner' \in OwnerDoc
  BY DEF TypeOK
<1> QED BY <1>1, <1>2, ShapeType DEF NewStaff, UpdateUser

LEMMA UsersType ==
  ASSUME TypeOK, NEW r \in Requests, Shape(r), Exists, NEW users \in Seq(Staff),
         UpdatePackage([Package EXCEPT !.users = users]), UNCHANGED <<owner, staff>>
  PROVE  TypeOK' /\ NewUsers(users)
<1> DEFINE package == [Package EXCEPT !.users = users]
<1>1. /\ package \in PackageDoc /\ package.users = users /\ package.plan = Package.plan
      /\ package.extraLimit = Package.extraLimit /\ package.price = Package.price
  BY PackageType, UsersUpdate DEF TypeOK
<1>2. UpdatePackage(package)
  OBVIOUS
<1> HIDE DEF package
<1>3. packages' \in Seq(PackageDoc) /\ Exists' /\ Package' = package
  BY <1>1, <1>2, UpdatedPackage DEF TypeOK
<1>4. TypeOK'
  BY <1>3, ShapeType DEF TypeOK
<1> QED BY <1>1, <1>3, <1>4 DEF NewUsers

\* What a request evicts are users it has found.
LEMMA ExcessType ==
  ASSUME TypeOK, NEW r \in Requests, call[r] \in Calls, call[r].kind \in {"UPGRADE", "EXTRA"},
         local[r].line <= Excess(r)
  PROVE  /\ Excess(r) \in Int /\ local[r].line \in DOMAIN local[r].users
         /\ local[r].users[local[r].line] \in Staff
<1>1. local[r].users \in Seq(Staff) /\ local[r].line \in Nat \ {0}
  BY DEF TypeOK, Locals
<1>2. me(r).plan \in Plans /\ (call[r].kind = "UPGRADE" => call[r].dto.plan \in Plans)
      /\ (call[r].kind = "EXTRA" => Floor(call[r].dto.extraLimit) \in Nat)
  BY DtoType DEF me
<1>3. \E n \in Nat : Excess(r) = Len(local[r].users) - n
  <2>1. CASE call[r].kind = "UPGRADE"
    <3>1. PlanLimit[call[r].dto.plan] \in Nat
      BY <1>2, <2>1, PlansAssumption
    <3> QED BY <2>1, <3>1 DEF Excess
  <2>2. CASE call[r].kind = "EXTRA"
    <3>1. PlanLimit[me(r).plan] + Floor(call[r].dto.extraLimit) \in Nat
      BY <1>2, <2>2, PlansAssumption
    <3> QED BY <2>2, <3>1 DEF Excess
  <2> QED BY <2>1, <2>2
<1> QED BY <1>1, <1>3

LEMMA TermsType ==
  ASSUME TypeOK, NEW r \in Requests, Shape(r), Exists, NEW plan \in Plans, NEW price \in Int,
         UpdatePackage([Package EXCEPT !.plan = plan, !.price = price]), UNCHANGED <<owner, staff>>
  PROVE  TypeOK' /\ NewTerms(plan, Package.extraLimit, price)
<1> DEFINE package == [Package EXCEPT !.plan = plan, !.price = price]
<1>1. /\ package \in PackageDoc /\ package.users = Package.users /\ package.plan = plan
      /\ package.extraLimit = Package.extraLimit /\ package.price = price
  BY PackageType DEF TypeOK, PackageDoc
<1>2. UpdatePackage(package)
  OBVIOUS
<1> HIDE DEF package
<1>3. packages' \in Seq(PackageDoc) /\ Exists' /\ Package' = package
  BY <1>1, <1>2, UpdatedPackage DEF TypeOK
<1>4. TypeOK'
  BY <1>3, ShapeType DEF TypeOK
<1> QED BY <1>1, <1>3, <1>4 DEF NewTerms

LEMMA ExtraTermsType ==
  ASSUME TypeOK, NEW r \in Requests, Shape(r), Exists, NEW extraLimit \in Nat, NEW price \in Int,
         UpdatePackage([Package EXCEPT !.extraLimit = extraLimit, !.price = price]),
         UNCHANGED <<owner, staff>>
  PROVE  TypeOK' /\ NewTerms(Package.plan, extraLimit, price)
<1> DEFINE package == [Package EXCEPT !.extraLimit = extraLimit, !.price = price]
<1>1. /\ package \in PackageDoc /\ package.users = Package.users /\ package.plan = Package.plan
      /\ package.extraLimit = extraLimit /\ package.price = price
  BY PackageType DEF TypeOK, PackageDoc
<1>2. UpdatePackage(package)
  OBVIOUS
<1> HIDE DEF package
<1>3. packages' \in Seq(PackageDoc) /\ Exists' /\ Package' = package
  BY <1>1, <1>2, UpdatedPackage DEF TypeOK
<1>4. TypeOK'
  BY <1>3, ShapeType DEF TypeOK
<1> QED BY <1>1, <1>3, <1>4 DEF NewTerms

LEMMA FailStep ==
  ASSUME TypeOK, NEW r \in Requests, Fail(r)
  PROVE  TypeOK' /\ Others(r) /\ Ends(r) /\ UNCHANGED docs
<1>1. Answer(r) /\ UNCHANGED docs /\ load' = load
  BY DEF Fail, docs
<1> QED BY <1>1, AnswerStep, DocsType DEF Shape

\* The staff found are all there.
LEMMA FoundStep ==
  ASSUME TypeOK, NEW r \in Requests, pc[r] \in {"find", "staff"}, call[r].kind \in Deactivations,
         NEW found \in SUBSET Staff, local' = [local EXCEPT ![r].found = found],
         Goto(r, "staff"), load' = load
  PROVE  Shape(r) /\ Goes(r, "staff") /\ local'[r].found = found
<1> DEFINE loc == [local[r] EXCEPT !.found = found]
<1>1. local[r] \in Locals
  BY DEF TypeOK
<1>2. loc \in Locals /\ loc.found = found
  BY <1>1 DEF Locals
<1>3. local' = [local EXCEPT ![r] = loc]
  OBVIOUS
<1> HIDE DEF loc
<1>4. /\ pc' \in [Requests -> Steps] /\ call' \in [Requests -> Calls \union {NoCall}]
      /\ local' \in [Requests -> Locals] /\ Others(r) /\ Goes(r, "staff") /\ local'[r].found = found
  BY <1>2, <1>3 DEF TypeOK, Goto, Others, Goes, Steps
<1>5. "staff" \in StepsOf(call[r].kind) \ {"find"}
  BY DEF StepsOf, Deactivations
<1>6. Placed(r)'
  BY <1>4, <1>5, PlacedAfter
<1> QED BY <1>4, <1>6, OthersPlaced DEF Shape

LEMMA FindingStep ==
  ASSUME SoundInv, NEW r \in Requests, pc[r] = "find",
         \/ CreateFind(r) \/ ProfileFind(r) \/ AddFind(r) \/ RemoveFind(r) \/ ChangeFind(r)
         \/ DeactiveFind(r)
  PROVE  TypeOK' /\ Step(r)
<1> USE DEF SoundInv
<1>1. CASE Fail(r)
  BY <1>1, FailStep DEF Step, Gives
<1>2. CASE CreateFind(r) /\ ~Fail(r)
  <2>1. /\ Goto(r, "create") /\ UNCHANGED <<docs, local>> /\ UNCHANGED <<load, local>>
        /\ call[r].kind = "CREATE" /\ ~Exists
    BY <1>2 DEF CreateFind, Move, docs, Serves
  <2>2. Shape(r) /\ Keeps(r, "create")
    BY <2>1, KeepStep, WorkingType DEF StepsOf
  <2> QED BY <2>1, <2>2, DocsType DEF Step, Finds, Shape
<1>3. ASSUME NEW at, FindPackage(r, at), ~Fail(r),
             at \in StepsOf(call[r].kind) \ {"find", "push", "evictPull"},
             \/ call[r].kind = "PROFILE" /\ HasRoom(r) /\ at = "create"
             \/ call[r].kind = "ADD" /\ at = "users" /\ (HasRoom(r) \/ call[r].dto.users = <<>>)
             \/ call[r].kind = "REMOVE" /\ at = "users"
             \/ call[r].kind \in {"UPGRADE", "EXTRA"} /\ at = "package"
      PROVE  TypeOK' /\ Step(r)
  <2>1. Exists
    BY <1>3 DEF FindPackage
  <2>2. /\ Shape(r) /\ Goes(r, at) /\ UNCHANGED docs
        /\ local'[r].users = Package.users /\ local'[r].line = 1
    BY <1>3, <2>1, FindStep
  <2> QED BY <1>3, <2>1, <2>2, DocsType DEF Step, Finds, Shape
<1>4. CASE ProfileFind(r) /\ ~Fail(r)
  <2>1. FindPackage(r, "create") /\ HasRoom(r) /\ call[r].kind = "PROFILE"
    BY <1>4 DEF ProfileFind, Serves
  <2> QED BY <1>3, <1>4, <2>1 DEF StepsOf
<1>5. CASE AddFind(r) /\ ~Fail(r)
  <2>1. FindPackage(r, "users") /\ (HasRoom(r) \/ call[r].dto.users = <<>>) /\ call[r].kind = "ADD"
    BY <1>5 DEF AddFind, Serves
  <2> QED BY <1>3, <1>5, <2>1 DEF StepsOf
<1>6. CASE RemoveFind(r) /\ ~Fail(r)
  <2>1. FindPackage(r, "users") /\ call[r].kind = "REMOVE"
    BY <1>6 DEF RemoveFind, Serves
  <2> QED BY <1>3, <1>6, <2>1 DEF StepsOf
<1>7. CASE ChangeFind(r) /\ ~Fail(r)
  <2>1. FindPackage(r, "package") /\ call[r].kind \in {"UPGRADE", "EXTRA"}
    BY <1>7 DEF ChangeFind, Serves
  <2> QED BY <1>3, <1>7, <2>1 DEF StepsOf
<1>8. CASE DeactiveFind(r) /\ ~Fail(r)
  <2> DEFINE created == {u \in Staff : staff[u] # "none"}
             found == IF call[r].dto.id = "owner" THEN created ELSE {call[r].dto.id}
  <2>1. /\ call[r].kind \in Deactivations /\ Goto(r, "staff") /\ UNCHANGED docs /\ load' = load
        /\ local' = [local EXCEPT ![r].found = found]
        /\ call[r].dto.id = "owner" \/ call[r].dto.id \in created
    BY <1>8 DEF DeactiveFind, Serves, docs
  <2>2. found \in SUBSET Staff /\ \A u \in found : staff[u] # "none"
    BY <2>1
  <2> HIDE DEF found, created
  <2>3. Shape(r) /\ Goes(r, "staff") /\ local'[r].found = found
    BY <2>1, <2>2, FoundStep
  <2> QED BY <2>1, <2>2, <2>3, DocsType DEF Step, Finds, Shape
<1> QED BY <1>1, <1>2, <1>4, <1>5, <1>6, <1>7, <1>8

LEMMA CreatesStep ==
  ASSUME SoundInv, NEW r \in Requests, CreatePackage(r)
  PROVE  TypeOK' /\ Step(r)
<1> DEFINE new == [users |-> <<>>, plan |-> me(r).plan, extraLimit |-> me(r).extraLimit,
                   price |-> PriceOf(me(r).plan, me(r).extraLimit)]
<1>1. /\ pc[r] = "create" /\ call[r].kind = "CREATE" /\ Goto(r, "owner")
      /\ UNCHANGED <<load, local>> /\ UNCHANGED <<owner, staff>> /\ packages' = Append(packages, new)
  BY DEF CreatePackage, Serves
<1>2. TypeOK /\ call[r] \in Calls
  BY <1>1, WorkingType DEF SoundInv
<1>3. me(r).plan \in Plans /\ me(r).extraLimit \in Nat
  BY <1>2, DtoType DEF me
<1>4. PriceOf(me(r).plan, me(r).extraLimit) \in Int
  BY <1>3, PriceType
<1>5. new \in PackageDoc
  BY <1>3, <1>4 DEF PackageDoc
<1>6. /\ new.users = <<>> /\ new.plan = me(r).plan /\ new.extraLimit = me(r).extraLimit
      /\ new.price = PriceOf(me(r).plan, me(r).extraLimit)
  OBVIOUS
<1> HIDE DEF new
<1>7. /\ packages' \in Seq(PackageDoc) /\ Exists'
      /\ IF Exists THEN Package' = Package ELSE Package' = new
  BY <1>1, <1>2, <1>5, AppendedPackage DEF TypeOK
<1>8. Shape(r) /\ Keeps(r, "owner")
  BY <1>1, <1>2, KeepStep DEF StepsOf
<1>9. TypeOK'
  BY <1>1, <1>2, <1>7, <1>8, ShapeType DEF TypeOK
<1> QED BY <1>1, <1>6, <1>7, <1>8, <1>9 DEF Step, Creates, Shape

LEMMA OwnerStep ==
  ASSUME SoundInv, NEW r \in Requests,
         \/ CreateUpdateOwner(r) \/ EntityUpdateOwner(r)
         \/ UpgradeUpdateOwner(r) \/ ExtraUpdateOwner(r)
  PROVE  TypeOK' /\ Step(r)
<1>1. TypeOK /\ pc[r] # "idle" /\ (call[r].kind \in {"UPGRADE", "EXTRA"} => me(r).price \in Int)
  <2>1. TypeOK /\ pc[r] # "idle"
    BY DEF SoundInv, CreateUpdateOwner, EntityUpdateOwner, UpgradeUpdateOwner, ExtraUpdateOwner, Serves
  <2> QED BY <2>1, WorkingType, DtoType DEF me
<1>2. call[r] \in Calls /\ me(r).plan \in Plans /\ me(r).extraLimit \in Nat /\ me(r).price \in Int
  BY <1>1, WorkingType, DtoType DEF me
<1>3. owner \in OwnerDoc /\ owner.plan \in Plans /\ owner.extraLimit \in Nat /\ owner.price \in Int
  BY <1>1 DEF TypeOK, OwnerDoc
<1>4. ASSUME UNCHANGED <<load, packages, staff>>, Shape(r), owner' \in OwnerDoc
      PROVE  TypeOK'
  BY <1>1, <1>4, ShapeType DEF TypeOK
<1>5. CASE CreateUpdateOwner(r)
  <2> DEFINE price == PriceOf(me(r).plan, me(r).extraLimit)
  <2>1. /\ Answer(r) /\ UNCHANGED <<load, packages, staff>> /\ load' = load
        /\ owner' = [owner EXCEPT !.status = "PAID", !.price = price]
        /\ pc[r] = "owner" /\ call[r].kind = "CREATE"
    BY <1>5 DEF CreateUpdateOwner, Serves
  <2>2. price \in Int
    BY <1>2, PriceType
  <2> HIDE DEF price
  <2>3. owner' \in OwnerDoc /\ owner'.status = "PAID"
        /\ owner'.plan = owner.plan /\ owner'.extraLimit = owner.extraLimit /\ owner'.price = price
    BY <1>3, <2>1, <2>2 DEF OwnerDoc
  <2>4. Shape(r) /\ Ends(r) /\ TypeOK'
    BY <1>1, <1>4, <2>1, <2>3, AnswerStep
  <2>5. NewOwner(owner.plan, owner.extraLimit, price)
    BY <2>1, <2>3 DEF NewOwner
  <2> QED BY <2>1, <2>3, <2>4, <2>5 DEF Step, WritesOwner, Shape, price
<1>6. CASE EntityUpdateOwner(r) /\ ~Fail(r)
  <2>1. /\ Answer(r) /\ UNCHANGED <<load, packages, staff>> /\ load' = load
        /\ owner' = [owner EXCEPT !.status = "COMPLETED"]
        /\ pc[r] = "find" /\ call[r].kind = "ENTITY" /\ me(r).status = "PAID"
    BY <1>6 DEF EntityUpdateOwner, Serves
  <2>2. owner' \in OwnerDoc
        /\ owner'.plan = owner.plan /\ owner'.extraLimit = owner.extraLimit /\ owner'.price = owner.price
    BY <1>3, <2>1 DEF OwnerDoc
  <2>3. Shape(r) /\ Ends(r) /\ TypeOK'
    BY <1>1, <1>4, <2>1, <2>2, AnswerStep
  <2> QED BY <2>1, <2>2, <2>3 DEF Step, WritesOwner, Shape, NewOwner
<1>7. CASE EntityUpdateOwner(r) /\ Fail(r)
  BY <1>1, <1>7, FailStep DEF EntityUpdateOwner, Step, Gives, Serves
<1>8. CASE UpgradeUpdateOwner(r)
  <2> DEFINE price == UpgradePrice(r)
  <2>1. /\ Goto(r, "evict") /\ UNCHANGED <<load, packages, staff>> /\ UNCHANGED <<load, local>>
        /\ owner' = [owner EXCEPT !.plan = call[r].dto.plan, !.price = price]
        /\ pc[r] = "owner" /\ call[r].kind = "UPGRADE"
    BY <1>8 DEF UpgradeUpdateOwner, Serves
  <2>2. price \in Int /\ call[r].dto.plan \in Plans
    BY <1>2, <2>1, PriceType, DtoType DEF UpgradePrice
  <2> HIDE DEF price
  <2>3. owner' \in OwnerDoc /\ owner'.status = owner.status
        /\ owner'.plan = call[r].dto.plan /\ owner'.extraLimit = owner.extraLimit /\ owner'.price = price
    BY <1>3, <2>1, <2>2 DEF OwnerDoc
  <2>4. Shape(r) /\ Keeps(r, "evict") /\ TypeOK'
    BY <1>1, <1>4, <2>1, <2>3, KeepStep DEF StepsOf
  <2>5. NewOwner(call[r].dto.plan, owner.extraLimit, price)
    BY <2>1, <2>3 DEF NewOwner
  <2> QED BY <2>1, <2>3, <2>4, <2>5 DEF Step, WritesOwner, Shape, price
<1>9. CASE ExtraUpdateOwner(r)
  <2> DEFINE price == ExtraNewPrice(r)
  <2>1. /\ Goto(r, "evict") /\ UNCHANGED <<load, packages, staff>> /\ UNCHANGED <<load, local>>
        /\ owner' = [owner EXCEPT !.extraLimit = call[r].dto.extraLimit, !.price = price]
        /\ pc[r] = "owner" /\ call[r].kind = "EXTRA"
    BY <1>9 DEF ExtraUpdateOwner, Serves
  <2>2. call[r].dto.extraLimit \in Nat
    BY <1>2, <2>1, DtoType
  <2>3. (call[r].dto.extraLimit - me(r).extraLimit) * ExtraPrice[me(r).plan] \in Int
    BY <1>2, <2>2, PriceType
  <2>4. price \in Int
    BY <1>2, <2>3 DEF ExtraNewPrice
  <2> HIDE DEF price
  <2>5. owner' \in OwnerDoc /\ owner'.status = owner.status
        /\ owner'.plan = owner.plan /\ owner'.extraLimit = call[r].dto.extraLimit /\ owner'.price = price
    BY <1>3, <2>1, <2>2, <2>4 DEF OwnerDoc
  <2>6. Shape(r) /\ Keeps(r, "evict") /\ TypeOK'
    BY <1>1, <1>4, <2>1, <2>5, KeepStep DEF StepsOf
  <2>7. NewOwner(owner.plan, call[r].dto.extraLimit, price)
    BY <2>1, <2>5 DEF NewOwner
  <2> QED BY <2>1, <2>5, <2>6, <2>7 DEF Step, WritesOwner, Shape, price
<1> QED BY <1>5, <1>6, <1>7, <1>8, <1>9

LEMMA StaffStep ==
  ASSUME SoundInv, NEW r \in Requests,
         \/ ProfileCreate(r) \/ AddUser(r) \/ RemoveUser(r) \/ RenewUser(r) \/ EvictUser(r)
         \/ DeactiveStaff(r)
  PROVE  TypeOK' /\ Step(r)
<1>1. TypeOK /\ pc[r] # "idle"
  BY DEF SoundInv, ProfileCreate, AddUser, RemoveUser, RenewUser, EvictUser, DeactiveStaff, Serves
<1>2. /\ call[r] \in Calls /\ local[r].users \in Seq(Staff) /\ local[r].line \in Nat \ {0}
      /\ local[r].found \subseteq Staff
  BY <1>1, WorkingType
<1>3. CASE Fail(r) /\ (ProfileCreate(r) \/ AddUser(r) \/ RemoveUser(r) \/ RenewUser(r))
  BY <1>1, <1>3, FailStep DEF ProfileCreate, AddUser, RemoveUser, RenewUser, Step, Gives, Serves
<1>4. ASSUME call[r].kind \in {"ADD", "REMOVE"}, local[r].line <= Len(call[r].dto.users)
      PROVE  ThisUser(r) \in Staff
  BY <1>2, <1>4, DtoType DEF ThisUser
<1>5. CASE ProfileCreate(r) /\ ~Fail(r)
  <2>1. /\ UpdateUser(call[r].dto.id, "active") /\ Goto(r, "push")
        /\ UNCHANGED <<load, local>> /\ UNCHANGED <<packages, owner>>
        /\ pc[r] = "create" /\ call[r].kind = "PROFILE"
    BY <1>5 DEF ProfileCreate, Serves
  <2>2. Shape(r) /\ Keeps(r, "push")
    BY <1>1, <2>1, KeepStep DEF StepsOf
  <2>3. call[r].dto.id \in Staff
    BY <1>2, <2>1, DtoType
  <2> QED BY <1>1, <2>1, <2>2, <2>3, StaffType DEF Step, WritesStaff, Shape
<1>6. CASE AddUser(r) /\ ~Fail(r)
  <2>1. /\ UpdateUser(ThisUser(r), "active") /\ Goto(r, "push")
        /\ UNCHANGED <<load, local>> /\ UNCHANGED <<packages, owner>>
        /\ pc[r] = "users" /\ call[r].kind = "ADD" /\ local[r].line <= Len(call[r].dto.users)
    BY <1>6 DEF AddUser, Serves
  <2>2. Shape(r) /\ Keeps(r, "push")
    BY <1>1, <2>1, KeepStep DEF StepsOf
  <2> QED BY <1>1, <1>4, <2>1, <2>2, StaffType DEF Step, WritesStaff, Shape
<1>7. CASE RemoveUser(r) /\ ~Fail(r)
  <2>1. /\ UpdateUser(ThisUser(r), "inactive") /\ NextLine(r, "users")
        /\ load' = load /\ UNCHANGED <<packages, owner>>
        /\ pc[r] = "users" /\ call[r].kind = "REMOVE" /\ local[r].line <= Len(call[r].dto.users)
    BY <1>7 DEF RemoveUser, Serves
  <2>2. Shape(r) /\ Turns(r, "users")
    BY <1>1, <2>1, TurnStep DEF StepsOf
  <2> QED BY <1>1, <1>4, <2>1, <2>2, StaffType DEF Step, WritesStaff, Shape
<1>8. CASE RenewUser(r) /\ ~Fail(r)
  <2>1. /\ UpdateUser(call[r].dto.id, "active") /\ Answer(r)
        /\ load' = load /\ UNCHANGED <<packages, owner>>
        /\ pc[r] = "find" /\ call[r].kind = "RENEW"
    BY <1>8 DEF RenewUser, Serves
  <2>2. Shape(r) /\ Ends(r)
    BY <1>1, <2>1, AnswerStep
  <2>3. call[r].dto.id \in Staff
    BY <1>2, <2>1, DtoType
  <2> QED BY <1>1, <2>1, <2>2, <2>3, StaffType DEF Step, WritesStaff, Shape
<1>9. CASE EvictUser(r)
  <2> DEFINE u == local[r].users[local[r].line]
  <2>1. /\ UpdateUser(u, "inactive") /\ Goto(r, "evictPull")
        /\ UNCHANGED <<load, local>> /\ UNCHANGED <<packages, owner>>
        /\ pc[r] = "evict" /\ call[r].kind \in {"UPGRADE", "EXTRA"} /\ local[r].line <= Excess(r)
    BY <1>9 DEF EvictUser, Serves
  <2>2. Shape(r) /\ Keeps(r, "evictPull")
    BY <1>1, <2>1, KeepStep DEF StepsOf
  <2>3. u \in Staff
    BY <1>1, <1>2, <2>1, ExcessType
  <2> HIDE DEF u
  <2>4. TypeOK' /\ NewStaff(u, "inactive")
    BY <1>1, <2>1, <2>2, <2>3, StaffType
  <2> QED BY <2>1, <2>2, <2>4 DEF Step, WritesStaff, Shape, u
<1>10. CASE DeactiveStaff(r)
  <2> DEFINE status == IF call[r].kind = "ACTIVATE" THEN "active" ELSE "inactive"
  <2>1. PICK u \in local[r].found :
          /\ UpdateUser(u, status)
          /\ local' = [local EXCEPT ![r].found = local[r].found \ {u}]
    BY <1>10 DEF DeactiveStaff
  <2>2. /\ call[r].kind \in Deactivations /\ pc[r] = "staff" /\ Goto(r, "staff")
        /\ load' = load /\ UNCHANGED <<packages, owner>>
    BY <1>10 DEF DeactiveStaff, Serves
  <2>3. Shape(r) /\ Goes(r, "staff") /\ local'[r].found = local[r].found \ {u}
    BY <1>1, <1>2, <2>1, <2>2, FoundStep
  <2>4. status \in {"active", "inactive"} /\ u \in Staff
    BY <1>2
  <2>5. TypeOK' /\ NewStaff(u, status)
    BY <1>1, <2>1, <2>2, <2>3, <2>4, StaffType
  <2> QED BY <2>2, <2>3, <2>5 DEF Step, WritesStaff, Shape
<1> QED BY <1>3, <1>5, <1>6, <1>7, <1>8, <1>9, <1>10

LEMMA PackageStep ==
  ASSUME SoundInv, NEW r \in Requests,
         \/ ProfilePush(r) \/ AddPush(r) \/ RemovePull(r) \/ EvictPull(r)
         \/ UpgradePackage(r) \/ ExtraUpdatePackage(r)
  PROVE  TypeOK' /\ Step(r)
<1>1. TypeOK /\ pc[r] # "idle" /\ Exists
  BY DEF SoundInv, Found, ProfilePush, AddPush, RemovePull, EvictPull, UpgradePackage,
         ExtraUpdatePackage, Serves
<1>2. call[r] \in Calls /\ local[r].users \in Seq(Staff) /\ local[r].line \in Nat \ {0}
  BY <1>1, WorkingType
<1>3. Package.users \in Seq(Staff) /\ Package \in PackageDoc
  BY <1>1, PackageType DEF TypeOK
<1>4. \A leaving : Pull(Package.users, leaving) \in Seq(Staff)
  BY <1>3, PullLeaves
<1>5. CASE ProfilePush(r)
  <2>1. /\ UpdatePackage([Package EXCEPT !.users = Append(Package.users, call[r].dto.id)])
        /\ Answer(r) /\ load' = load /\ UNCHANGED <<owner, staff>>
        /\ pc[r] = "push" /\ call[r].kind = "PROFILE"
    BY <1>5 DEF ProfilePush, Serves
  <2>2. Append(Package.users, call[r].dto.id) \in Seq(Staff)
    BY <1>2, <1>3, <2>1, DtoType
  <2>3. Shape(r) /\ Ends(r)
    BY <1>1, <2>1, AnswerStep
  <2> QED BY <1>1, <2>1, <2>2, <2>3, UsersType DEF Step, WritesPackage, Shape, Whom
<1>6. CASE AddPush(r)
  <2>1. /\ UpdatePackage([Package EXCEPT !.users = Append(Package.users, ThisUser(r))])
        /\ NextLine(r, "users") /\ load' = load /\ UNCHANGED <<owner, staff>>
        /\ pc[r] = "push" /\ call[r].kind = "ADD"
    BY <1>6 DEF AddPush, Serves
  <2>2. ThisUser(r) \in Staff
    BY <1>1, <1>2, <2>1, DtoType, WorkingType DEF ThisUser
  <2>3. Append(Package.users, ThisUser(r)) \in Seq(Staff)
    BY <1>3, <2>2
  <2>4. Shape(r) /\ Turns(r, "users")
    BY <1>1, <2>1, TurnStep DEF StepsOf
  <2> QED BY <1>1, <2>1, <2>3, <2>4, UsersType DEF Step, WritesPackage, Shape, Whom
<1>7. CASE RemovePull(r)
  <2>1. /\ UpdatePackage([Package EXCEPT !.users = Pull(Package.users, Leaving(r))])
        /\ Answer(r) /\ load' = load /\ UNCHANGED <<owner, staff>>
        /\ pc[r] = "pull" /\ call[r].kind = "REMOVE"
    BY <1>7 DEF RemovePull, Serves, Leaving
  <2>2. Shape(r) /\ Ends(r)
    BY <1>1, <2>1, AnswerStep
  <2>3. TypeOK' /\ NewUsers(Pull(Package.users, Leaving(r)))
    BY <1>1, <1>4, <2>1, <2>2, UsersType
  <2> QED BY <2>1, <2>2, <2>3 DEF Step, WritesPackage, Shape
<1>8. CASE EvictPull(r)
  <2> DEFINE users == Pull(Package.users, {local[r].users[local[r].line]})
  <2>1. /\ UpdatePackage([Package EXCEPT !.users = users])
        /\ NextLine(r, "evict") /\ load' = load /\ UNCHANGED <<owner, staff>>
        /\ pc[r] = "evictPull" /\ call[r].kind \in {"UPGRADE", "EXTRA"}
    BY <1>8 DEF EvictPull, Serves
  <2>2. Shape(r) /\ Turns(r, "evict")
    BY <1>1, <2>1, TurnStep DEF StepsOf
  <2>3. users \in Seq(Staff)
    BY <1>4
  <2> HIDE DEF users
  <2>4. TypeOK' /\ NewUsers(users)
    BY <1>1, <2>1, <2>2, <2>3, UsersType
  <2> QED BY <2>1, <2>2, <2>4 DEF Step, WritesPackage, Shape, users
<1>9. CASE UpgradePackage(r)
  <2>1. /\ UpdatePackage([Package EXCEPT !.plan = call[r].dto.plan, !.price = UpgradePrice(r)])
        /\ Goto(r, "owner") /\ UNCHANGED <<load, local>> /\ UNCHANGED <<owner, staff>>
        /\ pc[r] = "package" /\ call[r].kind = "UPGRADE"
    BY <1>9 DEF UpgradePackage, Serves
  <2>2. call[r].dto.plan \in Plans /\ me(r).extraLimit \in Nat
    BY <1>2, <2>1, DtoType DEF me
  <2>3. UpgradePrice(r) \in Int
    BY <2>2, PriceType DEF UpgradePrice
  <2>4. Shape(r) /\ Keeps(r, "owner")
    BY <1>1, <2>1, KeepStep DEF StepsOf
  <2>5. TypeOK' /\ NewTerms(call[r].dto.plan, Package.extraLimit, UpgradePrice(r))
    BY <1>1, <2>1, <2>2, <2>3, <2>4, TermsType
  <2> QED BY <2>1, <2>4, <2>5 DEF Step, WritesPackage, Shape
<1>10. CASE ExtraUpdatePackage(r)
  <2>1. /\ UpdatePackage([Package EXCEPT !.extraLimit = call[r].dto.extraLimit,
                                         !.price = ExtraNewPrice(r)])
        /\ Goto(r, "owner") /\ UNCHANGED <<load, local>> /\ UNCHANGED <<owner, staff>>
        /\ pc[r] = "package" /\ call[r].kind = "EXTRA"
    BY <1>10 DEF ExtraUpdatePackage, Serves
  <2>2. /\ call[r].dto.extraLimit \in Nat /\ me(r).extraLimit \in Nat /\ me(r).price \in Int
        /\ me(r).plan \in Plans
    BY <1>2, <2>1, DtoType DEF me
  <2>3. (call[r].dto.extraLimit - me(r).extraLimit) * ExtraPrice[me(r).plan] \in Int
    BY <2>2, PriceType
  <2>4. ExtraNewPrice(r) \in Int
    BY <2>2, <2>3 DEF ExtraNewPrice
  <2>5. Shape(r) /\ Keeps(r, "owner")
    BY <1>1, <2>1, KeepStep DEF StepsOf
  <2>6. TypeOK' /\ NewTerms(Package.plan, call[r].dto.extraLimit, ExtraNewPrice(r))
    BY <1>1, <2>1, <2>2, <2>4, <2>5, ExtraTermsType
  <2> QED BY <2>1, <2>5, <2>6 DEF Step, WritesPackage, Shape
<1> QED BY <1>5, <1>6, <1>7, <1>8, <1>9, <1>10

\* Every step of a handler is one of those above.
LEMMA HandlerStep ==
  ASSUME SoundInv, NEW r \in Requests, Handler(r)
  PROVE  TypeOK' /\ Step(r)
<1>1. CASE \/ CreateFind(r) \/ ProfileFind(r) \/ AddFind(r) \/ RemoveFind(r) \/ ChangeFind(r)
           \/ DeactiveFind(r)
  <2>1. pc[r] = "find"
    BY <1>1 DEF CreateFind, ProfileFind, AddFind, RemoveFind, ChangeFind, DeactiveFind, Serves
  <2> QED BY <1>1, <2>1, FindingStep
<1>2. CASE UsersEnd(r)
  <2>1. /\ TypeOK /\ pc[r] = "users" /\ call[r].kind \in {"ADD", "REMOVE"}
        /\ local[r].line > Len(call[r].dto.users)
    BY <1>2 DEF UsersEnd, Serves, SoundInv
  <2>2. CASE call[r].kind = "ADD"
    <3>1. Fail(r)
      BY <1>2, <2>2 DEF UsersEnd, Fail
    <3> QED BY <2>1, <2>2, <3>1, FailStep DEF Step, Gives
  <2>3. CASE call[r].kind = "REMOVE"
    <3>1. Goto(r, "pull") /\ UNCHANGED <<load, local>> /\ UNCHANGED docs
      BY <1>2, <2>3 DEF UsersEnd, Move, docs
    <3>2. Shape(r) /\ Keeps(r, "pull")
      BY <2>1, <2>3, <3>1, KeepStep DEF StepsOf
    <3> QED BY <2>1, <2>3, <3>1, <3>2, DocsType DEF Step, Proceeds, Shape
  <2> QED BY <2>1, <2>2, <2>3
<1>3. CASE EvictEnd(r)
  <2>1. TypeOK /\ pc[r] = "evict" /\ local[r].line > Excess(r) /\ Fail(r)
    BY <1>3 DEF EvictEnd, Serves, SoundInv, Fail
  <2> QED BY <2>1, FailStep DEF Step, Gives
<1>4. CASE DeactiveEnd(r)
  <2>1. TypeOK /\ pc[r] = "staff" /\ Fail(r)
    BY <1>4 DEF DeactiveEnd, Serves, SoundInv
  <2> QED BY <2>1, FailStep DEF Step, Gives
<1> QED BY <1>1, <1>2, <1>3, <1>4, CreatesStep, OwnerStep, StaffStep, PackageStep DEF Handler

-----------------------------------------------------------------------------
(* Nothing dangles *)

\* A request arrives, with the owner as it is.
Comes(r) ==
  /\ Others(r) /\ UNCHANGED docs
  /\ pc[r] = "idle" /\ pc'[r] = "find" /\ local'[r] = NewLocal
  /\ call'[r].user = owner /\ call'[r].kind \in load.kinds
  /\ Cardinality({o \in Requests : Working(o)}) < load.atOnce

LEMMA ArriveStep ==
  ASSUME TypeOK, NEW r \in Requests, Arrive(r)
  PROVE  TypeOK' /\ Comes(r)
<1>1. PICK dto \in Dtos :
        /\ dto.kind \in load.kinds
        /\ call' = [call EXCEPT ![r] = [kind |-> dto.kind, dto |-> dto, user |-> owner]]
  BY DEF Arrive
<1> DEFINE c == [kind |-> dto.kind, dto |-> dto, user |-> owner]
<1>2. dto.kind \in AllKinds
  BY DEF Dtos, AllKinds
<1>3. c \in Calls /\ c.kind = dto.kind /\ c.user = owner
  BY <1>2 DEF Calls, TypeOK
<1>4. call' = [call EXCEPT ![r] = c] /\ c.kind \in load.kinds
  BY <1>1
<1> HIDE DEF c
<1>5. /\ pc[r] = "idle" /\ local[r] = NewLocal /\ pc' = [pc EXCEPT ![r] = "find"]
      /\ UNCHANGED <<load, packages, owner, staff, local, lost>>
      /\ Cardinality({o \in Requests : Working(o)}) < load.atOnce
  BY DEF Arrive, docs, TypeOK, Placed, Calls, StepsOf
<1>6. /\ Comes(r) /\ call'[r] = c /\ pc' \in [Requests -> Steps] /\ local' \in [Requests -> Locals]
      /\ call' \in [Requests -> Calls \union {NoCall}]
  BY <1>3, <1>4, <1>5 DEF Comes, Others, docs, TypeOK, Steps
<1>7. local'[r].line = 1
  BY <1>5 DEF NewLocal
<1>8. Placed(r)'
  BY <1>3, <1>4, <1>5, <1>6, <1>7 DEF Placed, Comes, StepsOf
<1>9. Shape(r)
  BY <1>6, <1>8, OthersPlaced DEF Shape, Comes
<1> QED BY <1>6, <1>9, DocsType DEF Comes

LEMMA ExitStep ==
  ASSUME TypeOK, ProcessExit
  PROVE  /\ TypeOK' /\ lost' /\ UNCHANGED docs
         /\ \A r \in Requests : pc'[r] = "idle" /\ call'[r] = NoCall /\ local'[r] = NewLocal
<1>1. NewLocal \in Locals
  BY DEF NewLocal, Locals
<1>2. /\ pc' \in [Requests -> Steps] /\ call' \in [Requests -> Calls \union {NoCall}]
      /\ local' \in [Requests -> Locals] /\ lost' = TRUE /\ UNCHANGED docs
      /\ \A r \in Requests : pc'[r] = "idle" /\ call'[r] = NoCall /\ local'[r] = NewLocal
  BY <1>1 DEF ProcessExit, Steps
<1>3. \A r \in Requests : Placed(r)'
  BY <1>2 DEF Placed
<1> QED BY <1>2, <1>3 DEF TypeOK, docs

\* What is there stays there.
LEMMA StepKeeps ==
  ASSUME TypeOK, NEW r \in Requests, Step(r)
  PROVE  /\ Exists => Exists'
         /\ \A u \in Staff : staff[u] # "none" => staff'[u] # "none"
<1>1. Exists => Exists'
  BY DEF Step, Gives, Finds, Proceeds, Creates, WritesOwner, NewOwner, WritesStaff, NewStaff,
         WritesPackage, NewUsers, NewTerms, docs, Exists
<1>2. \/ staff' = staff
      \/ \E u \in Staff : \E status \in {"active", "inactive"} : staff' = [staff EXCEPT ![u] = status]
  BY DEF Step, Gives, Finds, Proceeds, Creates, WritesOwner, NewOwner, WritesStaff, NewStaff,
         WritesPackage, NewUsers, NewTerms, docs
<1>3. \A u \in Staff : staff[u] # "none" => staff'[u] # "none"
  BY <1>2 DEF TypeOK
<1> QED BY <1>1, <1>3

LEMMA StepFound ==
  ASSUME SoundInv, NEW r \in Requests, Step(r), TypeOK', NEW o \in Requests
  PROVE  Found(o)'
<1>1. /\ (Exists => Exists') /\ TypeOK
      /\ \A u \in Staff : staff[u] # "none" => staff'[u] # "none"
  BY StepKeeps DEF SoundInv
<1>2. ASSUME pc[o] # "idle" PROVE Whom(o) \in Staff \/ pc[o] # "push"
  <2>1. call[o] \in Calls /\ pc[o] \in StepsOf(call[o].kind) /\ call[o].kind \in AllKinds
        /\ local[o].line \in Nat \ {0}
        /\ (pc[o] = "push" /\ call[o].kind = "ADD" => local[o].line <= Len(call[o].dto.users))
    <3>1. TypeOK
      BY <1>1
    <3> QED BY <1>2, <3>1, WorkingType
  <2>2. pc[o] = "push" => call[o].kind \in {"PROFILE", "ADD"}
    BY <2>1 DEF StepsOf, AllKinds
  <2> QED BY <2>1, <2>2, DtoType DEF Whom, ThisUser
<1>3. Found(o) /\ local[o].found \subseteq Staff
  BY <1>1 DEF SoundInv, TypeOK, Locals
<1>4. CASE o # r
  <2>1. pc'[o] = pc[o] /\ call'[o] = call[o] /\ local'[o] = local[o]
    BY <1>4 DEF Step, Others
  <2> QED BY <1>1, <1>2, <1>3, <2>1 DEF Found, me, Whom, ThisUser
<1>5. CASE o = r /\ pc'[r] = "idle"
  BY <1>5 DEF Found
<1>6. CASE o = r /\ pc'[r] # "idle"
  <2>1. call'[r] = call[r] /\ pc[r] # "idle"
    BY <1>6 DEF Step, Gives, Finds, Proceeds, Creates, WritesOwner, WritesStaff,
                WritesPackage, Ends, Keeps, Turns, Goes
  <2>2. me(r)' = me(r) /\ (me(r).status # "PENDING" => Exists')
    BY <1>1, <1>3, <1>6, <2>1 DEF Found, me
  <2>3. \/ pc'[r] = "create" /\ call[r].kind = "CREATE"
        \/ pc'[r] = "staff"
        \/ Exists'
    BY <1>1, <1>3, <1>6 DEF Step, Gives, Finds, Proceeds, Creates, WritesOwner,
                WritesStaff, WritesPackage, Ends, Keeps, Turns, Goes, Found
  <2>4. pc'[r] = "push" => staff'[Whom(r)] # "none" /\ Whom(r)' = Whom(r)
    <3> HAVE pc'[r] = "push"
    <3>1. local'[r] = local[r] /\ Whom(r) \in Staff /\ staff' = [staff EXCEPT ![Whom(r)] = "active"]
      BY <1>6 DEF Step, Gives, Finds, Proceeds, Creates, WritesOwner,
                WritesStaff, WritesPackage, Ends, Keeps, Turns, Goes, NewStaff, Whom
    <3>2. staff'[Whom(r)] = "active"
      BY <1>1, <3>1 DEF TypeOK
    <3>3. Whom(r)' = Whom(r)
      BY <2>1, <3>1 DEF Whom, ThisUser
    <3> QED BY <3>2, <3>3
  <2>5. pc'[r] = "staff" => \A u \in local'[r].found : staff'[u] # "none"
    <3> HAVE pc'[r] = "staff"
    <3>1. \/ staff' = staff /\ \A u \in local'[r].found : staff[u] # "none"
          \/ pc[r] = "staff" /\ local'[r].found \subseteq local[r].found
      BY <1>6 DEF Step, Gives, Finds, Proceeds, Creates, WritesOwner, WritesStaff, WritesPackage,
                  Ends, Keeps, Turns, Goes, docs
    <3>2. local[r].found \subseteq Staff /\ (pc[r] = "staff" => \A u \in local[r].found : staff[u] # "none")
      BY <1>3, <1>6 DEF Found
    <3> QED BY <1>1, <3>1, <3>2
  <2> QED BY <1>6, <2>1, <2>2, <2>3, <2>4, <2>5 DEF Found
<1> QED BY <1>4, <1>5, <1>6

\* Members after the users of the package have changed.
LEMMA MembersAfter ==
  ASSUME TypeOK
  PROVE  /\ \A u \in Staff : NewUsers(Append(Package.users, u)) => Members' = Members \union {u}
         /\ \A leaving : NewUsers(Pull(Package.users, leaving)) => Members' = Members \ leaving
<1>1. ASSUME NEW u \in Staff, NewUsers(Append(Package.users, u))
      PROVE  Members' = Members \union {u}
  <2> DEFINE s == Package.users
  <2>1. Exists /\ Exists' /\ Package'.users = Append(s, u) /\ s \in Seq(Staff)
    BY <1>1, PackageType DEF NewUsers, TypeOK
  <2>2. /\ Members = {s[n] : n \in DOMAIN s}
        /\ Members' = {Append(s, u)[n] : n \in DOMAIN Append(s, u)}
    BY <2>1 DEF Members
  <2> HIDE DEF s
  <2>3. DOMAIN Append(s, u) = 1 .. Len(s) + 1 /\ DOMAIN s = 1 .. Len(s) /\ Len(s) \in Nat
        /\ \A n \in 1 .. Len(s) + 1 : Append(s, u)[n] = IF n = Len(s) + 1 THEN u ELSE s[n]
    BY <2>1
  <2>4. \A n \in 1 .. Len(s) : n \in 1 .. Len(s) + 1 /\ n # Len(s) + 1
    BY <2>3
  <2>5. Members' \subseteq Members \union {u}
    BY <2>2, <2>3
  <2>6. Members \subseteq Members'
    BY <2>2, <2>3, <2>4
  <2>7. u \in Members'
    <3>1. Len(s) + 1 \in 1 .. Len(s) + 1
      BY <2>3
    <3> QED BY <2>2, <2>3, <3>1
  <2> QED BY <2>5, <2>6, <2>7
<1>2. ASSUME NEW leaving, NewUsers(Pull(Package.users, leaving))
      PROVE  Members' = Members \ leaving
  <2> DEFINE s == Package.users
             p == Pull(s, leaving)
  <2>1. Exists /\ Exists' /\ Package'.users = p /\ s \in Seq(Staff)
    BY <1>2, PackageType DEF NewUsers, TypeOK
  <2>2. Members = {s[n] : n \in DOMAIN s} /\ Members' = {p[n] : n \in DOMAIN p}
    BY <2>1 DEF Members
  <2>3. /\ \A k \in DOMAIN p : \E n \in DOMAIN s : s[n] \notin leaving /\ p[k] = s[n]
        /\ \A n \in DOMAIN s : s[n] \notin leaving => \E k \in DOMAIN p : p[k] = s[n]
    BY <2>1, PullLeaves
  <2> HIDE DEF s, p
  <2>4. Members' \subseteq Members \ leaving
    BY <2>2, <2>3
  <2>5. Members \ leaving \subseteq Members'
    BY <2>2, <2>3
  <2> QED BY <2>4, <2>5
<1> QED BY <1>1, <1>2

LEMMA WhomType ==
  ASSUME TypeOK, NEW r \in Requests, pc[r] = "push"
  PROVE  Whom(r) \in Staff
<1>1. call[r] \in Calls /\ pc[r] \in StepsOf(call[r].kind) /\ call[r].kind \in AllKinds
      /\ local[r].line \in Nat \ {0}
      /\ (pc[r] = "push" /\ call[r].kind = "ADD" => local[r].line <= Len(call[r].dto.users))
  BY WorkingType
<1>2. call[r].kind \in {"PROFILE", "ADD"}
  BY <1>1 DEF StepsOf, AllKinds
<1> QED BY <1>1, <1>2, DtoType DEF Whom, ThisUser

LEMMA MembersType == TypeOK => Members \subseteq Staff
<1> HAVE TypeOK
<1>1. Exists => Package.users \in Seq(Staff)
  BY PackageType DEF TypeOK
<1> QED BY <1>1 DEF Members

LEMMA StepDangles ==
  ASSUME SoundInv, NEW r \in Requests, Step(r)
  PROVE  NothingDangles'
<1>1. /\ (Exists => Exists') /\ TypeOK
      /\ \A u \in Staff : staff[u] # "none" => staff'[u] # "none"
  BY StepKeeps DEF SoundInv
<1>2. owner'.status # "PENDING" => Exists'
  <2>1. CASE owner' = owner
    BY <1>1, <2>1 DEF SoundInv, NothingDangles
  <2>2. CASE WritesOwner(r)
    <3>1. Found(r)
      BY DEF SoundInv
    <3> QED BY <1>1, <2>2, <3>1 DEF WritesOwner, Found, Step
  <2> QED BY <2>1, <2>2 DEF Step, Gives, Finds, Proceeds, Creates, WritesStaff, NewStaff,
                            WritesPackage, NewUsers, NewTerms, docs
<1>3. \A u \in Members : u \in Staff /\ staff'[u] # "none"
  BY <1>1, MembersType DEF SoundInv, NothingDangles
<1>4. CASE Members' \subseteq Members
  BY <1>2, <1>3, <1>4 DEF NothingDangles
<1>5. CASE packages' = packages
  <2>1. Members' = Members
    BY <1>5 DEF Members, Exists, Package
  <2> QED BY <1>4, <2>1
<1>6. CASE Creates(r)
  <2>1. Exists' /\ (Exists => Package' = Package) /\ (~Exists => Package'.users = <<>>)
    BY <1>6 DEF Creates
  <2>2. Members' \subseteq Members
    BY <2>1 DEF Members
  <2> QED BY <1>4, <2>2
<1>7. CASE WritesPackage(r)
  <2>1. CASE \E plan, extraLimit, price : NewTerms(plan, extraLimit, price)
    <3>1. Exists /\ Exists' /\ Package'.users = Package.users
      BY <2>1 DEF NewTerms
    <3>2. Members' \subseteq Members
      BY <3>1 DEF Members
    <3> QED BY <1>4, <3>2
  <2>2. CASE \E leaving : NewUsers(Pull(Package.users, leaving))
    <3>1. PICK leaving : NewUsers(Pull(Package.users, leaving))
      BY <2>2
    <3>2. Members' = Members \ leaving
      BY <1>1, <3>1, MembersAfter
    <3> QED BY <1>4, <3>2
  <2>3. CASE pc[r] = "push" /\ NewUsers(Append(Package.users, Whom(r)))
    <3>1. Whom(r) \in Staff /\ staff[Whom(r)] # "none"
      BY <1>1, <2>3, WhomType DEF SoundInv, Found
    <3>2. Members' = Members \union {Whom(r)}
      BY <1>1, <2>3, <3>1, MembersAfter
    <3> QED BY <1>1, <1>2, <1>3, <3>1, <3>2 DEF NothingDangles
  <2> QED BY <1>7, <2>1, <2>2, <2>3 DEF WritesPackage
<1> QED BY <1>5, <1>6, <1>7 DEF Step, Gives, Finds, Proceeds, WritesOwner, NewOwner,
                                WritesStaff, NewStaff, docs

LEMMA NextSound ==
  ASSUME SoundInv, [Next]_vars
  PROVE  SoundInv'
<1>1. ASSUME NEW r \in Requests, Handler(r) PROVE SoundInv'
  BY <1>1, HandlerStep, StepFound, StepDangles DEF SoundInv
<1>2. ASSUME UNCHANGED docs PROVE NothingDangles'
  BY <1>2 DEF SoundInv, NothingDangles, docs, Members, Exists, Package
<1>3. ASSUME NEW r \in Requests, Arrive(r) PROVE SoundInv'
  <2>1. TypeOK' /\ Comes(r) /\ UNCHANGED docs
    BY <1>3, ArriveStep DEF SoundInv, Comes
  <2>2. ASSUME NEW o \in Requests PROVE Found(o)'
    <3>1. Found(o) /\ Exists' = Exists /\ staff' = staff
      BY <2>1 DEF SoundInv, docs, Exists
    <3>2. CASE o # r
      BY <2>1, <3>1, <3>2 DEF Comes, Others, Found, me, Whom, ThisUser
    <3>3. CASE o = r
      BY <2>1, <3>1, <3>3 DEF Comes, Found, me, SoundInv, NothingDangles
    <3> QED BY <3>2, <3>3
  <2> QED BY <1>2, <2>1, <2>2 DEF SoundInv
<1>4. ASSUME ProcessExit PROVE SoundInv'
  BY <1>2, <1>4, ExitStep DEF SoundInv, Found
<1>5. ASSUME UNCHANGED vars PROVE SoundInv'
  BY <1>5 DEF vars, docs, SoundInv, TypeOK, Placed, Excess, me, Found, Whom, ThisUser,
              NothingDangles, Members, Exists, Package
<1> QED BY <1>1, <1>3, <1>4, <1>5 DEF Next

LEMMA InitSound == Init => SoundInv
<1> HAVE Init
<1>1. NewLocal \in Locals /\ ~Exists
  BY DEF Init, NewLocal, Locals, Exists
<1>2. \A r \in Requests : Placed(r)
  BY DEF Init, Placed
<1>3. load.plans \subseteq Plans /\ load.limits \subseteq Nat /\ load \in Loads
  BY LoadsAssumption DEF Init, Load
<1>4. owner \in OwnerDoc /\ owner.status = "PENDING"
  BY <1>3 DEF Init, SignedUp, OwnerDoc
<1>5. TypeOK
  <2>1. packages \in Seq(PackageDoc) /\ staff \in [Staff -> {"none", "active", "inactive"}]
    BY DEF Init
  <2>2. pc \in [Requests -> Steps] /\ lost \in BOOLEAN
    BY DEF Init, Steps
  <2>3. call \in [Requests -> Calls \union {NoCall}] /\ local \in [Requests -> Locals]
    BY <1>1 DEF Init
  <2> QED BY <1>2, <1>3, <1>4, <2>1, <2>2, <2>3 DEF TypeOK
<1>6. NothingDangles /\ \A r \in Requests : Found(r)
  BY <1>1, <1>4 DEF Init, NothingDangles, Members, Found
<1> QED BY <1>5, <1>6 DEF SoundInv

LEMMA SoundInvariant == Spec => []SoundInv
BY InitSound, NextSound, PTL DEF Spec

\* In any interleaving, and through exits, a member of a package has a profile,
\* and an owner who has paid has a package.
THEOREM MembersExist == Spec => []NothingDangles
<1>1. SoundInv => NothingDangles
  BY DEF SoundInv
<1> QED BY <1>1, SoundInvariant, PTL

-----------------------------------------------------------------------------
(* How far the limit is passed *)

AtWork == {r \in Requests : Working(r)}

FixedLimits == load.kinds \intersect {"UPGRADE", "EXTRA"} = {} /\ \A us \in UserLists : Len(us) <= 1

\* A request that has passed the check of the limit, and has yet to push a user.
Pushing(r) ==
  \/ call[r].kind = "PROFILE" /\ pc[r] \in {"create", "push"}
  \/ call[r].kind = "ADD" /\ pc[r] = "push"
  \/ call[r].kind = "ADD" /\ pc[r] = "users" /\ local[r].line <= Len(call[r].dto.users)
Pushers == {r \in Requests : Pushing(r)}

\* Those still to push were all at work when the last of them found room.
BoundInv ==
  /\ Cardinality(AtWork) <= load.atOnce
  /\ FixedLimits =>
       /\ \A r \in AtWork : me(r).plan = owner.plan /\ me(r).extraLimit = owner.extraLimit
       /\ Exists => Len(Package.users) + Cardinality(Pushers) <= LimitOf(owner) + load.atOnce - 1

LEMMA LoadType == TypeOK => load.atOnce \in Nat \ {0} /\ load.kinds \subseteq AllKinds
BY LoadsAssumption DEF TypeOK, Load

LEMMA LimitType ==
  ASSUME TypeOK
  PROVE  /\ owner.plan \in Plans /\ owner.extraLimit \in Nat /\ owner.price \in Int
         /\ PlanLimit[owner.plan] \in Nat /\ LimitOf(owner) \in Nat
<1>1. owner.plan \in Plans /\ owner.extraLimit \in Nat /\ owner.price \in Int
  BY DEF TypeOK, OwnerDoc
<1>2. Ceiling(owner.extraLimit) \in Nat
  BY <1>1, Parts
<1> QED BY <1>1, <1>2, PlansAssumption DEF LimitOf

LEMMA CountsType ==
  /\ IsFiniteSet(AtWork) /\ Cardinality(AtWork) \in Nat
  /\ IsFiniteSet(Pushers) /\ Cardinality(Pushers) \in Nat
  /\ IsFiniteSet(AtWork') /\ Cardinality(AtWork') \in Nat
  /\ IsFiniteSet(Pushers') /\ Cardinality(Pushers') \in Nat
<1>1. \A S \in SUBSET Requests : IsFiniteSet(S) /\ Cardinality(S) \in Nat
  BY RequestsAssumption, FS_Subset, FS_CardinalityType
<1>2. AtWork \in SUBSET Requests /\ Pushers \in SUBSET Requests
      /\ AtWork' \in SUBSET Requests /\ Pushers' \in SUBSET Requests
  BY DEF AtWork, Pushers
<1> HIDE DEF AtWork, Pushers
<1> QED BY <1>1, <1>2

LEMMA PushersAtWork == TypeOK => Pushers \subseteq AtWork
BY DEF Pushers, Pushing, AtWork, Working

LEMMA StepAtWork ==
  ASSUME TypeOK, NEW r \in Requests, Step(r)
  PROVE  r \in AtWork /\ AtWork' \subseteq AtWork /\ load' = load
<1>1. r \in AtWork /\ load' = load /\ \A o \in Requests \ {r} : pc'[o] = pc[o]
  BY DEF Step, Others, AtWork, Working
<1> QED BY <1>1 DEF AtWork, Working

\* But for one that finds room, nobody comes to push.
LEMMA StepPushers ==
  ASSUME TypeOK, NEW r \in Requests, Step(r)
  PROVE  \/ Pushers' \subseteq Pushers
         \/ Finds(r) /\ HasRoom(r)
<1>1. \A o \in Requests \ {r} : pc'[o] = pc[o] /\ call'[o] = call[o] /\ local'[o] = local[o]
  BY DEF Step, Others
<1>2. \A o \in Requests \ {r} : Pushing(o)' => Pushing(o)
  BY <1>1 DEF Pushing
<1>3. SUFFICES ASSUME Pushing(r)', ~Pushing(r), ~(Finds(r) /\ HasRoom(r)) PROVE FALSE
  BY <1>2 DEF Pushers
<1>4. pc[r] # "idle" /\ local[r].line \in Nat \ {0}
  BY DEF Step, TypeOK, Locals
<1>5. pc'[r] # "idle" /\ call'[r] = call[r]
  BY <1>3 DEF Step, Pushing, Gives, Finds, Proceeds, Creates, WritesOwner, WritesStaff,
              WritesPackage, Ends, Keeps, Turns, Goes
<1>6. ~Gives(r) /\ ~Proceeds(r) /\ ~Creates(r) /\ ~WritesOwner(r)
  BY <1>3, <1>5 DEF Pushing, Gives, Proceeds, Creates, WritesOwner, Ends, Keeps, Goes
<1>7. CASE Finds(r)
  <2>1. ASSUME call[r].kind = "ADD" PROVE FALSE
    <3>1. Len(call[r].dto.users) = 0 /\ local'[r].line = 1 /\ pc'[r] = "users"
      BY <1>3, <1>7, <2>1 DEF Finds, Goes, Keeps
    <3> QED BY <1>3, <1>5, <2>1, <3>1 DEF Pushing
  <2> QED BY <1>3, <1>5, <1>7, <2>1 DEF Finds, Pushing, Goes, Keeps
<1>8. CASE WritesStaff(r)
  BY <1>3, <1>5, <1>8 DEF WritesStaff, Pushing, Goes, Keeps, Turns, Ends
<1>9. CASE WritesPackage(r)
  BY <1>3, <1>5, <1>9 DEF WritesPackage, Pushing, Goes, Keeps, Turns, Ends
<1> QED BY <1>6, <1>7, <1>8, <1>9 DEF Step

LEMMA NextPackageType ==
  ASSUME TypeOK', Exists'
  PROVE  Package'.users \in Seq(Staff) /\ Len(Package'.users) \in Nat
<1>1. Package' \in PackageDoc
  BY DEF Exists, Package, TypeOK
<1> QED BY <1>1 DEF PackageDoc

LEMMA StepBound ==
  ASSUME SoundInv, BoundInv, NEW r \in Requests, Step(r), TypeOK'
  PROVE  BoundInv'
<1>1. TypeOK /\ load.atOnce \in Nat \ {0} /\ load' = load /\ r \in AtWork /\ AtWork' \subseteq AtWork
      /\ Others(r)
  BY LoadType, StepAtWork DEF SoundInv, Step
<1>2. Cardinality(AtWork') <= load.atOnce
  <2>1. Cardinality(AtWork') <= Cardinality(AtWork)
    BY <1>1, CountsType, FS_Subset
  <2> QED BY <1>1, <2>1, CountsType DEF BoundInv
<1>3. SUFFICES ASSUME FixedLimits
               PROVE  /\ \A o \in AtWork' : me(o)'.plan = owner'.plan /\ me(o)'.extraLimit = owner'.extraLimit
                      /\ Exists' => Len(Package'.users) + Cardinality(Pushers') <= LimitOf(owner') + load.atOnce - 1
  BY <1>1, <1>2 DEF BoundInv, FixedLimits
<1>4. call[r] \in Calls /\ call[r].kind \in AllKinds \ {"UPGRADE", "EXTRA"} /\ pc[r] \in StepsOf(call[r].kind)
      /\ local[r].line \in Nat \ {0}
  <2>1. pc[r] # "idle"
    BY DEF Step
  <2> QED BY <1>1, <1>3, <2>1, WorkingType DEF FixedLimits
<1>5. owner'.plan = owner.plan /\ owner'.extraLimit = owner.extraLimit
  BY <1>4 DEF Step, Gives, Finds, Proceeds, Creates, WritesOwner, NewOwner, WritesStaff, NewStaff,
              WritesPackage, NewUsers, NewTerms, docs
<1>6. LimitOf(owner') = LimitOf(owner) /\ LimitOf(owner) \in Nat
  BY <1>1, <1>5, LimitType DEF LimitOf
<1>7. \A o \in AtWork' : me(o)'.plan = owner'.plan /\ me(o)'.extraLimit = owner'.extraLimit
  <2>1. call'[r] = call[r] \/ pc'[r] = "idle"
    BY DEF Step, Gives, Finds, Proceeds, Creates, WritesOwner, WritesStaff,
           WritesPackage, Ends, Keeps, Turns, Goes
  <2>2. \A o \in AtWork' : o \in AtWork /\ call'[o] = call[o]
    BY <1>1, <2>1 DEF Others, AtWork, Working
  <2> QED BY <1>3, <1>5, <2>2 DEF BoundInv, me
<1>8. ASSUME Exists' PROVE Len(Package'.users) + Cardinality(Pushers') <= LimitOf(owner) + load.atOnce - 1
  <2>1. Cardinality(Pushers') \in Nat /\ Cardinality(Pushers) \in Nat /\ Cardinality(AtWork') \in Nat
    BY CountsType
  <2>2. ASSUME Pushers' \subseteq Pushers, Exists, Len(Package'.users) <= Len(Package.users)
        PROVE  Len(Package'.users) + Cardinality(Pushers') <= LimitOf(owner) + load.atOnce - 1
    <3>1. Cardinality(Pushers') <= Cardinality(Pushers)
      BY <2>2, CountsType, FS_Subset
    <3>2. Len(Package.users) \in Nat /\ Len(Package'.users) \in Nat
      BY <1>1, <1>8, <2>2, PackageType, NextPackageType DEF TypeOK
    <3>3. Len(Package.users) + Cardinality(Pushers) <= LimitOf(owner) + load.atOnce - 1
      BY <1>3, <2>2 DEF BoundInv
    <3> QED BY <1>1, <1>6, <2>1, <2>2, <3>1, <3>2, <3>3
  <2>3. CASE Finds(r) /\ HasRoom(r)
    <3>1. Package'.users = Package.users /\ Exists
      BY <1>8, <2>3 DEF Finds, docs, Exists, Package
    <3>2. Len(Package.users) < LimitOf(me(r)) /\ LimitOf(me(r)) = LimitOf(owner)
      BY <1>1, <1>3, <2>3 DEF HasRoom, BoundInv, LimitOf
    <3>3. Cardinality(Pushers') <= Cardinality(AtWork')
      <4>1. Pushers' \subseteq AtWork'
        BY DEF Pushers, Pushing, AtWork, Working
      <4> QED BY <4>1, CountsType, FS_Subset
    <3>4. Len(Package.users) \in Nat
      BY <1>1, <3>1, PackageType DEF TypeOK
    <3> QED BY <1>1, <1>2, <1>6, <2>1, <3>1, <3>2, <3>3, <3>4
  <2>4. CASE Pushers' \subseteq Pushers /\ packages' = packages
    <3>1. Exists /\ Package' = Package
      BY <1>8, <2>4 DEF Exists, Package
    <3>2. Len(Package'.users) <= Len(Package.users)
      BY <1>1, <3>1, PackageType DEF TypeOK
    <3> QED BY <2>2, <2>4, <3>1, <3>2
  <2>5. CASE Pushers' \subseteq Pushers /\ Creates(r)
    <3>1. CASE Exists
      <4>1. Len(Package'.users) <= Len(Package.users)
        BY <1>1, <2>5, <3>1, PackageType DEF TypeOK, Creates
      <4> QED BY <2>2, <2>5, <3>1, <4>1
    <3>2. CASE ~Exists
      <4>1. \A o \in Requests : ~Pushing(o)
        BY <3>2 DEF SoundInv, Found, Pushing
      <4>2. Pushers' = {}
        BY <2>5, <4>1 DEF Pushers
      <4>3. Cardinality(Pushers') = 0 /\ Len(Package'.users) = 0
        BY <2>5, <3>2, <4>2, FS_EmptySet DEF Creates
      <4> QED BY <1>1, <1>6, <4>3
    <3> QED BY <3>1, <3>2
  <2>6. CASE Pushers' \subseteq Pushers /\ WritesPackage(r)
    <3>1. CASE \E plan, extraLimit, price : NewTerms(plan, extraLimit, price)
      <4>1. Exists /\ Package'.users = Package.users
        BY <3>1 DEF NewTerms
      <4>2. Len(Package'.users) <= Len(Package.users)
        BY <1>1, <4>1, PackageType DEF TypeOK
      <4> QED BY <2>2, <2>6, <4>1, <4>2
    <3>2. CASE \E leaving : NewUsers(Pull(Package.users, leaving))
      <4>1. PICK leaving : NewUsers(Pull(Package.users, leaving))
        BY <3>2
      <4>2. Exists /\ Package'.users = Pull(Package.users, leaving)
        BY <4>1 DEF NewUsers
      <4>3. Package.users \in Seq(Staff)
        BY <1>1, <4>2, PackageType DEF TypeOK
      <4>4. Len(Package'.users) <= Len(Package.users)
        BY <4>2, <4>3, PullLeaves
      <4> QED BY <2>2, <2>6, <4>2, <4>4
    <3>3. CASE pc[r] = "push" /\ NewUsers(Append(Package.users, Whom(r)))
      <4>1. Exists /\ Package'.users = Append(Package.users, Whom(r)) /\ Package.users \in Seq(Staff)
        BY <1>1, <3>3, PackageType DEF NewUsers, TypeOK
      <4>2. Len(Package'.users) = Len(Package.users) + 1 /\ Len(Package.users) \in Nat
        BY <4>1
      <4>3. Pushing(r) /\ ~Pushing(r)'
        <5>1. CASE call[r].kind = "PROFILE"
          BY <1>4, <2>6, <3>3, <5>1 DEF WritesPackage, Pushing, Ends, Turns, Goes
        <5>2. CASE call[r].kind = "ADD"
          <6>1. Goes(r, "users") /\ local'[r].line = local[r].line + 1
            BY <2>6, <3>3, <5>2 DEF WritesPackage, Turns
          <6>2. Len(call[r].dto.users) <= 1 /\ Len(call[r].dto.users) \in Nat
            BY <1>3, <1>4, <5>2, DtoType DEF FixedLimits
          <6>3. ~(local'[r].line <= Len(call'[r].dto.users)) /\ pc'[r] = "users" /\ call'[r] = call[r]
            BY <1>4, <6>1, <6>2 DEF Goes
          <6> QED BY <3>3, <5>2, <6>3 DEF Pushing
        <5> QED BY <1>4, <3>3, <5>1, <5>2 DEF StepsOf, AllKinds
      <4>4. Pushers' \subseteq Pushers \ {r} /\ r \in Pushers
        BY <2>6, <4>3 DEF Pushers
      <4>5. /\ Cardinality(Pushers') <= Cardinality(Pushers \ {r})
            /\ Cardinality(Pushers \ {r}) = Cardinality(Pushers) - 1
        BY <4>4, CountsType, FS_Subset, FS_RemoveElement
      <4>6. Len(Package.users) + Cardinality(Pushers) <= LimitOf(owner) + load.atOnce - 1
        BY <1>3, <4>1 DEF BoundInv
      <4> QED BY <1>1, <1>6, <2>1, <4>2, <4>5, <4>6
    <3> QED BY <2>6, <3>1, <3>2, <3>3 DEF WritesPackage
  <2>7. packages' = packages \/ Creates(r) \/ WritesPackage(r)
    BY DEF Step, Gives, Finds, Proceeds, WritesOwner, NewOwner, WritesStaff, NewStaff, docs
  <2> QED BY <1>1, <2>3, <2>4, <2>5, <2>6, <2>7, StepPushers
<1> QED BY <1>6, <1>7, <1>8

LEMMA NextBound ==
  ASSUME SoundInv, BoundInv, [Next]_vars
  PROVE  BoundInv'
<1>1. TypeOK /\ load.atOnce \in Nat \ {0}
  BY LoadType DEF SoundInv
<1>2. ASSUME NEW r \in Requests, Handler(r) PROVE BoundInv'
  BY <1>2, HandlerStep, StepBound
<1>3. ASSUME NEW r \in Requests, Arrive(r) PROVE BoundInv'
  <2>1. Comes(r) /\ Others(r)
    BY <1>1, <1>3, ArriveStep DEF Comes
  <2>2. AtWork' \subseteq AtWork \union {r} /\ r \notin AtWork /\ Pushers' \subseteq Pushers
    BY <2>1 DEF Comes, Others, AtWork, Working, Pushers, Pushing
  <2>3. Cardinality(AtWork) < load.atOnce
    BY <2>1 DEF Comes, AtWork
  <2>4. /\ Cardinality(AtWork \union {r}) = Cardinality(AtWork) + 1
        /\ Cardinality(AtWork') <= Cardinality(AtWork \union {r})
    BY <2>2, CountsType, FS_AddElement, FS_Subset
  <2>5. Cardinality(AtWork') <= load.atOnce /\ load' = load
    BY <1>1, <2>1, <2>3, <2>4, CountsType DEF Others
  <2>6. Cardinality(Pushers') <= Cardinality(Pushers)
    BY <2>2, CountsType, FS_Subset
  <2>7. UNCHANGED <<packages, owner>>
    BY <2>1 DEF Comes, docs
  <2>8. ASSUME FixedLimits, Exists
        PROVE  Len(Package.users) + Cardinality(Pushers') <= LimitOf(owner) + load.atOnce - 1
    <3>1. Len(Package.users) + Cardinality(Pushers) <= LimitOf(owner) + load.atOnce - 1
      BY <2>8 DEF BoundInv
    <3>2. Len(Package.users) \in Nat /\ LimitOf(owner) \in Nat
      BY <1>1, <2>8, PackageType, LimitType DEF TypeOK
    <3> QED BY <1>1, <2>6, <3>1, <3>2, CountsType
  <2>9. ASSUME FixedLimits, NEW o \in AtWork'
        PROVE  me(o)'.plan = owner.plan /\ me(o)'.extraLimit = owner.extraLimit
    BY <2>1, <2>2, <2>9 DEF BoundInv, Comes, Others, me, AtWork
  <2> QED BY <2>5, <2>7, <2>8, <2>9 DEF BoundInv, FixedLimits, Exists, Package, LimitOf
<1>4. ASSUME ProcessExit PROVE BoundInv'
  <2>1. UNCHANGED docs /\ AtWork' = {} /\ Pushers' = {}
    BY <1>1, <1>4, ExitStep DEF AtWork, Working, Pushers, Pushing, NoCall
  <2>2. Cardinality(AtWork') = 0 /\ Cardinality(Pushers') = 0
    BY <2>1, FS_EmptySet
  <2>3. ASSUME FixedLimits, Exists
        PROVE  Len(Package.users) + 0 <= LimitOf(owner) + load.atOnce - 1
    <3>1. Len(Package.users) + Cardinality(Pushers) <= LimitOf(owner) + load.atOnce - 1
      BY <2>3 DEF BoundInv
    <3>2. Len(Package.users) \in Nat /\ LimitOf(owner) \in Nat
      BY <1>1, <2>3, PackageType, LimitType DEF TypeOK
    <3> QED BY <1>1, <3>1, <3>2, CountsType
  <2> QED BY <1>1, <2>1, <2>2, <2>3 DEF BoundInv, FixedLimits, Exists, Package, LimitOf, docs
<1>5. ASSUME UNCHANGED vars PROVE BoundInv'
  BY <1>5 DEF vars, BoundInv, AtWork, Working, Pushers, Pushing, FixedLimits, me, Exists, Package, LimitOf
<1> QED BY <1>2, <1>3, <1>4, <1>5 DEF Next

LEMMA InitBound == Init => BoundInv
<1> HAVE Init
<1>1. AtWork = {} /\ ~Exists /\ load.atOnce \in Nat
  BY InitSound, LoadType DEF Init, AtWork, Working, Exists, SoundInv
<1>2. Cardinality(AtWork) = 0
  BY <1>1, FS_EmptySet
<1> QED BY <1>1, <1>2 DEF BoundInv

LEMMA BoundInvariant == Spec => [](SoundInv /\ BoundInv)
BY InitSound, InitBound, NextSound, NextBound, PTL DEF Spec

\* However requests interleave, fail and are lost, and for any number of them at a
\* time, the users of a package exceed its limit by less than that number.
THEOREM OvershootBounded == Spec => []OvershootIsBounded
<1>1. SoundInv /\ BoundInv => OvershootIsBounded
  <2> SUFFICES ASSUME SoundInv, BoundInv, FixedLimits, Exists
               PROVE  Len(Package.users) <= LimitOf(owner) + load.atOnce - 1
    BY DEF OvershootIsBounded, FixedLimits
  <2>1. TypeOK /\ load.atOnce \in Nat /\ LimitOf(owner) \in Nat
    BY LoadType, LimitType DEF SoundInv
  <2>2. Len(Package.users) \in Nat
    BY <2>1, PackageType DEF TypeOK
  <2>3. Len(Package.users) + Cardinality(Pushers) <= LimitOf(owner) + load.atOnce - 1
    BY DEF BoundInv
  <2> QED BY <2>1, <2>2, <2>3, CountsType
<1> QED BY <1>1, BoundInvariant, PTL

-----------------------------------------------------------------------------
(* One request at a time *)

LEMMA Alone ==
  ASSUME SoundInv, BoundInv, Serial, NEW r \in AtWork
  PROVE  AtWork = {r}
<1>1. Cardinality(AtWork) <= 1 /\ Cardinality(AtWork) \in Nat /\ IsFiniteSet(AtWork)
  BY CountsType DEF BoundInv, Serial
<1>2. /\ IsFiniteSet(AtWork \ {r}) /\ Cardinality(AtWork \ {r}) = Cardinality(AtWork) - 1
      /\ Cardinality(AtWork \ {r}) \in Nat
  BY <1>1, FS_RemoveElement, FS_CardinalityType
<1>3. AtWork \ {r} = {}
  BY <1>1, <1>2, FS_EmptySet
<1> QED BY <1>3

LEMMA SerialStep ==
  ASSUME SoundInv, BoundInv, Serial, NEW r \in Requests, Step(r)
  PROVE  /\ r \in AtWork /\ AtWork' \subseteq {r}
         /\ Quiet' => pc'[r] = "idle"
         /\ r \in AtWork' => pc'[r] # "idle" /\ call'[r] = call[r]
<1>1. r \in AtWork /\ AtWork' \subseteq AtWork
  BY StepAtWork DEF SoundInv
<1>2. pc'[r] = "idle" \/ call'[r] = call[r]
  BY DEF Step, Gives, Finds, Proceeds, Creates, WritesOwner, WritesStaff,
         WritesPackage, Ends, Keeps, Turns, Goes
<1>3. Quiet' => pc'[r] = "idle"
  BY DEF Quiet, Working
<1> QED BY <1>1, <1>2, <1>3, Alone DEF AtWork, Working

LEMMA SerialArrive ==
  ASSUME SoundInv, BoundInv, Serial, NEW r \in Requests, Comes(r)
  PROVE  /\ Quiet /\ AtWork' = {r} /\ ~Quiet' /\ UNCHANGED docs
<1>1. Cardinality(AtWork) < 1 /\ Cardinality(AtWork) \in Nat /\ IsFiniteSet(AtWork)
  BY CountsType DEF Comes, Serial, AtWork
<1>2. AtWork = {}
  BY <1>1, FS_EmptySet
<1>3. Quiet
  BY <1>2 DEF Quiet, AtWork
<1>4. AtWork' = {r}
  BY <1>2 DEF Comes, Others, AtWork, Working
<1> QED BY <1>3, <1>4 DEF Comes, Quiet, AtWork

-----------------------------------------------------------------------------
(* The package and its owner agree *)

Agree == /\ Package.plan = owner.plan /\ Package.extraLimit = owner.extraLimit
         /\ Package.price = owner.price
         /\ owner.price = PriceOf(owner.plan, owner.extraLimit)

\* Between its two writes, a request has changed the package and not the owner.
Halfway(r) ==
  /\ call[r].kind = "CREATE" =>
       /\ Package.plan = owner.plan /\ Package.extraLimit = owner.extraLimit
       /\ Package.price = PriceOf(owner.plan, owner.extraLimit)
  /\ call[r].kind = "UPGRADE" =>
       /\ Package.plan = call[r].dto.plan /\ Package.extraLimit = owner.extraLimit
       /\ Package.price = UpgradePrice(r)
  /\ call[r].kind = "EXTRA" =>
       /\ Package.plan = owner.plan /\ Package.extraLimit = call[r].dto.extraLimit
       /\ Package.price = ExtraNewPrice(r)
       /\ owner.price = PriceOf(owner.plan, owner.extraLimit)

PriceAt(r) ==
  /\ pc[r] \notin {"evict", "evictPull"} => me(r) = owner
  /\ pc[r] = "create" /\ call[r].kind = "CREATE" => ~Exists
  /\ pc[r] # "owner" => (Exists => Agree)
  /\ pc[r] = "owner" => Halfway(r)

PriceInv ==
  (Serial /\ ~lost) =>
    /\ Quiet => (Exists => Agree)
    /\ \A r \in AtWork : PriceAt(r)

\* The price of so many extra users, by what has changed.
LEMMA ExtraPriceAdds ==
  ASSUME NEW a \in Int, NEW x \in Int, NEW y \in Int, NEW e \in Int
  PROVE  (a + x * e) + (y - x) * e = a + y * e
OBVIOUS

LEMMA StepPrice ==
  ASSUME SoundInv, BoundInv, PriceInv, Serial, ~lost, NEW r \in Requests, Step(r)
  PROVE  /\ pc'[r] = "idle" => (Exists' => Agree')
         /\ pc'[r] # "idle" => PriceAt(r)'
<1>1. PriceAt(r) /\ TypeOK /\ pc[r] # "idle" /\ Exists \in BOOLEAN
  BY SerialStep DEF PriceInv, SoundInv, Step, Exists
<1>2. call[r] \in Calls /\ pc[r] \in StepsOf(call[r].kind) /\ call[r].kind \in AllKinds
  BY <1>1, WorkingType
<1>3. CASE Gives(r)
  <2>1. pc'[r] = "idle" /\ pc[r] # "owner" /\ UNCHANGED <<packages, owner>>
    BY <1>3 DEF Gives, Ends, docs
  <2> QED BY <1>1, <2>1 DEF PriceAt, Agree, Exists, Package
<1>4. CASE Finds(r)
  <2>1. /\ UNCHANGED <<packages, owner>> /\ pc[r] = "find" /\ call'[r] = call[r]
        /\ pc'[r] \in {"create", "users", "package", "staff"}
        /\ pc'[r] = "create" /\ call[r].kind = "CREATE" => ~Exists
    BY <1>4 DEF Finds, Goes, Keeps, docs
  <2> QED BY <1>1, <2>1 DEF PriceAt, Agree, Exists, Package, me
<1>5. CASE Proceeds(r)
  <2>1. UNCHANGED <<packages, owner>> /\ pc[r] = "users" /\ call'[r] = call[r] /\ pc'[r] = "pull"
    BY <1>5 DEF Proceeds, Goes, Keeps, docs
  <2> QED BY <1>1, <2>1 DEF PriceAt, Agree, Exists, Package, me
<1>6. CASE Creates(r)
  <2>1. /\ owner' = owner /\ pc[r] = "create" /\ call[r].kind = "CREATE" /\ call'[r] = call[r]
        /\ pc'[r] = "owner" /\ me(r) = owner
        /\ Package'.plan = me(r).plan /\ Package'.extraLimit = me(r).extraLimit
        /\ Package'.price = PriceOf(me(r).plan, me(r).extraLimit)
    BY <1>1, <1>6 DEF Creates, Goes, Keeps, PriceAt
  <2> QED BY <2>1 DEF PriceAt, Halfway, me, PriceOf
<1>7. CASE WritesOwner(r)
  <2>1. packages' = packages /\ Package' = Package /\ Exists' = Exists
    BY <1>7 DEF WritesOwner, NewOwner, Package, Exists
  <2>2. me(r) = owner
    BY <1>1, <1>7 DEF WritesOwner, PriceAt
  <2>3. CASE call[r].kind = "CREATE"
    <3>1. /\ pc'[r] = "idle" /\ pc[r] = "owner"
          /\ NewOwner(owner.plan, owner.extraLimit, PriceOf(me(r).plan, me(r).extraLimit))
      BY <1>7, <2>3 DEF WritesOwner, Ends
    <3> QED BY <1>1, <2>1, <2>2, <2>3, <3>1 DEF NewOwner, PriceAt, Halfway, Agree, PriceOf
  <2>4. CASE call[r].kind = "ENTITY"
    <3>1. /\ pc'[r] = "idle" /\ pc[r] = "find"
          /\ NewOwner(owner.plan, owner.extraLimit, owner.price)
      BY <1>7, <2>4 DEF WritesOwner, Ends
    <3> QED BY <1>1, <2>1, <2>4, <3>1 DEF NewOwner, PriceAt, Agree, PriceOf
  <2>5. CASE call[r].kind = "UPGRADE"
    <3>1. /\ pc'[r] = "evict" /\ pc[r] = "owner"
          /\ NewOwner(call[r].dto.plan, owner.extraLimit, UpgradePrice(r))
      BY <1>7, <2>5 DEF WritesOwner, Goes, Keeps
    <3>2. UpgradePrice(r) = PriceOf(call[r].dto.plan, owner.extraLimit)
      BY <2>2 DEF UpgradePrice
    <3>3. Agree'
      BY <1>1, <2>1, <2>5, <3>1, <3>2 DEF NewOwner, PriceAt, Halfway, Agree, PriceOf
    <3> QED BY <3>1, <3>3 DEF PriceAt
  <2>6. CASE call[r].kind = "EXTRA"
    <3>1. /\ pc'[r] = "evict" /\ pc[r] = "owner"
          /\ NewOwner(owner.plan, call[r].dto.extraLimit, ExtraNewPrice(r))
      BY <1>7, <2>6 DEF WritesOwner, Goes, Keeps
    <3>2. ExtraNewPrice(r) = PriceOf(owner.plan, call[r].dto.extraLimit)
      <4>1. /\ call[r].dto.extraLimit \in Int /\ owner.extraLimit \in Int /\ owner.plan \in Plans
            /\ PlanPrice[owner.plan] \in Int /\ ExtraPrice[owner.plan] \in Int
        BY <1>1, <1>2, <2>6, DtoType, LimitType, PlansAssumption
      <4>2. owner.price = PlanPrice[owner.plan] + owner.extraLimit * ExtraPrice[owner.plan]
        BY <1>1, <2>6, <3>1 DEF PriceAt, Halfway, PriceOf
      <4>3. ExtraNewPrice(r) =
              owner.price + (call[r].dto.extraLimit - owner.extraLimit) * ExtraPrice[owner.plan]
        BY <2>2 DEF ExtraNewPrice
      <4> QED BY <4>1, <4>2, <4>3, ExtraPriceAdds DEF PriceOf
    <3>3. Agree'
      BY <1>1, <2>1, <2>6, <3>1, <3>2 DEF NewOwner, PriceAt, Halfway, Agree, PriceOf
    <3> QED BY <3>1, <3>3 DEF PriceAt
  <2> QED BY <1>7, <2>3, <2>4, <2>5, <2>6 DEF WritesOwner
<1>8. CASE WritesStaff(r)
  <2>1. /\ pc'[r] \in {"idle", "push", "users", "evictPull", "staff"}
        /\ pc'[r] \in {"push", "users", "staff"} => pc[r] \notin {"evict", "evictPull"}
    BY <1>8 DEF WritesStaff, NewStaff, Goes, Keeps, Turns, Ends
  <2>2. UNCHANGED <<packages, owner>> /\ pc[r] # "owner"
    BY <1>8 DEF WritesStaff, NewStaff
  <2>3. Exists' => Agree'
    BY <1>1, <2>2 DEF PriceAt, Agree, Exists, Package
  <2>4. pc'[r] \in {"push", "users", "staff"} => call'[r] = call[r]
    BY <1>8 DEF WritesStaff, Goes, Keeps, Turns, Ends
  <2> QED BY <1>1, <2>1, <2>2, <2>3, <2>4 DEF PriceAt, me
<1>9. CASE WritesPackage(r) /\ pc[r] # "package"
  <2>1. /\ owner' = owner /\ pc[r] # "owner" /\ pc'[r] \in {"idle", "users", "evict"} /\ Exists
        /\ pc'[r] = "users" => call'[r] = call[r] /\ pc[r] \notin {"evict", "evictPull"}
    BY <1>9 DEF WritesPackage, NewUsers, Goes, Turns, Ends, Keeps
  <2>2. /\ Package'.plan = Package.plan /\ Package'.extraLimit = Package.extraLimit
        /\ Package'.price = Package.price
    BY <1>9 DEF WritesPackage, NewUsers
  <2>3. Agree'
    BY <1>1, <2>1, <2>2 DEF PriceAt, Agree
  <2> QED BY <1>1, <2>1, <2>3 DEF PriceAt, me
<1>10. CASE WritesPackage(r) /\ pc[r] = "package"
  <2>1. me(r) = owner /\ Exists /\ Agree
    BY <1>1, <1>10 DEF PriceAt, WritesPackage, NewTerms, NewUsers
  <2>2. owner' = owner /\ pc'[r] = "owner" /\ call'[r] = call[r]
    BY <1>10 DEF WritesPackage, NewTerms, Goes, Keeps
  <2>3. me(r)' = me(r) /\ UpgradePrice(r)' = UpgradePrice(r) /\ ExtraNewPrice(r)' = ExtraNewPrice(r)
    BY <2>2 DEF me, UpgradePrice, ExtraNewPrice, PriceOf
  <2>4. CASE call[r].kind = "UPGRADE"
    <3>1. NewTerms(call[r].dto.plan, Package.extraLimit, UpgradePrice(r))
      BY <1>10, <2>4 DEF WritesPackage
    <3> QED BY <2>1, <2>2, <2>3, <2>4, <3>1 DEF PriceAt, Halfway, NewTerms, Agree
  <2>5. CASE call[r].kind = "EXTRA"
    <3>1. NewTerms(Package.plan, call[r].dto.extraLimit, ExtraNewPrice(r))
      BY <1>10, <2>5 DEF WritesPackage
    <3>2. owner'.price = PriceOf(owner'.plan, owner'.extraLimit)
      BY <2>1, <2>2 DEF Agree
    <3> QED BY <2>1, <2>2, <2>3, <2>5, <3>1, <3>2 DEF PriceAt, Halfway, NewTerms, Agree, PriceOf
  <2> QED BY <1>10, <2>4, <2>5 DEF WritesPackage
<1> QED BY <1>3, <1>4, <1>5, <1>6, <1>7, <1>8, <1>9, <1>10 DEF Step

LEMMA NextPrice ==
  ASSUME SoundInv, BoundInv, PriceInv, [Next]_vars
  PROVE  PriceInv'
<1> SUFFICES ASSUME Serial', ~lost'
             PROVE  (Quiet' => (Exists' => Agree')) /\ \A r \in AtWork' : PriceAt(r)'
  BY DEF PriceInv
<1>1. CASE ProcessExit
  BY <1>1, ExitStep DEF SoundInv
<1>2. ASSUME NEW r \in Requests, Handler(r)
      PROVE  (Quiet' => (Exists' => Agree')) /\ \A o \in AtWork' : PriceAt(o)'
  <2>1. Step(r) /\ Serial /\ ~lost
    BY <1>2, HandlerStep DEF Step, Others, Serial
  <2>2. /\ pc'[r] = "idle" => (Exists' => Agree')
        /\ pc'[r] # "idle" => PriceAt(r)'
    BY <2>1, StepPrice
  <2> QED BY <2>1, <2>2, SerialStep
<1>3. ASSUME NEW r \in Requests, Arrive(r)
      PROVE  (Quiet' => (Exists' => Agree')) /\ \A o \in AtWork' : PriceAt(o)'
  <2>1. Comes(r) /\ Serial /\ ~lost
    BY <1>3, ArriveStep DEF Comes, Others, Serial, SoundInv
  <2>2. Quiet /\ AtWork' = {r} /\ ~Quiet' /\ UNCHANGED <<packages, owner>>
    BY <2>1, SerialArrive DEF docs
  <2>3. Exists => Agree
    BY <2>1, <2>2 DEF PriceInv
  <2>4. PriceAt(r)'
    BY <2>1, <2>2, <2>3 DEF PriceAt, Comes, me, Agree, Exists, Package, PriceOf
  <2> QED BY <2>2, <2>4
<1>4. CASE UNCHANGED vars
  BY <1>4 DEF vars, PriceInv, Serial, Quiet, AtWork, Working, PriceAt, Halfway, Agree, me, Exists,
              Package, PriceOf, UpgradePrice, ExtraNewPrice
<1> QED BY <1>1, <1>2, <1>3, <1>4 DEF Next

LEMMA InitPrice == Init => PriceInv
BY DEF Init, PriceInv, AtWork, Working, Exists

\* One request at a time and at rest, when none was lost, the package and its
\* owner agree on the plan, the extra users and the price, whatever the plans cost.
THEOREM PricesAgree == Spec => []PricesAgreeWhenSerial
<1>1. Init => SoundInv /\ BoundInv /\ PriceInv
  BY InitSound, InitBound, InitPrice
<1>2. SoundInv /\ BoundInv /\ PriceInv /\ [Next]_vars => (SoundInv /\ BoundInv /\ PriceInv)'
  BY NextSound, NextBound, NextPrice
<1>3. PriceInv => PricesAgreeWhenSerial
  BY DEF PriceInv, PricesAgreeWhenSerial, Agree
<1> QED BY <1>1, <1>2, <1>3, PTL DEF Spec

-----------------------------------------------------------------------------
(* Within the limit *)

OneUserLists == \A us \in UserLists : Len(us) <= 1

Within == Exists => Len(Package.users) <= LimitOf(owner)

\* Each user of the package is one that was found and has not had a turn.
Fits(r) ==
  \E from \in Injection(DOMAIN Package.users, local[r].line .. Len(local[r].users)) :
    \A k \in DOMAIN Package.users : Package.users[k] = local[r].users[from[k]]

LimitAt(r) ==
  /\ Pushing(r) => Len(Package.users) < LimitOf(owner)
  /\ (call[r].kind \in {"UPGRADE", "EXTRA"} /\ pc[r] \in {"owner", "evict", "evictPull"}) \/ Within
  /\ call[r].kind \in {"UPGRADE", "EXTRA"} /\ pc[r] \in {"package", "owner"} =>
       local[r].users = Package.users /\ local[r].line = 1
  /\ pc[r] \in {"evict", "evictPull"} =>
       Len(local[r].users) - Excess(r) <= LimitOf(owner) /\ Fits(r)

LimitInv ==
  (Serial /\ ~lost /\ OneUserLists) => (Quiet => Within) /\ \A r \in AtWork : LimitAt(r)

\* When all who are too many have had their turn, those who stay are not too many.
LEMMA FitsEnd ==
  ASSUME NEW s, NEW n \in Nat, NEW m \in Nat, NEW line \in Nat \ {0}, NEW excess \in Int,
         NEW from \in Injection(1 .. m, line .. n), line > excess
  PROVE  m <= n - excess \/ m = 0
<1>1. /\ IsFiniteSet(line .. n) /\ Cardinality(line .. n) = IF line > n THEN 0 ELSE n - line + 1
      /\ IsFiniteSet(1 .. m) /\ Cardinality(1 .. m) = IF 1 > m THEN 0 ELSE m
  BY FS_Interval
<1>2. Cardinality(1 .. m) <= Cardinality(line .. n)
  BY <1>1, FS_Injection
<1> QED BY <1>1, <1>2

\* After the turn of the user at a line, none of the package is from that line.
LEMMA PullFits ==
  ASSUME NEW s \in Seq(Staff), NEW found \in Seq(Staff), NEW line \in Nat,
         NEW from \in Injection(DOMAIN s, line .. Len(found)),
         \A k \in DOMAIN s : s[k] = found[from[k]]
  PROVE  \E to \in Injection(DOMAIN Pull(s, {found[line]}), line + 1 .. Len(found)) :
           \A k \in DOMAIN Pull(s, {found[line]}) : Pull(s, {found[line]})[k] = found[to[k]]
<1> DEFINE out == {found[line]}
           p == Pull(s, out)
<1>0. \E left \in Injection(DOMAIN p, DOMAIN s) :
        \A k \in DOMAIN p : s[left[k]] \notin out /\ p[k] = s[left[k]]
  <2> HIDE DEF out
  <2> QED BY PullLeaves
<1>1. PICK left \in Injection(DOMAIN p, DOMAIN s) :
        \A k \in DOMAIN p : s[left[k]] \notin {found[line]} /\ p[k] = s[left[k]]
  BY <1>0
<1> HIDE DEF p
<1> DEFINE to == [k \in DOMAIN p |-> from[left[k]]]
<1>2. /\ left \in [DOMAIN p -> DOMAIN s] /\ \A a, b \in DOMAIN p : left[a] = left[b] => a = b
      /\ from \in [DOMAIN s -> line .. Len(found)] /\ \A a, b \in DOMAIN s : from[a] = from[b] => a = b
  BY DEF Injection, IsInjective
<1>3. ASSUME NEW k \in DOMAIN p PROVE to[k] \in line + 1 .. Len(found) /\ p[k] = found[to[k]]
  <2>1. left[k] \in DOMAIN s /\ from[left[k]] \in line .. Len(found) /\ Len(found) \in Nat
    BY <1>2
  <2>2. found[from[left[k]]] # found[line] /\ p[k] = found[from[left[k]]]
    BY <1>1, <2>1
  <2>3. from[left[k]] # line
    BY <2>2
  <2> QED BY <2>1, <2>2, <2>3
<1>4. to \in [DOMAIN p -> line + 1 .. Len(found)]
  BY <1>3
<1>5. \A a, b \in DOMAIN to : to[a] = to[b] => a = b
  BY <1>2
<1>6. to \in Injection(DOMAIN p, line + 1 .. Len(found))
  BY <1>4, <1>5 DEF Injection, IsInjective
<1> HIDE DEF to
<1> QED BY <1>3, <1>6 DEF p

LEMMA IdentityFits ==
  ASSUME NEW s \in Seq(Staff)
  PROVE  \E from \in Injection(DOMAIN s, 1 .. Len(s)) : \A k \in DOMAIN s : s[k] = s[from[k]]
<1> DEFINE id == [k \in DOMAIN s |-> k]
<1>1. DOMAIN s = 1 .. Len(s)
  OBVIOUS
<1>2. id \in Injection(DOMAIN s, 1 .. Len(s))
  BY <1>1 DEF Injection, IsInjective
<1>3. \A k \in DOMAIN s : s[k] = s[id[k]]
  OBVIOUS
<1> HIDE DEF id
<1> QED BY <1>2, <1>3

LEMMA ExcessIsInt ==
  ASSUME TypeOK, NEW r \in Requests, call[r] \in Calls, call[r].kind \in {"UPGRADE", "EXTRA"}
  PROVE  Excess(r) \in Int
<1>1. Len(local[r].users) \in Nat
  BY DEF TypeOK, Locals
<1>2. me(r).plan \in Plans /\ (call[r].kind = "UPGRADE" => call[r].dto.plan \in Plans)
      /\ (call[r].kind = "EXTRA" => Floor(call[r].dto.extraLimit) \in Nat)
  BY DtoType DEF me
<1> QED BY <1>1, <1>2, PlansAssumption DEF Excess

LEMMA StepLimit ==
  ASSUME SoundInv, BoundInv, PriceInv, LimitInv, Serial, ~lost, OneUserLists,
         NEW r \in Requests, Step(r), TypeOK'
  PROVE  /\ pc'[r] = "idle" => Within'
         /\ pc'[r] # "idle" => LimitAt(r)'
<1>1. LimitAt(r) /\ PriceAt(r) /\ TypeOK /\ pc[r] # "idle" /\ Exists \in BOOLEAN
  BY SerialStep DEF PriceInv, LimitInv, SoundInv, Step, Exists
<1>2. call[r] \in Calls /\ pc[r] \in StepsOf(call[r].kind) /\ call[r].kind \in AllKinds
      /\ local[r].line \in Nat \ {0} /\ local[r].users \in Seq(Staff)
  BY <1>1, WorkingType
<1>3. LimitOf(owner) \in Nat /\ (Exists => Package.users \in Seq(Staff) /\ Len(Package.users) \in Nat)
  BY <1>1, LimitType, PackageType DEF TypeOK
<1>4. CASE Gives(r)
  <2>1. pc'[r] = "idle" /\ UNCHANGED <<packages, owner>>
    BY <1>4 DEF Gives, Ends, docs
  <2>2. CASE pc[r] # "evict"
    <3>1. Within
      BY <1>1, <1>4, <2>2 DEF LimitAt, Gives
    <3> QED BY <2>1, <3>1 DEF Within, Exists, Package, LimitOf
  <2>3. CASE pc[r] = "evict"
    <3>1. call[r].kind \in {"UPGRADE", "EXTRA"}
      BY <1>2, <2>3 DEF StepsOf, AllKinds
    <3>2. Excess(r) \in Int /\ local[r].line > Excess(r)
      BY <1>1, <1>2, <1>4, <2>3, <3>1, ExcessIsInt DEF Gives
    <3>3. PICK from \in Injection(DOMAIN Package.users, local[r].line .. Len(local[r].users)) : TRUE
      BY <1>1, <2>3 DEF LimitAt, Fits
    <3>4. ASSUME Exists PROVE Len(Package.users) <= LimitOf(owner)
      <4>1. DOMAIN Package.users = 1 .. Len(Package.users) /\ Len(Package.users) \in Nat
            /\ Len(local[r].users) \in Nat
        BY <1>2, <1>3, <3>4
      <4>2. Len(Package.users) <= Len(local[r].users) - Excess(r) \/ Len(Package.users) = 0
        BY <1>2, <3>2, <3>3, <4>1, FitsEnd
      <4> QED BY <1>1, <1>3, <2>3, <3>2, <4>1, <4>2 DEF LimitAt
    <3> QED BY <2>1, <3>4 DEF Within, Exists, Package, LimitOf
  <2> QED BY <2>1, <2>2, <2>3
<1>5. CASE Finds(r)
  <2>1. /\ UNCHANGED <<packages, owner>> /\ pc[r] = "find" /\ call'[r] = call[r] /\ pc'[r] # "idle"
        /\ pc'[r] \in {"create", "users", "package", "staff"} /\ Within
    BY <1>1, <1>5 DEF Finds, Goes, Keeps, docs, LimitAt
  <2>2. Within' /\ Package' = Package /\ LimitOf(owner)' = LimitOf(owner)
    BY <2>1 DEF Within, Exists, Package, LimitOf
  <2>3. ASSUME Pushing(r)' PROVE Len(Package.users) < LimitOf(owner)
    <3>1. ~Pushing(r)
      BY <2>1 DEF Pushing
    <3>2. HasRoom(r)
      <4>1. call[r].kind \in {"PROFILE", "ADD"} /\ (pc'[r] = "users" => local'[r].line <= Len(call[r].dto.users))
        BY <2>1, <2>3 DEF Pushing
      <4>2. call[r].dto.users = <<>> => Len(call[r].dto.users) = 0
        OBVIOUS
      <4> QED BY <1>5, <2>1, <4>1, <4>2 DEF Finds, Goes, Keeps
    <3>3. me(r) = owner
      BY <1>1, <2>1 DEF PriceAt
    <3> QED BY <3>2, <3>3 DEF HasRoom
  <2>4. call[r].kind \in {"UPGRADE", "EXTRA"} => local'[r].users = Package.users /\ local'[r].line = 1
    BY <1>5 DEF Finds
  <2> QED BY <2>1, <2>2, <2>3, <2>4 DEF LimitAt
<1>6. CASE Proceeds(r)
  <2>1. /\ UNCHANGED <<packages, owner>> /\ pc[r] = "users" /\ call'[r] = call[r] /\ pc'[r] = "pull"
        /\ call[r].kind = "REMOVE" /\ Within
    BY <1>1, <1>6 DEF Proceeds, Goes, Keeps, docs, LimitAt
  <2>2. Within' /\ ~Pushing(r)'
    BY <2>1 DEF Within, Exists, Package, LimitOf, Pushing
  <2> QED BY <2>1, <2>2 DEF LimitAt
<1>7. CASE Creates(r)
  <2>1. /\ owner' = owner /\ call'[r] = call[r] /\ call[r].kind = "CREATE"
        /\ pc'[r] = "owner" /\ Package'.users = <<>>
    BY <1>1, <1>7 DEF Creates, Goes, Keeps, PriceAt
  <2>2. Len(Package'.users) = 0
    BY <2>1
  <2>3. Within' /\ ~Pushing(r)'
    BY <1>3, <2>1, <2>2 DEF Within, LimitOf, Pushing
  <2> QED BY <2>1, <2>3 DEF LimitAt
<1>8. CASE WritesOwner(r)
  <2>1. packages' = packages /\ Package' = Package /\ Exists' = Exists
    BY <1>8 DEF WritesOwner, NewOwner, Package, Exists
  <2>2. me(r) = owner
    BY <1>1, <1>8 DEF WritesOwner, PriceAt
  <2>3. CASE call[r].kind \in {"CREATE", "ENTITY"}
    <3>1. /\ pc'[r] = "idle" /\ owner'.plan = owner.plan /\ owner'.extraLimit = owner.extraLimit
      BY <1>8, <2>3 DEF WritesOwner, Ends, NewOwner
    <3>2. Within
      BY <1>1, <2>3 DEF LimitAt
    <3> QED BY <2>1, <3>1, <3>2 DEF Within, LimitOf
  <2>4. CASE call[r].kind \in {"UPGRADE", "EXTRA"}
    <3>1. /\ pc'[r] = "evict" /\ pc[r] = "owner" /\ call'[r] = call[r] /\ local'[r] = local[r]
          /\ local[r].users = Package.users /\ local[r].line = 1 /\ Exists
      <4>1. Found(r)
        BY DEF SoundInv
      <4> QED BY <1>1, <1>8, <2>4, <4>1 DEF WritesOwner, Goes, Keeps, LimitAt, Found
    <3>2. Fits(r)'
      <4>1. \E from \in Injection(DOMAIN Package.users, 1 .. Len(Package.users)) :
              \A k \in DOMAIN Package.users : Package.users[k] = Package.users[from[k]]
        BY <1>3, <3>1, IdentityFits
      <4> QED BY <2>1, <3>1, <4>1 DEF Fits
    <3>3. Len(local[r].users) - Excess(r) <= LimitOf(owner')
      <4>1. Len(local[r].users) \in Nat
        BY <1>2
      <4>2. CASE call[r].kind = "UPGRADE"
        <5>1. owner'.plan = call[r].dto.plan /\ owner'.extraLimit = owner.extraLimit
          BY <1>8, <4>2 DEF WritesOwner, NewOwner
        <5>2. PlanLimit[call[r].dto.plan] \in Nat /\ Ceiling(owner.extraLimit) \in Nat
          BY <1>1, <1>2, <4>2, DtoType, LimitType, PlansAssumption, Parts
        <5> QED BY <4>1, <4>2, <5>1, <5>2 DEF Excess, LimitOf
      <4>3. CASE call[r].kind = "EXTRA"
        <5>1. owner'.plan = owner.plan /\ owner'.extraLimit = call[r].dto.extraLimit
          BY <1>8, <4>3 DEF WritesOwner, NewOwner
        <5>2. /\ PlanLimit[owner.plan] \in Nat /\ Floor(call[r].dto.extraLimit) \in Nat
              /\ Ceiling(call[r].dto.extraLimit) \in Nat
              /\ Floor(call[r].dto.extraLimit) <= Ceiling(call[r].dto.extraLimit)
          BY <1>1, <1>2, <4>3, DtoType, LimitType, Parts
        <5> QED BY <2>2, <4>1, <4>3, <5>1, <5>2 DEF Excess, LimitOf
      <4> QED BY <2>4, <4>2, <4>3
    <3>4. Excess(r)' = Excess(r) /\ ~Pushing(r)'
      BY <2>4, <3>1 DEF Excess, me, Pushing
    <3>5. Len(local'[r].users) - Excess(r)' <= LimitOf(owner)'
      BY <3>1, <3>3, <3>4 DEF LimitOf
    <3> QED BY <2>4, <3>1, <3>2, <3>4, <3>5 DEF LimitAt
  <2> QED BY <1>8, <2>3, <2>4 DEF WritesOwner
<1>9. CASE WritesStaff(r)
  <2>1. /\ UNCHANGED <<packages, owner>>
        /\ pc'[r] \in {"idle", "push", "users", "evictPull", "staff"}
        /\ pc'[r] # "idle" => call'[r] = call[r] /\ pc[r] # "find"
    BY <1>9 DEF WritesStaff, NewStaff, Goes, Keeps, Turns, Ends
  <2>2. Exists' = Exists /\ Package' = Package /\ LimitOf(owner)' = LimitOf(owner)
    BY <2>1 DEF Exists, Package, LimitOf
  <2>3. CASE pc'[r] # "evictPull"
    <3>1. Within
      BY <1>1, <1>9, <2>3 DEF WritesStaff, LimitAt, Keeps, Goes
    <3>2. Pushing(r)' => Pushing(r)
      BY <1>9, <2>1 DEF WritesStaff, Pushing, Keeps, Goes, Turns, Ends
    <3>3. Within' /\ (Pushing(r)' => Len(Package'.users) < LimitOf(owner'))
      BY <1>1, <2>2, <3>1, <3>2 DEF Within, LimitAt, LimitOf
    <3> QED BY <2>1, <2>2, <2>3, <3>3 DEF LimitAt
  <2>4. CASE pc'[r] = "evictPull"
    <3>1. pc[r] = "evict" /\ local'[r] = local[r] /\ call'[r] = call[r]
      BY <1>9, <2>1, <2>4 DEF WritesStaff, Keeps, Goes, Turns, Ends
    <3>2. call[r].kind \in {"UPGRADE", "EXTRA"}
      BY <1>2, <3>1 DEF StepsOf, AllKinds
    <3>3. Fits(r)' /\ Excess(r)' = Excess(r) /\ ~Pushing(r)'
      BY <1>1, <2>2, <2>4, <3>1, <3>2 DEF LimitAt, Fits, Excess, me, Pushing
    <3> QED BY <1>1, <2>2, <2>4, <3>1, <3>2, <3>3 DEF LimitAt
  <2> QED BY <2>3, <2>4
<1>10. CASE WritesPackage(r)
  <2>1. owner' = owner /\ Exists /\ Exists' /\ LimitOf(owner)' = LimitOf(owner)
    BY <1>10 DEF WritesPackage, NewUsers, NewTerms, LimitOf
  <2>2. CASE pc[r] = "push"
    <3>1. Pushing(r) /\ Len(Package.users) < LimitOf(owner)
      BY <1>1, <1>10, <2>2 DEF WritesPackage, Pushing, LimitAt
    <3>2. Package'.users = Append(Package.users, Whom(r))
      BY <1>10, <2>2 DEF WritesPackage, NewUsers
    <3>3. Len(Package'.users) = Len(Package.users) + 1
      BY <1>3, <2>1, <3>2
    <3>4. Within'
      BY <1>3, <2>1, <3>1, <3>3 DEF Within
    <3>5. pc'[r] # "idle" => /\ call[r].kind = "ADD" /\ pc'[r] = "users" /\ call'[r] = call[r]
                             /\ local'[r].line = local[r].line + 1
      BY <1>10, <2>2 DEF WritesPackage, Ends, Turns, Goes
    <3>6. ASSUME call[r].kind = "ADD" PROVE Len(call[r].dto.users) <= 1 /\ Len(call[r].dto.users) \in Nat
      BY <1>2, <3>6, DtoType DEF OneUserLists
    <3>7. pc'[r] # "idle" => ~(local'[r].line <= Len(call[r].dto.users))
      BY <1>2, <3>5, <3>6
    <3>8. pc'[r] # "idle" => ~Pushing(r)'
      BY <3>5, <3>7 DEF Pushing
    <3> QED BY <3>4, <3>5, <3>8 DEF LimitAt
  <2>3. CASE pc[r] = "pull"
    <3>1. pc'[r] = "idle" /\ Package'.users = Pull(Package.users, Leaving(r))
      BY <1>10, <2>3 DEF WritesPackage, NewUsers, Ends
    <3>2. Len(Package'.users) <= Len(Package.users) /\ Len(Package'.users) \in Nat
      <4>1. Pull(Package.users, Leaving(r)) \in Seq(Staff)
            /\ Len(Pull(Package.users, Leaving(r))) <= Len(Package.users)
        BY <1>3, <2>1, PullLeaves
      <4> QED BY <3>1, <4>1
    <3>3. Within /\ ~(pc[r] \in {"owner", "evict", "evictPull"})
      BY <1>1, <2>3 DEF LimitAt
    <3> QED BY <1>3, <2>1, <3>1, <3>2, <3>3 DEF Within
  <2>4. CASE pc[r] = "package"
    <3>1. /\ pc'[r] = "owner" /\ call'[r] = call[r] /\ local'[r] = local[r]
          /\ call[r].kind \in {"UPGRADE", "EXTRA"} /\ Package'.users = Package.users
      BY <1>10, <2>4 DEF WritesPackage, NewTerms, Goes, Keeps
    <3>2. ~Pushing(r)'
      BY <3>1 DEF Pushing
    <3> QED BY <1>1, <2>4, <3>1, <3>2 DEF LimitAt
  <2>5. CASE pc[r] = "evictPull"
    <3>1. /\ pc'[r] = "evict" /\ call'[r] = call[r] /\ local'[r].users = local[r].users
          /\ local'[r].line = local[r].line + 1
          /\ Package'.users = Pull(Package.users, {local[r].users[local[r].line]})
      BY <1>10, <2>5 DEF WritesPackage, NewUsers, Turns, Goes
    <3>2. call[r].kind \in {"UPGRADE", "EXTRA"}
      BY <1>2, <2>5 DEF StepsOf, AllKinds
    <3>3. PICK from \in Injection(DOMAIN Package.users, local[r].line .. Len(local[r].users)) :
            \A k \in DOMAIN Package.users : Package.users[k] = local[r].users[from[k]]
      BY <1>1, <2>5 DEF LimitAt, Fits
    <3>4. Fits(r)'
      <4>1. Package.users \in Seq(Staff) /\ local[r].users \in Seq(Staff) /\ local[r].line \in Nat
        BY <1>2, <1>3, <2>1
      <4> DEFINE p == Pull(Package.users, {local[r].users[local[r].line]})
      <4>2. \E to \in Injection(DOMAIN p, local[r].line + 1 .. Len(local[r].users)) :
              \A k \in DOMAIN p : p[k] = local[r].users[to[k]]
        BY <3>3, <4>1, PullFits
      <4>3. Package'.users = p
        BY <3>1
      <4>4. (local'[r].line .. Len(local'[r].users)) = (local[r].line + 1 .. Len(local[r].users))
        BY <3>1
      <4> HIDE DEF p
      <4>5. \E to \in Injection(DOMAIN Package'.users, local'[r].line .. Len(local'[r].users)) :
              \A k \in DOMAIN Package'.users : Package'.users[k] = local'[r].users[to[k]]
        <5>1. PICK to \in Injection(DOMAIN p, local[r].line + 1 .. Len(local[r].users)) :
                \A k \in DOMAIN p : p[k] = local[r].users[to[k]]
          BY <4>2
        <5>2. to \in Injection(DOMAIN Package'.users, local'[r].line .. Len(local'[r].users))
          BY <4>3, <4>4, <5>1
        <5>3. local'[r].users = local[r].users
          BY <3>1
        <5>4. \A k \in DOMAIN Package'.users : Package'.users[k] = local'[r].users[to[k]]
          BY <4>3, <5>1, <5>3
        <5> QED BY <5>2, <5>4
      <4> QED BY <4>5 DEF Fits
    <3>5. Excess(r)' = Excess(r) /\ ~Pushing(r)'
      BY <3>1, <3>2 DEF Excess, me, Pushing
    <3> QED BY <1>1, <2>1, <2>5, <3>1, <3>2, <3>4, <3>5 DEF LimitAt
  <2> QED BY <1>10, <2>2, <2>3, <2>4, <2>5 DEF WritesPackage
<1> QED BY <1>4, <1>5, <1>6, <1>7, <1>8, <1>9, <1>10 DEF Step

LEMMA NextLimit ==
  ASSUME SoundInv, BoundInv, PriceInv, LimitInv, [Next]_vars
  PROVE  LimitInv'
<1> SUFFICES ASSUME Serial', ~lost', OneUserLists
             PROVE  (Quiet' => Within') /\ \A r \in AtWork' : LimitAt(r)'
  BY DEF LimitInv, OneUserLists
<1>1. CASE ProcessExit
  BY <1>1, ExitStep DEF SoundInv
<1>2. ASSUME NEW r \in Requests, Handler(r)
      PROVE  (Quiet' => Within') /\ \A o \in AtWork' : LimitAt(o)'
  <2>1. Step(r) /\ TypeOK' /\ Serial /\ ~lost
    BY <1>2, HandlerStep DEF Step, Others, Serial
  <2>2. /\ pc'[r] = "idle" => Within'
        /\ pc'[r] # "idle" => LimitAt(r)'
    BY <2>1, StepLimit
  <2> QED BY <2>1, <2>2, SerialStep
<1>3. ASSUME NEW r \in Requests, Arrive(r)
      PROVE  (Quiet' => Within') /\ \A o \in AtWork' : LimitAt(o)'
  <2>1. Comes(r) /\ Serial /\ ~lost
    BY <1>3, ArriveStep DEF Comes, Others, Serial, SoundInv
  <2>2. Quiet /\ AtWork' = {r} /\ ~Quiet' /\ UNCHANGED <<packages, owner>> /\ pc'[r] = "find"
    BY <2>1, SerialArrive DEF docs, Comes
  <2>3. Within'
    BY <2>1, <2>2 DEF LimitInv, Within, Exists, Package, LimitOf
  <2>4. LimitAt(r)'
    BY <2>2, <2>3 DEF LimitAt, Pushing
  <2> QED BY <2>2, <2>4
<1>4. CASE UNCHANGED vars
  BY <1>4 DEF vars, LimitInv, Serial, Quiet, AtWork, Working, LimitAt, Fits, Within, Pushing, Excess,
              me, Exists, Package, LimitOf
<1> QED BY <1>1, <1>2, <1>3, <1>4 DEF Next

LEMMA InitLimit == Init => LimitInv
BY DEF Init, LimitInv, Within, AtWork, Working, Exists

LEMMA LimitInvariant == Spec => [](SoundInv /\ BoundInv /\ PriceInv /\ LimitInv)
<1>1. Init => SoundInv /\ BoundInv /\ PriceInv /\ LimitInv
  BY InitSound, InitBound, InitPrice, InitLimit
<1>2. SoundInv /\ BoundInv /\ PriceInv /\ LimitInv /\ [Next]_vars
        => (SoundInv /\ BoundInv /\ PriceInv /\ LimitInv)'
  BY NextSound, NextBound, NextPrice, NextLimit
<1> QED BY <1>1, <1>2, PTL DEF Spec

\* One request at a time and at rest, when none was lost, the users of a package
\* are within its limit, also when a downgrade had to evict users that the package
\* names more than once.
THEOREM WithinLimit == Spec => []WithinLimitWhenSerial
<1>1. LimitInv => WithinLimitWhenSerial
  BY DEF LimitInv, WithinLimitWhenSerial, OneUserLists, Within
<1> QED BY <1>1, LimitInvariant, PTL

-----------------------------------------------------------------------------
(* The active staff are the members *)

Active == {u \in Staff : staff[u] = "active"}

\* Between two writes of a request, one user is active and not yet a member, or
\* not active any more and still a member.
Leaves(r) == pc[r] = "pull" \/ (/\ call[r].kind = "REMOVE" /\ pc[r] = "users"
                                /\ local[r].line > Len(call[r].dto.users))

\* The active staff are these, but for those renewed, activated or deactivated.
Are(users) ==
  /\ load.kinds \intersect {"RENEW", "ACTIVATE"} = {} => Active \subseteq users
  /\ "DEACTIVATE" \notin load.kinds => users \subseteq Active

ActiveAt(r) ==
  /\ pc[r] = "push" => Are(Members \union {Whom(r)})
  /\ Leaves(r) => Are(Members \ Leaving(r))
  /\ pc[r] = "evictPull" => Are(Members \ {local[r].users[local[r].line]})
  /\ pc[r] \notin {"push", "evictPull"} /\ ~Leaves(r) => Are(Members)

ActiveInv ==
  (Serial /\ ~lost /\ OneUserLists) => (Quiet => Are(Members)) /\ \A r \in AtWork : ActiveAt(r)

LEMMA ActiveAfter ==
  ASSUME TypeOK, NEW u
  PROVE  /\ NewStaff(u, "active") => Active' = Active \union {u}
         /\ NewStaff(u, "inactive") => Active' = Active \ {u}
BY DEF TypeOK, NewStaff, Active

\* Of a list of one user.
LEMMA OneLeaving ==
  ASSUME TypeOK, NEW r \in Requests, pc[r] # "idle", call[r].kind = "REMOVE", OneUserLists
  PROVE  /\ Len(call[r].dto.users) \in {0, 1} /\ local[r].line \in Nat \ {0}
         /\ local[r].line <= Len(call[r].dto.users) => Leaving(r) = {ThisUser(r)} /\ local[r].line = 1
         /\ Len(call[r].dto.users) = 0 => Leaving(r) = {}
<1>1. call[r] \in Calls /\ local[r].line \in Nat \ {0}
  BY WorkingType
<1>2. call[r].dto.users \in UserLists /\ call[r].dto.users \in Seq(Staff)
  BY <1>1, DtoType
<1>3. Len(call[r].dto.users) \in {0, 1} /\ DOMAIN call[r].dto.users = 1 .. Len(call[r].dto.users)
  <2>1. Len(call[r].dto.users) \in Nat /\ Len(call[r].dto.users) <= 1
    BY <1>2 DEF OneUserLists
  <2>2. Len(call[r].dto.users) \in {0, 1}
    <3> DEFINE n == Len(call[r].dto.users)
    <3>1. n \in Nat /\ n <= 1
      BY <2>1
    <3> HIDE DEF n
    <3>2. n \in {0, 1}
      BY <3>1
    <3> QED BY <3>2 DEF n
  <2>3. DOMAIN call[r].dto.users = 1 .. Len(call[r].dto.users)
    BY <1>2
  <2> QED BY <2>2, <2>3
<1>4. ASSUME local[r].line <= Len(call[r].dto.users)
      PROVE  Leaving(r) = {ThisUser(r)} /\ local[r].line = 1
  <2> DEFINE n == Len(call[r].dto.users)
             line == local[r].line
  <2>0. line = 1 /\ n = 1
    <3>1. n \in {0, 1} /\ line \in Nat \ {0} /\ line <= n
      BY <1>1, <1>3, <1>4
    <3> HIDE DEF n, line
    <3> QED BY <3>1
  <2>1. local[r].line = 1 /\ DOMAIN call[r].dto.users = {1}
    BY <1>3, <2>0
  <2> QED BY <2>1 DEF Leaving, ThisUser
<1>5. Len(call[r].dto.users) = 0 => Leaving(r) = {}
  BY <1>3 DEF Leaving
<1> QED BY <1>1, <1>3, <1>4, <1>5

LEMMA StepActive ==
  ASSUME SoundInv, BoundInv, PriceInv, ActiveInv, Serial, ~lost, OneUserLists,
         NEW r \in Requests, Step(r)
  PROVE  /\ pc'[r] = "idle" => Are(Members)'
         /\ pc'[r] # "idle" => ActiveAt(r)'
<1>1. ActiveAt(r) /\ PriceAt(r) /\ TypeOK /\ pc[r] # "idle" /\ load' = load
  BY SerialStep DEF PriceInv, ActiveInv, SoundInv, Step, Others
<1>2. /\ call[r] \in Calls /\ pc[r] \in StepsOf(call[r].kind) /\ call[r].kind \in AllKinds
      /\ call[r].kind \in load.kinds
      /\ local[r].line \in Nat \ {0} /\ (pc[r] \in {"find", "create"} => local[r].line = 1)
  BY <1>1, WorkingType
<1>3. CASE Gives(r)
  <2>1. pc'[r] = "idle" /\ UNCHANGED <<packages, staff>>
        /\ pc[r] \notin {"push", "evictPull", "pull"}
        /\ (pc[r] = "users" => call[r].kind = "ADD" \/ local[r].line <= Len(call[r].dto.users))
    BY <1>3 DEF Gives, Ends, docs
  <2>2. ~Leaves(r)
    <3>1. CASE pc[r] = "users" /\ call[r].kind = "REMOVE"
      <4>1. Len(call[r].dto.users) \in {0, 1} /\ local[r].line <= Len(call[r].dto.users)
        BY <1>1, <2>1, <3>1, OneLeaving
      <4>2. ~(local[r].line > Len(call[r].dto.users))
        BY <1>2, <4>1
      <4> QED BY <3>1, <4>2 DEF Leaves
    <3> QED BY <2>1, <3>1 DEF Leaves
  <2>3. Are(Members)
    BY <1>1, <2>1, <2>2 DEF ActiveAt
  <2> QED BY <1>1, <2>1, <2>3 DEF Are, Active, Members, Exists, Package
<1>4. CASE Finds(r)
  <2>1. /\ UNCHANGED <<packages, staff>> /\ pc[r] = "find" /\ call'[r] = call[r]
        /\ pc'[r] \in {"create", "users", "package", "staff"}
    BY <1>4 DEF Finds, Goes, Keeps, docs
  <2>2. Active' = Active /\ Members' = Members /\ Are(Members)
    BY <1>1, <2>1 DEF Active, Members, Exists, Package, ActiveAt, Leaves
  <2>3. ASSUME Leaves(r)' PROVE Leaving(r)' = {}
    <3>1. /\ call[r].kind = "REMOVE" /\ local'[r].line > Len(call[r].dto.users)
      BY <2>1, <2>3 DEF Leaves
    <3>2. local'[r].line = 1
      BY <1>4, <3>1 DEF Finds
    <3>3. Len(call[r].dto.users) = 0 /\ Leaving(r) = {}
      BY <1>1, <3>1, <3>2, OneLeaving
    <3> QED BY <2>1, <3>3 DEF Leaving
  <2> QED BY <1>1, <2>1, <2>2, <2>3 DEF ActiveAt, Are
<1>5. CASE Proceeds(r)
  <2>1. /\ UNCHANGED <<packages, staff>> /\ Leaves(r) /\ call'[r] = call[r] /\ pc'[r] = "pull"
    BY <1>5 DEF Proceeds, Goes, Keeps, docs, Leaves
  <2>2. Active' = Active /\ Members' = Members /\ Leaving(r)' = Leaving(r)
    BY <2>1 DEF Active, Members, Exists, Package, Leaving
  <2> QED BY <1>1, <2>1, <2>2 DEF ActiveAt, Leaves, Are
<1>6. CASE Creates(r)
  <2>1. /\ staff' = staff /\ pc[r] = "create" /\ call'[r] = call[r] /\ call[r].kind = "CREATE"
        /\ pc'[r] = "owner" /\ Exists' /\ ~Exists /\ Package'.users = <<>>
    BY <1>1, <1>6 DEF Creates, Goes, Keeps, PriceAt
  <2>2. Active' = Active /\ Are(Members) /\ Members = {}
    BY <1>1, <2>1 DEF Active, Members, ActiveAt, Leaves
  <2>3. Members' = {}
    BY <2>1 DEF Members
  <2> QED BY <1>1, <2>1, <2>2, <2>3 DEF ActiveAt, Leaves, Are
<1>7. CASE WritesOwner(r)
  <2>1. /\ UNCHANGED <<packages, staff>> /\ pc'[r] \in {"idle", "evict"} /\ pc[r] \in {"owner", "find"}
    BY <1>7 DEF WritesOwner, NewOwner, Ends, Goes, Keeps
  <2>2. Active' = Active /\ Members' = Members /\ Are(Members)
    BY <1>1, <2>1 DEF Active, Members, Exists, Package, ActiveAt, Leaves
  <2> QED BY <1>1, <2>1, <2>2 DEF ActiveAt, Leaves, Are
<1>8. CASE WritesStaff(r)
  <2>0. packages' = packages
    BY <1>8 DEF WritesStaff, NewStaff
  <2>1. packages' = packages /\ Members' = Members
    BY <2>0 DEF Members, Exists, Package
  <2>2. CASE pc[r] = "create"
    <3>1. /\ pc'[r] = "push" /\ call'[r] = call[r] /\ local'[r] = local[r]
          /\ NewStaff(Whom(r), "active")
      BY <1>8, <2>2 DEF WritesStaff, Goes, Keeps, Whom
    <3>2. Active' = Active \union {Whom(r)} /\ Are(Members) /\ Whom(r)' = Whom(r)
      BY <1>1, <2>2, <3>1, ActiveAfter DEF ActiveAt, Leaves, Whom, ThisUser
    <3> QED BY <1>1, <2>1, <3>1, <3>2 DEF ActiveAt, Leaves, Are
  <2>3. CASE pc[r] = "users" /\ call[r].kind = "ADD"
    <3>1. /\ pc'[r] = "push" /\ call'[r] = call[r] /\ local'[r] = local[r]
          /\ NewStaff(Whom(r), "active")
      BY <1>8, <2>3 DEF WritesStaff, Goes, Keeps, Whom
    <3>2. Active' = Active \union {Whom(r)} /\ Are(Members) /\ Whom(r)' = Whom(r)
      BY <1>1, <2>3, <3>1, ActiveAfter DEF ActiveAt, Leaves, Whom, ThisUser
    <3> QED BY <1>1, <2>1, <3>1, <3>2 DEF ActiveAt, Leaves, Are
  <2>4. CASE pc[r] = "users" /\ call[r].kind = "REMOVE"
    <3>1. /\ pc'[r] = "users" /\ call'[r] = call[r] /\ local'[r].line = local[r].line + 1
          /\ local[r].line <= Len(call[r].dto.users) /\ NewStaff(ThisUser(r), "inactive")
      BY <1>8, <2>4 DEF WritesStaff, Goes, Turns
    <3>2. Leaving(r) = {ThisUser(r)} /\ local[r].line = 1 /\ Len(call[r].dto.users) \in {0, 1}
      BY <1>1, <2>4, <3>1, OneLeaving
    <3>3. ~Leaves(r) /\ Leaves(r)'
      <4>1. Len(call[r].dto.users) = 1 /\ local'[r].line = 2
        BY <3>1, <3>2
      <4> QED BY <2>4, <3>1, <3>2, <4>1 DEF Leaves
    <3>4. Active' = Active \ {ThisUser(r)} /\ Are(Members) /\ Leaving(r)' = Leaving(r)
      BY <1>1, <2>4, <3>1, <3>3, ActiveAfter DEF ActiveAt, Leaving
    <3> QED BY <1>1, <2>1, <3>1, <3>2, <3>3, <3>4 DEF ActiveAt, Are
  <2>5. CASE pc[r] = "evict"
    <3> DEFINE u == local[r].users[local[r].line]
    <3>1. /\ pc'[r] = "evictPull" /\ call'[r] = call[r] /\ local'[r] = local[r]
          /\ NewStaff(u, "inactive")
      BY <1>8, <2>5 DEF WritesStaff, Goes, Keeps
    <3>2. u' = u
      BY <3>1
    <3> HIDE DEF u
    <3>3. Active' = Active \ {u} /\ Are(Members)
      BY <1>1, <2>5, <3>1, ActiveAfter DEF ActiveAt, Leaves
    <3>4. Are(Members \ {u})'
      BY <1>1, <2>1, <3>2, <3>3 DEF Are
    <3> QED BY <3>1, <3>4 DEF ActiveAt, Leaves, u
  <2>6. CASE pc[r] \in {"find", "staff"}
    <3>1. Are(Members) /\ pc'[r] \in {"idle", "staff"}
      BY <1>1, <1>8, <2>6 DEF WritesStaff, ActiveAt, Leaves, Ends, Goes, Keeps, Turns
    <3>2. \/ \E u : NewStaff(u, "active") /\ call[r].kind \in {"RENEW", "ACTIVATE"}
          \/ \E u : NewStaff(u, "inactive") /\ call[r].kind = "DEACTIVATE"
      BY <1>8, <2>6 DEF WritesStaff
    <3>3. \/ Active \subseteq Active' /\ load.kinds \intersect {"RENEW", "ACTIVATE"} # {}
          \/ Active' \subseteq Active /\ "DEACTIVATE" \in load.kinds
      BY <1>1, <1>2, <3>2, ActiveAfter
    <3>4. Are(Members)'
      BY <1>1, <2>1, <3>1, <3>3 DEF Are
    <3> QED BY <3>1, <3>4 DEF ActiveAt, Leaves
  <2> QED BY <1>8, <2>2, <2>3, <2>4, <2>5, <2>6 DEF WritesStaff
<1>9. CASE WritesPackage(r)
  <2>1. staff' = staff /\ Active' = Active
    BY <1>9 DEF WritesPackage, NewUsers, NewTerms, Active
  <2>2. CASE pc[r] = "push"
    <3>1. NewUsers(Append(Package.users, Whom(r))) /\ Whom(r) \in Staff
      BY <1>1, <1>9, <2>2, WhomType DEF WritesPackage
    <3>2. Members' = Members \union {Whom(r)}
      BY <1>1, <3>1, MembersAfter
    <3>3. Are(Members)'
      BY <1>1, <2>1, <2>2, <3>2 DEF ActiveAt, Are
    <3>4. pc'[r] = "idle" \/ (pc'[r] = "users" /\ call'[r].kind = "ADD")
      BY <1>9, <2>2 DEF WritesPackage, Ends, Turns, Goes
    <3> QED BY <3>3, <3>4 DEF ActiveAt, Leaves
  <2>3. CASE pc[r] = "pull"
    <3>1. NewUsers(Pull(Package.users, Leaving(r))) /\ pc'[r] = "idle"
      BY <1>9, <2>3 DEF WritesPackage, Ends
    <3>2. Members' = Members \ Leaving(r)
      BY <1>1, <3>1, MembersAfter
    <3> QED BY <1>1, <2>1, <2>3, <3>1, <3>2 DEF ActiveAt, Leaves, Are
  <2>4. CASE pc[r] = "package"
    <3>1. /\ pc'[r] = "owner" /\ Package'.users = Package.users /\ Exists /\ Exists'
      BY <1>9, <2>4 DEF WritesPackage, NewTerms, Goes, Keeps
    <3>2. Members' = Members
      BY <3>1 DEF Members
    <3> QED BY <1>1, <2>1, <2>4, <3>1, <3>2 DEF ActiveAt, Leaves, Are
  <2>5. CASE pc[r] = "evictPull"
    <3> DEFINE out == {local[r].users[local[r].line]}
    <3>1. NewUsers(Pull(Package.users, out)) /\ pc'[r] = "evict"
      BY <1>9, <2>5 DEF WritesPackage, Turns, Goes
    <3>2. Are(Members \ out)
      BY <1>1, <2>5 DEF ActiveAt
    <3> HIDE DEF out
    <3>3. Members' = Members \ out
      BY <1>1, <3>1, MembersAfter
    <3>4. Are(Members)'
      BY <1>1, <2>1, <3>2, <3>3 DEF Are
    <3> QED BY <3>1, <3>4 DEF ActiveAt, Leaves
  <2> QED BY <1>9, <2>2, <2>3, <2>4, <2>5 DEF WritesPackage
<1> QED BY <1>3, <1>4, <1>5, <1>6, <1>7, <1>8, <1>9 DEF Step

LEMMA NextActive ==
  ASSUME SoundInv, BoundInv, PriceInv, ActiveInv, [Next]_vars
  PROVE  ActiveInv'
<1> SUFFICES ASSUME Serial', ~lost', OneUserLists
             PROVE  (Quiet' => Are(Members)') /\ \A r \in AtWork' : ActiveAt(r)'
  BY DEF ActiveInv, OneUserLists
<1>1. CASE ProcessExit
  BY <1>1, ExitStep DEF SoundInv
<1>2. ASSUME NEW r \in Requests, Handler(r)
      PROVE  (Quiet' => Are(Members)') /\ \A o \in AtWork' : ActiveAt(o)'
  <2>1. Step(r) /\ Serial /\ ~lost
    BY <1>2, HandlerStep DEF Step, Others, Serial
  <2>2. /\ pc'[r] = "idle" => Are(Members)'
        /\ pc'[r] # "idle" => ActiveAt(r)'
    BY <2>1, StepActive
  <2> QED BY <2>1, <2>2, SerialStep
<1>3. ASSUME NEW r \in Requests, Arrive(r)
      PROVE  (Quiet' => Are(Members)') /\ \A o \in AtWork' : ActiveAt(o)'
  <2>1. Comes(r) /\ Serial /\ ~lost /\ load' = load
    BY <1>3, ArriveStep DEF Comes, Others, Serial, SoundInv
  <2>2. Quiet /\ AtWork' = {r} /\ ~Quiet' /\ UNCHANGED <<packages, staff>> /\ pc'[r] = "find"
    BY <2>1, SerialArrive DEF docs, Comes
  <2>3. Are(Members)'
    BY <2>1, <2>2 DEF ActiveInv, Are, Active, Members, Exists, Package
  <2> QED BY <2>2, <2>3 DEF ActiveAt, Leaves
<1>4. CASE UNCHANGED vars
  BY <1>4 DEF vars, ActiveInv, Serial, OneUserLists, Quiet, Are, AtWork, Working, ActiveAt, Leaves,
              Leaving, Active, Members, Whom, ThisUser, Exists, Package
<1> QED BY <1>1, <1>2, <1>3, <1>4 DEF Next

LEMMA InitActive == Init => ActiveInv
<1> HAVE Init
<1>1. Active = {} /\ Members = {} /\ AtWork = {}
  BY DEF Init, Active, Members, Exists, AtWork, Working
<1> QED BY <1>1 DEF ActiveInv, Are

\* One request at a time and at rest, when none was lost, the active staff are
\* members of the package unless some were renewed or activated, and its members
\* are active unless some were deactivated, however a package names them.
THEOREM MembersAreActive == Spec => []MembersAreActiveWhenSerial
<1>1. Init => SoundInv /\ BoundInv /\ PriceInv /\ ActiveInv
  BY InitSound, InitBound, InitPrice, InitActive
<1>2. SoundInv /\ BoundInv /\ PriceInv /\ ActiveInv /\ [Next]_vars
        => (SoundInv /\ BoundInv /\ PriceInv /\ ActiveInv)'
  BY NextSound, NextBound, NextPrice, NextActive
<1>3. ActiveInv => MembersAreActiveWhenSerial
  BY DEF ActiveInv, MembersAreActiveWhenSerial, Active, Are, OneUserLists
<1> QED BY <1>1, <1>2, <1>3, PTL DEF Spec
=============================================================================
