------------------------------ MODULE Coupons ------------------------------
(***************************************************************************)
(* The coupons of coupon.service.ts: how owners create and edit them, how  *)
(* an order redeems one (calculateTotalPrice of order.service.ts), and the *)
(* cron job that closes the expired ones.  Every awaited call is a step.   *)
(***************************************************************************)
EXTENDS Integers, Sequences, FiniteSets

CONSTANTS
  Requests,     \* calls of the HTTP handlers, numbered as they arrive
  Sweeps,       \* executions of the cron job that may overlap
  Codes,
  Owners,
  Customers,
  Ranges,       \* the codes generateMultiCode can make, sequences of Codes
  Edits,        \* bodies of updateCoupon: records of some fields of a coupon
  Loads,        \* what may be asked of the service, see Load
  MaxTime       \* bound: the last date

AllKinds == {"REDEEM", "SINGLE", "MULTI", "UPDATE", "ACTIVATE"}
Dates == 0 .. MaxTime

\* The handlers in use, how many requests are served at a time and in all (bounds),
\* who redeems which codes, what is created and how it is edited.  A limit of 0
\* stands for no limit too.
Load == [kinds: SUBSET AllKinds, atOnce: Nat \ {0}, inAll: Nat, codes: SUBSET Codes,
         customers: SUBSET Customers, limits: SUBSET Nat, dates: SUBSET Dates,
         ranges: SUBSET Ranges, edits: SUBSET Edits]

ASSUME RequestsAssumption == Requests \subseteq Nat /\ IsFiniteSet(Requests)
ASSUME CodesAssumption == "none" \notin Codes
ASSUME BoundsAssumption == MaxTime \in Nat
ASSUME LoadsAssumption == Loads \subseteq Load
ASSUME RangesAssumption == Ranges \subseteq Seq(Codes)
ASSUME EditsAssumption ==
  \A dto \in Edits : /\ DOMAIN dto \subseteq {"limit", "status", "used", "expireOn"}
                       /\ \A field \in DOMAIN dto :
                            dto[field] \in CASE field = "limit" -> Nat
                                              [] field = "expireOn" -> Dates
                                              [] OTHER -> BOOLEAN

VARIABLES
  load,     \* the load of this behaviour
  coupons,  \* the collection, by code: the index on code is unique
  now,      \* the date
  sweep,    \* the ids a running cron job has found
  granted,  \* the coupon an order was given a discount for, by request
  pc,       \* the next step of a request
  call,     \* what was requested
  line      \* the loop of createMultiCoupons

vars == <<load, coupons, now, sweep, granted, pc, call, line>>

NoCoupon == [owner |-> "none"]
NoCall == [kind |-> "none"]
NoSweep == [running |-> FALSE, ids |-> {}]

Finished == {"done", "failed", "crashed"}
Working(r) == pc[r] \notin {"idle"} \union Finished
Exists(c) == coupons[c] # NoCoupon

Init ==
  /\ load \in Loads
  /\ coupons = [c \in Codes |-> NoCoupon]
  /\ now = 0
  /\ sweep = [s \in Sweeps |-> NoSweep]
  /\ granted = [r \in Requests |-> "none"]
  /\ pc = [r \in Requests |-> "idle"]
  /\ call = [r \in Requests |-> NoCall]
  /\ line = [r \in Requests |-> 1]

-----------------------------------------------------------------------------
(* Requests *)

Serves(r, kinds, at) == pc[r] = at /\ call[r].kind \in kinds
Goto(r, at) == pc' = [pc EXCEPT ![r] = at]
Fail(r) == Goto(r, "failed") /\ UNCHANGED <<load, coupons, now, sweep, granted, call, line>>
Move(r, at) == Goto(r, at) /\ UNCHANGED <<load, coupons, now, sweep, granted, call, line>>

Write(r, c, coupon, at) ==
  /\ coupons' = [coupons EXCEPT ![c] = coupon]
  /\ Goto(r, at)
  /\ UNCHANGED <<load, now, sweep, granted, call>>

Calls ==
  [kind: {"REDEEM"}, code: load.codes, customer: load.customers]
    \union [kind: {"SINGLE"}, code: load.codes, owner: Owners, limit: load.limits,
              expireOn: load.dates]
    \union [kind: {"MULTI"}, codes: load.ranges, owner: Owners, limit: load.limits,
              expireOn: load.dates]
    \union [kind: {"UPDATE"}, code: load.codes, owner: Owners, dto: load.edits]
    \union [kind: {"ACTIVATE"}, code: load.codes, owner: Owners, dto: [status: BOOLEAN]]

Arrive(r) ==
  /\ pc[r] = "idle"
  /\ r <= load.inAll
  /\ \A o \in Requests : o < r => pc[o] # "idle"
  /\ Cardinality({o \in Requests : Working(o)}) < load.atOnce
  /\ \E c \in Calls : c.kind \in load.kinds /\ call' = [call EXCEPT ![r] = c]
  /\ Goto(r, "find")
  /\ UNCHANGED <<load, coupons, now, sweep, granted, line>>

-----------------------------------------------------------------------------
(* Creation *)

NewCoupon(r) ==
  [owner |-> call[r].owner, limit |-> call[r].limit, status |-> TRUE, used |-> FALSE,
   userIds |-> <<>>, expireOn |-> call[r].expireOn]

\* createSingleCoupon: '141' when the owner has the code already.
SingleFind(r) ==
  /\ Serves(r, {"SINGLE"}, "find")
  /\ IF Exists(call[r].code) /\ coupons[call[r].code].owner = call[r].owner
     THEN Fail(r)
     ELSE Move(r, "create")

\* create, refused by the index when any owner has the code.
SingleCreate(r) ==
  /\ Serves(r, {"SINGLE"}, "create")
  /\ IF Exists(call[r].code)
     THEN Fail(r)
     ELSE Write(r, call[r].code, NewCoupon(r), "done") /\ UNCHANGED line

\* createMultiCoupons does not look first: it creates one coupon after another,
\* and one that is refused leaves those before it.
MultiCreate(r) ==
  /\ Serves(r, {"MULTI"}, "find")
  /\ LET codes == call[r].codes
     IN  IF line[r] > Len(codes)
         THEN Move(r, "done")
         ELSE IF Exists(codes[line[r]])
         THEN Fail(r)
         ELSE /\ Write(r, codes[line[r]], NewCoupon(r), "find")
              /\ line' = [line EXCEPT ![r] = @ + 1]

-----------------------------------------------------------------------------
(* updateCoupon and activeCoupon *)

EditFind(r) ==
  /\ Serves(r, {"UPDATE", "ACTIVATE"}, "find")
  /\ IF Exists(call[r].code) /\ coupons[call[r].code].owner = call[r].owner
     THEN Move(r, "update")
     ELSE Fail(r)

\* {...dto}: the fields of the dto, whatever they were.
Spread(coupon, dto) ==
  [field \in DOMAIN coupon |-> IF field \in DOMAIN dto THEN dto[field] ELSE coupon[field]]

\* update(id, {...dto}).
EditUpdate(r) ==
  /\ Serves(r, {"UPDATE", "ACTIVATE"}, "update")
  /\ Write(r, call[r].code, Spread(coupons[call[r].code], call[r].dto), "done")
  /\ UNCHANGED line

-----------------------------------------------------------------------------
(* Redemption *)

Users(c) == {coupons[c].userIds[n] : n \in DOMAIN coupons[c].userIds}

\* Mutation: the filter without userIds.
RedeemableAgain(c, customer) == Exists(c) /\ ~coupons[c].used /\ coupons[c].status

\* The filter of findCouponCode.
Redeemable(c, customer) ==
  Exists(c) /\ ~coupons[c].used /\ coupons[c].status /\ customer \notin Users(c)

\* An order whose coupon is not found is an order without a discount.
RedeemFind(r) ==
  /\ Serves(r, {"REDEEM"}, "find")
  /\ Move(r, IF Redeemable(call[r].code, call[r].customer) THEN "push" ELSE "done")

Pushed(c, customer) == Append(coupons[c].userIds, customer)

\* Mutation: the length is compared before the customer is pushed.
LastOneEarly(c, customer) == coupons[c].limit = Len(coupons[c].userIds)

\* limit == userIds.length, of the document the update returns.
LastOne(c, customer) == coupons[c].limit = Len(Pushed(c, customer))

\* Mutation: another customer takes the place of the last one.
RedeemReplaces(r) ==
  /\ Serves(r, {"REDEEM"}, "push")
  /\ LET c == call[r].code
     IN  Write(r, c, [coupons[c] EXCEPT !.userIds = <<call[r].customer>>],
               IF LastOne(c, call[r].customer) THEN "mark" ELSE "insert")
  /\ UNCHANGED line

\* $push, atomic, and whatever became of the coupon since it was found.
RedeemPush(r) ==
  /\ Serves(r, {"REDEEM"}, "push")
  /\ LET c == call[r].code
     IN  Write(r, c, [coupons[c] EXCEPT !.userIds = Pushed(c, call[r].customer)],
               IF LastOne(c, call[r].customer) THEN "mark" ELSE "insert")
  /\ UNCHANGED line

RedeemMark(r) ==
  /\ Serves(r, {"REDEEM"}, "mark")
  /\ Write(r, call[r].code, [coupons[call[r].code] EXCEPT !.used = TRUE], "insert")
  /\ UNCHANGED line

\* The order is written with the discount, or refused: an unknown table.
RedeemInsert(r) ==
  /\ Serves(r, {"REDEEM"}, "insert")
  /\ \/ Fail(r)
     \/ /\ granted' = [granted EXCEPT ![r] = call[r].code]
        /\ Goto(r, "done")
        /\ UNCHANGED <<load, coupons, now, sweep, call, line>>

-----------------------------------------------------------------------------
(* Time and the cron job *)

Tick ==
  now < MaxTime /\ now' = now + 1 /\ UNCHANGED <<load, coupons, sweep, granted, pc, call, line>>

Expired(c) == Exists(c) /\ coupons[c].expireOn <= now

\* handleCron: find, and then close those of the ids that are open still.
CronFind(s) ==
  /\ ~sweep[s].running
  /\ sweep' = [sweep EXCEPT ![s] = [running |-> TRUE, ids |-> {c \in Codes : Expired(c)}]]
  /\ UNCHANGED <<load, coupons, now, granted, pc, call, line>>

\* Mutation: the update matches coupons that are closed.
CronUpdateClosed(s) ==
  /\ sweep[s].running
  /\ coupons' = [c \in Codes |->
       IF c \in sweep[s].ids /\ ~coupons[c].status
       THEN [coupons[c] EXCEPT !.status = FALSE] ELSE coupons[c]]
  /\ sweep' = [sweep EXCEPT ![s] = NoSweep]
  /\ UNCHANGED <<load, now, granted, pc, call, line>>

CronUpdate(s) ==
  /\ sweep[s].running
  /\ coupons' = [c \in Codes |->
       IF c \in sweep[s].ids /\ coupons[c].status
       THEN [coupons[c] EXCEPT !.status = FALSE] ELSE coupons[c]]
  /\ sweep' = [sweep EXCEPT ![s] = NoSweep]
  /\ UNCHANGED <<load, now, granted, pc, call, line>>

\* The process exits under a request: requests and running jobs are lost.
ProcessExit ==
  /\ \E r \in Requests : Working(r)
  /\ pc' = [r \in Requests |-> IF Working(r) THEN "crashed" ELSE pc[r]]
  /\ sweep' = [s \in Sweeps |-> NoSweep]
  /\ UNCHANGED <<load, coupons, now, granted, call, line>>

-----------------------------------------------------------------------------

Handler(r) ==
  \/ SingleFind(r) \/ SingleCreate(r) \/ MultiCreate(r)
  \/ EditFind(r) \/ EditUpdate(r)
  \/ RedeemFind(r) \/ RedeemPush(r) \/ RedeemMark(r) \/ RedeemInsert(r)
Cron(s) == CronFind(s) \/ CronUpdate(s)

Next ==
  \/ \E r \in Requests : Arrive(r) \/ Handler(r)
  \/ \E s \in Sweeps : Cron(s)
  \/ Tick \/ ProcessExit

Spec == Init /\ [][Next]_vars

\* The event loop goes on with every request, and starts the job every minute.
FairSpec ==
  /\ Spec
  /\ \A r \in Requests : WF_vars(Handler(r))
  /\ \A s \in Sweeps : WF_vars(Cron(s))

-----------------------------------------------------------------------------
(* Properties *)

Edited == \E r \in Requests : call[r].kind = "UPDATE"
Crashed == \E r \in Requests : pc[r] = "crashed"

\* Every discount an order was given is accounted for: at any time, and in any
\* interleaving, a coupon has its customer in userIds as often as orders of that
\* customer were given its discount.
GrantsTo(c, customer) == {r \in Requests : granted[r] = c /\ call[r].customer = customer}
UsesBy(c, customer) == {n \in DOMAIN coupons[c].userIds : coupons[c].userIds[n] = customer}
DiscountsAreRecorded ==
  \A c \in Codes : Exists(c) =>
    \A customer \in Customers :
      Cardinality(GrantsTo(c, customer)) <= Cardinality(UsesBy(c, customer))

\* Unless its owner edits it, a coupon is marked as used only when as many
\* orders as its limit have redeemed it: never one without a limit.
Used(c) == Exists(c) /\ coupons[c].used
UsedOnlyWhenFull ==
  ~Edited => \A c \in Codes : Used(c) =>
    coupons[c].limit > 0 /\ Len(coupons[c].userIds) >= coupons[c].limit

\* One request at a time, a customer redeems a coupon once, even if its owner
\* opens it again or lifts its limit, and the process exits half-way.
OncePerCustomerWhenSerial ==
  load.atOnce = 1 => \A c \in Codes : Exists(c) =>
    \A customer \in Customers : Cardinality(UsesBy(c, customer)) <= 1

\* One request at a time, when no request was lost and no owner has edited the
\* limit, no more orders redeem a coupon than its limit says.
LimitRespectedWhenSerial ==
  (load.atOnce = 1 /\ ~Edited /\ ~Crashed) => \A c \in Codes :
    (Exists(c) /\ coupons[c].limit > 0) => Len(coupons[c].userIds) <= coupons[c].limit

\* However redemptions interleave, the coupon whose limit is reached is marked
\* in the end, unless the one that was to mark it was lost or the owner edited it.
Full(c) ==
  Exists(c) /\ coupons[c].limit > 0 /\ coupons[c].limit = Len(coupons[c].userIds)
FullCouponsAreMarked ==
  \A c \in Codes : Full(c) ~> (Used(c) \/ Edited \/ Crashed)

\* An expired coupon is closed in the end, whatever was lost, unless its owner
\* puts the date off.
ExpiredCouponsClose ==
  \A c \in Codes : (Expired(c) /\ coupons[c].status)
                      ~> ~(Expired(c) /\ coupons[c].status)
=============================================================================
