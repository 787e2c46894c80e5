--------------------------- MODULE CouponsProofs ---------------------------
(***************************************************************************)
(* Theorems about Coupons, for any codes, limits, requests, jobs and       *)
(* exits: as long as no owner edits coupons, one that is marked as used is *)
(* full; and whatever owners edit, every discount is recorded.  One        *)
(* request at a time, a customer redeems a coupon once, and no more        *)
(* customers do than its limit says.                                       *)
(***************************************************************************)
EXTENDS Coupons, FiniteSetTheorems, TLAPS

States == {"idle", "find", "create", "update", "push", "mark", "insert"} \union Finished

Coupon == [owner: Owners, limit: Nat, status: BOOLEAN, used: BOOLEAN,
           userIds: Seq(Customers), expireOn: Dates]

\* As many have redeemed a coupon as its limit says.
Filled(p) == p.limit > 0 /\ Len(p.userIds) >= p.limit

\* What no step takes back of a coupon, and what marks it.
Grows(p, q) ==
  /\ q \in Coupon \union {NoCoupon}
  /\ p # NoCoupon =>
       q \in Coupon /\ q.limit = p.limit /\ Len(q.userIds) >= Len(p.userIds)
  /\ (q \in Coupon /\ q.used) => (p \in Coupon /\ p.used) \/ Filled(q)

\* What a request found, or has done, at the step where it stands.
Backed(r) ==
  /\ Serves(r, {"UPDATE", "ACTIVATE"}, "update") => Exists(call[r].code)
  /\ Serves(r, {"REDEEM"}, "push") => Exists(call[r].code)
  /\ Serves(r, {"REDEEM"}, "mark") => Exists(call[r].code) /\ Filled(coupons[call[r].code])

Typed ==
  /\ load \in Loads
  /\ pc \in [Requests -> States]
  /\ call \in [Requests -> Calls \union {NoCall}]
  /\ line \in [Requests -> Nat \ {0}]
  /\ \A r \in Requests : pc[r] = "idle" => call[r] = NoCall

Books ==
  /\ coupons \in [Codes -> Coupon \union {NoCoupon}]
  /\ \A c \in Codes : Used(c) => Filled(coupons[c])
  /\ \A r \in Requests : Backed(r)

IInv == Typed /\ (~Edited => Books)

-----------------------------------------------------------------------------

LEMMA Distinct == NoCoupon \notin Coupon
<1>1. DOMAIN NoCoupon = {"owner"}
  BY DEF NoCoupon
<1>2. \A p \in Coupon : "limit" \in DOMAIN p
  BY DEF Coupon
<1> QED BY <1>1, <1>2

\* The fields of a call.
LEMMA CallFields ==
  ASSUME load \in Loads, NEW d \in Calls
  PROVE  /\ d.kind \in {"REDEEM", "SINGLE", "UPDATE", "ACTIVATE"} => d.code \in Codes
         /\ d.kind = "REDEEM" => d.customer \in Customers
         /\ d.kind \in {"SINGLE", "MULTI"} =>
              d.owner \in Owners /\ d.limit \in Nat /\ d.expireOn \in Dates
         /\ d.kind = "MULTI" => d.codes \in Seq(Codes)
         /\ d.kind = "ACTIVATE" => d.dto \in [status: BOOLEAN]
<1>1. load \in Load
  BY LoadsAssumption
<1>2. /\ load.codes \subseteq Codes /\ load.customers \subseteq Customers
      /\ load.limits \subseteq Nat /\ load.dates \subseteq Dates
      /\ load.ranges \subseteq Seq(Codes)
  BY <1>1, RangesAssumption DEF Load
<1> QED BY <1>2 DEF Calls

\* A step of one request, which moves on and writes coupons that grow.
LEMMA RequestStep ==
  ASSUME IInv, NEW r \in Requests, NEW at \in States \ {"idle"},
         load' = load, call' = call, line' \in [Requests -> Nat \ {0}],
         Goto(r, at),
         ~Edited => /\ coupons' \in [Codes -> Coupon \union {NoCoupon}]
                    /\ \A c \in Codes : Grows(coupons[c], coupons'[c])
                    /\ Backed(r)'
  PROVE  IInv'
<1>1. Typed'
  BY DEF IInv, Typed, Goto, Calls
<1>2. Edited' = Edited
  BY DEF Edited
<1>3. ASSUME ~Edited PROVE Books'
  <2> USE <1>3 DEF IInv, Books
  <2>1. \A c \in Codes : Used(c)' => Filled(coupons'[c])
    <3> TAKE c \in Codes
    <3> HAVE Used(c)'
    <3>1. coupons'[c] \in Coupon /\ coupons'[c].used
      BY DEF Used, Exists
    <3>2. CASE Filled(coupons'[c])
      BY <3>2
    <3>3. CASE coupons[c] \in Coupon /\ coupons[c].used
      <4>1. Filled(coupons[c])
        BY <3>3, Distinct DEF Used, Exists
      <4>2. /\ coupons'[c].limit = coupons[c].limit
            /\ Len(coupons'[c].userIds) >= Len(coupons[c].userIds)
        BY <3>3, Distinct DEF Grows
      <4>3. /\ Len(coupons'[c].userIds) \in Nat /\ Len(coupons[c].userIds) \in Nat
            /\ coupons[c].limit \in Nat
        BY <3>1, <3>3 DEF Coupon
      <4> QED BY <4>1, <4>2, <4>3 DEF Filled
    <3> QED BY <3>1, <3>2, <3>3 DEF Grows
  <2>2. \A o \in Requests : Backed(o)'
    <3> TAKE o \in Requests
    <3>1. CASE o = r
      BY <3>1
    <3>2. CASE o # r
      <4>1. pc'[o] = pc[o]
        BY <3>2 DEF Goto, Typed
      <4>2. \A c \in Codes : Exists(c) => Exists(c)'
        BY Distinct DEF Grows, Exists
      <4>3. \A c \in Codes : Exists(c) /\ Filled(coupons[c]) => Filled(coupons'[c])
        <5> TAKE c \in Codes
        <5> HAVE Exists(c) /\ Filled(coupons[c])
        <5>1. /\ coupons[c] \in Coupon /\ coupons'[c] \in Coupon
              /\ coupons'[c].limit = coupons[c].limit
              /\ Len(coupons'[c].userIds) >= Len(coupons[c].userIds)
          BY DEF Exists, Grows
        <5>2. /\ Len(coupons'[c].userIds) \in Nat /\ Len(coupons[c].userIds) \in Nat
              /\ coupons[c].limit \in Nat
          BY <5>1 DEF Coupon
        <5> QED BY <5>1, <5>2 DEF Filled
      <4>4. call[o].kind \in {"UPDATE", "ACTIVATE", "REDEEM"} => call[o].code \in Codes
        <5>1. call[o].kind \in {"UPDATE", "ACTIVATE", "REDEEM"} => call[o] \in Calls
          BY DEF Typed, NoCall
        <5> QED BY <5>1, CallFields DEF Typed
      <4>5. Backed(o)
        OBVIOUS
      <4> QED BY <4>1, <4>2, <4>3, <4>4, <4>5 DEF Backed, Serves
    <3> QED BY <3>1, <3>2
  <2> QED BY <2>1, <2>2
<1> QED BY <1>1, <1>2, <1>3 DEF IInv

LEMMA Stays == \A p \in Coupon \union {NoCoupon} : Grows(p, p)
<1> SUFFICES ASSUME NEW p \in Coupon PROVE Len(p.userIds) >= Len(p.userIds)
  BY DEF Grows
<1> QED BY DEF Coupon

\* A request that moves on without a write, to a step it has what it takes for.
LEMMA MoveStep ==
  ASSUME IInv, NEW r \in Requests, NEW at \in States \ {"idle"}, Move(r, at), ~Edited => Backed(r)'
  PROVE  IInv'
<1>1. coupons' = coupons /\ call' = call /\ load' = load /\ line' = line /\ Goto(r, at)
  BY DEF Move
<1>2. line' \in [Requests -> Nat \ {0}]
  BY <1>1 DEF IInv, Typed
<1>3. ASSUME ~Edited
      PROVE  /\ coupons' \in [Codes -> Coupon \union {NoCoupon}]
             /\ \A c \in Codes : Grows(coupons[c], coupons'[c])
  BY <1>1, <1>3, Stays DEF IInv, Books
<1> QED BY <1>1, <1>2, <1>3, RequestStep

\* A write of one coupon.
LEMMA WriteStep ==
  ASSUME IInv, NEW r \in Requests, NEW at \in States \ {"idle"}, NEW c \in Codes, NEW p,
         Write(r, c, p, at), line' \in [Requests -> Nat \ {0}],
         ~Edited => Grows(coupons[c], p) /\ Backed(r)'
  PROVE  IInv'
<1>1. /\ coupons' = [coupons EXCEPT ![c] = p]
      /\ call' = call /\ load' = load /\ Goto(r, at)
  BY DEF Write
<1>2. ASSUME ~Edited
      PROVE  /\ coupons' \in [Codes -> Coupon \union {NoCoupon}]
             /\ \A k \in Codes : Grows(coupons[k], coupons'[k])
  <2>1. coupons \in [Codes -> Coupon \union {NoCoupon}]
    BY <1>2 DEF IInv, Books
  <2>2. p \in Coupon \union {NoCoupon}
    BY <1>2 DEF Grows
  <2>3. coupons' \in [Codes -> Coupon \union {NoCoupon}]
    BY <1>1, <2>1, <2>2
  <2>4. \A k \in Codes : Grows(coupons[k], coupons'[k])
    BY <1>1, <1>2, <2>1, Stays
  <2> QED BY <2>3, <2>4
<1> QED BY <1>1, <1>2, RequestStep

\* A request that is served has a call, and the fields its kind has.
LEMMA Served ==
  ASSUME IInv, NEW r \in Requests, NEW kinds \in SUBSET AllKinds, NEW at, Serves(r, kinds, at)
  PROVE  call[r] \in Calls /\ load \in Loads
BY DEF IInv, Typed, Serves, AllKinds, NoCall

LEMMA LineStays == IInv => line \in [Requests -> Nat \ {0}]
BY DEF IInv, Typed

LEMMA Failing == ASSUME IInv, NEW r \in Requests, Fail(r) PROVE IInv'
<1>1. Move(r, "failed")
  BY DEF Fail, Move
<1>2. Backed(r)'
  BY <1>1 DEF Move, Goto, IInv, Typed, Backed, Serves
<1> QED BY <1>1, <1>2, MoveStep DEF States, Finished

LEMMA Created ==
  ASSUME NEW c \in Codes, NEW r \in Requests, call[r] \in Calls, load \in Loads,
         call[r].kind \in {"SINGLE", "MULTI"}, ~Exists(c)
  PROVE  Grows(coupons[c], NewCoupon(r))
<1>1. call[r].owner \in Owners /\ call[r].limit \in Nat /\ call[r].expireOn \in Dates
  BY CallFields
<1>2. <<>> \in Seq(Customers)
  OBVIOUS
<1>3. NewCoupon(r) \in Coupon /\ ~NewCoupon(r).used
  BY <1>1, <1>2 DEF NewCoupon, Coupon
<1> QED BY <1>3 DEF Grows, Exists

THEOREM InvInit == Init => IInv
<1> SUFFICES ASSUME Init PROVE IInv
  OBVIOUS
<1>1. Typed
  BY DEF Init, Typed, States
<1>2. coupons \in [Codes -> Coupon \union {NoCoupon}]
  BY DEF Init
<1>3. \A c \in Codes : ~Used(c)
  BY DEF Init, Used, Exists
<1>4. \A r \in Requests : Backed(r)
  BY DEF Init, Backed, Serves
<1> QED BY <1>1, <1>2, <1>3, <1>4 DEF IInv, Books

LEMMA InvArrive == ASSUME IInv, NEW r \in Requests, Arrive(r) PROVE IInv'
<1>1. PICK c \in Calls : call' = [call EXCEPT ![r] = c]
  BY DEF Arrive
<1>2. /\ pc[r] = "idle" /\ Goto(r, "find")
      /\ load' = load /\ coupons' = coupons /\ line' = line
  BY DEF Arrive
<1>3. Calls' = Calls
  BY <1>2 DEF Calls
<1>4. Typed'
  BY <1>1, <1>2, <1>3 DEF IInv, Typed, Goto, States
<1>5. call[r] = NoCall /\ \A o \in Requests : o # r => call'[o] = call[o] /\ pc'[o] = pc[o]
  BY <1>1, <1>2 DEF IInv, Typed, Goto
<1>6. ASSUME ~Edited' PROVE ~Edited
  BY <1>5, <1>6 DEF Edited, NoCall
<1>7. ASSUME ~Edited PROVE Books'
  <2>1. \A o \in Requests : Backed(o)'
    <3>1. pc'[r] = "find"
      BY <1>2 DEF IInv, Typed, Goto
    <3>2. Backed(r)'
      BY <3>1 DEF Backed, Serves
    <3>3. ASSUME NEW o \in Requests, o # r PROVE Backed(o)'
      BY <1>2, <1>5, <1>7, <3>3 DEF IInv, Books, Backed, Serves, Exists
    <3> QED BY <3>2, <3>3
  <2> QED BY <1>2, <1>7, <2>1 DEF IInv, Books, Used, Exists
<1> QED BY <1>4, <1>6, <1>7 DEF IInv

LEMMA InvSingleFind == ASSUME IInv, NEW r \in Requests, SingleFind(r) PROVE IInv'
<1>1. CASE Fail(r)
  BY <1>1, Failing
<1>2. CASE Move(r, "create")
  <2>1. Backed(r)'
    BY <1>2 DEF Move, Goto, IInv, Typed, Backed, Serves
  <2> QED BY <1>2, <2>1, MoveStep DEF States
<1> QED BY <1>1, <1>2 DEF SingleFind

LEMMA InvSingleCreate == ASSUME IInv, NEW r \in Requests, SingleCreate(r) PROVE IInv'
<1>1. CASE Fail(r)
  BY <1>1, Failing
<1>2. CASE ~Exists(call[r].code) /\ Write(r, call[r].code, NewCoupon(r), "done") /\ UNCHANGED line
  <2>1. call[r] \in Calls /\ load \in Loads /\ call[r].kind = "SINGLE"
    BY Served DEF SingleCreate, Serves, AllKinds
  <2>2. call[r].code \in Codes
    BY <2>1, CallFields
  <2>3. Grows(coupons[call[r].code], NewCoupon(r))
    BY <1>2, <2>1, <2>2, Created
  <2>4. Backed(r)'
    BY <1>2 DEF Write, Goto, IInv, Typed, Backed, Serves
  <2>5. line' \in [Requests -> Nat \ {0}]
    BY <1>2, LineStays
  <2> QED BY <1>2, <2>2, <2>3, <2>4, <2>5, WriteStep DEF States, Finished
<1> QED BY <1>1, <1>2 DEF SingleCreate

LEMMA InvMultiCreate == ASSUME IInv, NEW r \in Requests, MultiCreate(r) PROVE IInv'
<1> DEFINE codes == call[r].codes
<1>1. CASE Fail(r)
  BY <1>1, Failing
<1>2. CASE Move(r, "done")
  <2>1. Backed(r)'
    BY <1>2 DEF Move, Goto, IInv, Typed, Backed, Serves
  <2> QED BY <1>2, <2>1, MoveStep DEF States, Finished
<1>3. CASE /\ ~(line[r] > Len(codes)) /\ ~Exists(codes[line[r]])
           /\ Write(r, codes[line[r]], NewCoupon(r), "find")
           /\ line' = [line EXCEPT ![r] = @ + 1]
  <2>1. call[r] \in Calls /\ load \in Loads /\ call[r].kind = "MULTI"
    BY Served DEF MultiCreate, Serves, AllKinds
  <2>2. codes[line[r]] \in Codes
    <3>1. codes \in Seq(Codes)
      BY <2>1, CallFields
    <3>2. line[r] \in Nat \ {0}
      BY LineStays
    <3>3. line[r] \in 1 .. Len(codes)
      BY <1>3, <3>1, <3>2
    <3> QED BY <3>1, <3>3
  <2>3. Grows(coupons[codes[line[r]]], NewCoupon(r))
    BY <1>3, <2>1, <2>2, Created
  <2>4. Backed(r)'
    BY <1>3 DEF Write, Goto, IInv, Typed, Backed, Serves
  <2>5. line' \in [Requests -> Nat \ {0}]
    BY <1>3, LineStays
  <2> QED BY <1>3, <2>2, <2>3, <2>4, <2>5, WriteStep DEF States
<1> QED BY <1>1, <1>2, <1>3 DEF MultiCreate

LEMMA InvEditFind == ASSUME IInv, NEW r \in Requests, EditFind(r) PROVE IInv'
<1>1. CASE Fail(r)
  BY <1>1, Failing
<1>2. CASE Exists(call[r].code) /\ Move(r, "update")
  <2>1. Backed(r)'
    BY <1>2 DEF Move, Goto, IInv, Typed, Backed, Serves, Exists
  <2> QED BY <1>2, <2>1, MoveStep DEF States
<1> QED BY <1>1, <1>2 DEF EditFind

\* The switch of an owner leaves everything but the status.
LEMMA InvEditUpdate == ASSUME IInv, NEW r \in Requests, EditUpdate(r) PROVE IInv'
<1> DEFINE c == call[r].code
           p == Spread(coupons[c], call[r].dto)
<1>1. call[r] \in Calls /\ load \in Loads /\ call[r].kind \in {"UPDATE", "ACTIVATE"}
  BY Served DEF EditUpdate, Serves, AllKinds
<1>2. c \in Codes
  BY <1>1, CallFields
<1>3. Write(r, c, p, "done") /\ line' = line
  BY DEF EditUpdate
<1>4. Backed(r)'
  BY <1>3 DEF Write, Goto, IInv, Typed, Backed, Serves
<1>5. ASSUME ~Edited PROVE Grows(coupons[c], p)
  <2>1. call[r].kind = "ACTIVATE"
    BY <1>1, <1>5 DEF Edited
  <2>2. coupons[c] \in Coupon
    BY <1>2, <1>5 DEF IInv, Books, Backed, EditUpdate, Exists
  <2>3. call[r].dto \in [status: BOOLEAN]
    BY <1>1, <2>1, CallFields
  <2>4. /\ DOMAIN call[r].dto = {"status"}
        /\ DOMAIN coupons[c] = {"owner", "limit", "status", "used", "userIds", "expireOn"}
    BY <2>2, <2>3 DEF Coupon
  <2>5. p = [coupons[c] EXCEPT !.status = call[r].dto.status]
    BY <2>2, <2>3, <2>4 DEF Spread, Coupon
  <2>6. p \in Coupon /\ p.limit = coupons[c].limit /\ p.userIds = coupons[c].userIds
        /\ p.used = coupons[c].used
    BY <2>2, <2>3, <2>5 DEF Coupon
  <2>7. Len(coupons[c].userIds) \in Nat
    BY <2>2 DEF Coupon
  <2> HIDE DEF p, c
  <2> QED BY <2>2, <2>6, <2>7 DEF Grows
<1>6. line' \in [Requests -> Nat \ {0}]
  BY <1>3, LineStays
<1> HIDE DEF p, c
<1> QED BY <1>2, <1>3, <1>4, <1>5, <1>6, WriteStep DEF States, Finished

LEMMA InvRedeemFind == ASSUME IInv, NEW r \in Requests, RedeemFind(r) PROVE IInv'
<1>1. CASE Exists(call[r].code) /\ Move(r, "push")
  <2>1. Backed(r)'
    BY <1>1 DEF Move, Goto, IInv, Typed, Backed, Serves, Exists
  <2> QED BY <1>1, <2>1, MoveStep DEF States
<1>2. CASE Move(r, "done")
  <2>1. Backed(r)'
    BY <1>2 DEF Move, Goto, IInv, Typed, Backed, Serves
  <2> QED BY <1>2, <2>1, MoveStep DEF States, Finished
<1> QED BY <1>1, <1>2 DEF RedeemFind, Redeemable

\* The push that reaches the limit fills the coupon: one without a limit is never
\* reached, as a list that was pushed to is not empty.
LEMMA InvRedeemPush == ASSUME IInv, NEW r \in Requests, RedeemPush(r) PROVE IInv'
<1> DEFINE c == call[r].code
           p == [coupons[c] EXCEPT !.userIds = Pushed(c, call[r].customer)]
           at == IF LastOne(c, call[r].customer) THEN "mark" ELSE "insert"
<1>1. call[r] \in Calls /\ load \in Loads /\ call[r].kind = "REDEEM"
  BY Served DEF RedeemPush, Serves, AllKinds
<1>2. c \in Codes /\ call[r].customer \in Customers
  BY <1>1, CallFields
<1>3. Write(r, c, p, at) /\ line' = line
  BY DEF RedeemPush
<1>4. at \in States \ {"idle"}
  BY DEF States
<1>5. ASSUME ~Edited PROVE Grows(coupons[c], p) /\ Backed(r)'
  <2>1. coupons[c] \in Coupon
    BY <1>2, <1>5 DEF IInv, Books, Backed, RedeemPush, Exists
  <2>2. coupons[c].userIds \in Seq(Customers) /\ coupons[c].limit \in Nat
    BY <2>1 DEF Coupon
  <2>3. /\ Pushed(c, call[r].customer) \in Seq(Customers)
        /\ Len(Pushed(c, call[r].customer)) = Len(coupons[c].userIds) + 1
    BY <1>2, <2>2 DEF Pushed
  <2>4. /\ p \in Coupon /\ p.limit = coupons[c].limit /\ p.used = coupons[c].used
        /\ p.userIds = Pushed(c, call[r].customer)
    BY <2>1, <2>3 DEF Coupon
  <2>5. Len(coupons[c].userIds) \in Nat
    BY <2>2
  <2>6. Grows(coupons[c], p)
    BY <2>1, <2>3, <2>4, <2>5 DEF Grows
  <2>7. LastOne(c, call[r].customer) => Filled(p)
    BY <2>2, <2>3, <2>4, <2>5 DEF LastOne, Filled
  <2>8. coupons'[c] = p /\ call'[r] = call[r] /\ pc'[r] = at
    BY <1>2, <1>3, <1>5 DEF Write, Goto, IInv, Typed, Books
  <2>9. p # NoCoupon
    BY <2>4, Distinct
  <2> HIDE DEF p
  <2>10. Backed(r)'
    BY <1>1, <2>7, <2>8, <2>9 DEF Backed, Serves, Exists
  <2> QED BY <2>6, <2>10
<1>6. line' \in [Requests -> Nat \ {0}]
  BY <1>3, LineStays
<1> HIDE DEF p, c, at
<1> QED BY <1>2, <1>3, <1>4, <1>5, <1>6, WriteStep

LEMMA InvRedeemMark == ASSUME IInv, NEW r \in Requests, RedeemMark(r) PROVE IInv'
<1> DEFINE c == call[r].code
           p == [coupons[c] EXCEPT !.used = TRUE]
<1>1. call[r] \in Calls /\ load \in Loads /\ call[r].kind = "REDEEM"
  BY Served DEF RedeemMark, Serves, AllKinds
<1>2. c \in Codes
  BY <1>1, CallFields
<1>3. Write(r, c, p, "insert") /\ line' = line
  BY DEF RedeemMark
<1>4. Backed(r)'
  BY <1>3 DEF Write, Goto, IInv, Typed, Backed, Serves
<1>5. ASSUME ~Edited PROVE Grows(coupons[c], p)
  <2>1. coupons[c] \in Coupon /\ Filled(coupons[c])
    BY <1>2, <1>5 DEF IInv, Books, Backed, RedeemMark, Exists
  <2>2. p \in Coupon /\ p.limit = coupons[c].limit /\ p.userIds = coupons[c].userIds
    BY <2>1 DEF Coupon
  <2>3. Len(coupons[c].userIds) \in Nat
    BY <2>1 DEF Coupon
  <2> HIDE DEF p, c
  <2> QED BY <2>1, <2>2, <2>3 DEF Grows, Filled
<1>6. line' \in [Requests -> Nat \ {0}]
  BY <1>3, LineStays
<1> HIDE DEF p, c
<1> QED BY <1>2, <1>3, <1>4, <1>5, <1>6, WriteStep DEF States

LEMMA InvRedeemInsert == ASSUME IInv, NEW r \in Requests, RedeemInsert(r) PROVE IInv'
<1>1. CASE Fail(r)
  BY <1>1, Failing
<1>2. CASE /\ Goto(r, "done")
           /\ UNCHANGED <<load, coupons, now, sweep, call, line>>
  <2>1. Backed(r)'
    BY <1>2 DEF Goto, IInv, Typed, Backed, Serves
  <2>2. ASSUME ~Edited
        PROVE  /\ coupons' \in [Codes -> Coupon \union {NoCoupon}]
               /\ \A c \in Codes : Grows(coupons[c], coupons'[c])
    BY <1>2, <2>2, Stays DEF IInv, Books
  <2>3. line' \in [Requests -> Nat \ {0}]
    BY <1>2, LineStays
  <2> QED BY <1>2, <2>1, <2>2, <2>3, RequestStep DEF States, Finished
<1> QED BY <1>1, <1>2 DEF RedeemInsert

-----------------------------------------------------------------------------

\* Steps of the job, of time, and an exit: a request moves on only to be lost.
LEMMA OtherStep ==
  ASSUME IInv, load' = load, call' = call, line' = line, pc' \in [Requests -> States],
         \A r \in Requests : pc'[r] = pc[r] \/ (pc'[r] = "crashed" /\ pc[r] # "idle"),
         ~Edited => /\ coupons' \in [Codes -> Coupon \union {NoCoupon}]
                    /\ \A c \in Codes :
                         /\ Exists(c)' = Exists(c)
                         /\ Exists(c) => /\ coupons'[c].limit = coupons[c].limit
                                         /\ coupons'[c].userIds = coupons[c].userIds
                                         /\ coupons'[c].used = coupons[c].used
  PROVE  IInv'
<1>1. Typed'
  BY DEF IInv, Typed, Calls
<1>2. ASSUME ~Edited PROVE Books'
  <2>1. \A c \in Codes : Used(c)' => Filled(coupons'[c])
    BY <1>2 DEF IInv, Books, Used, Filled
  <2>2. \A c \in Codes : Exists(c) /\ Filled(coupons[c]) => Filled(coupons'[c])
    BY <1>2 DEF Filled
  <2>3. ASSUME NEW r \in Requests PROVE Backed(r)'
    <3>1. call[r].kind \in {"UPDATE", "ACTIVATE", "REDEEM"} => call[r].code \in Codes
      <4>1. call[r].kind \in {"UPDATE", "ACTIVATE", "REDEEM"} => call[r] \in Calls
        BY DEF IInv, Typed, NoCall
      <4> QED BY <4>1, CallFields DEF IInv, Typed
    <3>2. Backed(r)
      BY <1>2 DEF IInv, Books
    <3> QED BY <1>2, <2>2, <3>1, <3>2 DEF Backed, Serves
  <2> QED BY <1>2, <2>1, <2>3 DEF Books
<1>3. Edited' = Edited
  BY DEF Edited
<1> QED BY <1>1, <1>2, <1>3 DEF IInv

LEMMA InvCron == ASSUME IInv, NEW s \in Sweeps, Cron(s) PROVE IInv'
<1>1. CASE CronFind(s)
  BY <1>1, OtherStep DEF CronFind, IInv, Typed, Books, Exists
<1>2. CASE CronUpdate(s)
  <2>1. load' = load /\ call' = call /\ line' = line /\ pc' = pc
    BY <1>2 DEF CronUpdate
  <2>2. ASSUME ~Edited
        PROVE  /\ coupons' \in [Codes -> Coupon \union {NoCoupon}]
               /\ \A c \in Codes :
                    /\ Exists(c)' = Exists(c)
                    /\ Exists(c) => /\ coupons'[c].limit = coupons[c].limit
                                    /\ coupons'[c].userIds = coupons[c].userIds
                                    /\ coupons'[c].used = coupons[c].used
    <3>1. coupons \in [Codes -> Coupon \union {NoCoupon}]
      BY <2>2 DEF IInv, Books
    <3>2. ASSUME NEW c \in Codes
          PROVE  /\ coupons'[c] \in Coupon \union {NoCoupon}
                 /\ Exists(c)' = Exists(c)
                 /\ Exists(c) => /\ coupons'[c].limit = coupons[c].limit
                                 /\ coupons'[c].userIds = coupons[c].userIds
                                 /\ coupons'[c].used = coupons[c].used
      <4>1. CASE coupons'[c] = coupons[c]
        BY <3>1, <4>1 DEF Exists
      <4>2. CASE c \in sweep[s].ids /\ coupons[c].status
                   /\ coupons'[c] = [coupons[c] EXCEPT !.status = FALSE]
        <5>1. CASE coupons[c] \in Coupon
          <6>1. coupons'[c] \in Coupon
            BY <4>2, <5>1 DEF Coupon
          <6> QED BY <4>2, <5>1, <6>1, Distinct DEF Exists, Coupon
        <5>2. CASE coupons[c] = NoCoupon
          <6>1. coupons'[c] = NoCoupon
            BY <4>2, <5>2 DEF NoCoupon
          <6> QED BY <5>2, <6>1 DEF Exists
        <5> QED BY <3>1, <5>1, <5>2
      <4> QED BY <1>2, <4>1, <4>2 DEF CronUpdate
    <3>3. coupons' \in [Codes -> Coupon \union {NoCoupon}]
      BY <1>2, <3>2 DEF CronUpdate
    <3> QED BY <3>2, <3>3
  <2>3. pc' \in [Requests -> States]
    BY <2>1 DEF IInv, Typed
  <2> QED BY <2>1, <2>2, <2>3, OtherStep
<1> QED BY <1>1, <1>2 DEF Cron

LEMMA InvTickExit == ASSUME IInv, Tick \/ ProcessExit PROVE IInv'
<1>1. load' = load /\ call' = call /\ line' = line /\ coupons' = coupons
  BY DEF Tick, ProcessExit
<1>2. /\ pc' \in [Requests -> States]
      /\ \A r \in Requests : pc'[r] = pc[r] \/ (pc'[r] = "crashed" /\ pc[r] # "idle")
  BY DEF Tick, ProcessExit, Working, IInv, Typed, States, Finished
<1> QED BY <1>1, <1>2, OtherStep DEF IInv, Books, Exists

THEOREM InvNext == IInv /\ [Next]_vars => IInv'
<1> SUFFICES ASSUME IInv, [Next]_vars PROVE IInv'
  OBVIOUS
<1>1. ASSUME NEW r \in Requests, Arrive(r) PROVE IInv'
  BY <1>1, InvArrive
<1>2. ASSUME NEW r \in Requests, Handler(r) PROVE IInv'
  BY <1>2, InvSingleFind, InvSingleCreate, InvMultiCreate, InvEditFind, InvEditUpdate,
     InvRedeemFind, InvRedeemPush, InvRedeemMark, InvRedeemInsert DEF Handler
<1>3. ASSUME NEW s \in Sweeps, Cron(s) PROVE IInv'
  BY <1>3, InvCron
<1>4. ASSUME Tick \/ ProcessExit PROVE IInv'
  BY <1>4, InvTickExit
<1>5. CASE UNCHANGED vars
  BY <1>5, OtherStep DEF vars, IInv, Typed, Books, Exists
<1> QED BY <1>1, <1>2, <1>3, <1>4, <1>5 DEF Next

\* Under any interleaving and exit, and whatever the owner switches, a coupon is
\* marked as used (calculateTotalPrice) only when as many orders as its limit
\* have redeemed it, as long as nobody edits coupons.
THEOREM MarkedWhenFull == Spec => []UsedOnlyWhenFull
<1>1. IInv => UsedOnlyWhenFull
  BY DEF IInv, Books, Filled, UsedOnlyWhenFull
<1> QED BY InvInit, InvNext, <1>1, PTL DEF Spec

-----------------------------------------------------------------------------
(* Every discount is recorded *)

\* The userIds of a coupon, which no edit is about.
Listed(p) == "userIds" \in DOMAIN p /\ p.userIds \in Seq(Customers)

\* A redemption that has pushed its customer, and may be granted or has been.
Taken(r) == pc[r] \in {"mark", "insert"} \/ granted[r] # "none"
Redeems(r, c, u) == call[r].kind = "REDEEM" /\ call[r].code = c /\ call[r].customer = u
TakenBy(c, u) == {r \in Requests : Taken(r) /\ Redeems(r, c, u)}

\* A request that has found its coupon.
Found(r) ==
  \/ Serves(r, {"UPDATE", "ACTIVATE"}, "update") \/ Serves(r, {"REDEEM"}, "push")
  \/ call[r].kind = "REDEEM" /\ Taken(r)

Lists ==
  /\ DOMAIN coupons = Codes
  /\ \A c \in Codes : Exists(c) => Listed(coupons[c])

Grants ==
  /\ granted \in [Requests -> Codes \union {"none"}]
  /\ \A r \in Requests : granted[r] # "none" =>
       call[r].kind = "REDEEM" /\ granted[r] = call[r].code /\ pc[r] = "done"
  /\ \A r \in Requests : Found(r) => Exists(call[r].code)

Recorded ==
  \A c \in Codes, u \in Customers : Exists(c) =>
    Cardinality(TakenBy(c, u)) <= Cardinality(UsesBy(c, u))

RInv == Typed /\ Lists /\ Grants /\ Recorded

LEMMA NotListed == ~Listed(NoCoupon)
BY DEF Listed, NoCoupon

Uses(list, u) == {n \in DOMAIN list : list[n] = u}

LEMMA UsesFinite ==
  \A list \in Seq(Customers) : \A u :
    IsFiniteSet(Uses(list, u)) /\ Cardinality(Uses(list, u)) \in Nat
<1> TAKE list \in Seq(Customers)
<1> TAKE u
<1>1. DOMAIN list = 1 .. Len(list) /\ Len(list) \in Int
  OBVIOUS
<1>2. Uses(list, u) \in SUBSET (1 .. Len(list))
  BY <1>1 DEF Uses
<1>3. IsFiniteSet(1 .. Len(list))
  BY <1>1, FS_Interval
<1> QED BY <1>2, <1>3, FS_Subset, FS_CardinalityType

LEMMA TakenFinite ==
  \A c, u : /\ IsFiniteSet(TakenBy(c, u)) /\ Cardinality(TakenBy(c, u)) \in Nat
<1> TAKE c, u
<1>1. TakenBy(c, u) \in SUBSET Requests
  BY DEF TakenBy
<1> QED BY <1>1, RequestsAssumption, FS_Subset, FS_CardinalityType

\* A step that pushes nobody: what was found stays, lists stay as they are, and
\* whoever has been counted was counted before.
LEMMA KeepsRecord ==
  ASSUME RInv, Typed', Lists', Grants',
         \A c \in Codes : Exists(c) => coupons'[c].userIds = coupons[c].userIds,
         \A r \in Requests : Taken(r)' => Taken(r) /\ call'[r] = call[r]
  PROVE  RInv'
<1>1. ASSUME NEW c \in Codes, NEW u \in Customers, Exists(c)'
      PROVE  Cardinality(TakenBy(c, u)') <= Cardinality(UsesBy(c, u)')
  <2>1. TakenBy(c, u)' \in SUBSET TakenBy(c, u)
    BY DEF TakenBy, Redeems
  <2>2. Cardinality(TakenBy(c, u)') <= Cardinality(TakenBy(c, u))
    BY <2>1, TakenFinite, FS_Subset
  <2>3. /\ Cardinality(TakenBy(c, u)') \in Nat /\ Cardinality(TakenBy(c, u)) \in Nat
    BY <2>1, TakenFinite, FS_Subset, FS_CardinalityType
  <2>4. CASE Exists(c)
    <3>1. UsesBy(c, u)' = UsesBy(c, u)
      BY <2>4 DEF UsesBy
    <3>2. Cardinality(UsesBy(c, u)) \in Nat
      BY <2>4, UsesFinite DEF RInv, Lists, Listed, UsesBy, Uses
    <3>3. Cardinality(TakenBy(c, u)) <= Cardinality(UsesBy(c, u))
      BY <2>4 DEF RInv, Recorded
    <3> QED BY <2>2, <2>3, <3>1, <3>2, <3>3
  <2>5. CASE ~Exists(c)
    <3>1. TakenBy(c, u) = {}
      BY <2>5 DEF TakenBy, Redeems, RInv, Grants, Found
    <3>2. Cardinality(TakenBy(c, u)') = 0
      BY <2>1, <3>1, FS_EmptySet
    <3>3. Cardinality(UsesBy(c, u)') \in Nat
      BY <1>1, UsesFinite DEF Lists, Listed, UsesBy, Uses
    <3> QED BY <3>2, <3>3
  <2> QED BY <2>4, <2>5
<1> QED BY <1>1 DEF RInv, Recorded

\* A redemption moves on, once its customer is in the list, and no one else does.
LEMMA PushRecords ==
  ASSUME RInv, Typed', Lists', Grants', NEW r \in Requests, NEW c \in Codes, Exists(c),
         NEW u \in Customers, Redeems(r, c, u), ~Taken(r), call' = call,
         coupons'[c].userIds = Append(coupons[c].userIds, u),
         \A k \in Codes : k # c => coupons'[k] = coupons[k],
         \A o \in Requests : o # r => Taken(o)' = Taken(o)
  PROVE  RInv'
<1> DEFINE list == coupons[c].userIds
           new == Len(list) + 1
<1>1. list \in Seq(Customers) /\ Len(list) \in Nat
  BY DEF RInv, Lists, Listed
<1>2. ASSUME NEW k \in Codes, NEW w \in Customers, Exists(k)', ~(k = c /\ w = u)
      PROVE  Cardinality(TakenBy(k, w)') <= Cardinality(UsesBy(k, w)')
  <2>1. TakenBy(k, w)' = TakenBy(k, w)
    BY <1>2 DEF TakenBy, Redeems
  <2>2. UsesBy(k, w)' = UsesBy(k, w)
    <3>1. CASE k # c
      BY <3>1 DEF UsesBy
    <3>2. CASE k = c
      <4>1. /\ DOMAIN Append(list, u) = 1 .. new /\ DOMAIN list = 1 .. Len(list)
            /\ \A n \in 1 .. Len(list) : Append(list, u)[n] = list[n]
            /\ Append(list, u)[new] = u
        BY <1>1
      <4>2. {n \in DOMAIN Append(list, u) : Append(list, u)[n] = w} = {n \in DOMAIN list : list[n] = w}
        BY <1>1, <1>2, <3>2, <4>1
      <4> QED BY <3>2, <4>2 DEF UsesBy
    <3> QED BY <3>1, <3>2
  <2>3. Exists(k)
    BY <1>2 DEF Exists
  <2> QED BY <2>1, <2>2, <2>3 DEF RInv, Recorded
<1>3. Cardinality(TakenBy(c, u)') <= Cardinality(UsesBy(c, u)')
  <2>1. TakenBy(c, u)' \in SUBSET (TakenBy(c, u) \union {r})
    BY DEF TakenBy, Redeems
  <2>2. r \notin TakenBy(c, u)
    BY DEF TakenBy
  <2>3. /\ IsFiniteSet(TakenBy(c, u) \union {r})
        /\ Cardinality(TakenBy(c, u) \union {r}) = Cardinality(TakenBy(c, u)) + 1
    BY <2>2, TakenFinite, FS_AddElement
  <2>4. /\ Cardinality(TakenBy(c, u)') <= Cardinality(TakenBy(c, u)) + 1
        /\ Cardinality(TakenBy(c, u)') \in Nat
    BY <2>1, <2>3, FS_Subset, FS_CardinalityType
  <2>5. UsesBy(c, u)' = UsesBy(c, u) \union {new}
    <3>1. /\ DOMAIN Append(list, u) = 1 .. new /\ DOMAIN list = 1 .. Len(list)
          /\ \A n \in 1 .. Len(list) : Append(list, u)[n] = list[n]
          /\ Append(list, u)[new] = u
      BY <1>1
    <3>2. {n \in DOMAIN Append(list, u) : Append(list, u)[n] = u}
             = {n \in DOMAIN list : list[n] = u} \union {new}
      BY <1>1, <3>1
    <3> QED BY <3>2 DEF UsesBy
  <2>6. new \notin UsesBy(c, u)
    BY <1>1 DEF UsesBy
  <2>7. IsFiniteSet(UsesBy(c, u)) /\ Cardinality(UsesBy(c, u)) \in Nat
    BY <1>1, UsesFinite DEF UsesBy, Uses
  <2>8. Cardinality(UsesBy(c, u)') = Cardinality(UsesBy(c, u)) + 1
    BY <2>5, <2>6, <2>7, FS_AddElement
  <2>9. Cardinality(TakenBy(c, u)) <= Cardinality(UsesBy(c, u))
    BY DEF RInv, Recorded
  <2>10. Cardinality(TakenBy(c, u)) \in Nat
    BY TakenFinite
  <2> QED BY <2>4, <2>7, <2>8, <2>9, <2>10
<1> QED BY <1>2, <1>3 DEF RInv, Recorded

LEMMA FoundCode ==
  ASSUME Typed, NEW r \in Requests, call[r].kind \in AllKinds
  PROVE  call[r] \in Calls /\ (call[r].kind # "MULTI" => call[r].code \in Codes)
<1>1. call[r] \in Calls
  BY DEF Typed, NoCall, AllKinds
<1> QED BY <1>1, CallFields DEF Typed, AllKinds

\* A request moves on, and pushes nobody.
LEMMA MoveRecords ==
  ASSUME RInv, Typed', NEW r \in Requests, NEW at, Goto(r, at), pc[r] # "done",
         call' = call, granted' = granted, Lists',
         \A c \in Codes : Exists(c) => coupons'[c].userIds = coupons[c].userIds /\ Exists(c)',
         at \in {"mark", "insert"} => Taken(r),
         Found(r)' => Exists(call[r].code)'
  PROVE  RInv'
<1>1. pc'[r] = at /\ \A o \in Requests : o # r => pc'[o] = pc[o]
  BY DEF Goto, RInv, Typed
<1>2. granted[r] = "none"
  BY DEF RInv, Grants
<1>3. \A o \in Requests : Taken(o)' => Taken(o)
  BY <1>1 DEF Taken
<1>4. ASSUME NEW o \in Requests, Found(o)' PROVE Exists(call[o].code)'
  <2>1. CASE o = r
    BY <1>4, <2>1
  <2>2. CASE o # r
    <3>1. Found(o)
      BY <1>1, <1>4, <2>2 DEF Found, Serves, Taken
    <3>2. Exists(call[o].code) /\ call[o].code \in Codes
      BY <3>1, FoundCode DEF RInv, Grants, Found, Serves, AllKinds
    <3> QED BY <3>2
  <2> QED BY <2>1, <2>2
<1>5. Grants'
  BY <1>1, <1>2, <1>4 DEF RInv, Grants
<1> QED BY <1>3, <1>5, KeepsRecord

LEMMA Alike ==
  ASSUME RInv, coupons' = coupons
  PROVE  Lists' /\ \A c \in Codes :
           Exists(c) => coupons'[c].userIds = coupons[c].userIds /\ Exists(c)'
BY DEF RInv, Lists, Exists

\* A move without a write, to a step where nothing needs to be found.
LEMMA FreeMove ==
  ASSUME RInv, Typed', NEW r \in Requests, NEW at, Move(r, at), pc[r] # "done",
         at \notin {"mark", "insert"},
         at \in {"update", "push"} => Exists(call[r].code)
  PROVE  RInv'
<1>1. /\ Goto(r, at) /\ call' = call /\ granted' = granted /\ coupons' = coupons
  BY DEF Move
<1>2. pc'[r] = at /\ granted[r] = "none"
  BY <1>1 DEF Goto, RInv, Typed, Grants
<1>3. Found(r)' => Exists(call[r].code)'
  BY <1>1, <1>2 DEF Found, Serves, Taken, Exists
<1> QED BY <1>1, <1>3, Alike, MoveRecords

LEMMA FailRecords ==
  ASSUME RInv, Typed', NEW r \in Requests, Fail(r), pc[r] # "done"
  PROVE  RInv'
<1>1. Move(r, "failed")
  BY DEF Fail, Move
<1> QED BY <1>1, FreeMove

\* A write of one coupon that leaves the list of users it has, or begins one.
LEMMA WriteRecords ==
  ASSUME RInv, Typed', NEW r \in Requests, NEW at, NEW c \in Codes, NEW p,
         Write(r, c, p, at), pc[r] # "done", Listed(p),
         Exists(c) => p.userIds = coupons[c].userIds,
         at \notin {"update", "push"}, at \in {"mark", "insert"} => Taken(r) /\ call[r].code = c
  PROVE  RInv'
<1>1. /\ coupons' = [coupons EXCEPT ![c] = p]
      /\ call' = call /\ granted' = granted /\ Goto(r, at)
  BY DEF Write
<1>2. /\ DOMAIN coupons' = Codes /\ coupons'[c] = p
      /\ \A k \in Codes : k # c => coupons'[k] = coupons[k]
  BY <1>1 DEF RInv, Lists
<1>3. Lists'
  BY <1>2 DEF RInv, Lists, Exists
<1>4. \A k \in Codes : Exists(k) => coupons'[k].userIds = coupons[k].userIds /\ Exists(k)'
  BY <1>2, NotListed DEF Exists
<1>5. pc'[r] = at /\ granted[r] = "none"
  BY <1>1 DEF Goto, RInv, Typed, Grants
<1>6. Found(r)' => Exists(call[r].code)'
  BY <1>1, <1>2, <1>5, NotListed DEF Found, Serves, Taken, Exists
<1> QED BY <1>1, <1>3, <1>4, <1>6, MoveRecords

LEMMA NewListed == \A r : Listed(NewCoupon(r))
BY DEF Listed, NewCoupon

LEMMA RecCreate ==
  ASSUME RInv, Typed', NEW r \in Requests, SingleFind(r) \/ SingleCreate(r) \/ MultiCreate(r)
  PROVE  RInv'
<1>1. CASE SingleFind(r)
  BY <1>1, FailRecords, FreeMove DEF SingleFind, Serves
<1>2. CASE SingleCreate(r)
  <2>1. pc[r] # "done" /\ call[r].code \in Codes
    BY <1>2, FoundCode DEF SingleCreate, Serves, RInv, AllKinds
  <2>2. CASE Exists(call[r].code)
    BY <1>2, <2>1, <2>2, FailRecords DEF SingleCreate
  <2>3. CASE ~Exists(call[r].code)
    <3>1. Write(r, call[r].code, NewCoupon(r), "done")
      BY <1>2, <2>3 DEF SingleCreate
    <3> QED BY <2>1, <2>3, <3>1, NewListed, WriteRecords
  <2> QED BY <2>2, <2>3
<1>3. CASE MultiCreate(r)
  <2> DEFINE codes == call[r].codes
  <2>1. pc[r] # "done" /\ call[r].kind = "MULTI"
    BY <1>3 DEF MultiCreate, Serves
  <2>2. codes \in Seq(Codes) /\ line[r] \in Nat \ {0}
    <3>1. call[r] \in Calls
      BY <2>1, FoundCode DEF RInv, AllKinds
    <3> QED BY <2>1, <3>1, CallFields DEF RInv, Typed
  <2>3. CASE line[r] > Len(codes)
    BY <1>3, <2>1, <2>3, FreeMove DEF MultiCreate
  <2>4. CASE ~(line[r] > Len(codes)) /\ Exists(codes[line[r]])
    BY <1>3, <2>1, <2>4, FailRecords DEF MultiCreate
  <2>5. CASE ~(line[r] > Len(codes)) /\ ~Exists(codes[line[r]])
    <3>1. codes[line[r]] \in Codes
      BY <2>2, <2>5
    <3>2. Write(r, codes[line[r]], NewCoupon(r), "find")
      BY <1>3, <2>5 DEF MultiCreate
    <3> QED BY <2>1, <2>5, <3>1, <3>2, NewListed, WriteRecords
  <2> QED BY <2>3, <2>4, <2>5
<1> QED BY <1>1, <1>2, <1>3

\* No edit is about the list of users.
LEMMA RecEdit ==
  ASSUME RInv, Typed', NEW r \in Requests, EditFind(r) \/ EditUpdate(r)
  PROVE  RInv'
<1>1. CASE EditFind(r)
  BY <1>1, FailRecords, FreeMove DEF EditFind, Serves
<1>2. CASE EditUpdate(r)
  <2> DEFINE c == call[r].code
             dto == call[r].dto
             p == Spread(coupons[c], dto)
  <2>1. /\ Write(r, c, p, "done") /\ pc[r] # "done"
        /\ call[r].kind \in {"UPDATE", "ACTIVATE"} /\ Found(r)
    BY <1>2 DEF EditUpdate, Serves, Found
  <2>2. call[r] \in Calls /\ c \in Codes
    BY <2>1, FoundCode DEF RInv, AllKinds
  <2>3. Listed(coupons[c])
    BY <2>1, <2>2 DEF RInv, Lists, Grants
  <2>4. "userIds" \notin DOMAIN dto
    <3>1. CASE call[r].kind = "ACTIVATE"
      <4>1. dto \in [status: BOOLEAN]
        BY <2>2, <3>1, CallFields DEF RInv, Typed
      <4> QED BY <4>1
    <3>2. CASE call[r].kind = "UPDATE"
      <4>1. load \in Load
        BY LoadsAssumption DEF RInv, Typed
      <4>2. dto \in Edits
        BY <2>2, <3>2, <4>1 DEF Calls, Load
      <4> QED BY <4>2, EditsAssumption
    <3> QED BY <2>1, <3>1, <3>2
  <2>5. Listed(p) /\ p.userIds = coupons[c].userIds
    BY <2>3, <2>4 DEF Listed, Spread
  <2> HIDE DEF p, c
  <2> QED BY <2>1, <2>2, <2>5, WriteRecords
<1> QED BY <1>1, <1>2

LEMMA RecRedeem ==
  ASSUME RInv, Typed', NEW r \in Requests,
         RedeemFind(r) \/ RedeemPush(r) \/ RedeemMark(r) \/ RedeemInsert(r)
  PROVE  RInv'
<1> DEFINE c == call[r].code
           u == call[r].customer
<1>1. call[r].kind = "REDEEM" /\ pc[r] # "done"
  BY DEF RedeemFind, RedeemPush, RedeemMark, RedeemInsert, Serves
<1>2. c \in Codes /\ u \in Customers
  BY <1>1, FoundCode, CallFields DEF RInv, Typed, AllKinds
<1>3. granted[r] = "none"
  BY <1>1 DEF RInv, Grants
<1>4. CASE RedeemFind(r)
  BY <1>1, <1>4, FreeMove DEF RedeemFind, Redeemable
<1>5. CASE RedeemPush(r)
  <2> DEFINE p == [coupons[c] EXCEPT !.userIds = Pushed(c, u)]
             at == IF LastOne(c, u) THEN "mark" ELSE "insert"
  <2>1. Write(r, c, p, at) /\ pc[r] = "push"
    BY <1>5 DEF RedeemPush, Serves
  <2>2. Exists(c) /\ Listed(coupons[c])
    BY <1>1, <1>2, <2>1 DEF RInv, Lists, Grants, Found, Serves
  <2>3. Pushed(c, u) \in Seq(Customers) /\ Pushed(c, u) = Append(coupons[c].userIds, u)
    BY <1>2, <2>2 DEF Pushed, Listed
  <2>4. Listed(p) /\ p.userIds = Append(coupons[c].userIds, u)
    BY <2>2, <2>3 DEF Listed
  <2>5. /\ coupons' = [coupons EXCEPT ![c] = p]
        /\ call' = call /\ granted' = granted /\ Goto(r, at)
    BY <2>1 DEF Write
  <2> HIDE DEF p
  <2>6. /\ DOMAIN coupons' = Codes /\ coupons'[c] = p
        /\ \A k \in Codes : k # c => coupons'[k] = coupons[k]
    BY <1>2, <2>5 DEF RInv, Lists
  <2>7. Lists'
    BY <2>4, <2>6 DEF RInv, Lists, Exists
  <2>8. pc'[r] = at /\ \A o \in Requests : o # r => pc'[o] = pc[o]
    BY <2>5 DEF Goto, RInv, Typed
  <2>9. \A k \in Codes : Exists(k) => Exists(k)'
    BY <2>4, <2>6, NotListed DEF Exists
  <2>10. ASSUME NEW o \in Requests, Found(o)' PROVE Exists(call[o].code)'
    <3>1. CASE o = r
      BY <1>2, <2>2, <2>5, <2>9, <3>1
    <3>2. CASE o # r
      <4>1. Found(o)
        BY <2>5, <2>8, <2>10, <3>2 DEF Found, Serves, Taken
      <4>2. Exists(call[o].code) /\ call[o].code \in Codes
        BY <4>1, FoundCode DEF RInv, Grants, Found, Serves, AllKinds
      <4> QED BY <2>5, <2>9, <4>2
    <3> QED BY <3>1, <3>2
  <2>11. Grants'
    BY <1>3, <2>5, <2>8, <2>10 DEF RInv, Grants
  <2>12. ~Taken(r) /\ Redeems(r, c, u)
    BY <1>1, <1>3, <2>1 DEF Taken, Redeems
  <2>13. \A o \in Requests : o # r => Taken(o)' = Taken(o)
    BY <2>5, <2>8 DEF Taken
  <2>14. coupons'[c].userIds = Append(coupons[c].userIds, u)
    BY <2>4, <2>6
  <2> HIDE DEF c, u
  <2> QED BY <1>2, <2>2, <2>5, <2>6, <2>7, <2>11, <2>12, <2>13, <2>14, PushRecords
<1>6. CASE RedeemMark(r)
  <2> DEFINE p == [coupons[c] EXCEPT !.used = TRUE]
  <2>1. Write(r, c, p, "insert") /\ Taken(r)
    BY <1>6 DEF RedeemMark, Serves, Taken
  <2>2. Listed(coupons[c])
    BY <1>1, <1>2, <2>1 DEF RInv, Lists, Grants, Found
  <2>3. Listed(p) /\ p.userIds = coupons[c].userIds
    BY <2>2 DEF Listed
  <2> HIDE DEF p
  <2> QED BY <1>1, <1>2, <2>1, <2>3, WriteRecords
<1>7. CASE RedeemInsert(r)
  <2>1. CASE Fail(r)
    BY <1>1, <2>1, FailRecords
  <2>2. CASE /\ granted' = [granted EXCEPT ![r] = c]
             /\ Goto(r, "done") /\ UNCHANGED <<load, coupons, now, sweep, call, line>>
    <3>1. Taken(r)
      BY <1>7 DEF RedeemInsert, Serves, Taken
    <3>2. /\ pc'[r] = "done" /\ granted'[r] = c
          /\ granted' \in [Requests -> Codes \union {"none"}]
          /\ \A o \in Requests : o # r => pc'[o] = pc[o] /\ granted'[o] = granted[o]
      BY <1>2, <2>2 DEF Goto, RInv, Typed, Grants
    <3>3. \A o \in Requests : Taken(o)' => Taken(o)
      BY <3>1, <3>2 DEF Taken
    <3>4. \A o \in Requests : Found(o)' => Found(o)
      BY <2>2, <3>2, <3>3 DEF Found, Serves
    <3>5. Grants'
      BY <1>1, <2>2, <3>2, <3>4 DEF RInv, Grants, Exists
    <3> QED BY <2>2, <3>3, <3>5, Alike, KeepsRecord
  <2> QED BY <1>7, <2>1, <2>2 DEF RedeemInsert
<1> QED BY <1>4, <1>5, <1>6, <1>7

LEMMA RecArrive == ASSUME RInv, Typed', NEW r \in Requests, Arrive(r) PROVE RInv'
<1>1. /\ pc[r] = "idle" /\ Goto(r, "find")
      /\ coupons' = coupons /\ granted' = granted
      /\ \E d \in Calls : call' = [call EXCEPT ![r] = d]
  BY DEF Arrive
<1>2. /\ pc'[r] = "find" /\ granted[r] = "none"
      /\ \A o \in Requests : o # r => pc'[o] = pc[o] /\ call'[o] = call[o]
  BY <1>1 DEF Goto, RInv, Typed, Grants
<1>3. \A o \in Requests : Taken(o)' => Taken(o) /\ call'[o] = call[o]
  BY <1>1, <1>2 DEF Taken
<1>4. \A o \in Requests : Found(o)' => Found(o) /\ call'[o] = call[o]
  BY <1>1, <1>2, <1>3 DEF Found, Serves, Taken
<1>5. Grants'
  BY <1>1, <1>2, <1>4 DEF RInv, Grants, Exists
<1> QED BY <1>1, <1>3, <1>5, Alike, KeepsRecord

\* Steps of the job, of time, and an exit: a request is only ever lost.
LEMMA RecOther ==
  ASSUME RInv, Typed', call' = call, granted' = granted, Lists',
         \A c \in Codes : Exists(c) => coupons'[c].userIds = coupons[c].userIds /\ Exists(c)',
         \A r \in Requests : pc'[r] = pc[r] \/ (pc'[r] = "crashed" /\ pc[r] # "done")
  PROVE  RInv'
<1>1. \A o \in Requests : Taken(o)' => Taken(o)
  BY DEF Taken
<1>2. \A o \in Requests : Found(o)' => Found(o)
  BY <1>1 DEF Found, Serves
<1>3. ASSUME NEW o \in Requests, Found(o)' PROVE Exists(call[o].code)'
  <2>1. Found(o) /\ Exists(call[o].code)
    BY <1>2, <1>3 DEF RInv, Grants
  <2>2. call[o].code \in Codes
    BY <2>1, FoundCode DEF RInv, Found, Serves, AllKinds
  <2> QED BY <2>1, <2>2
<1>4. Grants'
  BY <1>3 DEF RInv, Grants
<1> QED BY <1>1, <1>4, KeepsRecord

LEMMA RecCron == ASSUME RInv, Typed', NEW s \in Sweeps, Cron(s) PROVE RInv'
<1>1. CASE CronFind(s)
  BY <1>1, Alike, RecOther DEF CronFind
<1>2. CASE CronUpdate(s)
  <2>1. call' = call /\ granted' = granted /\ pc' = pc /\ DOMAIN coupons' = Codes
    BY <1>2 DEF CronUpdate
  <2>2. ASSUME NEW c \in Codes
        PROVE  \/ coupons'[c] = coupons[c]
               \/ coupons'[c] = [coupons[c] EXCEPT !.status = FALSE]
    BY <1>2 DEF CronUpdate
  <2>3. ASSUME NEW c \in Codes, Exists(c)
        PROVE  Listed(coupons'[c]) /\ coupons'[c].userIds = coupons[c].userIds
    BY <2>2, <2>3 DEF Listed, RInv, Lists
  <2>4. ASSUME NEW c \in Codes, ~Exists(c) PROVE coupons'[c] = NoCoupon
    BY <2>2, <2>4 DEF Exists, NoCoupon
  <2>5. \A c \in Codes : Exists(c)' <=> Exists(c)
    BY <2>3, <2>4, NotListed DEF Exists
  <2>6. Lists'
    BY <2>1, <2>3, <2>5 DEF Lists
  <2> QED BY <2>1, <2>3, <2>5, <2>6, RecOther
<1> QED BY <1>1, <1>2 DEF Cron

LEMMA RecInit == Init => RInv
<1> SUFFICES ASSUME Init PROVE RInv
  OBVIOUS
<1>1. Typed
  BY InvInit DEF IInv
<1>2. Lists
  BY DEF Init, Lists, Exists
<1>3. Grants
  BY DEF Init, Grants, Found, Serves, Taken
<1>4. Recorded
  BY DEF Init, Recorded, Exists
<1> QED BY <1>1, <1>2, <1>3, <1>4 DEF RInv

LEMMA RecNext == RInv /\ Typed' /\ [Next]_vars => RInv'
<1> SUFFICES ASSUME RInv, Typed', [Next]_vars PROVE RInv'
  OBVIOUS
<1>1. ASSUME NEW r \in Requests, Arrive(r) PROVE RInv'
  BY <1>1, RecArrive
<1>2. ASSUME NEW r \in Requests, Handler(r) PROVE RInv'
  BY <1>2, RecCreate, RecEdit, RecRedeem DEF Handler
<1>3. ASSUME NEW s \in Sweeps, Cron(s) PROVE RInv'
  BY <1>3, RecCron
<1>4. CASE Tick
  BY <1>4, Alike, RecOther DEF Tick
<1>5. CASE ProcessExit
  <2>1. \A r \in Requests : pc'[r] = pc[r] \/ (pc'[r] = "crashed" /\ pc[r] # "done")
    BY <1>5 DEF ProcessExit, Working, Finished
  <2> QED BY <1>5, <2>1, Alike, RecOther DEF ProcessExit
<1>6. CASE UNCHANGED vars
  BY <1>6, Alike, RecOther DEF vars
<1> QED BY <1>1, <1>2, <1>3, <1>4, <1>5, <1>6 DEF Next

\* Whatever requests, edits and exits interleave, a coupon has its customer in
\* userIds as often as orders (createOrder) were given its discount.
THEOREM EveryDiscountIsRecorded == Spec => []DiscountsAreRecorded
<1>1. ASSUME RInv PROVE DiscountsAreRecorded
  <2>1. ASSUME NEW c \in Codes, Exists(c), NEW u \in Customers
        PROVE  Cardinality(GrantsTo(c, u)) <= Cardinality(UsesBy(c, u))
    <3>1. GrantsTo(c, u) \in SUBSET TakenBy(c, u)
      BY <1>1, CodesAssumption DEF GrantsTo, TakenBy, Taken, Redeems, RInv, Grants
    <3>2. /\ Cardinality(GrantsTo(c, u)) <= Cardinality(TakenBy(c, u))
          /\ Cardinality(GrantsTo(c, u)) \in Nat /\ Cardinality(TakenBy(c, u)) \in Nat
      BY <3>1, TakenFinite, FS_Subset, FS_CardinalityType
    <3>3. Cardinality(UsesBy(c, u)) \in Nat
      BY <1>1, <2>1, UsesFinite DEF RInv, Lists, Listed, UsesBy, Uses
    <3>4. Cardinality(TakenBy(c, u)) <= Cardinality(UsesBy(c, u))
      BY <1>1, <2>1 DEF RInv, Recorded
    <3> QED BY <3>2, <3>3, <3>4
  <2> QED BY <2>1 DEF DiscountsAreRecorded
<1>2. IInv => Typed
  BY DEF IInv
<1>3. Spec => []Typed
  BY InvInit, InvNext, <1>2, PTL DEF Spec
<1> QED BY RecInit, RecNext, <1>1, <1>3, PTL DEF Spec

-----------------------------------------------------------------------------
(* One request at a time *)

\* What a step makes of a coupon: most leave all of it that matters here.
Begins(c) == ~Exists(c) /\ coupons'[c].userIds = <<>>
Same(c) ==
  /\ Exists(c) /\ coupons'[c].userIds = coupons[c].userIds
  /\ ~Edited => coupons'[c].limit = coupons[c].limit /\ coupons'[c].used = coupons[c].used
Adds(r, c) ==
  /\ Exists(c) /\ Serves(r, {"REDEEM"}, "push") /\ call[r].code = c
  /\ call[r].customer \in Customers
  /\ coupons'[c].userIds = Append(coupons[c].userIds, call[r].customer)
  /\ ~Edited => /\ coupons'[c].limit = coupons[c].limit /\ coupons'[c].used = coupons[c].used
                /\ coupons[c].limit = Len(coupons'[c].userIds) => pc'[r] = "mark"
Marks(r, c) ==
  /\ Exists(c) /\ Serves(r, {"REDEEM"}, "mark") /\ call[r].code = c
  /\ coupons'[c].userIds = coupons[c].userIds
  /\ ~Edited => coupons'[c].limit = coupons[c].limit /\ coupons'[c].used

StepOf(r) ==
  /\ load' = load /\ call' = call
  /\ \A o \in Requests \ {r} : pc'[o] = pc[o]
  /\ Working(r) /\ pc'[r] \notin {"idle", "crashed"}
  /\ \A c \in Codes : Exists(c)' => Begins(c) \/ Same(c) \/ Adds(r, c) \/ Marks(r, c)
  /\ Serves(r, {"REDEEM"}, "push")' =>
       Redeemable(call[r].code, call[r].customer) /\ coupons' = coupons
  /\ Serves(r, {"REDEEM"}, "mark") => Marks(r, call[r].code)

LEMMA GotoFrame ==
  ASSUME Typed, NEW r \in Requests, NEW at, Goto(r, at)
  PROVE  pc'[r] = at /\ \A o \in Requests \ {r} : pc'[o] = pc[o]
BY DEF Typed, Goto

LEMMA MoveOf ==
  ASSUME Typed, NEW r \in Requests, NEW at, Move(r, at) \/ (Fail(r) /\ at = "failed"), Working(r),
         at \notin {"idle", "crashed"}, ~Serves(r, {"REDEEM"}, "mark"),
         at = "push" => Redeemable(call[r].code, call[r].customer)
  PROVE  StepOf(r)
<1>1. /\ Goto(r, at) /\ load' = load /\ call' = call /\ coupons' = coupons
  BY DEF Move, Fail
<1>2. pc'[r] = at /\ \A o \in Requests \ {r} : pc'[o] = pc[o]
  BY <1>1, GotoFrame
<1>3. \A c \in Codes : Exists(c)' => Same(c)
  BY <1>1 DEF Same, Exists
<1> QED BY <1>1, <1>2, <1>3 DEF StepOf, Serves

LEMMA WriteOf ==
  ASSUME Typed, Lists, NEW r \in Requests, NEW at, NEW c \in Codes, NEW p, Write(r, c, p, at),
         Working(r), at \notin {"idle", "crashed", "push"}
  PROVE  /\ load' = load /\ call' = call /\ pc'[r] = at
         /\ \A o \in Requests \ {r} : pc'[o] = pc[o]
         /\ coupons'[c] = p
         /\ \A k \in Codes : k # c => coupons'[k] = coupons[k]
         /\ \A k \in Codes : k # c /\ Exists(k)' => Same(k)
<1>1. /\ Goto(r, at) /\ load' = load /\ call' = call /\ coupons' = [coupons EXCEPT ![c] = p]
  BY DEF Write
<1>2. coupons'[c] = p /\ \A k \in Codes : k # c => coupons'[k] = coupons[k]
  BY <1>1 DEF Lists
<1>3. \A k \in Codes : k # c /\ Exists(k)' => Same(k)
  BY <1>2 DEF Same, Exists
<1> QED BY <1>1, <1>2, <1>3, GotoFrame

LEMMA CreatesOf ==
  ASSUME Typed, Lists, NEW r \in Requests, SingleFind(r) \/ SingleCreate(r) \/ MultiCreate(r)
  PROVE  StepOf(r)
<1>1. Working(r) /\ call[r].kind \in {"SINGLE", "MULTI"} /\ pc[r] \in {"find", "create"}
  BY DEF SingleFind, SingleCreate, MultiCreate, Serves, Working, Finished
<1>2. ~Serves(r, {"REDEEM"}, "mark") /\ ~Serves(r, {"REDEEM"}, "push")
  BY <1>1 DEF Serves
<1>3. CASE Fail(r)
  BY <1>1, <1>2, <1>3, MoveOf
<1>4. ASSUME NEW at \in {"create", "done"}, Move(r, at) PROVE StepOf(r)
  BY <1>1, <1>2, <1>4, MoveOf
<1>5. ASSUME NEW c \in Codes, ~Exists(c), NEW at \in {"find", "done"}, Write(r, c, NewCoupon(r), at)
      PROVE  StepOf(r)
  <2> DEFINE p == NewCoupon(r)
  <2>1. p.userIds = <<>>
    BY DEF NewCoupon
  <2> HIDE DEF p
  <2>2. Write(r, c, p, at)
    BY <1>5 DEF p
  <2>3. /\ load' = load /\ call' = call /\ pc'[r] = at
        /\ \A o \in Requests \ {r} : pc'[o] = pc[o]
        /\ coupons'[c] = p
        /\ \A k \in Codes : k # c /\ Exists(k)' => Same(k)
    BY <1>1, <2>2, WriteOf
  <2>4. Begins(c)
    BY <1>5, <2>1, <2>3 DEF Begins
  <2> QED BY <1>1, <1>2, <2>3, <2>4 DEF StepOf, Serves
<1>6. CASE SingleFind(r)
  BY <1>3, <1>4, <1>6 DEF SingleFind
<1>7. CASE SingleCreate(r)
  <2>1. call[r].code \in Codes
    BY <1>7, FoundCode DEF SingleCreate, Serves, AllKinds
  <2> QED BY <1>3, <1>5, <1>7, <2>1 DEF SingleCreate
<1>8. CASE MultiCreate(r)
  <2> DEFINE codes == call[r].codes
  <2>1. codes \in Seq(Codes) /\ line[r] \in Nat \ {0}
    <3>1. call[r] \in Calls /\ call[r].kind = "MULTI"
      BY <1>8, FoundCode DEF MultiCreate, Serves, AllKinds
    <3> QED BY <3>1, CallFields DEF Typed
  <2>2. ~(line[r] > Len(codes)) => codes[line[r]] \in Codes
    BY <2>1
  <2> QED BY <1>3, <1>4, <1>5, <1>8, <2>2 DEF MultiCreate
<1> QED BY <1>6, <1>7, <1>8

LEMMA EditsOf ==
  ASSUME IInv, RInv, NEW r \in Requests, EditFind(r) \/ EditUpdate(r)
  PROVE  StepOf(r)
<1>1. Working(r) /\ call[r].kind \in {"UPDATE", "ACTIVATE"} /\ pc[r] \in {"find", "update"}
  BY DEF EditFind, EditUpdate, Serves, Working, Finished
<1>2. ~Serves(r, {"REDEEM"}, "mark") /\ ~Serves(r, {"REDEEM"}, "push") /\ Typed /\ Lists
  BY <1>1 DEF Serves, RInv
<1>3. CASE EditFind(r)
  BY <1>1, <1>2, <1>3, MoveOf DEF EditFind
<1>4. CASE EditUpdate(r)
  <2> DEFINE c == call[r].code
             dto == call[r].dto
             p == Spread(coupons[c], dto)
  <2>1. Write(r, c, p, "done") /\ Found(r)
    BY <1>4 DEF EditUpdate, Serves, Found
  <2>2. call[r] \in Calls /\ c \in Codes
    BY <1>1, <1>2, FoundCode DEF AllKinds
  <2>3. Exists(c) /\ Listed(coupons[c])
    BY <2>1, <2>2 DEF RInv, Lists, Grants
  <2>4. "userIds" \notin DOMAIN dto
    <3>1. CASE call[r].kind = "ACTIVATE"
      <4>1. dto \in [status: BOOLEAN]
        BY <2>2, <3>1, CallFields DEF RInv, Typed
      <4> QED BY <4>1
    <3>2. CASE call[r].kind = "UPDATE"
      <4>1. load \in Load
        BY LoadsAssumption DEF RInv, Typed
      <4>2. dto \in Edits
        BY <2>2, <3>2, <4>1 DEF Calls, Load
      <4> QED BY <4>2, EditsAssumption
    <3> QED BY <1>1, <3>1, <3>2
  <2>5. p.userIds = coupons[c].userIds
    BY <2>3, <2>4 DEF Listed, Spread
  <2>6. ASSUME ~Edited PROVE p.limit = coupons[c].limit /\ p.used = coupons[c].used
    <3>1. call[r].kind = "ACTIVATE"
      BY <1>1, <2>6 DEF Edited
    <3>2. dto \in [status: BOOLEAN]
      BY <2>2, <3>1, CallFields DEF RInv, Typed
    <3>3. coupons[c] \in Coupon
      BY <2>2, <2>3, <2>6 DEF IInv, Books, Exists
    <3> QED BY <3>2, <3>3 DEF Spread, Coupon
  <2> HIDE DEF p, c
  <2>7. /\ load' = load /\ call' = call /\ pc'[r] = "done"
        /\ \A o \in Requests \ {r} : pc'[o] = pc[o]
        /\ coupons'[c] = p
        /\ \A k \in Codes : k # c /\ Exists(k)' => Same(k)
    <3>1. PICK d \in Codes : d = c
      BY <1>2, <2>2
    <3>2. Write(r, d, p, "done")
      BY <2>1, <3>1
    <3>3. /\ load' = load /\ call' = call /\ pc'[r] = "done"
          /\ \A o \in Requests \ {r} : pc'[o] = pc[o]
          /\ coupons'[d] = p
          /\ \A k \in Codes : k # d /\ Exists(k)' => Same(k)
      BY <1>1, <1>2, <2>1, <2>2, <3>2, WriteOf
    <3> QED BY <3>1, <3>3
  <2>8. Same(c)
    BY <2>3, <2>5, <2>6, <2>7 DEF Same
  <2> QED BY <1>1, <1>2, <2>7, <2>8 DEF StepOf, Serves
<1> QED BY <1>3, <1>4

LEMMA RedeemsOf ==
  ASSUME IInv, RInv, NEW r \in Requests,
         RedeemFind(r) \/ RedeemPush(r) \/ RedeemMark(r) \/ RedeemInsert(r)
  PROVE  StepOf(r)
<1> DEFINE c == call[r].code
           u == call[r].customer
<1>1. Working(r) /\ call[r].kind = "REDEEM" /\ Typed /\ Lists
  BY DEF RedeemFind, RedeemPush, RedeemMark, RedeemInsert, Serves, RInv, Working, Finished
<1>2. c \in Codes /\ u \in Customers
  BY <1>1, FoundCode, CallFields DEF RInv, Typed, AllKinds
<1>3. CASE RedeemFind(r)
  <2>1. pc[r] = "find"
    BY <1>3 DEF RedeemFind, Serves
  <2>2. PICK at \in {"push", "done"} :
          Move(r, at) /\ (at = "push" => Redeemable(c, u))
    BY <1>3 DEF RedeemFind
  <2> QED BY <1>1, <2>1, <2>2, MoveOf DEF Serves
<1>4. CASE RedeemPush(r)
  <2> DEFINE p == [coupons[c] EXCEPT !.userIds = Pushed(c, u)]
             at == IF LastOne(c, u) THEN "mark" ELSE "insert"
  <2>1. Write(r, c, p, at) /\ Serves(r, {"REDEEM"}, "push") /\ pc[r] = "push"
    BY <1>4 DEF RedeemPush, Serves
  <2>2. Exists(c) /\ Listed(coupons[c])
    BY <1>1, <1>2, <2>1 DEF RInv, Lists, Grants, Found
  <2>3. p.userIds = Append(coupons[c].userIds, u) /\ Pushed(c, u) = p.userIds
    BY <2>2 DEF Listed, Pushed
  <2>4. ~Edited => p.limit = coupons[c].limit /\ p.used = coupons[c].used
    <3>1. ~Edited => coupons[c] \in Coupon
      BY <1>2, <2>2 DEF IInv, Books, Exists
    <3> QED BY <3>1 DEF Coupon
  <2>5. coupons[c].limit = Len(p.userIds) => at = "mark"
    BY <2>3 DEF LastOne
  <2>6. at \in {"mark", "insert"}
    OBVIOUS
  <2> HIDE DEF p, at
  <2>7. /\ load' = load /\ call' = call /\ pc'[r] = at
        /\ \A o \in Requests \ {r} : pc'[o] = pc[o]
        /\ coupons'[c] = p
        /\ \A k \in Codes : k # c /\ Exists(k)' => Same(k)
    <3>1. PICK d \in Codes : d = c
      BY <1>2, <2>1
    <3> HIDE DEF c, u
    <3>2. PICK q : q = p /\ Write(r, d, q, at)
      BY <2>1, <3>1
    <3>3. /\ load' = load /\ call' = call /\ pc'[r] = at
          /\ \A o \in Requests \ {r} : pc'[o] = pc[o]
          /\ coupons'[d] = q
          /\ \A k \in Codes : k # d => coupons'[k] = coupons[k]
      <4>1. Typed /\ Lists /\ Working(r) /\ Write(r, d, q, at) /\ at \in {"mark", "insert"}
        BY <1>1, <2>6, <3>2
      <4>2. load' = load /\ call' = call /\ pc'[r] = at /\ coupons'[d] = q
        BY <4>1, WriteOf
      <4>3. /\ \A o \in Requests \ {r} : pc'[o] = pc[o]
            /\ \A k \in Codes : k # d => coupons'[k] = coupons[k]
        BY <4>1, WriteOf
      <4> QED BY <4>2, <4>3
    <3>4. \A k \in Codes : k # d /\ Exists(k)' => Same(k)
      BY <3>3 DEF Same, Exists
    <3> QED BY <3>1, <3>2, <3>3, <3>4
  <2>8. Adds(r, c)
    BY <1>2, <2>1, <2>2, <2>3, <2>4, <2>5, <2>7 DEF Adds
  <2> HIDE DEF c
  <2> QED BY <1>1, <2>1, <2>6, <2>7, <2>8 DEF StepOf, Serves
<1>5. CASE RedeemMark(r)
  <2> DEFINE p == [coupons[c] EXCEPT !.used = TRUE]
  <2>1. Write(r, c, p, "insert") /\ Serves(r, {"REDEEM"}, "mark") /\ pc[r] = "mark"
    BY <1>5 DEF RedeemMark, Serves
  <2>2. Exists(c) /\ Listed(coupons[c])
    BY <1>1, <1>2, <2>1 DEF RInv, Lists, Grants, Found, Taken, Serves
  <2>3. p.userIds = coupons[c].userIds
    BY <2>2 DEF Listed
  <2>4. ~Edited => p.limit = coupons[c].limit /\ p.used
    <3>1. ~Edited => coupons[c] \in Coupon
      BY <1>2, <2>2 DEF IInv, Books, Exists
    <3> QED BY <3>1 DEF Coupon
  <2> HIDE DEF p
  <2>5. /\ load' = load /\ call' = call /\ pc'[r] = "insert"
        /\ \A o \in Requests \ {r} : pc'[o] = pc[o]
        /\ coupons'[c] = p
        /\ \A k \in Codes : k # c /\ Exists(k)' => Same(k)
    <3>1. PICK d \in Codes : d = c
      BY <1>2, <2>1
    <3> HIDE DEF c, u
    <3>2. PICK q : q = p /\ Write(r, d, q, "insert")
      BY <2>1, <3>1
    <3>3. /\ load' = load /\ call' = call /\ pc'[r] = "insert"
          /\ \A o \in Requests \ {r} : pc'[o] = pc[o]
          /\ coupons'[d] = q
          /\ \A k \in Codes : k # d => coupons'[k] = coupons[k]
      <4>1. Typed /\ Lists /\ Working(r) /\ Write(r, d, q, "insert")
        BY <1>1, <3>2
      <4>2. load' = load /\ call' = call /\ pc'[r] = "insert" /\ coupons'[d] = q
        BY <4>1, WriteOf
      <4>3. /\ \A o \in Requests \ {r} : pc'[o] = pc[o]
            /\ \A k \in Codes : k # d => coupons'[k] = coupons[k]
        BY <4>1, WriteOf
      <4> QED BY <4>2, <4>3
    <3>4. \A k \in Codes : k # d /\ Exists(k)' => Same(k)
      BY <3>3 DEF Same, Exists
    <3> QED BY <3>1, <3>2, <3>3, <3>4
  <2>6. Marks(r, c)
    BY <2>1, <2>2, <2>3, <2>4, <2>5 DEF Marks
  <2> QED BY <1>1, <2>5, <2>6 DEF StepOf, Serves
<1>6. CASE RedeemInsert(r)
  <2>1. pc[r] = "insert"
    BY <1>6 DEF RedeemInsert, Serves
  <2>2. /\ load' = load /\ call' = call /\ coupons' = coupons
        /\ \E at \in {"failed", "done"} : Goto(r, at)
    BY <1>6 DEF RedeemInsert, Fail
  <2>3. pc'[r] \in {"failed", "done"} /\ \A o \in Requests \ {r} : pc'[o] = pc[o]
    BY <1>1, <2>2, GotoFrame
  <2>4. \A k \in Codes : Exists(k)' => Same(k)
    BY <2>2 DEF Same, Exists
  <2> QED BY <1>1, <2>1, <2>2, <2>3, <2>4 DEF StepOf, Serves
<1> QED BY <1>3, <1>4, <1>5, <1>6

LEMMA HandlerOf ==
  ASSUME IInv, RInv, NEW r \in Requests, Handler(r)
  PROVE  StepOf(r)
BY CreatesOf, EditsOf, RedeemsOf DEF Handler, RInv

Serial == load.atOnce = 1
Pushing(r) == Serves(r, {"REDEEM"}, "push")
Marking(r, c) == Serves(r, {"REDEEM"}, "mark") /\ call[r].code = c

Once(c) ==
  \A m, n \in DOMAIN coupons[c].userIds :
    coupons[c].userIds[m] = coupons[c].userIds[n] => m = n

\* A coupon that is full is marked, or about to be.
Within(c) ==
  coupons[c].limit > 0 =>
    /\ Len(coupons[c].userIds) <= coupons[c].limit
    /\ Len(coupons[c].userIds) = coupons[c].limit =>
         coupons[c].used \/ \E r \in Requests : Marking(r, c)

Alone == \A r, o \in Requests : Working(r) /\ Working(o) => r = o

OnceInv ==
  Serial =>
    /\ Alone
    /\ \A c \in Codes : Exists(c) => Once(c)
    /\ \A r \in Requests : Pushing(r) => call[r].customer \notin Users(call[r].code)

LimitInv ==
  (Serial /\ ~Edited /\ ~Crashed) =>
    /\ \A c \in Codes : Exists(c) => Within(c)
    /\ \A r \in Requests : Pushing(r) => ~coupons[call[r].code].used

LEMMA ArriveAlone ==
  ASSUME Typed, Serial, Alone, NEW r \in Requests, Arrive(r)
  PROVE  /\ Alone' /\ \A o \in Requests : ~Working(o)
         /\ \A o \in Requests : Working(o)' => pc'[o] = "find"
<1> DEFINE W == {o \in Requests : Working(o)}
<1>1. Cardinality(W) < 1 /\ Goto(r, "find")
  BY DEF Arrive, Serial
<1>2. ASSUME NEW o \in W PROVE FALSE
  <2>1. W = {o}
    BY DEF Alone
  <2>2. Cardinality(W) = 1
    BY <2>1, FS_Singleton
  <2> QED BY <1>1, <2>2
<1>3. \A o \in Requests : Working(o)' => o = r
  BY <1>1, <1>2, GotoFrame DEF Working
<1> QED BY <1>1, <1>2, <1>3, GotoFrame DEF Alone

LEMMA NextOnce ==
  ASSUME IInv, RInv, RInv', OnceInv, [Next]_vars
  PROVE  OnceInv'
<1> SUFFICES ASSUME Serial' PROVE OnceInv'
  BY DEF OnceInv
<1>1. load' = load => Serial /\ Alone /\ Typed
  BY DEF OnceInv, Serial, RInv
\* The lists stay as they are, or begin.
<1>2. ASSUME load' = load, Alone',
             \A c \in Codes : Exists(c)' =>
               Begins(c) \/ (Exists(c) /\ coupons'[c].userIds = coupons[c].userIds),
             \A r \in Requests : Pushing(r)' => Pushing(r) /\ call'[r] = call[r]
      PROVE  OnceInv'
  <2>1. ASSUME NEW c \in Codes, Exists(c)' PROVE Once(c)'
    <3>1. CASE Begins(c)
      <4>1. DOMAIN coupons'[c].userIds = {}
        BY <3>1 DEF Begins
      <4> QED BY <4>1 DEF Once
    <3>2. CASE Exists(c) /\ coupons'[c].userIds = coupons[c].userIds
      BY <1>1, <1>2, <3>2 DEF OnceInv, Once
    <3> QED BY <1>2, <2>1, <3>1, <3>2
  <2>2. ASSUME NEW r \in Requests, Pushing(r)' PROVE (call[r].customer \notin Users(call[r].code))'
    <3>1. Pushing(r) /\ call'[r] = call[r]
      BY <1>2, <2>2
    <3>2. call[r].code \in Codes /\ Exists(call[r].code) /\ Exists(call[r].code)'
      <4>1. Found(r) /\ Found(r)'
        BY <2>2, <3>1 DEF Pushing, Found
      <4> QED BY <3>1, <4>1, FoundCode DEF RInv, Grants, Pushing, Serves, AllKinds
    <3>3. Users(call[r].code)' = Users(call[r].code)
      BY <1>2, <3>1, <3>2 DEF Users, Begins
    <3> QED BY <1>1, <1>2, <3>1, <3>3 DEF OnceInv
  <2> QED BY <1>2, <2>1, <2>2 DEF OnceInv
<1>3. ASSUME NEW r \in Requests, Arrive(r) PROVE OnceInv'
  <2>1. load' = load /\ coupons' = coupons
    BY <1>3 DEF Arrive
  <2>2. Alone' /\ \A o \in Requests : ~Pushing(o)'
    BY <1>1, <1>3, <2>1, ArriveAlone DEF Pushing, Serves, Working, Finished
  <2> QED BY <1>2, <2>1, <2>2 DEF Exists
<1>4. ASSUME NEW r \in Requests, Handler(r) PROVE OnceInv'
  <2>1. StepOf(r)
    BY <1>4, HandlerOf
  <2>2. load' = load /\ call' = call /\ Serial /\ Alone /\ Working(r)
    BY <1>1, <2>1 DEF StepOf
  <2>3. \A o \in Requests : Working(o)' => o = r
    BY <2>1, <2>2 DEF Alone, StepOf, Working
  <2>4. Alone'
    BY <2>3 DEF Alone
  <2>5. ASSUME NEW c \in Codes, Exists(c)' PROVE Once(c)'
    <3>1. CASE Begins(c)
      <4>1. DOMAIN coupons'[c].userIds = {}
        BY <3>1 DEF Begins
      <4> QED BY <4>1 DEF Once
    <3>2. CASE Exists(c) /\ coupons'[c].userIds = coupons[c].userIds
      BY <2>2, <3>2 DEF OnceInv, Once
    <3>3. CASE Adds(r, c)
      <4> DEFINE list == coupons[c].userIds
                 u == call[r].customer
                 new == Append(list, u)
                 last == Len(list) + 1
      <4>1. /\ list \in Seq(Customers) /\ u \in Customers /\ coupons'[c].userIds = new
            /\ \A n \in DOMAIN list : list[n] # u
            /\ \A m, n \in DOMAIN list : list[m] = list[n] => m = n
        BY <2>2, <3>3 DEF Adds, RInv, Lists, Listed, OnceInv, Once, Pushing, Users
      <4>2. /\ DOMAIN new = DOMAIN list \union {last} /\ new[last] = u
            /\ \A n \in DOMAIN list : new[n] = list[n]
        BY <4>1
      <4> HIDE DEF new, last, list, u
      <4>3. \A m, n \in DOMAIN new : new[m] = new[n] => m = n
        BY <4>1, <4>2
      <4> QED BY <4>1, <4>3 DEF Once
    <3> QED BY <2>1, <2>5, <3>1, <3>2, <3>3 DEF StepOf, Same, Marks
  <2>6. ASSUME NEW o \in Requests, Pushing(o)'
        PROVE  (call[o].customer \notin Users(call[o].code))'
    <3>1. o = r
      BY <2>3, <2>6 DEF Pushing, Serves, Working, Finished
    <3> QED BY <2>1, <2>2, <2>6, <3>1 DEF StepOf, Pushing, Redeemable, Users
  <2> QED BY <2>4, <2>5, <2>6 DEF OnceInv
<1>5. ASSUME NEW s \in Sweeps, Cron(s) PROVE OnceInv'
  <2>1. load' = load /\ call' = call /\ pc' = pc
    BY <1>5 DEF Cron, CronFind, CronUpdate
  <2>2. ASSUME NEW c \in Codes, Exists(c)'
        PROVE  coupons'[c].userIds = coupons[c].userIds /\ Exists(c)
    <3>1. \/ coupons'[c] = coupons[c]
          \/ coupons'[c] = [coupons[c] EXCEPT !.status = FALSE]
      BY <1>5 DEF Cron, CronFind, CronUpdate
    <3>2. Exists(c)
      BY <2>2, <3>1 DEF Exists, NoCoupon
    <3> QED BY <3>1, <3>2 DEF RInv, Lists, Listed
  <2> QED BY <1>1, <1>2, <2>1, <2>2 DEF Alone, Working, Pushing, Serves
<1>6. CASE Tick
  BY <1>1, <1>2, <1>6 DEF Tick, Alone, Working, Pushing, Serves, Exists
<1>7. CASE ProcessExit
  <2>1. load' = load /\ coupons' = coupons /\ \A o \in Requests : pc'[o] \in {"idle"} \union Finished
    BY <1>7 DEF ProcessExit, Working, Finished
  <2>2. Alone' /\ \A o \in Requests : ~Pushing(o)'
    BY <2>1 DEF Alone, Working, Pushing, Serves, Finished
  <2> QED BY <1>2, <2>1, <2>2 DEF Exists
<1>8. CASE UNCHANGED vars
  BY <1>1, <1>2, <1>8 DEF vars, Alone, Working, Pushing, Serves, Exists
<1> QED BY <1>3, <1>4, <1>5, <1>6, <1>7, <1>8 DEF Next

LEMMA NextLimit ==
  ASSUME IInv, IInv', RInv, RInv', OnceInv, LimitInv, [Next]_vars
  PROVE  LimitInv'
<1> SUFFICES ASSUME Serial', ~Edited', ~Crashed' PROVE LimitInv'
  BY DEF LimitInv
<1>1. ASSUME load' = load, ~Edited, ~Crashed
      PROVE  /\ Serial /\ Alone
             /\ \A c \in Codes : Exists(c) => Within(c)
             /\ \A r \in Requests : Pushing(r) => ~coupons[call[r].code].used
  BY <1>1 DEF LimitInv, OnceInv, Serial
<1>2. \A c \in Codes : /\ Exists(c) /\ ~Edited => coupons[c] \in Coupon
                       /\ Exists(c)' => coupons'[c] \in Coupon
  BY DEF IInv, Books, Exists
<1>3. \A p \in Coupon : p.limit \in Nat /\ Len(p.userIds) \in Nat
  BY DEF Coupon
\* Steps of which a coupon has nothing, and which no request is at.
<1>4. ASSUME load' = load, ~Edited, ~Crashed,
             \A c \in Codes : Exists(c)' => Same(c),
             \A r \in Requests : Pushing(r)' => Pushing(r) /\ call'[r] = call[r],
             \A r \in Requests, c \in Codes : Marking(r, c) => Marking(r, c)'
      PROVE  LimitInv'
  <2>1. ASSUME NEW c \in Codes, Exists(c)' PROVE Within(c)'
    BY <1>1, <1>4, <2>1 DEF Same, Within
  <2>2. ASSUME NEW r \in Requests, Pushing(r)' PROVE ~coupons'[call'[r].code].used
    <3>1. Pushing(r) /\ call'[r] = call[r] /\ Found(r)'
      BY <1>4, <2>2 DEF Pushing, Found
    <3>2. call[r].code \in Codes
      BY <3>1, FoundCode DEF RInv, Pushing, Serves, AllKinds
    <3>3. Exists(call[r].code)'
      BY <3>1 DEF RInv, Grants
    <3> QED BY <1>1, <1>4, <3>1, <3>2, <3>3 DEF Same
  <2> QED BY <2>1, <2>2 DEF LimitInv
<1>5. ASSUME NEW r \in Requests, Arrive(r) PROVE LimitInv'
  <2>1. /\ load' = load /\ coupons' = coupons /\ Goto(r, "find") /\ pc[r] = "idle"
        /\ \E d \in Calls : call' = [call EXCEPT ![r] = d]
    BY <1>5 DEF Arrive
  <2>2. /\ \A o \in Requests \ {r} : pc'[o] = pc[o] /\ call'[o] = call[o]
        /\ pc'[r] = "find" /\ call[r] = NoCall
    BY <2>1, GotoFrame DEF RInv, Typed
  <2>3. ~Edited /\ ~Crashed
    BY <2>1, <2>2 DEF Edited, Crashed, NoCall
  <2>4. \A c \in Codes : Exists(c)' => Same(c)
    BY <2>1 DEF Same, Exists
  <2>5. /\ \A o \in Requests : Pushing(o)' => Pushing(o) /\ call'[o] = call[o]
        /\ \A o \in Requests, c \in Codes : Marking(o, c) => Marking(o, c)'
    BY <2>1, <2>2 DEF Pushing, Marking, Serves
  <2> QED BY <1>4, <2>1, <2>3, <2>4, <2>5
<1>6. ASSUME NEW r \in Requests, Handler(r) PROVE LimitInv'
  <2>1. StepOf(r)
    BY <1>6, HandlerOf
  <2>2. load' = load /\ call' = call /\ ~Edited /\ ~Crashed /\ Working(r)
    BY <2>1 DEF StepOf, Edited, Crashed, Working, Finished
  <2>3. \A o \in Requests : Working(o) => o = r
    BY <1>1, <2>2 DEF Alone
  <2>4. \A o \in Requests, c \in Codes : Marking(o, c) => o = r
    BY <2>3 DEF Marking, Serves, Working, Finished
  <2>5. ASSUME NEW c \in Codes, Exists(c)' PROVE Within(c)'
    <3>1. CASE Begins(c)
      <4>1. Len(coupons'[c].userIds) = 0
        BY <3>1 DEF Begins
      <4> QED BY <1>2, <1>3, <2>5, <4>1 DEF Within
    <3>2. CASE Same(c) /\ ~Marking(r, c)
      BY <1>1, <2>2, <2>4, <3>2 DEF Same, Within
    <3>3. CASE Marking(r, c) \/ Marks(r, c)
      <4>1. Marks(r, c)
        BY <2>1, <3>3 DEF StepOf, Marking
      <4> QED BY <1>1, <2>2, <4>1 DEF Marks, Within
    <3>4. CASE Adds(r, c)
      <4>1. /\ coupons[c] \in Coupon /\ coupons'[c] \in Coupon
            /\ coupons'[c].limit = coupons[c].limit
            /\ coupons'[c].userIds = Append(coupons[c].userIds, call[r].customer)
            /\ coupons[c].limit = Len(coupons'[c].userIds) => pc'[r] = "mark"
            /\ Pushing(r) /\ call[r].code = c /\ Within(c)
        BY <1>1, <1>2, <2>2, <2>5, <3>4 DEF Adds, Pushing
      <4>2. ~coupons[c].used /\ \A o \in Requests : ~Marking(o, c)
        BY <1>1, <2>2, <2>4, <4>1 DEF Pushing, Marking, Serves
      <4>3. coupons[c].limit > 0 => Len(coupons[c].userIds) < coupons[c].limit
        BY <1>3, <4>1, <4>2 DEF Within
      <4>4. Len(coupons'[c].userIds) = Len(coupons[c].userIds) + 1
        BY <4>1 DEF Coupon
      <4>5. pc'[r] = "mark" => Marking(r, c)'
        BY <2>2, <4>1 DEF Marking, Pushing, Serves
      <4> QED BY <1>3, <4>1, <4>3, <4>4, <4>5 DEF Within
    <3> QED BY <2>1, <2>5, <3>1, <3>2, <3>3, <3>4 DEF StepOf
  <2>6. ASSUME NEW o \in Requests, Pushing(o)' PROVE ~coupons'[call'[o].code].used
    <3>1. o = r
      BY <2>1, <2>3, <2>6 DEF StepOf, Pushing, Serves, Working, Finished
    <3> QED BY <2>1, <2>2, <2>6, <3>1 DEF StepOf, Pushing, Redeemable
  <2> QED BY <2>5, <2>6 DEF LimitInv
<1>7. ASSUME NEW s \in Sweeps, Cron(s) PROVE LimitInv'
  <2>1. load' = load /\ call' = call /\ pc' = pc
    BY <1>7 DEF Cron, CronFind, CronUpdate
  <2>2. ~Edited /\ ~Crashed
    BY <2>1 DEF Edited, Crashed
  <2>3. ASSUME NEW c \in Codes, Exists(c)' PROVE Same(c)
    <3>1. \/ coupons'[c] = coupons[c]
          \/ coupons'[c] = [coupons[c] EXCEPT !.status = FALSE]
      BY <1>7 DEF Cron, CronFind, CronUpdate
    <3>2. Exists(c)
      BY <2>3, <3>1 DEF Exists, NoCoupon
    <3>3. coupons[c] \in Coupon
      BY <1>2, <2>2, <3>2
    <3> QED BY <3>1, <3>2, <3>3 DEF Same, Coupon
  <2> QED BY <1>4, <2>1, <2>2, <2>3 DEF Pushing, Marking, Serves
<1>8. CASE Tick
  BY <1>4, <1>8 DEF Tick, Pushing, Marking, Serves, Exists, Same, Edited, Crashed
<1>9. CASE ProcessExit
  <2>1. \E r \in Requests : pc'[r] = "crashed"
    BY <1>9 DEF ProcessExit
  <2> QED BY <2>1 DEF Crashed
<1>10. CASE UNCHANGED vars
  BY <1>4, <1>10 DEF vars, Pushing, Marking, Serves, Exists, Same, Edited, Crashed
<1> QED BY <1>5, <1>6, <1>7, <1>8, <1>9, <1>10 DEF Next

LEMMA SerialInvariant == Spec => [](IInv /\ RInv /\ OnceInv /\ LimitInv)
<1>1. Init => OnceInv /\ LimitInv
  BY DEF Init, OnceInv, LimitInv, Alone, Working, Pushing, Serves, Exists
<1>2. IInv => Typed
  BY DEF IInv
<1> QED BY <1>1, <1>2, InvInit, InvNext, RecInit, RecNext, NextOnce, NextLimit, PTL DEF Spec

\* One request at a time, a customer is in the list of a coupon once, whatever
\* owners edit or switch meanwhile and wherever the process exits.
THEOREM OncePerCustomer == Spec => []OncePerCustomerWhenSerial
<1>1. ASSUME RInv, OnceInv PROVE OncePerCustomerWhenSerial
  <2> SUFFICES ASSUME Serial, NEW c \in Codes, Exists(c), NEW u \in Customers
               PROVE  Cardinality(UsesBy(c, u)) <= 1
    BY DEF OncePerCustomerWhenSerial, Serial
  <2>1. \A m, n \in UsesBy(c, u) : m = n
    BY <1>1 DEF OnceInv, Once, UsesBy
  <2>2. CASE UsesBy(c, u) = {}
    BY <2>2, FS_EmptySet
  <2>3. ASSUME NEW n \in UsesBy(c, u) PROVE Cardinality(UsesBy(c, u)) <= 1
    <3>1. UsesBy(c, u) = {n} /\ Cardinality({n}) = 1
      BY <2>1, FS_Singleton
    <3> QED BY <3>1
  <2> QED BY <2>2, <2>3
<1> QED BY <1>1, SerialInvariant, PTL

\* One request at a time, no more customers redeem a coupon than its limit says, as
\* long as nobody edits coupons and no redemption was lost before it marked one.
THEOREM LimitRespected == Spec => []LimitRespectedWhenSerial
<1>1. LimitInv => LimitRespectedWhenSerial
  BY DEF LimitInv, Within, LimitRespectedWhenSerial, Serial
<1> QED BY <1>1, SerialInvariant, PTL

=============================================================================
