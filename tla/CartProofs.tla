----------------------------- MODULE CartProofs -----------------------------
(***************************************************************************)
(* While prices stay, every element of a cart is worth what it holds, for  *)
(* any items, requests and interleaving.  One request at a time, a cart is *)
(* for one entity, subTotal is the sum of its elements, and a customer     *)
(* order empties no other cart than its own.                               *)
(***************************************************************************)
EXTENDS Cart, ArraysProofs, FiniteSetTheorems

States == {"idle", "find", "reset", "target", "price", "priceFirst", "set", "push", "pull",
           "replace", "findCart", "clear"} \union Finished
Item == [stockItemId: StockItems \union {"none"}, qty: Int, sellingPrice: Nat, itemTotal: Int]

\* What an element may hold: sums of what may be asked for, and units.
Amount(q) ==
  /\ q >= 0
  /\ 0 \notin load.qtys => q > 0
  /\ WholeUnits => Whole(q)

\* Worth as much as all it holds, at a price there is.
Worth(item) ==
  /\ Amount(item.qty)
  /\ item.sellingPrice \in load.prices
  /\ item.itemTotal = item.qty * item.sellingPrice

\* A request of an AddItemDto has an item of worth once it has read the price;
\* the others have one when they write it.
Holds(r) ==
  \/ pc[r] \in {"set", "push", "replace"}
  \/ call[r].kind = "ADD" /\ pc[r] = "target"

Typed ==
  /\ load \in Loads
  /\ Cart \in [entityId: Entities, cartItems: Seq(Item), subTotal: Int]
  /\ sellingPrice \in [StockItems -> load.prices]
  /\ pc \in [Requests -> States]
  /\ call \in [Requests -> Calls \union {NoCall}]
  /\ local \in [Requests -> [subTotal: Int, item: Item]]

CInv ==
  /\ Typed
  /\ FixedPrices =>
       /\ \A n \in DOMAIN Cart.cartItems : Worth(Cart.cartItems[n])
       /\ \A r \in Requests : Holds(r) => Worth(local[r].item)

-----------------------------------------------------------------------------
(* Arithmetic *)

LEMMA Distributes == \A q, u, p \in Int : (q + u) * p = q * p + u * p
OBVIOUS

LEMMA Products == \A q, p \in Int : q * p \in Int
OBVIOUS

LEMMA Negates == \A u, p \in Int : (-u) * p = -(u * p)
OBVIOUS

LEMMA Grows == \A k, u \in Nat \ {0} : k * u >= k /\ k * u >= u
OBVIOUS

\* Whole units, and one more or one less of them.
LEMMA WholeSum ==
  ASSUME NEW q \in Nat, NEW p \in Nat, Whole(q), Whole(p)
  PROVE  Whole(q + p)
<1>1. PICK k \in 1 .. q : q = k * Unit
  BY DEF Whole
<1>2. PICK l \in 1 .. p : p = l * Unit
  BY DEF Whole
<1>3. q + p = (k + l) * Unit
  BY <1>1, <1>2, Distributes, NumbersAssumption
<1>4. k + l \in 1 .. q + p
  OBVIOUS
<1> QED BY <1>3, <1>4 DEF Whole

LEMMA WholeOne ==
  /\ Whole(Unit)
  /\ \A q \in Nat : Whole(q) /\ q <= Unit => q = Unit
<1>1. Unit \in Nat \ {0} /\ 1 \in 1 .. Unit /\ Unit = 1 * Unit
  BY NumbersAssumption
<1>2. ASSUME NEW q \in Nat, Whole(q), q <= Unit PROVE q = Unit
  <2>1. PICK k \in 1 .. q : q = k * Unit
    BY <1>2 DEF Whole
  <2>2. k \in Nat \ {0}
    OBVIOUS
  <2>3. k * Unit >= Unit
    BY <1>1, <2>2, Grows
  <2> QED BY <1>1, <1>2, <2>1, <2>3
<1> QED BY <1>1, <1>2 DEF Whole

LEMMA WholeLess ==
  ASSUME NEW q \in Nat, Whole(q), q > Unit
  PROVE  Whole(q - Unit)
<1>1. PICK k \in 1 .. q : q = k * Unit
  BY DEF Whole
<1>2. Unit \in Nat \ {0} /\ k \in Nat \ {0}
  BY NumbersAssumption
<1>3. k # 1
  BY <1>1, <1>2
<1> DEFINE l == k - 1
<1>4. l \in Nat \ {0} /\ k = l + 1
  BY <1>2, <1>3
<1> HIDE DEF l
<1>5. q = l * Unit + 1 * Unit
  BY <1>1, <1>2, <1>4, Distributes
<1>6. q - Unit = l * Unit /\ l * Unit >= l
  <2>1. l * Unit \in Int /\ l * Unit >= l
    BY <1>2, <1>4, Products, Grows
  <2> QED BY <1>2, <1>5, <2>1
<1>7. l \in 1 .. q - Unit
  BY <1>2, <1>4, <1>6
<1> QED BY <1>6, <1>7 DEF Whole

\* What is added or taken off leaves an amount.
LEMMA Amounts ==
  ASSUME NEW q \in Int, Amount(q)
  PROVE  /\ \A p \in Int : Amount(p) => Amount(q + p)
         /\ Amount(Unit) /\ Amount(q + Unit)
         /\ q > Unit => Amount(q - Unit)
<1>1. q \in Nat /\ Unit \in Nat \ {0}
  BY NumbersAssumption DEF Amount
<1>2. ASSUME NEW p \in Int, Amount(p) PROVE Amount(q + p)
  <2>1. p \in Nat
    BY <1>2 DEF Amount
  <2>2. WholeUnits => Whole(q + p)
    BY <1>1, <1>2, <2>1, WholeSum DEF Amount
  <2> QED BY <1>1, <1>2, <2>1, <2>2 DEF Amount
<1>3. Amount(Unit)
  BY <1>1, WholeOne DEF Amount
<1>4. q > Unit => Amount(q - Unit)
  BY <1>1, WholeLess DEF Amount
<1> QED BY <1>1, <1>2, <1>3, <1>4

LEMMA ChangedType ==
  ASSUME NEW item \in Item, NEW units \in Int, NEW price \in Nat
  PROVE  /\ Changed(item, units, price) \in Item
         /\ Changed(item, units, price).qty = item.qty + units
         /\ Changed(item, units, price).sellingPrice = item.sellingPrice
         /\ Changed(item, units, price).itemTotal = item.itemTotal + units * price
<1>1. units * price \in Int /\ item.qty \in Int /\ item.itemTotal \in Int
  BY Products DEF Item
<1> DEFINE q == item.qty + units
           t == item.itemTotal + units * price
<1>2. q \in Int /\ t \in Int
  BY <1>1
<1>3. Changed(item, units, price) = [item EXCEPT !.qty = q, !.itemTotal = t]
  BY DEF Changed
<1> HIDE DEF q, t
<1>4. /\ Changed(item, units, price) \in Item
      /\ Changed(item, units, price).qty = q
      /\ Changed(item, units, price).sellingPrice = item.sellingPrice
      /\ Changed(item, units, price).itemTotal = t
  BY <1>2, <1>3 DEF Item
<1> QED BY <1>4 DEF q, t

\* At the price of the element, an element of worth stays one.
LEMMA ChangedWorth ==
  ASSUME NEW item \in Item, NEW units \in Int, Amount(item.qty + units), Worth(item)
  PROVE  Worth(Changed(item, units, item.sellingPrice))
<1>1. /\ item.qty \in Int /\ item.sellingPrice \in Nat /\ item.sellingPrice \in Int
  BY DEF Item
<1>2. (item.qty + units) * item.sellingPrice
        = item.qty * item.sellingPrice + units * item.sellingPrice
  BY <1>1, Distributes
<1> QED BY <1>1, <1>2, ChangedType DEF Worth

-----------------------------------------------------------------------------
(* Steps *)

LEMMA Loaded == Typed => load.prices \subseteq Nat
BY LoadsAssumption DEF Typed, Load

\* A request moves on and remembers something.
LEMMA LocalStep ==
  ASSUME CInv, NEW r \in Requests, NEW at \in States, Goto(r, at),
         NEW memory \in [subTotal: Int, item: Item],
         local' = [local EXCEPT ![r] = memory],
         UNCHANGED <<load, Cart, sellingPrice, call>>,
         FixedPrices /\ Holds(r)' => Worth(memory.item)
  PROVE  CInv'
<1>1. Typed'
  BY DEF CInv, Typed, Goto, Calls
<1>2. /\ FixedPrices' = FixedPrices /\ \A item : Worth(item)' = Worth(item)
  BY DEF FixedPrices, Worth, Amount, WholeUnits, Whole
<1>3. local'[r] = memory /\ \A o \in Requests : o # r => local'[o] = local[o] /\ pc'[o] = pc[o]
  BY DEF CInv, Typed, Goto
<1>4. \A o \in Requests : o # r => Holds(o)' = Holds(o)
  BY <1>3 DEF Holds
<1> QED BY <1>1, <1>2, <1>3, <1>4 DEF CInv, FixedPrices

LEMMA MoveStep ==
  ASSUME CInv, NEW r \in Requests, NEW at \in States, Move(r, at),
         FixedPrices /\ Holds(r)' => Worth(local[r].item)
  PROVE  CInv'
<1>1. /\ Goto(r, at) /\ local' = local /\ UNCHANGED <<load, Cart, sellingPrice, call>>
  BY DEF Move
<1>2. local' = [local EXCEPT ![r] = local[r]] /\ local[r] \in [subTotal: Int, item: Item]
  BY <1>1 DEF CInv, Typed
<1> QED BY <1>1, <1>2, LocalStep

LEMMA FailStep == ASSUME CInv, NEW r \in Requests, Fail(r) PROVE CInv'
<1>1. Move(r, "failed")
  BY DEF Fail
<1>2. pc'[r] = "failed"
  BY <1>1 DEF Move, Goto, CInv, Typed
<1> QED BY <1>1, <1>2, MoveStep DEF Holds, States, Finished

\* A request writes the cart, and is done.
LEMMA WriteStep ==
  ASSUME CInv, NEW r \in Requests,
         NEW cart \in [entityId: Entities, cartItems: Seq(Item), subTotal: Int], Write(r, cart),
         FixedPrices => \A n \in DOMAIN cart.cartItems : Worth(cart.cartItems[n])
  PROVE  CInv'
<1>1. /\ Cart' = cart /\ Goto(r, "done") /\ UNCHANGED <<load, sellingPrice, call, local>>
  BY DEF Write
<1>2. Typed'
  BY <1>1 DEF CInv, Typed, Goto, Calls, States, Finished
<1>3. \A o \in Requests : Holds(o)' => Holds(o)
  BY <1>1 DEF CInv, Typed, Goto, Holds
<1>4. FixedPrices' = FixedPrices /\ \A item : Worth(item)' = Worth(item)
  BY <1>1 DEF FixedPrices, Worth, Amount, WholeUnits, Whole
<1> QED BY <1>1, <1>2, <1>3, <1>4 DEF CInv

\* What Remember needs.
LEMMA RememberStep ==
  ASSUME CInv, NEW r \in Requests, NEW subTotal \in Int, NEW item \in Item, NEW at \in States,
         Remember(r, subTotal, item, at),
         FixedPrices /\ Holds(r)' => Worth(item)
  PROVE  CInv'
<1> DEFINE memory == [subTotal |-> subTotal, item |-> item]
<1>1. memory \in [subTotal: Int, item: Item] /\ memory.item = item
  OBVIOUS
<1>2. /\ local' = [local EXCEPT ![r] = memory] /\ Goto(r, at)
      /\ UNCHANGED <<load, Cart, sellingPrice, call>>
  BY DEF Remember
<1> HIDE DEF memory
<1> QED BY <1>1, <1>2, LocalStep

-----------------------------------------------------------------------------
(* Handlers *)

LEMMA CallFields ==
  ASSUME Typed, NEW r \in Requests, call[r].kind \in AllKinds
  PROVE  /\ call[r] \in Calls
         /\ call[r].kind # "ORDER" => call[r].stockItemId \in StockItems
         /\ call[r].kind = "ADD" => call[r].qty \in load.qtys /\ call[r].qty \in Nat
<1>1. call[r] \in Calls
  BY DEF Typed, NoCall, AllKinds
<1>2. load.qtys \subseteq Nat
  BY LoadsAssumption DEF Typed, Load
<1> QED BY <1>1, <1>2 DEF Calls

LEMMA NoItemType == NoItem \in Item
BY DEF NoItem, Item

\* What the handlers find in the cart and remember.
LEMMA StateTypes ==
  ASSUME Typed, NEW r \in Requests
  PROVE  /\ Cart.cartItems \in Seq(Item) /\ Cart.subTotal \in Int /\ Cart.entityId \in Entities
         /\ local[r].item \in Item /\ local[r].subTotal \in Int
         /\ DOMAIN Cart.cartItems = 1 .. Len(Cart.cartItems)
         /\ \A n \in DOMAIN Cart.cartItems : Cart.cartItems[n] \in Item
BY DEF Typed

LEMMA InvFind == ASSUME CInv, NEW r \in Requests, FindCart(r) PROVE CInv'
<1> DEFINE at == CASE call[r].kind = "DELETE" /\ Cart.cartItems = <<>> -> "reset"
                   [] call[r].kind # "ADD" -> "target"
                   [] EntityOf[call[r].stockItemId] # Cart.entityId -> "priceFirst"
                   [] Cart.cartItems = <<>> -> "priceFirst"
                   [] OTHER -> "price"
<1>1. Remember(r, Cart.subTotal, NoItem, at) /\ call' = call
  BY DEF FindCart, Remember
<1>2. at \in States /\ at \notin {"set", "push", "replace"}
  BY DEF States
<1>3. call[r].kind = "ADD" => at # "target"
  OBVIOUS
<1> HIDE DEF at
<1>4. pc'[r] = at
  BY <1>1 DEF Remember, Goto, CInv, Typed
<1>5. ~Holds(r)'
  BY <1>1, <1>2, <1>3, <1>4 DEF Holds
<1> QED BY <1>1, <1>2, <1>5, NoItemType, StateTypes, RememberStep DEF CInv

\* An item of a price that is read now.
LEMMA NewItem ==
  ASSUME Typed, NEW r \in Requests, call[r].kind = "ADD"
  PROVE  /\ NewCartItem(r) \in Item /\ NewCartItem(r).itemTotal \in Int /\ Worth(NewCartItem(r))
<1>1. /\ call[r].stockItemId \in StockItems /\ call[r].qty \in Nat
      /\ Amount(call[r].qty)
  BY CallFields DEF AllKinds, Amount, WholeUnits
<1> DEFINE price == sellingPrice[call[r].stockItemId]
           qty == call[r].qty
<1>2. price \in load.prices /\ price \in Nat
  BY <1>1, Loaded DEF Typed
<1>3. qty * price \in Int
  BY <1>1, <1>2, Products
<1>4. NewCartItem(r) = [stockItemId |-> call[r].stockItemId, qty |-> qty,
                        sellingPrice |-> price, itemTotal |-> qty * price]
  BY DEF NewCartItem
<1> DEFINE total == qty * price
<1>5. NewCartItem(r).itemTotal = total /\ total \in Int
  BY <1>3, <1>4
<1>6. Worth(NewCartItem(r))
  BY <1>1, <1>2, <1>4 DEF Worth
<1> HIDE DEF price, total, qty
<1>7. NewCartItem(r) \in Item
  BY <1>1, <1>2, <1>4, <1>5 DEF Item, qty, total
<1> QED BY <1>5, <1>6, <1>7

LEMMA InvRead == ASSUME CInv, NEW r \in Requests, ReadPrice(r) \/ ReadFirstPrice(r) PROVE CInv'
<1>1. call[r].kind = "ADD" /\ local[r].subTotal \in Int
  BY StateTypes DEF ReadPrice, ReadFirstPrice, Serves, CInv
<1>2. NewCartItem(r) \in Item /\ NewCartItem(r).itemTotal \in Int /\ Worth(NewCartItem(r))
  BY <1>1, NewItem DEF CInv
<1>3. CASE ReadPrice(r)
  BY <1>1, <1>2, <1>3, RememberStep DEF ReadPrice, States
<1>4. CASE ReadFirstPrice(r)
  BY <1>1, <1>2, <1>4, RememberStep DEF ReadFirstPrice, States
<1> QED BY <1>3, <1>4

\* The element a request reads, if there is one.
LEMMA Element ==
  ASSUME CInv, NEW i, NEW n \in FirstOf(i)
  PROVE  /\ n \in DOMAIN Cart.cartItems /\ Cart.cartItems[n] \in Item
         /\ FixedPrices => Worth(Cart.cartItems[n])
BY DEF FirstOf, PositionsOf, CInv, Typed

LEMMA InvTarget ==
  ASSUME CInv, NEW r \in Requests,
         AddTarget(r) \/ IncreaseTarget(r) \/ DecreaseTarget(r) \/ DeleteTarget(r)
  PROVE  CInv'
<1>1. local[r].subTotal \in Int /\ local[r].item \in Item
  BY StateTypes DEF CInv
<1>2. CASE Fail(r)
  BY <1>2, FailStep
<1>3. CASE call[r].kind = "ADD" /\ pc[r] = "target" /\ Move(r, "push")
  BY <1>3, MoveStep DEF Holds, CInv, States
<1>4. ASSUME NEW n \in FirstOf(call[r].stockItemId), call[r].kind = "ADD", pc[r] = "target",
             Remember(r, local[r].subTotal,
               Changed(Cart.cartItems[n], local[r].item.qty, local[r].item.sellingPrice), "set")
      PROVE  CInv'
  <2> DEFINE item == Cart.cartItems[n]
             new == Changed(item, local[r].item.qty, local[r].item.sellingPrice)
  <2>1. item \in Item /\ (FixedPrices => Worth(item) /\ Worth(local[r].item))
    BY <1>4, Element DEF CInv, Holds
  <2>2. new \in Item
    BY <1>1, <2>1, ChangedType DEF Item
  <2>3. ASSUME FixedPrices PROVE Worth(new)
    <3>1. item.sellingPrice = local[r].item.sellingPrice
      BY <2>1, <2>3 DEF FixedPrices, Worth
    <3>2. Amount(item.qty + local[r].item.qty) /\ local[r].item.qty \in Int
      BY <1>1, <2>1, <2>3, Amounts DEF Worth, Item
    <3> QED BY <2>1, <2>3, <3>1, <3>2, ChangedWorth
  <2> HIDE DEF new
  <2> QED BY <1>1, <1>4, <2>2, <2>3, RememberStep DEF States, new
<1>5. ASSUME NEW n \in FirstOf(call[r].stockItemId), NEW units \in Int,
             NEW subTotal \in Int, FixedPrices => Amount(Cart.cartItems[n].qty + units),
             Remember(r, subTotal,
               Changed(Cart.cartItems[n], units, Cart.cartItems[n].sellingPrice), "set")
      PROVE  CInv'
  <2> DEFINE item == Cart.cartItems[n]
             new == Changed(item, units, item.sellingPrice)
  <2>1. item \in Item /\ item.sellingPrice \in Nat /\ (FixedPrices => Worth(item))
    BY Element DEF Item
  <2>2. new \in Item
    BY <2>1, ChangedType
  <2>3. FixedPrices => Worth(new)
    BY <1>5, <2>1, ChangedWorth
  <2> HIDE DEF new
  <2> QED BY <1>5, <2>2, <2>3, RememberStep DEF States, new
<1>6. ASSUME NEW n \in FirstOf(call[r].stockItemId), NEW subTotal \in Int,
             call[r].kind # "ADD", Remember(r, subTotal, Cart.cartItems[n], "pull")
      PROVE  CInv'
  <2>1. pc'[r] = "pull"
    BY <1>6 DEF Remember, Goto, CInv, Typed
  <2> QED BY <1>6, <2>1, Element, RememberStep DEF States, Holds
<1>7. \A n \in FirstOf(call[r].stockItemId) :
        /\ Cart.cartItems[n].qty \in Int /\ Cart.cartItems[n].sellingPrice \in Int
        /\ Cart.cartItems[n].itemTotal \in Int
        /\ FixedPrices => Amount(Cart.cartItems[n].qty)
        /\ Unit \in Int /\ Unit * Cart.cartItems[n].sellingPrice \in Int
  BY Element, Products, NumbersAssumption DEF Item, Worth
<1>8. CASE AddTarget(r)
  BY <1>2, <1>3, <1>4, <1>8 DEF AddTarget, Target, Serves
<1>9. CASE IncreaseTarget(r)
  <2>1. CASE Fail(r)
    BY <1>2, <2>1
  <2>2. ASSUME NEW n \in FirstOf(call[r].stockItemId),
               Remember(r, local[r].subTotal + Unit * Cart.cartItems[n].sellingPrice,
                        Changed(Cart.cartItems[n], Unit, Cart.cartItems[n].sellingPrice), "set")
        PROVE  CInv'
    <3> DEFINE units == Unit
    <3>1. /\ local[r].subTotal + Unit * Cart.cartItems[n].sellingPrice \in Int
          /\ FixedPrices => Amount(Cart.cartItems[n].qty + units)
          /\ units \in Int
      BY <1>1, <1>7, Amounts
    <3>2. Remember(r, local[r].subTotal + Unit * Cart.cartItems[n].sellingPrice,
                   Changed(Cart.cartItems[n], units, Cart.cartItems[n].sellingPrice), "set")
      BY <2>2
    <3> HIDE DEF units
    <3> QED BY <3>1, <3>2, <1>5
  <2> QED BY <1>9, <2>1, <2>2 DEF IncreaseTarget, Target, Serves
<1>10. CASE DecreaseTarget(r)
  <2>1. CASE Fail(r)
    BY <1>2, <2>1
  <2>2. ASSUME NEW n \in FirstOf(call[r].stockItemId), Cart.cartItems[n].qty > Unit,
               Remember(r, local[r].subTotal - Unit * Cart.cartItems[n].sellingPrice,
                        Changed(Cart.cartItems[n], -Unit, Cart.cartItems[n].sellingPrice), "set")
        PROVE  CInv'
    <3> DEFINE units == -Unit
    <3>1. /\ local[r].subTotal - Unit * Cart.cartItems[n].sellingPrice \in Int
          /\ FixedPrices => Amount(Cart.cartItems[n].qty + units)
          /\ units \in Int
      <4>1. Cart.cartItems[n].qty + units = Cart.cartItems[n].qty - Unit
        BY <1>7
      <4> QED BY <1>1, <1>7, <2>2, <4>1, Amounts
    <3>2. Remember(r, local[r].subTotal - Unit * Cart.cartItems[n].sellingPrice,
                   Changed(Cart.cartItems[n], units, Cart.cartItems[n].sellingPrice), "set")
      BY <2>2
    <3> HIDE DEF units
    <3> QED BY <3>1, <3>2, <1>5
  <2>3. ASSUME NEW n \in FirstOf(call[r].stockItemId), call[r].kind # "ADD",
               Remember(r, local[r].subTotal - Unit * Cart.cartItems[n].sellingPrice,
                        Cart.cartItems[n], "pull")
        PROVE  CInv'
    <3>1. local[r].subTotal - Unit * Cart.cartItems[n].sellingPrice \in Int
      BY <1>1, <1>7
    <3> QED BY <2>3, <3>1, <1>6
  <2> QED BY <1>10, <2>1, <2>2, <2>3 DEF DecreaseTarget, Target, Serves
<1>11. CASE DeleteTarget(r)
  <2>1. CASE Fail(r)
    BY <1>2, <2>1
  <2>2. ASSUME NEW n \in FirstOf(call[r].stockItemId), call[r].kind # "ADD",
               Remember(r, local[r].subTotal - Cart.cartItems[n].itemTotal,
                        Cart.cartItems[n], "pull")
        PROVE  CInv'
    <3>1. local[r].subTotal - Cart.cartItems[n].itemTotal \in Int
      BY <1>1, <1>7
    <3> QED BY <2>2, <3>1, <1>6
  <2> QED BY <1>11, <2>1, <2>2 DEF DeleteTarget, Target, Serves
<1> QED BY <1>8, <1>9, <1>10, <1>11

\* A positional update writes qty and itemTotal of an element, not its price.
LEMMA InvSet == ASSUME CInv, NEW r \in Requests, SetItem(r) PROVE CInv'
<1>1. local[r].subTotal \in Int /\ local[r].item \in Item
  BY StateTypes DEF CInv
<1>2. pc[r] = "set" /\ (FixedPrices => Worth(local[r].item))
  BY DEF SetItem, Serves, CInv, Holds
<1>3. CASE Fail(r)
  BY <1>3, FailStep
<1>4. ASSUME NEW n \in FirstOf(call[r].stockItemId),
             Write(r, [Cart EXCEPT !.subTotal = local[r].subTotal,
                                   !.cartItems[n].qty = local[r].item.qty,
                                   !.cartItems[n].itemTotal = local[r].item.itemTotal])
      PROVE  CInv'
  <2> DEFINE written == [Cart.cartItems[n] EXCEPT !.qty = local[r].item.qty,
                                                  !.itemTotal = local[r].item.itemTotal]
             items == [Cart.cartItems EXCEPT ![n] = written]
             cart == [Cart EXCEPT !.subTotal = local[r].subTotal, !.cartItems = items]
  <2>1. /\ n \in DOMAIN Cart.cartItems /\ Cart.cartItems[n] \in Item
        /\ FixedPrices => Worth(Cart.cartItems[n])
    BY Element
  <2>2. /\ written \in Item
        /\ written.qty = local[r].item.qty /\ written.itemTotal = local[r].item.itemTotal
        /\ written.sellingPrice = Cart.cartItems[n].sellingPrice
    BY <1>1, <2>1 DEF Item
  <2>3. FixedPrices => Worth(written)
    BY <1>2, <2>1, <2>2 DEF FixedPrices, Worth
  <2>4. [Cart EXCEPT !.subTotal = local[r].subTotal,
                     !.cartItems[n].qty = local[r].item.qty,
                     !.cartItems[n].itemTotal = local[r].item.itemTotal] = cart
    BY Zenon
  <2> HIDE DEF written
  <2>5. /\ items \in Seq(Item) /\ DOMAIN items = DOMAIN Cart.cartItems
        /\ \A m \in DOMAIN items : items[m] = IF m = n THEN written ELSE Cart.cartItems[m]
    BY <2>1, <2>2, StateTypes DEF CInv
  <2>6. FixedPrices => \A m \in DOMAIN items : Worth(items[m])
    BY <2>3, <2>5 DEF CInv
  <2> HIDE DEF items
  <2>7. cart \in [entityId: Entities, cartItems: Seq(Item), subTotal: Int] /\ cart.cartItems = items
    BY <1>1, <2>5 DEF CInv, Typed
  <2>8. Write(r, cart)
    BY <1>4, <2>4
  <2> HIDE DEF cart
  <2> QED BY <2>6, <2>7, <2>8, WriteStep
<1> QED BY <1>3, <1>4 DEF SetItem

LEMMA InvPull == ASSUME CInv, NEW r \in Requests, PullItem(r) PROVE CInv'
<1>1. CASE Fail(r)
  BY <1>1, FailStep
<1> DEFINE items == Pull(Cart.cartItems, {local[r].item})
           cart == [Cart EXCEPT !.subTotal = local[r].subTotal, !.cartItems = items]
<1>2. CASE Write(r, cart)
  <2>1. Cart.cartItems \in Seq(Item) /\ local[r].subTotal \in Int
    BY StateTypes DEF CInv
  <2>2. /\ items \in Seq(Item)
        /\ \A k \in DOMAIN items : \E n \in DOMAIN Cart.cartItems : items[k] = Cart.cartItems[n]
    <3> DEFINE before == Cart.cartItems
               leaving == {local[r].item}
    <3>1. before \in Seq(Item) /\ items = Pull(before, leaving)
      BY <2>1
    <3> HIDE DEF before, leaving, items
    <3>2. /\ Pull(before, leaving) \in Seq(Item)
          /\ \A k \in DOMAIN Pull(before, leaving) :
               \E n \in DOMAIN before : Pull(before, leaving)[k] = before[n]
      BY <3>1, PullLeaves
    <3> QED BY <3>1, <3>2 DEF before
  <2> HIDE DEF items
  <2>3. FixedPrices => \A k \in DOMAIN items : Worth(items[k])
    BY <2>2 DEF CInv
  <2>4. cart \in [entityId: Entities, cartItems: Seq(Item), subTotal: Int] /\ cart.cartItems = items
    BY <2>1, <2>2 DEF CInv, Typed
  <2> HIDE DEF cart
  <2> QED BY <1>2, <2>3, <2>4, WriteStep
<1> QED BY <1>1, <1>2 DEF PullItem

LEMMA InvPush == ASSUME CInv, NEW r \in Requests, PushItem(r) \/ ReplaceItems(r) PROVE CInv'
<1>1. /\ local[r].subTotal \in Int /\ local[r].item \in Item
      /\ FixedPrices => Worth(local[r].item)
  BY StateTypes DEF CInv, Holds, PushItem, ReplaceItems, Serves
<1>2. EntityOf[call[r].stockItemId] \in Entities
  BY CallFields, EntitiesAssumption DEF PushItem, ReplaceItems, Serves, AllKinds, CInv
<1>3. ASSUME NEW items \in Seq(Item), FixedPrices => \A n \in DOMAIN items : Worth(items[n]),
             Write(r, [entityId |-> EntityOf[call[r].stockItemId], cartItems |-> items,
                       subTotal |-> local[r].subTotal])
      PROVE  CInv'
  <2> DEFINE cart == [entityId |-> EntityOf[call[r].stockItemId], cartItems |-> items,
                      subTotal |-> local[r].subTotal]
  <2>1. cart \in [entityId: Entities, cartItems: Seq(Item), subTotal: Int] /\ cart.cartItems = items
    BY <1>1, <1>2
  <2>2. Write(r, cart)
    BY <1>3
  <2> HIDE DEF cart
  <2> QED BY <1>3, <2>1, <2>2, WriteStep
<1>4. CASE PushItem(r)
  <2> DEFINE items == Append(Cart.cartItems, local[r].item)
  <2>1. /\ items \in Seq(Item)
        /\ \A n \in DOMAIN items : \/ n \in DOMAIN Cart.cartItems /\ items[n] = Cart.cartItems[n]
                                   \/ items[n] = local[r].item
    BY <1>1, StateTypes DEF CInv
  <2> HIDE DEF items
  <2>2. FixedPrices => \A n \in DOMAIN items : Worth(items[n])
    BY <1>1, <2>1 DEF CInv
  <2> QED BY <1>3, <1>4, <2>1, <2>2 DEF PushItem, items
<1>5. CASE ReplaceItems(r)
  <2> DEFINE items == <<local[r].item>>
  <2>1. items \in Seq(Item) /\ \A n \in DOMAIN items : items[n] = local[r].item
    BY <1>1
  <2> HIDE DEF items
  <2>2. FixedPrices => \A n \in DOMAIN items : Worth(items[n])
    BY <1>1, <2>1
  <2> QED BY <1>3, <1>5, <2>1, <2>2 DEF ReplaceItems, items
<1> QED BY <1>4, <1>5

LEMMA InvEmpty ==
  ASSUME CInv, NEW r \in Requests,
         DeleteFromEmpty(r) \/ OrderCreate(r) \/ OrderFindCart(r) \/ OrderClear(r)
  PROVE  CInv'
<1>1. CASE DeleteFromEmpty(r)
  <2> DEFINE cart == [Cart EXCEPT !.subTotal = 0]
  <2>1. Cart \in [entityId: Entities, cartItems: Seq(Item), subTotal: Int] /\ 0 \in Int
    BY DEF CInv, Typed
  <2> DEFINE Sequences == Seq(Item)
  <2>2. Cart \in [entityId: Entities, cartItems: Sequences, subTotal: Int]
    BY <2>1
  <2> HIDE DEF Sequences
  <2>3. /\ cart \in [entityId: Entities, cartItems: Sequences, subTotal: Int]
        /\ cart.cartItems = Cart.cartItems
    BY <2>2
  <2>4. Write(r, cart)
    BY <1>1 DEF DeleteFromEmpty
  <2> HIDE DEF cart
  <2> QED BY <2>3, <2>4, WriteStep DEF CInv, Sequences
<1>2. CASE OrderClear(r)
  <2> DEFINE cart == [Cart EXCEPT !.cartItems = <<>>, !.subTotal = 0]
             none == << >>
             Sequences == Seq(Item)
  <2>1. none \in Seq(Item) /\ \A n \in DOMAIN none : FALSE
    OBVIOUS
  <2>2. none \in Sequences /\ Cart \in [entityId: Entities, cartItems: Sequences, subTotal: Int]
    BY <2>1 DEF CInv, Typed
  <2>3. cart = [Cart EXCEPT !.cartItems = none, !.subTotal = 0]
    OBVIOUS
  <2>4. Write(r, cart)
    BY <1>2 DEF OrderClear
  <2> HIDE DEF Sequences, none, cart
  <2>5. /\ cart \in [entityId: Entities, cartItems: Sequences, subTotal: Int]
        /\ cart.cartItems = none
    <3> DEFINE zero == 0
    <3>1. zero \in Int /\ cart = [Cart EXCEPT !.cartItems = none, !.subTotal = zero]
      BY <2>3
    <3> HIDE DEF zero
    <3>2. cart.cartItems = none
      BY <2>2, <3>1
    <3>3. cart \in [entityId: Entities, cartItems: Sequences, subTotal: Int]
      BY <2>2, <3>1
    <3> QED BY <3>2, <3>3
  <2> QED BY <2>1, <2>4, <2>5, WriteStep DEF Sequences
<1>3. ASSUME NEW at \in {"failed", "findCart", "clear", "done"}, call[r].kind = "ORDER", Move(r, at)
      PROVE  CInv'
  <2>1. pc'[r] = at /\ call' = call
    BY <1>3 DEF Move, Goto, CInv, Typed, States, Finished
  <2>2. ~Holds(r)'
    BY <1>3, <2>1 DEF Holds
  <2> QED BY <1>3, <2>2, MoveStep DEF States, Finished
<1>4. CASE OrderCreate(r)
  BY <1>3, <1>4 DEF OrderCreate, Fail, Serves
<1>5. CASE OrderFindCart(r)
  BY <1>3, <1>5 DEF OrderFindCart, Serves
<1> QED BY <1>1, <1>2, <1>4, <1>5

LEMMA InvArrive == ASSUME CInv, NEW r \in Requests, Arrive(r) PROVE CInv'
<1>1. PICK c \in Calls : call' = [call EXCEPT ![r] = c]
  BY DEF Arrive
<1>2. Typed' /\ pc'[r] = "find"
  BY <1>1 DEF Arrive, CInv, Typed, Goto, Calls, States
<1>3. \A o \in Requests : Holds(o)' => Holds(o)
  BY <1>1, <1>2 DEF Arrive, CInv, Typed, Goto, Holds
<1> QED BY <1>2, <1>3 DEF Arrive, CInv, FixedPrices, Worth, Amount, WholeUnits, Whole

LEMMA InvReprice == ASSUME CInv, Reprice PROVE CInv'
<1>1. Typed'
  BY DEF Reprice, CInv, Typed, Calls
<1> QED BY <1>1 DEF Reprice, CInv, FixedPrices, Holds, Worth, Amount, WholeUnits, Whole

LEMMA InvExit == ASSUME CInv, ProcessExit PROVE CInv'
<1>1. Typed'
  BY DEF ProcessExit, CInv, Typed, States, Finished, Calls
<1>2. \A o \in Requests : Holds(o)' => Holds(o)
  BY DEF ProcessExit, CInv, Typed, Holds
<1> QED BY <1>1, <1>2 DEF ProcessExit, CInv, FixedPrices, Worth, Amount, WholeUnits, Whole

LEMMA InvInit == Init => CInv
<1> HAVE Init
<1>1. Cart.cartItems = <<>> /\ Cart \in [entityId: Entities, cartItems: Seq(Item), subTotal: Int]
  <2>1. <<>> \in Seq(Item) /\ 0 \in Int
    OBVIOUS
  <2>2. Cart \in [entityId: Entities, cartItems: {<<>>}, subTotal: {0}]
    BY DEF Init
  <2> QED BY <2>1, <2>2
<1>2. NewLocal \in [subTotal: Int, item: Item]
  BY NoItemType DEF NewLocal
<1>3. Typed
  BY <1>1, <1>2 DEF Init, Typed, States
<1>4. \A r \in Requests : ~Holds(r)
  BY DEF Init, Holds
<1> QED BY <1>1, <1>3, <1>4 DEF CInv

LEMMA InvNext == CInv /\ [Next]_vars => CInv'
<1> SUFFICES ASSUME CInv, [Next]_vars PROVE CInv'
  OBVIOUS
<1>1. ASSUME NEW r \in Requests, Arrive(r) PROVE CInv'
  BY <1>1, InvArrive
<1>2. ASSUME NEW r \in Requests, Handler(r) PROVE CInv'
  BY <1>2, InvFind, InvRead, InvTarget, InvSet, InvPull, InvPush, InvEmpty DEF Handler
<1>3. CASE UNCHANGED vars
  BY <1>3 DEF vars, CInv, Typed, FixedPrices, Holds, Calls, Worth, Amount, WholeUnits, Whole
<1> QED BY <1>1, <1>2, <1>3, InvReprice, InvExit DEF Next

-----------------------------------------------------------------------------

\* However the requests for a cart interleave, exit or fail, and whatever they
\* add, increase, decrease and delete, its elements are worth what they hold as
\* long as prices stay, and hold nothing only where that may be asked for.
THEOREM CartItemsAreWorth == Spec => []ItemsAreWorthTheirQty
<1>1. CInv => ItemsAreWorthTheirQty
  <2> SUFFICES ASSUME CInv, FixedPrices, NEW n \in DOMAIN Cart.cartItems
               PROVE  LET item == Cart.cartItems[n]
                      IN  /\ item.qty > 0 \/ (item.qty = 0 /\ 0 \in load.qtys)
                          /\ item.itemTotal = item.qty * item.sellingPrice
    BY DEF ItemsAreWorthTheirQty, Items
  <2> DEFINE item == Cart.cartItems[n]
  <2>1. item.qty \in Int /\ Worth(item)
    <3>1. item \in Item /\ Worth(item)
      BY DEF CInv, Typed
    <3> HIDE DEF item
    <3> QED BY <3>1 DEF Item
  <2> HIDE DEF item
  <2>2. item.itemTotal = item.qty * item.sellingPrice
    BY <2>1 DEF Worth
  <2>3. item.qty > 0 \/ (item.qty = 0 /\ 0 \in load.qtys)
    <3> DEFINE qty == item.qty
    <3>1. Amount(qty) /\ qty \in Int
      BY <2>1 DEF Worth
    <3> HIDE DEF qty
    <3>2. qty > 0 \/ (qty = 0 /\ 0 \in load.qtys)
      BY <3>1 DEF Amount
    <3> QED BY <3>2 DEF qty
  <2> QED BY <2>2, <2>3 DEF item
<1> QED BY <1>1, InvInit, InvNext, PTL DEF Spec

-----------------------------------------------------------------------------
(* One request at a time *)

OneEntity ==
  \A m, n \in DOMAIN Cart.cartItems :
    /\ EntityOf[Cart.cartItems[n].stockItemId] = Cart.entityId
    /\ m # n => Cart.cartItems[m].stockItemId # Cart.cartItems[n].stockItemId

\* What a request that nobody interferes with has found, where it stands.
Stands(r) ==
  /\ pc[r] \in {"price", "push"} \/ (pc[r] = "target" /\ call[r].kind = "ADD") =>
       EntityOf[call[r].stockItemId] = Cart.entityId
  /\ pc[r] \in {"push", "replace"} \/ (pc[r] = "target" /\ call[r].kind = "ADD") =>
       local[r].item.stockItemId = call[r].stockItemId
  /\ pc[r] = "push" => PositionsOf(call[r].stockItemId) = {}
  /\ pc[r] = "clear" => Cart.entityId = call[r].entityId

SerialInv ==
  Serial =>
    /\ OneEntity
    /\ \A r, o \in Requests : Working(r) /\ Working(o) => r = o
    /\ \A r \in Requests : Working(r) => Stands(r)

\* What every step of a handler leaves alone: only its last one writes the cart.
Frame(r) ==
  /\ load' = load /\ call' = call
  /\ \A o \in Requests \ {r} : pc'[o] = pc[o] /\ local'[o] = local[o]
  /\ Working(r) /\ pc'[r] # "idle"
  /\ Cart' = Cart \/ pc'[r] = "done"

LEMMA MoveFrame ==
  ASSUME CInv, NEW r \in Requests, NEW at \in States \ {"idle"}, Move(r, at), Working(r)
  PROVE  Frame(r) /\ Cart' = Cart /\ pc'[r] = at /\ local'[r] = local[r]
BY DEF Move, Goto, Frame, CInv, Typed

LEMMA FailFrame ==
  ASSUME CInv, NEW r \in Requests, Fail(r), Working(r)
  PROVE  Frame(r) /\ Cart' = Cart /\ pc'[r] = "failed" /\ local'[r] = local[r]
BY MoveFrame DEF Fail, States, Finished

LEMMA RememberFrame ==
  ASSUME CInv, NEW r \in Requests, NEW at \in States \ {"idle"}, NEW subTotal, NEW item,
         Remember(r, subTotal, item, at), Working(r)
  PROVE  /\ Frame(r) /\ Cart' = Cart /\ pc'[r] = at
         /\ local'[r].subTotal = subTotal /\ local'[r].item = item
BY DEF Remember, Goto, Frame, CInv, Typed

LEMMA WriteFrame ==
  ASSUME CInv, NEW r \in Requests, NEW cart, Write(r, cart), Working(r)
  PROVE  Frame(r) /\ Cart' = cart /\ pc'[r] = "done"
BY DEF Write, Goto, Frame, CInv, Typed

\* What a step of a handler must show.
StepHolds(r) == Frame(r) /\ OneEntity' /\ (pc'[r] \notin Finished => Stands(r)')

\* A request that remembers or moves leaves the cart as it was.
LEMMA SameCart ==
  ASSUME OneEntity, Cart' = Cart
  PROVE  OneEntity' /\ \A i : PositionsOf(i)' = PositionsOf(i)
BY DEF OneEntity, PositionsOf

LEMMA OneFind == ASSUME CInv, OneEntity, NEW r \in Requests, FindCart(r) PROVE StepHolds(r)
<1> DEFINE at == CASE call[r].kind = "DELETE" /\ Cart.cartItems = <<>> -> "reset"
                   [] call[r].kind # "ADD" -> "target"
                   [] EntityOf[call[r].stockItemId] # Cart.entityId -> "priceFirst"
                   [] Cart.cartItems = <<>> -> "priceFirst"
                   [] OTHER -> "price"
<1>1. Remember(r, Cart.subTotal, NoItem, at) /\ Working(r)
  BY DEF FindCart, Serves, Working, Finished
<1>2. /\ at \in {"reset", "target", "priceFirst", "price"}
      /\ at = "target" => call[r].kind # "ADD"
      /\ at = "price" => EntityOf[call[r].stockItemId] = Cart.entityId
  OBVIOUS
<1> HIDE DEF at
<1>3. at \in States \ {"idle"}
  BY <1>2 DEF States
<1>4. Frame(r) /\ Cart' = Cart /\ pc'[r] = at
  BY <1>1, <1>3, RememberFrame
<1> QED BY <1>2, <1>4, SameCart DEF StepHolds, Stands, Frame

LEMMA OneRead ==
  ASSUME CInv, OneEntity, NEW r \in Requests, Stands(r), ReadPrice(r) \/ ReadFirstPrice(r)
  PROVE  StepHolds(r)
<1>1. /\ NewCartItem(r).stockItemId = call[r].stockItemId
      /\ Working(r)
  BY DEF NewCartItem, ReadPrice, ReadFirstPrice, Serves, Working, Finished
<1> DEFINE item == NewCartItem(r)
           subTotal == local[r].subTotal + item.itemTotal
           first == item.itemTotal
<1>2. CASE ReadPrice(r)
  <2>1. Remember(r, subTotal, item, "target") /\ pc[r] = "price"
    BY <1>2 DEF ReadPrice, Serves
  <2> HIDE DEF item, subTotal
  <2>2. Frame(r) /\ Cart' = Cart /\ pc'[r] = "target" /\ local'[r].item = item
    BY <1>1, <2>1, RememberFrame DEF States
  <2> QED BY <1>1, <2>1, <2>2, SameCart DEF StepHolds, Stands, Frame, item
<1>3. CASE ReadFirstPrice(r)
  <2>1. Remember(r, first, item, "replace")
    BY <1>3 DEF ReadFirstPrice, Serves
  <2> HIDE DEF item, first
  <2>2. Frame(r) /\ Cart' = Cart /\ pc'[r] = "replace" /\ local'[r].item = item
    BY <1>1, <2>1, RememberFrame DEF States
  <2> QED BY <1>1, <2>2, SameCart DEF StepHolds, Stands, Frame, item
<1> QED BY <1>2, <1>3

LEMMA OneTarget ==
  ASSUME CInv, OneEntity, NEW r \in Requests, Stands(r),
         AddTarget(r) \/ IncreaseTarget(r) \/ DecreaseTarget(r) \/ DeleteTarget(r)
  PROVE  StepHolds(r)
<1>1. Working(r) /\ pc[r] = "target"
  BY DEF AddTarget, IncreaseTarget, DecreaseTarget, DeleteTarget, Serves, Working, Finished
<1>2. CASE Fail(r)
  BY <1>1, <1>2, FailFrame, SameCart DEF StepHolds, Finished
<1>3. CASE call[r].kind = "ADD" /\ PositionsOf(call[r].stockItemId) = {} /\ Move(r, "push")
  <2>1. Frame(r) /\ Cart' = Cart /\ pc'[r] = "push" /\ local'[r] = local[r]
    BY <1>1, <1>3, MoveFrame DEF States
  <2>2. OneEntity' /\ PositionsOf(call[r].stockItemId)' = {} /\ call' = call
    BY <1>3, <2>1, SameCart DEF Frame, PositionsOf
  <2> QED BY <1>1, <1>3, <2>1, <2>2 DEF StepHolds, Stands
<1>4. ASSUME NEW subTotal, NEW item, NEW at \in {"set", "pull"}, Remember(r, subTotal, item, at)
      PROVE  StepHolds(r)
  <2>1. Frame(r) /\ Cart' = Cart /\ pc'[r] = at
    BY <1>1, <1>4, RememberFrame DEF States
  <2> QED BY <2>1, SameCart DEF StepHolds, Stands
<1>5. CASE AddTarget(r)
  BY <1>2, <1>3, <1>4, <1>5 DEF AddTarget, Target, Serves
<1>6. CASE IncreaseTarget(r)
  BY <1>2, <1>4, <1>6 DEF IncreaseTarget, Target, Serves
<1>7. CASE DecreaseTarget(r)
  BY <1>2, <1>4, <1>7 DEF DecreaseTarget, Target, Serves
<1>8. CASE DeleteTarget(r)
  BY <1>2, <1>4, <1>8 DEF DeleteTarget, Target, Serves
<1> QED BY <1>5, <1>6, <1>7, <1>8

\* A cart whose elements are some of those there were, each from a place of its
\* own, is for one entity.
LEMMA FewerItems ==
  ASSUME OneEntity, NEW from, NEW items,
         \A k \in DOMAIN items : from[k] \in DOMAIN Cart.cartItems,
         \A k, l \in DOMAIN items : k # l => from[k] # from[l],
         \A k \in DOMAIN items :
           items[k].stockItemId = Cart.cartItems[from[k]].stockItemId,
         Cart'.cartItems = items, Cart'.entityId = Cart.entityId
  PROVE  OneEntity'
BY DEF OneEntity

LEMMA OneSet == ASSUME CInv, OneEntity, NEW r \in Requests, SetItem(r) PROVE StepHolds(r)
<1>1. Working(r)
  BY DEF SetItem, Serves, Working, Finished
<1>2. CASE Fail(r)
  BY <1>1, <1>2, FailFrame, SameCart DEF StepHolds, Finished
<1>3. ASSUME NEW n \in FirstOf(call[r].stockItemId),
             Write(r, [Cart EXCEPT !.subTotal = local[r].subTotal,
                                   !.cartItems[n].qty = local[r].item.qty,
                                   !.cartItems[n].itemTotal = local[r].item.itemTotal])
      PROVE  StepHolds(r)
  <2> DEFINE written == [Cart.cartItems[n] EXCEPT !.qty = local[r].item.qty,
                                                  !.itemTotal = local[r].item.itemTotal]
             items == [Cart.cartItems EXCEPT ![n] = written]
             cart == [Cart EXCEPT !.subTotal = local[r].subTotal, !.cartItems = items]
  <2>1. n \in DOMAIN Cart.cartItems /\ Cart.cartItems[n] \in Item
    BY Element
  <2>2. written.stockItemId = Cart.cartItems[n].stockItemId
    BY <2>1 DEF Item
  <2>3. [Cart EXCEPT !.subTotal = local[r].subTotal,
                     !.cartItems[n].qty = local[r].item.qty,
                     !.cartItems[n].itemTotal = local[r].item.itemTotal] = cart
    BY Zenon
  <2>4. Write(r, cart)
    BY <1>3, <2>3
  <2> HIDE DEF written
  <2>5. /\ DOMAIN items = DOMAIN Cart.cartItems
        /\ \A m \in DOMAIN items : items[m].stockItemId = Cart.cartItems[m].stockItemId
    BY <2>1, <2>2
  <2> HIDE DEF items
  <2>6. cart.cartItems = items /\ cart.entityId = Cart.entityId
    BY DEF CInv, Typed
  <2> HIDE DEF cart
  <2>7. Frame(r) /\ Cart' = cart /\ pc'[r] = "done"
    BY <1>1, <2>4, WriteFrame
  <2>8. OneEntity'
    BY <2>5, <2>6, <2>7 DEF OneEntity
  <2> QED BY <2>7, <2>8 DEF StepHolds, Finished
<1> QED BY <1>2, <1>3 DEF SetItem

LEMMA OnePull == ASSUME CInv, OneEntity, NEW r \in Requests, PullItem(r) PROVE StepHolds(r)
<1>1. Working(r)
  BY DEF PullItem, Serves, Working, Finished
<1>2. CASE Fail(r)
  BY <1>1, <1>2, FailFrame, SameCart DEF StepHolds, Finished
<1> DEFINE items == Pull(Cart.cartItems, {local[r].item})
           cart == [Cart EXCEPT !.subTotal = local[r].subTotal, !.cartItems = items]
<1>3. CASE Write(r, cart)
  <2>1. PICK from \in Injection(DOMAIN items, DOMAIN Cart.cartItems) :
          \A k \in DOMAIN items : items[k] = Cart.cartItems[from[k]]
    <3> DEFINE before == Cart.cartItems
               leaving == {local[r].item}
    <3>1. before \in Seq(Item) /\ items = Pull(before, leaving)
      BY StateTypes DEF CInv
    <3> HIDE DEF before, leaving, items
    <3>2. \E from \in Injection(DOMAIN Pull(before, leaving), DOMAIN before) :
            \A k \in DOMAIN Pull(before, leaving) : Pull(before, leaving)[k] = before[from[k]]
      BY <3>1, PullLeaves
    <3> QED BY <3>1, <3>2 DEF before
  <2> HIDE DEF items
  <2>2. /\ \A k \in DOMAIN items : from[k] \in DOMAIN Cart.cartItems
        /\ \A k, l \in DOMAIN items : k # l => from[k] # from[l]
    BY DEF Injection, IsInjective
  <2>3. cart.cartItems = items /\ cart.entityId = Cart.entityId
    BY DEF CInv, Typed
  <2> HIDE DEF cart
  <2>4. Frame(r) /\ Cart' = cart /\ pc'[r] = "done"
    BY <1>1, <1>3, WriteFrame
  <2>5. OneEntity'
    BY <2>1, <2>2, <2>3, <2>4, FewerItems
  <2> QED BY <2>4, <2>5 DEF StepHolds, Finished
<1> QED BY <1>2, <1>3 DEF PullItem

LEMMA OnePush ==
  ASSUME CInv, OneEntity, NEW r \in Requests, Stands(r), PushItem(r) \/ ReplaceItems(r)
  PROVE  StepHolds(r)
<1>1. /\ Working(r) /\ local[r].item.stockItemId = call[r].stockItemId
      /\ local[r].item \in Item
  BY StateTypes DEF PushItem, ReplaceItems, Serves, Working, Finished, Stands, CInv
<1>2. ASSUME NEW items,
             Write(r, [entityId |-> EntityOf[call[r].stockItemId], cartItems |-> items,
                       subTotal |-> local[r].subTotal]),
             \A m, n \in DOMAIN items :
               /\ EntityOf[items[n].stockItemId] = EntityOf[call[r].stockItemId]
               /\ m # n => items[m].stockItemId # items[n].stockItemId
      PROVE  StepHolds(r)
  <2> DEFINE cart == [entityId |-> EntityOf[call[r].stockItemId], cartItems |-> items,
                      subTotal |-> local[r].subTotal]
  <2>1. cart.cartItems = items /\ cart.entityId = EntityOf[call[r].stockItemId] /\ Write(r, cart)
    BY <1>2
  <2> HIDE DEF cart
  <2>2. Frame(r) /\ Cart' = cart /\ pc'[r] = "done"
    BY <1>1, <2>1, WriteFrame
  <2>3. OneEntity'
    BY <1>2, <2>1, <2>2 DEF OneEntity
  <2> QED BY <2>2, <2>3 DEF StepHolds, Finished
<1>3. CASE PushItem(r)
  <2> DEFINE items == Append(Cart.cartItems, local[r].item)
             last == Len(Cart.cartItems) + 1
  <2>1. /\ DOMAIN items = DOMAIN Cart.cartItems \union {last} /\ last \notin DOMAIN Cart.cartItems
        /\ \A n \in DOMAIN Cart.cartItems : items[n] = Cart.cartItems[n]
        /\ items[last] = local[r].item
    BY <1>1, StateTypes DEF CInv
  <2> HIDE DEF items, last
  <2>2. /\ PositionsOf(call[r].stockItemId) = {}
        /\ EntityOf[call[r].stockItemId] = Cart.entityId
    BY <1>3 DEF PushItem, Serves, Stands
  <2>3. \A n \in DOMAIN Cart.cartItems :
          /\ Cart.cartItems[n].stockItemId # call[r].stockItemId
          /\ EntityOf[Cart.cartItems[n].stockItemId] = Cart.entityId
    BY <2>2 DEF PositionsOf, OneEntity
  <2>4. \A m, n \in DOMAIN items :
          /\ EntityOf[items[n].stockItemId] = EntityOf[call[r].stockItemId]
          /\ m # n => items[m].stockItemId # items[n].stockItemId
    BY <1>1, <2>1, <2>2, <2>3 DEF OneEntity
  <2> QED BY <1>2, <1>3, <2>4 DEF PushItem, items
<1>4. CASE ReplaceItems(r)
  <2> DEFINE items == <<local[r].item>>
  <2>1. DOMAIN items = {1} /\ items[1] = local[r].item
    OBVIOUS
  <2> HIDE DEF items
  <2>2. \A m, n \in DOMAIN items :
          /\ EntityOf[items[n].stockItemId] = EntityOf[call[r].stockItemId]
          /\ m # n => items[m].stockItemId # items[n].stockItemId
    BY <1>1, <2>1
  <2> QED BY <1>2, <1>4, <2>2 DEF ReplaceItems, items
<1> QED BY <1>3, <1>4

LEMMA OneEmpty ==
  ASSUME CInv, OneEntity, NEW r \in Requests,
         DeleteFromEmpty(r) \/ OrderCreate(r) \/ OrderFindCart(r) \/ OrderClear(r)
  PROVE  StepHolds(r)
<1>1. Working(r)
  BY DEF DeleteFromEmpty, OrderCreate, OrderFindCart, OrderClear, Serves, Working, Finished
<1>2. CASE DeleteFromEmpty(r)
  <2> DEFINE cart == [Cart EXCEPT !.subTotal = 0]
  <2>1. /\ cart.cartItems = Cart.cartItems /\ cart.entityId = Cart.entityId /\ Write(r, cart)
    BY <1>2 DEF DeleteFromEmpty, CInv, Typed
  <2> HIDE DEF cart
  <2>2. Frame(r) /\ Cart' = cart /\ pc'[r] = "done"
    BY <1>1, <2>1, WriteFrame
  <2> QED BY <2>1, <2>2 DEF OneEntity, StepHolds, Finished
<1>3. CASE OrderClear(r)
  <2> DEFINE none == << >>
             cart == [Cart EXCEPT !.cartItems = none, !.subTotal = 0]
  <2>1. Write(r, cart) /\ DOMAIN none = {}
    BY <1>3 DEF OrderClear
  <2> HIDE DEF none
  <2>2. cart.cartItems = none
    BY DEF CInv, Typed
  <2> HIDE DEF cart
  <2>3. Frame(r) /\ Cart' = cart /\ pc'[r] = "done"
    BY <1>1, <2>1, WriteFrame
  <2> QED BY <2>1, <2>2, <2>3 DEF OneEntity, StepHolds, Finished
<1>4. CASE OrderCreate(r)
  <2>1. CASE Fail(r)
    BY <1>1, <2>1, FailFrame, SameCart DEF StepHolds, Finished
  <2>2. CASE Move(r, "findCart")
    BY <1>1, <2>2, MoveFrame, SameCart DEF StepHolds, Stands, States
  <2> QED BY <1>4, <2>1, <2>2 DEF OrderCreate
<1>5. CASE OrderFindCart(r)
  <2>1. CASE Cart.entityId = call[r].entityId /\ Move(r, "clear")
    BY <1>1, <2>1, MoveFrame, SameCart DEF StepHolds, Stands, States, Frame
  <2>2. CASE Move(r, "done")
    BY <1>1, <2>2, MoveFrame, SameCart DEF StepHolds, States, Finished
  <2> QED BY <1>5, <2>1, <2>2 DEF OrderFindCart
<1> QED BY <1>2, <1>3, <1>4, <1>5

LEMMA HandlerOne ==
  ASSUME CInv, OneEntity, NEW r \in Requests, Stands(r), Handler(r)
  PROVE  StepHolds(r)
BY OneFind, OneRead, OneTarget, OneSet, OnePull, OnePush, OneEmpty DEF Handler

LEMMA HandlerWorks == ASSUME NEW r \in Requests, Handler(r) PROVE Working(r)
BY DEF Handler, FindCart, SetItem, PullItem, ReadPrice, ReadFirstPrice, AddTarget, PushItem,
       ReplaceItems, IncreaseTarget, DecreaseTarget, DeleteTarget, DeleteFromEmpty, OrderCreate,
       OrderFindCart, OrderClear, Serves, Working, Finished

LEMMA SerialNext ==
  ASSUME CInv, SerialInv, [Next]_vars
  PROVE  SerialInv'
<1> SUFFICES ASSUME Serial' PROVE SerialInv'
  BY DEF SerialInv
<1>1. ASSUME NEW r \in Requests, Arrive(r) PROVE SerialInv'
  <2> DEFINE W == {o \in Requests : Working(o)}
  <2>1. /\ load' = load /\ Cart' = Cart /\ local' = local /\ Serial
        /\ \A o \in Requests \ {r} : pc'[o] = pc[o]
        /\ pc'[r] = "find" /\ Cardinality(W) < 1
    BY <1>1 DEF Arrive, Goto, CInv, Typed, Serial
  <2>2. ASSUME NEW o \in W PROVE FALSE
    <3>1. W = {o}
      BY <2>1 DEF SerialInv
    <3>2. Cardinality(W) = 1
      BY <3>1, FS_Singleton
    <3> QED BY <2>1, <3>2
  <2>3. \A o \in Requests : Working(o)' => o = r
    BY <2>1, <2>2 DEF Working
  <2>4. OneEntity'
    BY <2>1, SameCart DEF SerialInv
  <2> QED BY <2>1, <2>3, <2>4 DEF SerialInv, Stands
<1>2. ASSUME NEW r \in Requests, Handler(r) PROVE SerialInv'
  <2>1. Working(r) /\ load' = load
    BY <1>2, HandlerWorks DEF Handler, FindCart, SetItem, PullItem, ReadPrice, ReadFirstPrice,
       AddTarget, PushItem, ReplaceItems, IncreaseTarget, DecreaseTarget, DeleteTarget,
       DeleteFromEmpty, OrderCreate, OrderFindCart, OrderClear, Target, Remember, Write, Fail, Move
  <2>2. Serial /\ OneEntity /\ Stands(r)
    BY <2>1 DEF SerialInv, Serial
  <2>3. StepHolds(r)
    BY <1>2, <2>2, HandlerOne
  <2>4. \A o \in Requests : Working(o)' => o = r
    BY <2>1, <2>2, <2>3 DEF SerialInv, StepHolds, Frame, Working
  <2> QED BY <2>3, <2>4 DEF SerialInv, StepHolds, Working
<1>3. CASE Reprice
  <2>1. /\ load' = load /\ Cart' = Cart /\ local' = local /\ pc' = pc /\ call' = call
    BY <1>3 DEF Reprice
  <2> QED BY <2>1 DEF SerialInv, Serial, OneEntity, Working, Stands, PositionsOf
<1>4. CASE ProcessExit
  <2>1. /\ load' = load /\ Cart' = Cart /\ \A o \in Requests : ~Working(o)'
    BY <1>4 DEF ProcessExit, Working, Finished, CInv, Typed
  <2> QED BY <2>1, SameCart DEF SerialInv, Serial
<1>5. CASE UNCHANGED vars
  BY <1>5 DEF vars, SerialInv, Serial, OneEntity, Working, Stands, PositionsOf
<1> QED BY <1>1, <1>2, <1>3, <1>4, <1>5 DEF Next

LEMMA SerialInvariant == Spec => [](CInv /\ SerialInv)
<1>1. Init => SerialInv
  BY DEF Init, SerialInv, OneEntity, Working
<1> QED BY <1>1, InvInit, InvNext, SerialNext, PTL DEF Spec

\* One request at a time, however many there are, whatever they add, take off and
\* order and wherever the process exits, a cart has every stock item once and is
\* for the entity of all of them.
THEOREM CartsAreForOneEntity == Spec => []OneEntityWhenSerial
<1>1. SerialInv => OneEntityWhenSerial
  BY DEF SerialInv, OneEntity, OneEntityWhenSerial
<1> QED BY <1>1, SerialInvariant, PTL

\* One request at a time, the cart a customer order empties is for the entity the
\* order was placed with.
THEOREM OrdersEmptyTheirCart == Spec => OrdersEmptyTheirCartWhenSerial
<1> DEFINE Rule == Serial /\ Emptied => \A r \in Requests :
             (call[r].kind = "ORDER" /\ pc'[r] # pc[r]) => Cart.entityId = call[r].entityId
<1>1. ASSUME CInv, SerialInv, [Next]_vars PROVE [Rule]_vars
  <2> SUFFICES ASSUME Serial, Emptied, NEW r \in Requests, call[r].kind = "ORDER", pc'[r] # pc[r]
               PROVE  Cart.entityId = call[r].entityId
    OBVIOUS
  <2>1. Cart' # Cart
    BY DEF Emptied
  <2>2. PICK o \in Requests : Handler(o)
    BY <1>1, <2>1 DEF Next, Arrive, Reprice, ProcessExit, vars
  <2>3. Working(o) /\ Stands(o) /\ Frame(o)
    BY <1>1, <2>2, HandlerWorks, HandlerOne DEF SerialInv, StepHolds
  <2>4. o = r
    BY <2>3 DEF Frame
  <2>5. pc[r] \in {"find", "findCart", "clear"}
    BY <2>2, <2>4 DEF Handler, FindCart, SetItem, PullItem, ReadPrice, ReadFirstPrice,
       AddTarget, PushItem, ReplaceItems, IncreaseTarget, DecreaseTarget, DeleteTarget,
       DeleteFromEmpty, OrderCreate, OrderFindCart, OrderClear, Serves
  <2>6. pc[r] = "clear"
    BY <2>1, <2>2, <2>4, <2>5 DEF Handler, FindCart, SetItem, PullItem, ReadPrice, ReadFirstPrice,
       AddTarget, PushItem, ReplaceItems, IncreaseTarget, DecreaseTarget, DeleteTarget,
       DeleteFromEmpty, OrderCreate, OrderFindCart, OrderClear, Serves, Move, Fail, Remember
  <2> QED BY <2>3, <2>4, <2>6 DEF Stands
<1> QED BY <1>1, SerialInvariant, PTL DEF Spec, OrdersEmptyTheirCartWhenSerial

-----------------------------------------------------------------------------
(* Totals *)

\* What each place of a cart is worth.
Totals(items) == [n \in 1 .. Len(items) |-> items[n].itemTotal]

LEMMA TotalIs ==
  ASSUME NEW items \in Seq(Item)
  PROVE  /\ DOMAIN items = 1 .. Len(items) /\ IsFiniteSet(1 .. Len(items))
         /\ \A n \in 1 .. Len(items) : Totals(items)[n] = items[n].itemTotal
         /\ \A n \in 1 .. Len(items) : Totals(items)[n] \in Int
         /\ Total(items) = SumFunctionOnSet(Totals(items), 1 .. Len(items))
         /\ Total(items) \in Int
<1>1. DOMAIN items = 1 .. Len(items) /\ Len(items) \in Nat
  OBVIOUS
<1>2. Total(items) = SumFunctionOnSet(Totals(items), 1 .. Len(items))
  BY <1>1 DEF Total, SumFunction, Totals
<1>3. IsFiniteSet(1 .. Len(items))
  BY <1>1, FS_Interval
<1>4. ASSUME NEW n \in 1 .. Len(items)
      PROVE  Totals(items)[n] = items[n].itemTotal /\ Totals(items)[n] \in Int
  <2>1. items[n] \in Item
    BY <1>1
  <2>2. items[n].itemTotal \in Int
    BY <2>1 DEF Item
  <2> QED BY <2>2 DEF Totals
<1>5. SumFunctionOnSet(Totals(items), 1 .. Len(items)) \in Int
  BY <1>3, <1>4, SumType
<1> QED BY <1>1, <1>2, <1>3, <1>4, <1>5

LEMMA TotalOfNone == Total(<<>>) = 0
<1> DEFINE none == << >>
<1>1. none \in Seq(Item) /\ 1 .. Len(none) = {} /\ none = << >>
  OBVIOUS
<1> HIDE DEF none
<1>2. Total(none) = SumFunctionOnSet(Totals(none), {})
  BY <1>1, TotalIs
<1> QED BY <1>1, <1>2, SumOfNone

LEMMA TotalAppends ==
  ASSUME NEW items \in Seq(Item), NEW item \in Item
  PROVE  Total(Append(items, item)) = Total(items) + item.itemTotal
<1> DEFINE more == Append(items, item)
           places == 1 .. Len(items)
           last == Len(items) + 1
<1>1. /\ more \in Seq(Item) /\ Len(more) = last /\ Len(items) \in Nat
      /\ \A n \in places : more[n] = items[n]
      /\ more[last] = item
      /\ 1 .. last = places \union {last} /\ last \notin places
  OBVIOUS
<1> HIDE DEF more, last, places
<1>2. /\ Total(items) = SumFunctionOnSet(Totals(items), places) /\ IsFiniteSet(places)
      /\ Total(items) \in Int
      /\ \A n \in places : Totals(items)[n] = items[n].itemTotal
  BY TotalIs DEF places
<1>3. /\ Total(more) = SumFunctionOnSet(Totals(more), places \union {last})
      /\ \A n \in places \union {last} : Totals(more)[n] = more[n].itemTotal
      /\ \A n \in places \union {last} : Totals(more)[n] \in Int
  BY <1>1, TotalIs
<1>4. /\ \A n \in places : Totals(items)[n] = Totals(more)[n]
      /\ Totals(more)[last] = item.itemTotal
  BY <1>1, <1>2, <1>3
<1>5. Total(more) = SumFunctionOnSet(Totals(more), places) + Totals(more)[last]
  <2> DEFINE g == Totals(more)
  <2>1. IsFiniteSet(places) /\ last \notin places /\ \A n \in places \union {last} : g[n] \in Int
    BY <1>1, <1>2, <1>3
  <2> HIDE DEF g
  <2>2. SumFunctionOnSet(g, places \union {last}) = SumFunctionOnSet(g, places) + g[last]
    BY <2>1, SumPut
  <2> QED BY <1>3, <2>2 DEF g
<1>6. SumFunctionOnSet(Totals(items), places) = SumFunctionOnSet(Totals(more), places)
  BY <1>2, <1>4, SumSame
<1> QED BY <1>2, <1>4, <1>5, <1>6 DEF more

LEMMA TotalOfOne == ASSUME NEW item \in Item PROVE Total(<<item>>) = item.itemTotal
<1> DEFINE none == << >>
<1>1. none \in Seq(Item) /\ Append(none, item) = <<item>>
  OBVIOUS
<1>2. Total(none) = 0
  BY TotalOfNone
<1> HIDE DEF none
<1>3. Total(<<item>>) = 0 + item.itemTotal
  BY <1>1, <1>2, TotalAppends
<1>4. item.itemTotal \in Int
  BY DEF Item
<1> QED BY <1>3, <1>4

LEMMA TotalChanges ==
  ASSUME NEW items \in Seq(Item), NEW new \in Seq(Item), NEW n \in DOMAIN items,
         DOMAIN new = DOMAIN items, \A m \in DOMAIN items \ {n} : new[m] = items[m]
  PROVE  Total(new) = Total(items) + (new[n].itemTotal - items[n].itemTotal)
<1> DEFINE places == 1 .. Len(items)
<1>1. 1 .. Len(new) = places
  OBVIOUS
<1>2. /\ DOMAIN items = places /\ IsFiniteSet(places)
      /\ \A m \in places : Totals(items)[m] = items[m].itemTotal
      /\ \A m \in places : Totals(items)[m] \in Int
      /\ Total(items) = SumFunctionOnSet(Totals(items), places)
  BY TotalIs
<1>3. /\ \A m \in places : Totals(new)[m] = new[m].itemTotal
      /\ \A m \in places : Totals(new)[m] \in Int
      /\ Total(new) = SumFunctionOnSet(Totals(new), places)
  BY <1>1, TotalIs
<1> HIDE DEF places
<1>4. n \in places /\ \A m \in places \ {n} : Totals(items)[m] = Totals(new)[m]
  BY <1>2, <1>3
<1> DEFINE others == places \ {n}
<1>5. /\ SumFunctionOnSet(Totals(items), places) = Totals(items)[n] + SumFunctionOnSet(Totals(items), others)
      /\ SumFunctionOnSet(Totals(new), places) = Totals(new)[n] + SumFunctionOnSet(Totals(new), others)
  BY <1>2, <1>3, <1>4, SumTake
<1>6. IsFiniteSet(others) /\ \A m \in others : Totals(items)[m] \in Int
  BY <1>2, FS_RemoveElement
<1> HIDE DEF others
<1>7. SumFunctionOnSet(Totals(items), others) = SumFunctionOnSet(Totals(new), others)
  BY <1>4, <1>6, SumSame DEF others
<1>8. SumFunctionOnSet(Totals(items), others) \in Int
  BY <1>6, SumType
<1> QED BY <1>2, <1>3, <1>4, <1>5, <1>7, <1>8

\* One element leaves.
LEMMA TotalPulls ==
  ASSUME NEW items \in Seq(Item), NEW n \in DOMAIN items, NEW leaving,
         \A m \in DOMAIN items : items[m] \in leaving <=> m = n
  PROVE  Total(Pull(items, leaving)) = Total(items) - items[n].itemTotal
<1> DEFINE new == Pull(items, leaving)
           places == 1 .. Len(items)
           left == 1 .. Len(new)
           stay == places \ {n}
<1>1. new \in Seq(Item)
  BY PullLeaves
<1>2. PICK b \in Bijection(DOMAIN new, {m \in DOMAIN items : items[m] \notin leaving}) :
        \A k \in DOMAIN new : new[k] = items[b[k]]
  BY PullIsABijection
<1> HIDE DEF new
<1>3. /\ DOMAIN items = places /\ IsFiniteSet(places)
      /\ \A m \in places : Totals(items)[m] = items[m].itemTotal
      /\ \A m \in places : Totals(items)[m] \in Int
      /\ Total(items) = SumFunctionOnSet(Totals(items), places)
  BY TotalIs
<1>4. /\ DOMAIN new = left /\ IsFiniteSet(left)
      /\ \A m \in left : Totals(new)[m] = new[m].itemTotal
      /\ Total(new) = SumFunctionOnSet(Totals(new), left)
  BY <1>1, TotalIs
<1> HIDE DEF places, left
<1>5. b \in Bijection(left, stay)
  BY <1>2, <1>3, <1>4
<1>6. \A k \in left : b[k] \in places
  BY <1>5 DEF Bijection, Injection
<1>7. \A k \in left : Totals(new)[k] = Totals(items)[b[k]]
  BY <1>2, <1>3, <1>4, <1>6
<1>8. IsFiniteSet(stay) /\ \A m \in stay : Totals(items)[m] \in Int
  BY <1>3, FS_RemoveElement
<1>9. SumFunctionOnSet(Totals(items), places) = Totals(items)[n] + SumFunctionOnSet(Totals(items), stay)
  BY <1>3, SumTake
<1> HIDE DEF stay
<1>10. SumFunctionOnSet(Totals(new), left) = SumFunctionOnSet(Totals(items), stay)
  BY <1>4, <1>5, <1>7, <1>8, SumRenamed
<1>11. SumFunctionOnSet(Totals(items), stay) \in Int /\ Totals(items)[n] \in Int
  BY <1>3, <1>8, SumType
<1> QED BY <1>3, <1>4, <1>9, <1>10, <1>11 DEF new

-----------------------------------------------------------------------------
(* One request at a time, subTotal adds up *)

\* Where a request takes units off, prices must stay and quantities be whole.
SumsHold == "DECREASE" \in load.kinds => FixedPrices /\ WholeUnits

\* The new subTotal of a request, from where it stands.
Owes(r) ==
  LET i == call[r].stockItemId
      new == local[r].subTotal
      item == local[r].item
  IN  /\ pc[r] = "reset" => Cart.cartItems = <<>>
      /\ pc[r] = "price" \/ (pc[r] = "target" /\ call[r].kind # "ADD") => new = Cart.subTotal
      /\ pc[r] = "push" \/ (pc[r] = "target" /\ call[r].kind = "ADD") =>
           new = Cart.subTotal + item.itemTotal
      /\ pc[r] = "target" /\ call[r].kind = "ADD" =>
           item.itemTotal = item.qty * item.sellingPrice
      /\ pc[r] = "replace" => new = item.itemTotal
      /\ pc[r] = "set" => \A n \in FirstOf(i) :
           new = Cart.subTotal + (item.itemTotal - Cart.cartItems[n].itemTotal)
      /\ pc[r] = "pull" => \A n \in FirstOf(i) :
           item = Cart.cartItems[n] /\ new = Cart.subTotal - item.itemTotal

AddsUp == Cart.subTotal = Total(Cart.cartItems)

SumInv ==
  Serial /\ SumsHold =>
    /\ AddsUp
    /\ \A r \in Requests : Working(r) => Owes(r) /\ call[r].kind \in load.kinds

\* What every step of a handler must show.
Keeps(r) == AddsUp' /\ (pc'[r] \notin Finished => Owes(r)')

LEMMA SameTotal ==
  ASSUME AddsUp, Cart' = Cart
  PROVE  AddsUp' /\ \A i : FirstOf(i)' = FirstOf(i)
BY DEF AddsUp, FirstOf, PositionsOf

LEMMA FindSums == ASSUME CInv, AddsUp, NEW r \in Requests, FindCart(r) PROVE Keeps(r)
<1> DEFINE at == CASE call[r].kind = "DELETE" /\ Cart.cartItems = <<>> -> "reset"
                   [] call[r].kind # "ADD" -> "target"
                   [] EntityOf[call[r].stockItemId] # Cart.entityId -> "priceFirst"
                   [] Cart.cartItems = <<>> -> "priceFirst"
                   [] OTHER -> "price"
<1>1. Remember(r, Cart.subTotal, NoItem, at) /\ Working(r)
  BY DEF FindCart, Serves, Working, Finished
<1>2. /\ at \in {"reset", "target", "priceFirst", "price"}
      /\ at = "reset" => Cart.cartItems = <<>>
      /\ at = "target" => call[r].kind # "ADD"
  OBVIOUS
<1> HIDE DEF at
<1>3. at \in States \ {"idle"}
  BY <1>2 DEF States
<1>4. Frame(r) /\ Cart' = Cart /\ pc'[r] = at /\ local'[r].subTotal = Cart.subTotal
  BY <1>1, <1>3, RememberFrame
<1> QED BY <1>2, <1>4, SameTotal DEF Keeps, Owes, Frame

LEMMA ReadSums ==
  ASSUME CInv, AddsUp, NEW r \in Requests, Owes(r), ReadPrice(r) \/ ReadFirstPrice(r)
  PROVE  Keeps(r)
<1>1. Working(r) /\ call[r].kind = "ADD"
  BY DEF ReadPrice, ReadFirstPrice, Serves, Working, Finished
<1> DEFINE item == NewCartItem(r)
           subTotal == local[r].subTotal + item.itemTotal
           first == item.itemTotal
<1>2. item.itemTotal = item.qty * item.sellingPrice
  BY DEF NewCartItem
<1>3. CASE ReadPrice(r)
  <2>1. Remember(r, subTotal, item, "target") /\ local[r].subTotal = Cart.subTotal
    BY <1>3 DEF ReadPrice, Serves, Owes
  <2>2. subTotal = Cart.subTotal + item.itemTotal
    BY <2>1
  <2> HIDE DEF item, subTotal
  <2>3. /\ Frame(r) /\ Cart' = Cart /\ pc'[r] = "target"
        /\ local'[r].subTotal = subTotal /\ local'[r].item = item
    BY <1>1, <2>1, RememberFrame DEF States
  <2> QED BY <1>1, <1>2, <2>2, <2>3, SameTotal DEF Keeps, Owes, Frame
<1>4. CASE ReadFirstPrice(r)
  <2>1. Remember(r, first, item, "replace")
    BY <1>4 DEF ReadFirstPrice, Serves
  <2>2. first = item.itemTotal
    OBVIOUS
  <2> HIDE DEF item, first
  <2>3. /\ Frame(r) /\ Cart' = Cart /\ pc'[r] = "replace"
        /\ local'[r].subTotal = first /\ local'[r].item = item
    BY <1>1, <2>1, RememberFrame DEF States
  <2> QED BY <2>2, <2>3, SameTotal DEF Keeps, Owes, Frame
<1> QED BY <1>3, <1>4

LEMMA OneFirst ==
  ASSUME CInv, NEW i, NEW m \in FirstOf(i), NEW n \in FirstOf(i)
  PROVE  m = n
<1>1. m \in Int /\ n \in Int
  BY Element, StateTypes DEF FirstOf, PositionsOf, CInv, Typed
<1> QED BY <1>1 DEF FirstOf

LEMMA FailSums ==
  ASSUME CInv, AddsUp, NEW r \in Requests, Working(r), Fail(r)
  PROVE  Keeps(r)
BY FailFrame, SameTotal DEF Keeps, Finished

LEMMA TargetSums ==
  ASSUME CInv, AddsUp, SumsHold, NEW r \in Requests, Owes(r), call[r].kind \in load.kinds,
         AddTarget(r) \/ IncreaseTarget(r) \/ DecreaseTarget(r) \/ DeleteTarget(r)
  PROVE  Keeps(r)
<1> DEFINE i == call[r].stockItemId
<1>1. Working(r) /\ pc[r] = "target"
  BY DEF AddTarget, IncreaseTarget, DecreaseTarget, DeleteTarget, Serves, Working, Finished
<1>2. CASE Fail(r)
  BY <1>1, <1>2, FailSums
<1>3. CASE call[r].kind = "ADD" /\ Move(r, "push")
  <2>1. Frame(r) /\ Cart' = Cart /\ pc'[r] = "push" /\ local'[r] = local[r]
    BY <1>1, <1>3, MoveFrame DEF States
  <2> QED BY <1>1, <1>3, <2>1, SameTotal DEF Keeps, Owes, Frame
<1>4. ASSUME NEW n \in FirstOf(i), NEW subTotal, NEW item, Remember(r, subTotal, item, "set"),
             subTotal = Cart.subTotal + (item.itemTotal - Cart.cartItems[n].itemTotal)
      PROVE  Keeps(r)
  <2>1. /\ Frame(r) /\ Cart' = Cart /\ pc'[r] = "set"
        /\ local'[r].subTotal = subTotal /\ local'[r].item = item
    BY <1>1, <1>4, RememberFrame DEF States
  <2>2. \A m \in FirstOf(i) : m = n
    BY OneFirst
  <2> QED BY <1>4, <2>1, <2>2, SameTotal DEF Keeps, Owes, Frame
<1>5. ASSUME NEW n \in FirstOf(i), NEW subTotal, Remember(r, subTotal, Cart.cartItems[n], "pull"),
             subTotal = Cart.subTotal - Cart.cartItems[n].itemTotal
      PROVE  Keeps(r)
  <2>1. /\ Frame(r) /\ Cart' = Cart /\ pc'[r] = "pull"
        /\ local'[r].subTotal = subTotal /\ local'[r].item = Cart.cartItems[n]
    BY <1>1, <1>5, RememberFrame DEF States
  <2>2. \A m \in FirstOf(i) : m = n
    BY OneFirst
  <2> QED BY <1>5, <2>1, <2>2, SameTotal DEF Keeps, Owes, Frame
<1>6. /\ Cart.subTotal \in Int /\ local[r].item \in Item
      /\ \A n \in FirstOf(i) : Cart.cartItems[n] \in Item
  BY StateTypes, Element DEF CInv
<1>7. CASE AddTarget(r)
  <2>1. call[r].kind = "ADD" /\ local[r].subTotal = Cart.subTotal + local[r].item.itemTotal
        /\ local[r].item.itemTotal = local[r].item.qty * local[r].item.sellingPrice
    BY <1>1, <1>7 DEF AddTarget, Serves, Owes
  <2>2. ASSUME NEW n \in FirstOf(i),
               Remember(r, local[r].subTotal,
                 Changed(Cart.cartItems[n], local[r].item.qty, local[r].item.sellingPrice), "set")
        PROVE  Keeps(r)
    <3> DEFINE item == Changed(Cart.cartItems[n], local[r].item.qty, local[r].item.sellingPrice)
    <3>1. item.itemTotal = Cart.cartItems[n].itemTotal + local[r].item.itemTotal
      <4> DEFINE units == local[r].item.qty
                 price == local[r].item.sellingPrice
                 old == Cart.cartItems[n]
      <4>1. units \in Int /\ price \in Nat /\ old \in Item
        BY <1>6 DEF Item
      <4>2. local[r].item.itemTotal = units * price /\ item = Changed(old, units, price)
        BY <2>1
      <4> HIDE DEF units, price, old, item
      <4>3. item.itemTotal = old.itemTotal + units * price
        BY <4>1, <4>2, ChangedType
      <4> QED BY <4>2, <4>3 DEF old
    <3>2. Cart.cartItems[n].itemTotal \in Int /\ local[r].item.itemTotal \in Int
      BY <1>6 DEF Item
    <3> HIDE DEF item
    <3>3. local[r].subTotal = Cart.subTotal + (item.itemTotal - Cart.cartItems[n].itemTotal)
      BY <1>6, <2>1, <3>1, <3>2
    <3> QED BY <1>4, <2>2, <3>3 DEF item
  <2> QED BY <1>2, <1>3, <1>7, <2>1, <2>2 DEF AddTarget, Target
\* One unit more, or less, at the price of the element.
<1>8. ASSUME NEW n \in FirstOf(i), NEW units \in Int, NEW subTotal,
             subTotal = Cart.subTotal + units * Cart.cartItems[n].sellingPrice,
             Remember(r, subTotal, Changed(Cart.cartItems[n], units, Cart.cartItems[n].sellingPrice), "set")
      PROVE  Keeps(r)
  <2> DEFINE item == Changed(Cart.cartItems[n], units, Cart.cartItems[n].sellingPrice)
             more == units * Cart.cartItems[n].sellingPrice
  <2>1. Cart.cartItems[n].sellingPrice \in Nat /\ Cart.cartItems[n].itemTotal \in Int
    BY <1>6 DEF Item
  <2>2. item.itemTotal = Cart.cartItems[n].itemTotal + more /\ more \in Int
    BY <1>6, <2>1, ChangedType, Products
  <2> HIDE DEF item, more
  <2>3. subTotal = Cart.subTotal + (item.itemTotal - Cart.cartItems[n].itemTotal)
    BY <1>6, <1>8, <2>1, <2>2 DEF more
  <2> QED BY <1>4, <1>8, <2>3 DEF item
<1>9. CASE IncreaseTarget(r)
  <2>1. local[r].subTotal = Cart.subTotal
    BY <1>1, <1>9 DEF IncreaseTarget, Serves, Owes
  <2>2. ASSUME NEW n \in FirstOf(i),
               Remember(r, local[r].subTotal + Unit * Cart.cartItems[n].sellingPrice,
                        Changed(Cart.cartItems[n], Unit, Cart.cartItems[n].sellingPrice), "set")
        PROVE  Keeps(r)
    <3> DEFINE units == Unit
               subTotal == local[r].subTotal + Unit * Cart.cartItems[n].sellingPrice
    <3>1. /\ Cart.cartItems[n].sellingPrice \in Int /\ units \in Int
          /\ Unit * Cart.cartItems[n].sellingPrice \in Int
      BY <1>6, Products, NumbersAssumption DEF Item
    <3>2. subTotal = Cart.subTotal + units * Cart.cartItems[n].sellingPrice
      BY <1>6, <2>1, <3>1
    <3>3. Remember(r, subTotal,
                   Changed(Cart.cartItems[n], units, Cart.cartItems[n].sellingPrice), "set")
      BY <2>2
    <3> HIDE DEF units, subTotal
    <3> QED BY <1>8, <3>1, <3>2, <3>3
  <2> QED BY <1>2, <1>9, <2>2 DEF IncreaseTarget, Target, Serves
<1>10. CASE DecreaseTarget(r)
  <2>1. local[r].subTotal = Cart.subTotal /\ call[r].kind = "DECREASE"
    BY <1>1, <1>10 DEF DecreaseTarget, Serves, Owes
  <2>2. ASSUME NEW n \in FirstOf(i),
               Remember(r, local[r].subTotal - Unit * Cart.cartItems[n].sellingPrice,
                        Changed(Cart.cartItems[n], -Unit, Cart.cartItems[n].sellingPrice), "set")
        PROVE  Keeps(r)
    <3> DEFINE units == -Unit
               subTotal == local[r].subTotal - Unit * Cart.cartItems[n].sellingPrice
    <3>1. /\ Cart.cartItems[n].sellingPrice \in Int /\ units \in Int
          /\ Unit * Cart.cartItems[n].sellingPrice \in Int
      BY <1>6, Products, NumbersAssumption DEF Item
    <3>2. subTotal = Cart.subTotal + units * Cart.cartItems[n].sellingPrice
      BY <1>6, <2>1, <3>1, Negates, NumbersAssumption
    <3>3. Remember(r, subTotal,
                   Changed(Cart.cartItems[n], units, Cart.cartItems[n].sellingPrice), "set")
      BY <2>2
    <3> HIDE DEF units, subTotal
    <3> QED BY <1>8, <3>1, <3>2, <3>3
  <2>3. ASSUME NEW n \in FirstOf(i), ~(Cart.cartItems[n].qty > Unit),
               Remember(r, local[r].subTotal - Unit * Cart.cartItems[n].sellingPrice,
                        Cart.cartItems[n], "pull")
        PROVE  Keeps(r)
    <3>1. Worth(Cart.cartItems[n])
      BY <2>1, Element DEF SumsHold
    <3>2. Cart.cartItems[n].qty = Unit /\ Cart.cartItems[n].sellingPrice \in Int
      <4>1. Cart.cartItems[n].qty \in Nat /\ Whole(Cart.cartItems[n].qty)
        BY <1>6, <2>1, <3>1 DEF Item, Worth, Amount, SumsHold
      <4> QED BY <1>6, <2>3, <4>1, WholeOne, NumbersAssumption DEF Item
    <3>3. Cart.cartItems[n].itemTotal = Unit * Cart.cartItems[n].sellingPrice
      BY <3>1, <3>2 DEF Worth
    <3> DEFINE subTotal == local[r].subTotal - Unit * Cart.cartItems[n].sellingPrice
    <3>4. subTotal = Cart.subTotal - Cart.cartItems[n].itemTotal
      BY <2>1, <3>3
    <3> HIDE DEF subTotal
    <3> QED BY <1>5, <2>3, <3>4 DEF subTotal
  <2> QED BY <1>2, <1>10, <2>1, <2>2, <2>3 DEF DecreaseTarget, Target, Serves
<1>11. CASE DeleteTarget(r)
  <2>1. local[r].subTotal = Cart.subTotal /\ call[r].kind = "DELETE"
    BY <1>1, <1>11 DEF DeleteTarget, Serves, Owes
  <2>2. ASSUME NEW n \in FirstOf(i),
               Remember(r, local[r].subTotal - Cart.cartItems[n].itemTotal,
                        Cart.cartItems[n], "pull")
        PROVE  Keeps(r)
    <3> DEFINE subTotal == local[r].subTotal - Cart.cartItems[n].itemTotal
    <3>1. subTotal = Cart.subTotal - Cart.cartItems[n].itemTotal
      BY <2>1
    <3> HIDE DEF subTotal
    <3> QED BY <1>5, <2>2, <3>1 DEF subTotal
  <2> QED BY <1>2, <1>11, <2>1, <2>2 DEF DeleteTarget, Target, Serves
<1> QED BY <1>7, <1>9, <1>10, <1>11

LEMMA SetSums ==
  ASSUME CInv, AddsUp, NEW r \in Requests, Owes(r), SetItem(r)
  PROVE  Keeps(r)
<1>1. Working(r) /\ pc[r] = "set"
  BY DEF SetItem, Serves, Working, Finished
<1>2. CASE Fail(r)
  BY <1>1, <1>2, FailSums
<1>3. ASSUME NEW n \in FirstOf(call[r].stockItemId),
             Write(r, [Cart EXCEPT !.subTotal = local[r].subTotal,
                                   !.cartItems[n].qty = local[r].item.qty,
                                   !.cartItems[n].itemTotal = local[r].item.itemTotal])
      PROVE  Keeps(r)
  <2> DEFINE written == [Cart.cartItems[n] EXCEPT !.qty = local[r].item.qty,
                                                  !.itemTotal = local[r].item.itemTotal]
             items == [Cart.cartItems EXCEPT ![n] = written]
             cart == [Cart EXCEPT !.subTotal = local[r].subTotal, !.cartItems = items]
             before == Cart.cartItems
  <2>1. n \in DOMAIN before /\ before[n] \in Item /\ local[r].item \in Item /\ before \in Seq(Item)
    BY Element, StateTypes DEF CInv
  <2>2. written \in Item /\ written.itemTotal = local[r].item.itemTotal
    BY <2>1 DEF Item
  <2>3. [Cart EXCEPT !.subTotal = local[r].subTotal,
                     !.cartItems[n].qty = local[r].item.qty,
                     !.cartItems[n].itemTotal = local[r].item.itemTotal] = cart
    BY Zenon
  <2>4. Write(r, cart)
    BY <1>3, <2>3
  <2> HIDE DEF written
  <2>5. /\ items \in Seq(Item) /\ DOMAIN items = DOMAIN before
        /\ items[n] = written /\ \A m \in DOMAIN before \ {n} : items[m] = before[m]
    BY <2>1, <2>2
  <2> HIDE DEF items
  <2>6. cart.cartItems = items /\ cart.subTotal = local[r].subTotal
    BY DEF CInv, Typed
  <2> HIDE DEF cart
  <2>7. Cart' = cart /\ pc'[r] = "done"
    BY <1>1, <2>4, WriteFrame
  <2>8. local[r].subTotal = Cart.subTotal + (local[r].item.itemTotal - before[n].itemTotal)
        /\ Cart.subTotal = Total(before)
    BY <1>1 DEF Owes, AddsUp
  <2> HIDE DEF before
  <2>9. Total(items) = Total(before) + (items[n].itemTotal - before[n].itemTotal)
    BY <2>1, <2>5, TotalChanges
  <2> QED BY <2>2, <2>5, <2>6, <2>7, <2>8, <2>9 DEF Keeps, AddsUp, Finished
<1> QED BY <1>2, <1>3 DEF SetItem

LEMMA PullSums ==
  ASSUME CInv, OneEntity, AddsUp, NEW r \in Requests, Owes(r), PullItem(r)
  PROVE  Keeps(r)
<1> DEFINE i == call[r].stockItemId
<1>1. Working(r) /\ pc[r] = "pull"
  BY DEF PullItem, Serves, Working, Finished
<1>2. CASE Fail(r)
  BY <1>1, <1>2, FailSums
<1> DEFINE items == Pull(Cart.cartItems, {local[r].item})
           cart == [Cart EXCEPT !.subTotal = local[r].subTotal, !.cartItems = items]
<1>3. CASE PositionsOf(i) # {} /\ Write(r, cart)
  <2> DEFINE before == Cart.cartItems
             leaving == {local[r].item}
  <2>1. PICK n : n \in PositionsOf(i)
    BY <1>3
  <2>2. n \in DOMAIN before /\ before \in Seq(Item) /\ DOMAIN before \in SUBSET Int
    BY <2>1, StateTypes DEF PositionsOf, CInv
  <2>3. n \in FirstOf(i)
    BY <2>1, <2>2 DEF FirstOf, PositionsOf, OneEntity
  <2>4. local[r].item = before[n] /\ local[r].subTotal = Cart.subTotal - before[n].itemTotal
        /\ Cart.subTotal = Total(before)
    BY <1>1, <2>3 DEF Owes, AddsUp
  <2>5. \A m \in DOMAIN before : before[m] \in leaving <=> m = n
    BY <2>2, <2>4 DEF OneEntity
  <2>6. items = Pull(before, leaving)
    OBVIOUS
  <2> HIDE DEF before, leaving, items
  <2>7. Total(items) = Total(before) - before[n].itemTotal
    BY <2>2, <2>5, <2>6, TotalPulls
  <2>8. cart.cartItems = items /\ cart.subTotal = local[r].subTotal
    BY DEF CInv, Typed
  <2> HIDE DEF cart
  <2>9. Cart' = cart /\ pc'[r] = "done"
    BY <1>1, <1>3, WriteFrame
  <2> QED BY <2>4, <2>7, <2>8, <2>9 DEF Keeps, AddsUp, Finished
<1> QED BY <1>2, <1>3 DEF PullItem

LEMMA PushSums ==
  ASSUME CInv, AddsUp, NEW r \in Requests, Owes(r), PushItem(r) \/ ReplaceItems(r)
  PROVE  Keeps(r)
<1>1. Working(r) /\ local[r].item \in Item /\ Cart.cartItems \in Seq(Item)
  BY StateTypes DEF PushItem, ReplaceItems, Serves, Working, Finished, CInv
<1>2. ASSUME NEW items, local[r].subTotal = Total(items),
             Write(r, [entityId |-> EntityOf[call[r].stockItemId], cartItems |-> items,
                       subTotal |-> local[r].subTotal])
      PROVE  Keeps(r)
  <2> DEFINE cart == [entityId |-> EntityOf[call[r].stockItemId], cartItems |-> items,
                      subTotal |-> local[r].subTotal]
  <2>1. cart.cartItems = items /\ cart.subTotal = local[r].subTotal /\ Write(r, cart)
    BY <1>2
  <2> HIDE DEF cart
  <2>2. Cart' = cart /\ pc'[r] = "done"
    BY <1>1, <2>1, WriteFrame
  <2> QED BY <1>2, <2>1, <2>2 DEF Keeps, AddsUp, Finished
<1>3. CASE PushItem(r)
  <2> DEFINE items == Append(Cart.cartItems, local[r].item)
  <2>1. local[r].subTotal = Cart.subTotal + local[r].item.itemTotal
    BY <1>3 DEF PushItem, Serves, Owes
  <2>2. Total(items) = Total(Cart.cartItems) + local[r].item.itemTotal
    BY <1>1, TotalAppends
  <2> HIDE DEF items
  <2>3. local[r].subTotal = Total(items)
    BY <2>1, <2>2 DEF AddsUp
  <2> QED BY <1>2, <1>3, <2>3 DEF PushItem, items
<1>4. CASE ReplaceItems(r)
  <2> DEFINE items == <<local[r].item>>
  <2>1. local[r].subTotal = local[r].item.itemTotal
    BY <1>4 DEF ReplaceItems, Serves, Owes
  <2>2. Total(items) = local[r].item.itemTotal
    BY <1>1, TotalOfOne
  <2> HIDE DEF items
  <2>3. local[r].subTotal = Total(items)
    BY <2>1, <2>2
  <2> QED BY <1>2, <1>4, <2>3 DEF ReplaceItems, items
<1> QED BY <1>3, <1>4

LEMMA EmptySums ==
  ASSUME CInv, AddsUp, NEW r \in Requests, Owes(r),
         DeleteFromEmpty(r) \/ OrderCreate(r) \/ OrderFindCart(r) \/ OrderClear(r)
  PROVE  Keeps(r)
<1>1. Working(r)
  BY DEF DeleteFromEmpty, OrderCreate, OrderFindCart, OrderClear, Serves, Working, Finished
<1>2. ASSUME NEW cart, Write(r, cart), cart.cartItems = <<>>, cart.subTotal = 0
      PROVE  Keeps(r)
  <2>1. Cart' = cart /\ pc'[r] = "done"
    BY <1>1, <1>2, WriteFrame
  <2> QED BY <1>2, <2>1, TotalOfNone DEF Keeps, AddsUp, Finished
<1>3. CASE DeleteFromEmpty(r)
  <2> DEFINE cart == [Cart EXCEPT !.subTotal = 0]
  <2>1. Cart.cartItems = <<>> /\ Write(r, cart)
    BY <1>3 DEF DeleteFromEmpty, Serves, Owes
  <2>2. cart.cartItems = Cart.cartItems /\ cart.subTotal = 0
    BY DEF CInv, Typed
  <2> HIDE DEF cart
  <2> QED BY <1>2, <2>1, <2>2
<1>4. CASE OrderClear(r)
  <2> DEFINE none == << >>
             zero == 0
             cart == [Cart EXCEPT !.cartItems = none, !.subTotal = zero]
  <2>1. Write(r, cart) /\ none = << >> /\ zero = 0
    BY <1>4 DEF OrderClear
  <2> HIDE DEF none, zero
  <2>2. cart.cartItems = none /\ cart.subTotal = zero
    BY DEF CInv, Typed
  <2> HIDE DEF cart
  <2> QED BY <1>2, <2>1, <2>2
<1>5. ASSUME NEW at \in {"findCart", "clear", "done", "failed"}, Move(r, at)
      PROVE  Keeps(r)
  <2>1. Frame(r) /\ Cart' = Cart /\ pc'[r] = at
    BY <1>1, <1>5, MoveFrame DEF States, Finished
  <2> QED BY <2>1, SameTotal DEF Keeps, Owes
<1>6. CASE OrderCreate(r)
  BY <1>5, <1>6 DEF OrderCreate, Fail
<1>7. CASE OrderFindCart(r)
  BY <1>5, <1>7 DEF OrderFindCart
<1> QED BY <1>3, <1>4, <1>6, <1>7

LEMMA HandlerSums ==
  ASSUME CInv, OneEntity, AddsUp, SumsHold, NEW r \in Requests, Owes(r),
         call[r].kind \in load.kinds, Handler(r)
  PROVE  Keeps(r)
BY FindSums, ReadSums, TargetSums, SetSums, PullSums, PushSums, EmptySums DEF Handler

LEMMA SumNext ==
  ASSUME CInv, SerialInv, SumInv, [Next]_vars
  PROVE  SumInv'
<1> SUFFICES ASSUME Serial', SumsHold' PROVE SumInv'
  BY DEF SumInv
<1>1. load' = load /\ Serial /\ SumsHold
  <2>1. load' = load
    BY DEF Next, vars, Arrive, Reprice, ProcessExit, Handler, FindCart, SetItem, PullItem,
       ReadPrice, ReadFirstPrice, AddTarget, PushItem, ReplaceItems, IncreaseTarget,
       DecreaseTarget, DeleteTarget, DeleteFromEmpty, OrderCreate, OrderFindCart, OrderClear,
       Target, Remember, Write, Fail, Move
  <2> QED BY <2>1 DEF Serial, SumsHold, FixedPrices, WholeUnits, Whole
<1>2. /\ AddsUp /\ OneEntity
      /\ \A r \in Requests : Working(r) => Owes(r) /\ call[r].kind \in load.kinds /\ Stands(r)
      /\ \A r, o \in Requests : Working(r) /\ Working(o) => r = o
  BY <1>1 DEF SumInv, SerialInv
<1>3. ASSUME NEW r \in Requests, Arrive(r) PROVE SumInv'
  <2>1. /\ Cart' = Cart /\ local' = local /\ pc'[r] = "find"
        /\ \A o \in Requests \ {r} : pc'[o] = pc[o] /\ call'[o] = call[o]
        /\ call'[r].kind \in load.kinds
    BY <1>3 DEF Arrive, Goto, CInv, Typed
  <2>2. AddsUp' /\ \A i : FirstOf(i)' = FirstOf(i)
    BY <1>2, <2>1, SameTotal
  <2>3. ASSUME NEW o \in Requests, Working(o)' PROVE (Owes(o) /\ call[o].kind \in load.kinds)'
    <3>1. CASE o = r
      BY <1>1, <2>1, <3>1 DEF Owes
    <3>2. CASE o # r
      <4>1. Working(o)
        BY <2>1, <2>3, <3>2 DEF Working
      <4> QED BY <1>1, <1>2, <2>1, <2>2, <3>2, <4>1 DEF Owes
    <3> QED BY <3>1, <3>2
  <2> QED BY <2>2, <2>3 DEF SumInv
<1>4. ASSUME NEW r \in Requests, Handler(r) PROVE SumInv'
  <2>1. Working(r)
    BY <1>4, HandlerWorks
  <2>2. Keeps(r) /\ StepHolds(r)
    BY <1>1, <1>2, <1>4, <2>1, HandlerSums, HandlerOne
  <2>3. \A o \in Requests : Working(o)' => o = r
    BY <1>2, <2>1, <2>2 DEF StepHolds, Frame, Working
  <2> QED BY <1>1, <1>2, <2>1, <2>2, <2>3 DEF SumInv, Keeps, StepHolds, Frame, Working
<1>5. CASE Reprice
  <2>1. Cart' = Cart /\ local' = local /\ pc' = pc /\ call' = call
    BY <1>5 DEF Reprice
  <2> QED BY <1>1, <1>2, <2>1 DEF SumInv, AddsUp, Working, Owes, FirstOf, PositionsOf
<1>6. CASE ProcessExit
  <2>1. Cart' = Cart /\ \A o \in Requests : ~Working(o)'
    BY <1>6 DEF ProcessExit, Working, Finished, CInv, Typed
  <2> QED BY <1>2, <2>1, SameTotal DEF SumInv
<1>7. CASE UNCHANGED vars
  <2>1. Cart' = Cart /\ local' = local /\ pc' = pc /\ call' = call
    BY <1>7 DEF vars
  <2> QED BY <1>1, <1>2, <2>1 DEF SumInv, AddsUp, Working, Owes, FirstOf, PositionsOf
<1> QED BY <1>3, <1>4, <1>5, <1>6, <1>7 DEF Next

\* One request at a time, whatever the handlers add, take off, delete and order,
\* refuse or lose, subTotal is the sum of the elements, of a cart of any length.
THEOREM SubTotalsAddUp == Spec => []SubTotalAddsUpWhenSerial
<1>1. Init => SumInv
  <2> SUFFICES ASSUME Init PROVE SumInv
    OBVIOUS
  <2>1. /\ Cart \in [entityId: Entities, cartItems: {<<>>}, subTotal: {0}]
        /\ \A r \in Requests : ~Working(r)
    BY DEF Init, Working
  <2>2. Cart.cartItems = <<>> /\ Cart.subTotal = 0
    BY <2>1
  <2> QED BY <2>1, <2>2, TotalOfNone DEF SumInv, AddsUp
<1>2. SumInv => SubTotalAddsUpWhenSerial
  BY DEF SumInv, SumsHold, AddsUp, SubTotalAddsUpWhenSerial
<1> QED BY <1>1, <1>2, SerialInvariant, SumNext, PTL DEF Spec
=============================================================================
