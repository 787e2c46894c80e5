-------------------------------- MODULE Cart --------------------------------
(***************************************************************************)
(* The cart of one customer (cart.service.ts), and the customer orders     *)
(* that empty it (customer-order.service.ts).                              *)
(*                                                                         *)
(* Each handler reads the cart, reads again the element it is about, and   *)
(* writes what it has computed from both in one update: of an element, the *)
(* update is positional; of subTotal, it is blind.  Carts of different     *)
(* customers share nothing.                                                *)
(***************************************************************************)
EXTENDS Integers, Sequences, FiniteSetsExt, Arrays

CONSTANTS
  Requests,    \* calls of the HTTP handlers
  Entities,
  StockItems,
  EntityOf,    \* the entityId of each stock item
  Unit,        \* the parts in a qty of 1, see Load
  Loads        \* what may be asked of the service, see Load

AllKinds == {"ADD", "DELETE", "INCREASE", "DECREASE", "ORDER"}

ASSUME EntitiesAssumption == EntityOf \in [StockItems -> Entities]
ASSUME NumbersAssumption == Unit \in Nat \ {0}

\* The handlers in use, how many requests are served at a time (a bound), the
\* values sellingPrice may take, and the qty an AddItemDto may carry: a number
\* that is not negative, 0 and fractions included.  Quantities are counted in
\* parts of a unit, and sellingPrice is that of a part.
Load == [kinds: SUBSET AllKinds, atOnce: Nat \ {0}, prices: SUBSET Nat, qtys: SUBSET Nat]
ASSUME LoadsAssumption == Loads \subseteq Load

VARIABLES
  load,          \* the load of this behaviour
  Cart,          \* the cart document
  sellingPrice,  \* warehouseStockItems.sellingPrice, of each stock item
  pc,            \* the next step of a request
  call,          \* what was requested
  local          \* variables of the handler

vars == <<load, Cart, sellingPrice, pc, call, local>>

NoItem == [stockItemId |-> "none", qty |-> 0, sellingPrice |-> 0, itemTotal |-> 0]
NoCall == [kind |-> "none"]
NewLocal == [subTotal |-> 0, item |-> NoItem]

Finished == {"done", "failed", "crashed"}
Working(r) == pc[r] \notin {"idle"} \union Finished

\* The cart that createCart makes when the customer verifies the email.
Init ==
  /\ load \in Loads
  /\ Cart \in [entityId: Entities, cartItems: {<<>>}, subTotal: {0}]
  /\ sellingPrice \in [StockItems -> load.prices]
  /\ pc = [r \in Requests |-> "idle"]
  /\ call = [r \in Requests |-> NoCall]
  /\ local = [r \in Requests |-> NewLocal]

-----------------------------------------------------------------------------
(* Requests *)

Serves(r, kinds, at) == pc[r] = at /\ call[r].kind \in kinds
Goto(r, at) == pc' = [pc EXCEPT ![r] = at]
Move(r, at) == Goto(r, at) /\ UNCHANGED <<load, Cart, sellingPrice, call, local>>
Fail(r) == Move(r, "failed")

Remember(r, subTotal, item, at) ==
  /\ local' = [local EXCEPT ![r] = [subTotal |-> subTotal, item |-> item]]
  /\ Goto(r, at)
  /\ UNCHANGED <<load, Cart, sellingPrice, call>>
Write(r, cart) ==
  Cart' = cart /\ Goto(r, "done") /\ UNCHANGED <<load, sellingPrice, call, local>>

Calls ==
  [kind: {"ADD"}, stockItemId: StockItems, qty: load.qtys]
    \union [kind: {"DELETE", "INCREASE", "DECREASE"}, stockItemId: StockItems]
    \union [kind: {"ORDER"}, entityId: Entities]

Arrive(r) ==
  /\ pc[r] = "idle"
  /\ Cardinality({o \in Requests : Working(o)}) < load.atOnce
  /\ \E c \in Calls : c.kind \in load.kinds /\ call' = [call EXCEPT ![r] = c]
  /\ Goto(r, "find")
  /\ UNCHANGED <<load, Cart, sellingPrice, local>>

\* findOne({customerId}): of it, the handlers use subTotal, entityId and
\* whether there are items.
FindCart(r) ==
  /\ Serves(r, AllKinds \ {"ORDER"}, "find")
  /\ Remember(r, Cart.subTotal, NoItem,
       CASE call[r].kind = "DELETE" /\ Cart.cartItems = <<>> -> "reset"
         [] call[r].kind # "ADD" -> "target"
         [] EntityOf[call[r].stockItemId] # Cart.entityId -> "priceFirst"
         [] Cart.cartItems = <<>> -> "priceFirst"
         [] OTHER -> "price")

\* The elements of a stock item, and the first one: what $elemMatch returns and
\* a positional update writes.
PositionsOf(i) == {n \in DOMAIN Cart.cartItems : Cart.cartItems[n].stockItemId = i}
FirstOf(i) == {n \in PositionsOf(i) : \A m \in PositionsOf(i) : n <= m}

\* The element a request is about is read again: the answer to a request that
\* finds none dereferences null.
Target(r, Then(_)) ==
  IF PositionsOf(call[r].stockItemId) = {}
  THEN IF call[r].kind = "ADD" THEN Move(r, "push") ELSE Fail(r)
  ELSE \E n \in FirstOf(call[r].stockItemId) : Then(Cart.cartItems[n])

\* By so many parts, at so much each; the new subTotal comes from the first read.
Changed(item, parts, price) ==
  [item EXCEPT !.qty = item.qty + parts, !.itemTotal = item.itemTotal + parts * price]

\* updateOne({_id, 'cartItems.stockItemId'}): '002' when the element is gone.
SetItem(r) ==
  /\ Serves(r, {"ADD", "INCREASE", "DECREASE"}, "set")
  /\ IF PositionsOf(call[r].stockItemId) = {}
     THEN Fail(r)
     ELSE \E n \in FirstOf(call[r].stockItemId) :
            Write(r, [Cart EXCEPT !.subTotal = local[r].subTotal,
                                  !.cartItems[n].qty = local[r].item.qty,
                                  !.cartItems[n].itemTotal = local[r].item.itemTotal])

\* $pull of the element that was read: of those that are equal to it still.
PullItem(r) ==
  /\ Serves(r, {"DELETE", "DECREASE"}, "pull")
  /\ IF PositionsOf(call[r].stockItemId) = {}
     THEN Fail(r)
     ELSE Write(r, [Cart EXCEPT
            !.subTotal = local[r].subTotal,
            !.cartItems = Pull(Cart.cartItems, {local[r].item})])

-----------------------------------------------------------------------------
(* addItemsToCart *)

\* The price is read after the cart.
NewCartItem(r) ==
  LET price == sellingPrice[call[r].stockItemId]
  IN  [stockItemId |-> call[r].stockItemId, qty |-> call[r].qty,
       sellingPrice |-> price, itemTotal |-> call[r].qty * price]

ReadPrice(r) ==
  /\ Serves(r, {"ADD"}, "price")
  /\ Remember(r, local[r].subTotal + NewCartItem(r).itemTotal, NewCartItem(r), "target")

ReadFirstPrice(r) ==
  /\ Serves(r, {"ADD"}, "priceFirst")
  /\ Remember(r, NewCartItem(r).itemTotal, NewCartItem(r), "replace")

AddTarget(r) ==
  /\ Serves(r, {"ADD"}, "target")
  /\ Target(r, LAMBDA item :
       Remember(r, local[r].subTotal,
                Changed(item, local[r].item.qty, local[r].item.sellingPrice), "set"))

PushItem(r) ==
  /\ Serves(r, {"ADD"}, "push")
  /\ Write(r, [entityId |-> EntityOf[call[r].stockItemId],
               cartItems |-> Append(Cart.cartItems, local[r].item),
               subTotal |-> local[r].subTotal])

\* Mutation: the items of the other entity stay.
PushOtherEntity(r) ==
  /\ Serves(r, {"ADD"}, "replace")
  /\ Write(r, [entityId |-> EntityOf[call[r].stockItemId],
               cartItems |-> Append(Cart.cartItems, local[r].item),
               subTotal |-> Cart.subTotal + local[r].subTotal])

\* The first item of the cart, or of another entity than the cart's.
ReplaceItems(r) ==
  /\ Serves(r, {"ADD"}, "replace")
  /\ Write(r, [entityId |-> EntityOf[call[r].stockItemId],
               cartItems |-> <<local[r].item>>, subTotal |-> local[r].subTotal])

-----------------------------------------------------------------------------
(* increaseItemQty, decreaseItemQty, deleteItemFromCart *)

IncreaseTarget(r) ==
  /\ Serves(r, {"INCREASE"}, "target")
  /\ Target(r, LAMBDA item :
       Remember(r, local[r].subTotal + Unit * item.sellingPrice,
                Changed(item, Unit, item.sellingPrice), "set"))

\* Mutation: the last unit is taken from the element, which stays.
DecreaseNeverPulls(r) ==
  /\ Serves(r, {"DECREASE"}, "target")
  /\ Target(r, LAMBDA item :
       Remember(r, local[r].subTotal - Unit * item.sellingPrice,
                Changed(item, -Unit, item.sellingPrice), "set"))

DecreaseTarget(r) ==
  /\ Serves(r, {"DECREASE"}, "target")
  /\ Target(r, LAMBDA item :
       IF item.qty > Unit
       THEN Remember(r, local[r].subTotal - Unit * item.sellingPrice,
                     Changed(item, -Unit, item.sellingPrice), "set")
       ELSE Remember(r, local[r].subTotal - Unit * item.sellingPrice, item, "pull"))

\* Mutation: the price of one unit is subtracted.
DeleteSubtractsUnit(r) ==
  /\ Serves(r, {"DELETE"}, "target")
  /\ Target(r, LAMBDA item :
       Remember(r, local[r].subTotal - Unit * item.sellingPrice, item, "pull"))

DeleteTarget(r) ==
  /\ Serves(r, {"DELETE"}, "target")
  /\ Target(r, LAMBDA item :
       Remember(r, local[r].subTotal - item.itemTotal, item, "pull"))

\* An empty cart: CartItems, as the update writes it, is no path of the schema.
DeleteFromEmpty(r) ==
  Serves(r, {"DELETE"}, "reset") /\ Write(r, [Cart EXCEPT !.subTotal = 0])

-----------------------------------------------------------------------------
(* createOrder of customer-order.service.ts.  The order is written, or       *)
(* refused; no write carries the session, and the items are those of the dto. *)

OrderCreate(r) ==
  /\ Serves(r, {"ORDER"}, "find")
  /\ Fail(r) \/ Move(r, "findCart")

\* Mutation: without entityId in the filter.
OrderFindAnyCart(r) == Serves(r, {"ORDER"}, "findCart") /\ Move(r, "clear")

OrderFindCart(r) ==
  /\ Serves(r, {"ORDER"}, "findCart")
  /\ Move(r, IF Cart.entityId = call[r].entityId THEN "clear" ELSE "done")

OrderClear(r) ==
  /\ Serves(r, {"ORDER"}, "clear")
  /\ Write(r, [Cart EXCEPT !.cartItems = <<>>, !.subTotal = 0])

-----------------------------------------------------------------------------

\* The merchant changes the price of an item.
Reprice ==
  /\ \E i \in StockItems, p \in load.prices :
       p # sellingPrice[i] /\ sellingPrice' = [sellingPrice EXCEPT ![i] = p]
  /\ UNCHANGED <<load, Cart, pc, call, local>>

\* The process exits, and every request at work is lost.
ProcessExit ==
  /\ \E r \in Requests : Working(r)
  /\ pc' = [r \in Requests |-> IF Working(r) THEN "crashed" ELSE pc[r]]
  /\ UNCHANGED <<load, Cart, sellingPrice, call, local>>

Handler(r) ==
  \/ FindCart(r) \/ SetItem(r) \/ PullItem(r)
  \/ ReadPrice(r) \/ ReadFirstPrice(r) \/ AddTarget(r) \/ PushItem(r) \/ ReplaceItems(r)
  \/ IncreaseTarget(r) \/ DecreaseTarget(r) \/ DeleteTarget(r) \/ DeleteFromEmpty(r)
  \/ OrderCreate(r) \/ OrderFindCart(r) \/ OrderClear(r)

Next == (\E r \in Requests : Arrive(r) \/ Handler(r)) \/ Reprice \/ ProcessExit

Spec == Init /\ [][Next]_vars

-----------------------------------------------------------------------------
(* Properties *)

Serial == load.atOnce = 1
FixedPrices == \A p, q \in load.prices : p = q
Items == {Cart.cartItems[n] : n \in DOMAIN Cart.cartItems}
Total(items) == SumFunction([n \in DOMAIN items |-> items[n].itemTotal])

\* A whole number of units, one at least.
Whole(q) == \E k \in 1 .. q : q = k * Unit
WholeUnits == \A q \in load.qtys : Whole(q)

\* While prices stay, and however requests interleave, every element of the cart
\* is worth what it holds: qty and itemTotal are read together and written
\* together.  An element holds nothing only where one may be added that does:
\* no decrease leaves one behind, and none goes below.
ItemsAreWorthTheirQty ==
  FixedPrices => \A item \in Items :
    /\ item.qty > 0 \/ (item.qty = 0 /\ 0 \in load.qtys)
    /\ item.itemTotal = item.qty * item.sellingPrice

\* One request at a time, subTotal is the sum of the elements, through lost and
\* refused requests.  decreaseItemQty has to be left out where prices change,
\* as it takes a unit off at the price of the first one added, and where an
\* element may hold 0 or a fraction: it pulls what holds a unit or less, and
\* takes the price of a whole unit off subTotal.
SubTotalAddsUpWhenSerial ==
  (Serial /\ ("DECREASE" \in load.kinds => FixedPrices /\ WholeUnits)) =>
    Cart.subTotal = Total(Cart.cartItems)

\* One request at a time, a cart has every stock item once and only items of the
\* entity it is for: what a customer order is made of.
OneEntityWhenSerial ==
  Serial => \A m, n \in DOMAIN Cart.cartItems :
    /\ EntityOf[Cart.cartItems[n].stockItemId] = Cart.entityId
    /\ m # n => Cart.cartItems[m].stockItemId # Cart.cartItems[n].stockItemId

\* One request at a time, a customer order empties no cart but the one for the
\* entity it was placed with.
Emptied == Cart.cartItems # <<>> /\ Cart'.cartItems = <<>>
OrdersEmptyTheirCartWhenSerial ==
  [][Serial /\ Emptied => \A r \in Requests :
       (call[r].kind = "ORDER" /\ pc'[r] # pc[r]) => Cart.entityId = call[r].entityId]_vars
=============================================================================
