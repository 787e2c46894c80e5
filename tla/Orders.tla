------------------------------- MODULE Orders -------------------------------
(***************************************************************************)
(* The orders of order.service.ts and customer-order.service.ts, and the   *)
(* quantities they keep on hold.                                           *)
(*                                                                         *)
(* Nothing here runs in a transaction, customer orders neither, as none of *)
(* their calls uses the session: every awaited call is a step, and an      *)
(* exception leaves behind what the request has written so far.  A         *)
(* release or a refund is one call of an inventory service: it is refused, *)
(* or it moves the stock of the lines it is given.                         *)
(***************************************************************************)
EXTENDS Integers, Sequences, FiniteSetsExt

CONSTANTS
  Requests,     \* calls of the HTTP handlers
  StockItems,
  Warehouses,
  Documents,    \* the warehouseStockItems documents, in natural order
  Loads         \* what may be asked of the service, see LoadsAssumption

Statuses == {"ACTIVE", "VOID", "REFUND", "ONHOLD", "RETURN"}
AllKinds == {"CREATE", "CUSTOMER", "ACTIVATE", "CANCEL", "REFUND", "RETURN"}
Creating == {"CREATE", "CUSTOMER"}  \* createOrder of the one service, and of the other
AllMethods == {"FULLY", "PARTIALLY", "none"}
\* A qty may be nothing or a fraction: it counts the smallest parts in use.
OrderLine == [item: StockItems, qty: Nat]

ASSUME DocumentsAssumption ==
  Documents \in Seq([warehouse: Warehouses, item: StockItems])

\* The handlers in use, what a dto may have as refundMethod or returnMethod, items,
\* orderStatus and warehouse, and how many requests are served at a time (a bound).
ASSUME LoadsAssumption == \A l \in Loads :
  /\ l.kinds \subseteq AllKinds /\ l.methods \subseteq AllMethods
  /\ l.lists \subseteq Seq(OrderLine) /\ l.statuses \subseteq Statuses
  /\ l.warehouses \subseteq Warehouses /\ l.atOnce \in Nat \ {0}

VARIABLES
  load,       \* the load of this behaviour
  qtyOnHold,  \* warehouseStockItems.qtyOnHold
  orders,     \* the order each creation has left, named by its request
  released,   \* the lines a request has had released, oldest first
  refunded,   \* the lines a request has had refunded
  pc,         \* the next step of a request
  call,       \* what was requested
  local       \* variables of the handler

stock == <<load, qtyOnHold, released, refunded>>
vars == <<load, qtyOnHold, orders, released, refunded, pc, call, local>>

NoOrder == [status |-> "none", items |-> <<>>, warehouse |-> "none"]
NoCall == [kind |-> "none", order |-> "none", items |-> <<>>, back |-> <<>>,
           status |-> "none", method |-> "none", warehouse |-> "none", table |-> TRUE]
NewLocal == [line |-> 1, doc |-> 0, seen |-> 0, found |-> NoOrder]

Finished == {"done", "failed", "crashed"}
Working(r) == pc[r] \notin {"idle"} \union Finished

Init ==
  /\ load \in Loads
  /\ qtyOnHold = [n \in DOMAIN Documents |-> 0]
  /\ orders = [r \in Requests |-> NoOrder]
  /\ released = [r \in Requests |-> <<>>]
  /\ refunded = [r \in Requests |-> <<>>]
  /\ pc = [r \in Requests |-> "idle"]
  /\ call = [r \in Requests |-> NoCall]
  /\ local = [r \in Requests |-> NewLocal]

-----------------------------------------------------------------------------
(* Requests *)

Serves(r, kinds, at) == call[r].kind \in kinds /\ pc[r] = at
Goto(r, at) == pc' = [pc EXCEPT ![r] = at]

\* An exception: what was written stays written.
Fail(r) == Goto(r, "failed") /\ UNCHANGED <<stock, orders, call, local>>

\* The bodies a handler may be called with.
Creations(r) ==
  [kind: Creating, order: {r}, items: load.lists, back: {<<>>}, status: load.statuses,
   method: {"none"}, warehouse: load.warehouses, table: BOOLEAN]
Activations ==
  [kind: {"ACTIVATE"}, order: Requests, items: load.lists, back: {<<>>}, status: load.statuses,
   method: {"none"}, warehouse: load.warehouses, table: {TRUE}]
Cancellations ==
  [kind: {"CANCEL"}, order: Requests, items: {<<>>}, back: {<<>>}, status: {"none"},
   method: {"none"}, warehouse: load.warehouses, table: {TRUE}]
Withdrawals ==
  [kind: {"REFUND", "RETURN"}, order: Requests, items: load.lists, back: load.lists,
   status: {"none"}, method: load.methods, warehouse: load.warehouses, table: {TRUE}]

Arrive(r) ==
  /\ pc[r] = "idle"
  /\ Cardinality({o \in Requests : Working(o)}) < load.atOnce
  /\ \E c \in Creations(r) \union Activations \union Cancellations \union Withdrawals :
       /\ c.kind \in load.kinds
       /\ c.kind \notin Creating => orders[c.order] # NoOrder
       /\ call' = [call EXCEPT ![r] = c]
  /\ Goto(r, "find")
  /\ UNCHANGED <<stock, orders, local>>

\* findOneAndErr({_id, orderStatus}): '002' unless the order has that status now.
FindOrder(r, status, at) ==
  LET order == orders[call[r].order]
  IN  IF order.status # status
      THEN Fail(r)
      ELSE /\ local' = [local EXCEPT ![r].found = order]
           /\ Goto(r, at)
           /\ UNCHANGED <<stock, orders, call>>

\* findByIdAndUpdate: whatever became of the order meanwhile.
UpdateOrder(r, order) ==
  /\ orders' = [orders EXCEPT ![call[r].order] = order]
  /\ Goto(r, "done")
  /\ UNCHANGED <<stock, call, local>>

\* createReleaseTransactions and createRefundTransactions, on the given lines: all
\* of their transaction, which StockTransactions models call by call, or none.
Release(r, lines, at) ==
  \/ Fail(r)
  \/ /\ released' = [released EXCEPT ![r] = @ \o lines]
     /\ Goto(r, at)
     /\ UNCHANGED <<load, qtyOnHold, refunded, orders, call, local>>

Refund(r, lines, at) ==
  \/ Fail(r)
  \/ /\ refunded' = [refunded EXCEPT ![r] = @ \o lines]
     /\ Goto(r, at)
     /\ UNCHANGED <<load, qtyOnHold, released, orders, call, local>>

\* The loops over the lines of a release assign releaseItem on every turn and
\* push it once, after the last; those of a refund return from the first turn.
LastOf(lines) == IF lines = <<>> THEN <<>> ELSE <<lines[Len(lines)]>>
FirstOf(lines) == IF lines = <<>> THEN <<>> ELSE <<lines[1]>>

-----------------------------------------------------------------------------
(* Quantities on hold *)

Lines(r) == IF call[r].kind = "CANCEL" THEN local[r].found.items ELSE call[r].items
AtLine(r) == local[r].line <= Len(Lines(r))
ThisLine(r) == Lines(r)[local[r].line]

\* Where findOne looks: a cancellation does not say which warehouse it means.
Places(r) ==
  CASE call[r].kind = "CANCEL" -> Warehouses
    [] call[r].kind = "ACTIVATE" -> {local[r].found.warehouse}
    [] OTHER -> {call[r].warehouse}

Located(r) ==
  {n \in DOMAIN Documents : /\ Documents[n].item = ThisLine(r).item
                            /\ Documents[n].warehouse \in Places(r)}

\* warehouseStockItems.findOne: the first document that matches, whose
\* qtyOnHold is read; without one the handler dereferences null.  A checked
\* read is refused with '113' when the line's qty exceeds what is on hold.
ReadQtyOnHold(r, checked, at) ==
  /\ AtLine(r)
  /\ IF Located(r) = {}
     THEN Fail(r)
     ELSE \E n \in Located(r) :
            /\ \A m \in Located(r) : n <= m
            /\ IF checked /\ qtyOnHold[n] - ThisLine(r).qty < 0
               THEN Fail(r)
               ELSE /\ local' = [local EXCEPT ![r] =
                         [local[r] EXCEPT !.doc = n, !.seen = qtyOnHold[n]]]
                    /\ Goto(r, at)
                    /\ UNCHANGED <<stock, orders, call>>

\* updateOne({_id}, {qtyOnHold: newQtyOnHold}), and on to the next line.
WriteQtyOnHold(r, newQtyOnHold, at) ==
  /\ qtyOnHold' = [qtyOnHold EXCEPT ![local[r].doc] = newQtyOnHold]
  /\ local' = [local EXCEPT ![r] = [local[r] EXCEPT !.line = local[r].line + 1]]
  /\ Goto(r, at)
  /\ UNCHANGED <<load, released, refunded, orders, call>>

\* calculateQtyOfOnHoldItems
HoldRead(r) ==
  Serves(r, Creating, "hold") /\ ReadQtyOnHold(r, FALSE, "holdWrite")
HoldWrite(r) ==
  /\ Serves(r, Creating, "holdWrite")
  /\ WriteQtyOnHold(r, local[r].seen + ThisLine(r).qty, "hold")

\* Mutation: without the check that throws '113'.
RetrieveUnchecked(r) ==
  /\ Serves(r, {"ACTIVATE", "CANCEL"}, "retrieve")
  /\ ReadQtyOnHold(r, FALSE, "retrieveWrite")

\* retrieveQtyOfOnHoldItems, and the loop of cancelOnHoldOrder.
RetrieveRead(r) ==
  /\ Serves(r, {"ACTIVATE", "CANCEL"}, "retrieve")
  /\ ReadQtyOnHold(r, TRUE, "retrieveWrite")

\* Mutation: the qty is added where it has to be subtracted.
RetrieveAdds(r) ==
  /\ Serves(r, {"ACTIVATE", "CANCEL"}, "retrieveWrite")
  /\ WriteQtyOnHold(r, local[r].seen + ThisLine(r).qty, "retrieve")

RetrieveWrite(r) ==
  /\ Serves(r, {"ACTIVATE", "CANCEL"}, "retrieveWrite")
  /\ WriteQtyOnHold(r, local[r].seen - ThisLine(r).qty, "retrieve")

\* After the loop: the two helpers return updatedWarehouseStockItems.qtyOnHold,
\* a TypeError when there was no item; a cancellation has no such line.
LoopEnds(r) ==
  /\ \/ Serves(r, Creating, "hold") \/ Serves(r, {"ACTIVATE", "CANCEL"}, "retrieve")
  /\ ~AtLine(r)
  /\ IF Lines(r) = <<>> /\ call[r].kind # "CANCEL"
     THEN Fail(r)
     ELSE Goto(r, "update") /\ UNCHANGED <<stock, orders, call, local>>

-----------------------------------------------------------------------------
(* createOrder *)

CreateStart(r) ==
  /\ Serves(r, {"CREATE"}, "find")
  /\ Goto(r, CASE call[r].status = "ACTIVE" -> "release"
               [] call[r].status = "ONHOLD" -> "hold"
               [] OTHER -> "update")
  /\ UNCHANGED <<stock, orders, call, local>>

CreateRelease(r) ==
  Serves(r, {"CREATE"}, "release") /\ Release(r, LastOf(call[r].items), "update")

\* createOrder of customer-order.service.ts: held if the dto says so, sold by no dto.
CustomerStart(r) ==
  /\ Serves(r, {"CUSTOMER"}, "find")
  /\ Goto(r, IF call[r].status = "ONHOLD" THEN "hold" ELSE "update")
  /\ UNCHANGED <<stock, orders, call, local>>

\* A customer order is on hold whatever the dto says.
NewStatus(r) == IF call[r].kind = "CUSTOMER" THEN "ONHOLD" ELSE call[r].status

\* '036' for an unknown tableCode; the order is inserted otherwise.
CreateInsert(r) ==
  /\ Serves(r, Creating, "update")
  /\ IF ~call[r].table
     THEN Fail(r)
     ELSE UpdateOrder(r, [status |-> NewStatus(r), items |-> call[r].items,
                          warehouse |-> call[r].warehouse])

-----------------------------------------------------------------------------
(* activeOnholdOrder *)

\* Mutation: without orderStatus in the filter.
ActivateAnyOrder(r) ==
  Serves(r, {"ACTIVATE"}, "find") /\
  FindOrder(r, orders[call[r].order].status,
            IF call[r].status = "ACTIVE" THEN "release" ELSE "retrieve")

ActivateFind(r) ==
  /\ Serves(r, {"ACTIVATE"}, "find")
  /\ FindOrder(r, "ONHOLD", IF call[r].status = "ACTIVE" THEN "release" ELSE "retrieve")

\* Mutation: the quantities are retrieved only.
ActivateReleasesNothing(r) ==
  Serves(r, {"ACTIVATE"}, "release") /\ Release(r, <<>>, "retrieve")

ActivateRelease(r) ==
  Serves(r, {"ACTIVATE"}, "release") /\ Release(r, LastOf(call[r].items), "retrieve")

ActivateUpdate(r) ==
  /\ Serves(r, {"ACTIVATE"}, "update")
  /\ UpdateOrder(r, [status |-> call[r].status, items |-> call[r].items,
                     warehouse |-> call[r].warehouse])

-----------------------------------------------------------------------------
(* cancelOnHoldOrder *)

\* Mutation: without orderStatus in the filter.
CancelAnyOrder(r) ==
  Serves(r, {"CANCEL"}, "find") /\ FindOrder(r, orders[call[r].order].status, "retrieve")

CancelFind(r) ==
  Serves(r, {"CANCEL"}, "find") /\ FindOrder(r, "ONHOLD", "retrieve")

CancelUpdate(r) ==
  /\ Serves(r, {"CANCEL"}, "update")
  /\ UpdateOrder(r, [orders[call[r].order] EXCEPT !.status = "VOID", !.items = <<>>])

-----------------------------------------------------------------------------
(* refundOrder and returnOrder *)

\* Without a method nothing is left to do but the answer, which reads a
\* property of undefined; a return has made its first refund by then.
RefundFind(r) ==
  /\ Serves(r, {"REFUND"}, "find")
  /\ FindOrder(r, "ACTIVE",
       CASE call[r].method = "FULLY" -> "void"
         [] call[r].method = "PARTIALLY" -> "release"
         [] OTHER -> "answer")

ReturnFind(r) ==
  /\ Serves(r, {"RETURN"}, "find")
  /\ FindOrder(r, "ACTIVE", IF call[r].back = <<>> THEN "release" ELSE "refund")

\* refundedTransaction, returnedTransactionForReturnedOrder
RefundFirst(r) ==
  /\ Serves(r, {"REFUND", "RETURN"}, "refund")
  /\ Refund(r, FirstOf(call[r].back), IF call[r].kind = "REFUND" THEN "update" ELSE "release")

\* releaseActiveItemsForReturnedOrder: the last of the lines that the order, as
\* it is now, does not have.
NewLines(r) ==
  {n \in DOMAIN call[r].items :
     \A m \in DOMAIN orders[call[r].order].items :
       orders[call[r].order].items[m].item # call[r].items[n].item}
LastNewLine(r) ==
  {n \in NewLines(r) : \A m \in NewLines(r) : m <= n}

RefundRelease(r) ==
  /\ Serves(r, {"REFUND"}, "release")
  /\ Release(r, LastOf(call[r].items), IF call[r].back = <<>> THEN "update" ELSE "refund")

ReturnRelease(r) ==
  /\ Serves(r, {"RETURN"}, "release")
  /\ CASE call[r].method = "FULLY" -> Release(r, LastOf(call[r].items), "void")
       [] call[r].method = "PARTIALLY" ->
            IF LastNewLine(r) = {}
            THEN Release(r, <<>>, "update")
            ELSE \E n \in LastNewLine(r) : Release(r, <<call[r].items[n]>>, "update")
       [] OTHER -> Fail(r)

\* voidedOrder looks the order up again, and refunds all its items.
VoidFind(r) ==
  Serves(r, {"REFUND", "RETURN"}, "void") /\ FindOrder(r, "ACTIVE", "voidRefund")
VoidRefund(r) ==
  /\ Serves(r, {"REFUND", "RETURN"}, "voidRefund")
  /\ Refund(r, local[r].found.items, "update")

\* Fully: the order ends.  Partially: it keeps its status, and the items asked
\* for replace its own.
WithdrawUpdate(r) ==
  /\ Serves(r, {"REFUND", "RETURN"}, "update")
  /\ UpdateOrder(r,
       IF call[r].method = "PARTIALLY"
       THEN [orders[call[r].order] EXCEPT !.items = call[r].items]
       ELSE [orders[call[r].order] EXCEPT
              !.status = call[r].kind,
              !.items = IF call[r].kind = "REFUND" THEN <<>> ELSE call[r].items])

WithdrawAnswer(r) == Serves(r, {"REFUND"}, "answer") /\ Fail(r)

-----------------------------------------------------------------------------

\* The process exits, and every request at work is lost.
ProcessExit ==
  /\ \E r \in Requests : Working(r)
  /\ pc' = [r \in Requests |-> IF Working(r) THEN "crashed" ELSE pc[r]]
  /\ UNCHANGED <<stock, orders, call, local>>

Handler(r) ==
  \/ HoldRead(r) \/ HoldWrite(r) \/ RetrieveRead(r) \/ RetrieveWrite(r) \/ LoopEnds(r)
  \/ CreateStart(r) \/ CreateRelease(r) \/ CustomerStart(r) \/ CreateInsert(r)
  \/ ActivateFind(r) \/ ActivateRelease(r) \/ ActivateUpdate(r)
  \/ CancelFind(r) \/ CancelUpdate(r)
  \/ RefundFind(r) \/ ReturnFind(r) \/ RefundFirst(r) \/ RefundRelease(r) \/ ReturnRelease(r)
  \/ VoidFind(r) \/ VoidRefund(r) \/ WithdrawUpdate(r) \/ WithdrawAnswer(r)

Next == (\E r \in Requests : Arrive(r) \/ Handler(r)) \/ ProcessExit

Spec == Init /\ [][Next]_vars

\* The event loop goes on with every request.
FairSpec == Spec /\ \A r \in Requests : WF_vars(Handler(r))

-----------------------------------------------------------------------------
(* Types *)

Order == [status: Statuses \union {"none"}, items: Seq(OrderLine),
          warehouse: Warehouses \union {"none"}]
Call == [kind: AllKinds \union {"none"}, order: Requests \union {"none"},
         items: Seq(OrderLine), back: Seq(OrderLine), status: Statuses \union {"none"},
         method: AllMethods, warehouse: Warehouses \union {"none"}, table: BOOLEAN]
Steps == {"idle", "find", "release", "hold", "holdWrite", "retrieve", "retrieveWrite",
          "refund", "void", "voidRefund", "update", "answer"} \union Finished
Local == [line: Nat \ {0}, doc: Nat, seen: Int, found: Order]

TypeOK ==
  /\ load \in Loads
  /\ qtyOnHold \in [DOMAIN Documents -> Int]
  /\ orders \in [Requests -> Order]
  /\ released \in [Requests -> Seq(OrderLine)]
  /\ refunded \in [Requests -> Seq(OrderLine)]
  /\ pc \in [Requests -> Steps]
  /\ call \in [Requests -> Call]
  /\ local \in [Requests -> Local]

-----------------------------------------------------------------------------
(* Properties *)

\* However stale the quantity a request has read, and whatever part of a loop
\* was lost, no document ever has a negative quantity on hold.
QtyOnHoldNotNegative == \A n \in DOMAIN Documents : qtyOnHold[n] >= 0

QtyOf(lines) == [k \in DOMAIN lines |-> lines[k].qty]
SumOver(lines, i) ==
  SumFunctionOnSet(QtyOf(lines), {k \in DOMAIN lines : lines[k].item = i})
OnHoldFor(i) ==
  SumFunctionOnSet([o \in Requests |-> SumOver(orders[o].items, i)],
                   {o \in Requests : orders[o].status = "ONHOLD"})

\* What customers have ordered and nobody has put on hold, in all.
NeverHeld(i) ==
  SumFunctionOnSet([r \in Requests |-> SumOver(call[r].items, i)],
                   {r \in Requests : /\ call[r].kind = "CUSTOMER" /\ pc[r] = "done"
                                     /\ call[r].status # "ONHOLD"})

\* What a request did is what it was meant to do: it finished, or wrote nothing
\* on hold, and an activation asked for what the order holds and ended the hold.
Regular(r) ==
  /\ pc[r] \in {"idle", "done"} \/ (pc[r] = "failed" /\ local[r].line = 1)
  /\ call[r].kind = "ACTIVATE" /\ pc[r] = "done" =>
       local[r].found.items = call[r].items /\ call[r].status # "ONHOLD"

\* One request at a time and with dtos that name one warehouse, what is on hold
\* there at rest is what the on-hold orders ask for, less what customer orders came
\* without: those that ended took it from others.  Left out is what breaks this
\* alone: a request that stops half-way, an activation with other items than the
\* order's, an item with two documents there, and a cancellation that finds the
\* document of another warehouse first.
InUse(n) == Documents[n].warehouse \in load.warehouses
CancellationsFindIt ==
  \A n, m \in DOMAIN Documents :
    (InUse(n) /\ n # m /\ Documents[n].item = Documents[m].item) => n < m
HoldsMatchOrdersWhenSerial ==
  (/\ load.atOnce = 1 /\ \E w \in Warehouses : load.warehouses = {w}
   /\ CancellationsFindIt /\ \A r \in Requests : Regular(r))
  => \A n \in DOMAIN Documents :
       InUse(n) => qtyOnHold[n] = OnHoldFor(Documents[n].item) - NeverHeld(Documents[n].item)

\* One request at a time, an order that was voided, refunded or returned is
\* never touched again.
Closed == {"VOID", "REFUND", "RETURN"}
ClosedOrdersStayWhenSerial ==
  [][load.atOnce = 1 => \A o \in Requests :
       orders[o].status \in Closed => orders'[o] = orders[o]]_vars

\* One request at a time, an order is released by at most one request that
\* succeeds: its creation, or one activation.
Sold(o) == {r \in Requests : /\ call[r].kind \in {"CREATE", "ACTIVATE"}
                             /\ call[r].order = o /\ call[r].status = "ACTIVE"
                             /\ pc[r] = "done"}
SoldOnceWhenSerial ==
  load.atOnce = 1 => \A o \in Requests : Cardinality(Sold(o)) <= 1

\* Under any interleaving, a full refund gives back what a release took: each
\* line it refunds was released for the same order, as long as the order has one
\* line and no other handler replaces an order's items.
LinesOf(lines) == {lines[k] : k \in DOMAIN lines}
FullRefundsOnly == "RETURN" \notin load.kinds /\ load.methods = {"FULLY"}
RefundsWhatWasReleased ==
  FullRefundsOnly =>
    \A r \in Requests : Len(refunded[r]) = 1 => \A l \in LinesOf(refunded[r]) :
      \E o \in Requests : call[o].order = call[r].order /\ l \in LinesOf(released[o])

-----------------------------------------------------------------------------
(* What the source says of itself, and is not so *)

\* order.module.ts: the transitions of the orders' graph.
Graph == {<<"ONHOLD", "ACTIVE">>, <<"ONHOLD", "VOID">>, <<"ACTIVE", "RETURN">>,
          <<"ACTIVE", "REFUND">>}
OrdersFollowTheirGraph ==
  [][\A o \in Requests :
       (orders[o] # NoOrder /\ orders'[o].status # orders[o].status)
         => <<orders[o].status, orders'[o].status>> \in Graph]_vars
=============================================================================
