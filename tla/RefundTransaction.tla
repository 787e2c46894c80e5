------------------------- MODULE RefundTransaction -------------------------
(* createRefundTransactions: like an add; the price, summed outside the     *)
(* callback, is written into the header after the commit.                   *)
EXTENDS StockSession

RefundRead(r) ==
  Serves(r, "REFUND", "read") /\ ReadQtyOnHand(r, FALSE, "write")

RefundSetQty(r) ==
  /\ Serves(r, "REFUND", "write")
  /\ \/ /\ Set(r, ThisLine(r).item, local[r].seen + ThisLine(r).qty)
        /\ Goto(r, "create")
        /\ UNCHANGED <<db, call, local, kept, floats>>
     \/ Retry(r, ThisLine(r).item)

\* Mutation: totalPrice = price.
RefundCreateEntryLastPrice(r) ==
  /\ Serves(r, "REFUND", "create")
  /\ LET id == <<kept[r].attempt, local[r].line>>
     IN  /\ AppendEntry(r, ThisLine(r).item, ThisLine(r).qty, id)
         /\ kept' = [kept EXCEPT ![r] = [kept[r] EXCEPT
              !.transIds = kept[r].transIds \union {id}, !.carried = 1]]
  /\ NextLine(r)
  /\ UNCHANGED <<db, call, floats>>

\* totalPrice = totalPrice + price
RefundCreateEntry(r) ==
  /\ Serves(r, "REFUND", "create")
  /\ LET id == <<kept[r].attempt, local[r].line>>
     IN  /\ AppendEntry(r, ThisLine(r).item, ThisLine(r).qty, id)
         /\ kept' = [kept EXCEPT ![r] = [kept[r] EXCEPT
              !.transIds = kept[r].transIds \union {id}, !.carried = kept[r].carried + 1]]
  /\ NextLine(r)
  /\ UNCHANGED <<db, call, floats>>

RefundCreateHeader(r) ==
  Serves(r, "REFUND", "header") /\ CreateHeader(r, kept[r].transIds, 0)

\* updateOne({_id}, {price: totalPrice}), without a session.
RefundSetPrice(r) ==
  /\ Serves(r, "REFUND", "price")
  /\ charged' = [charged EXCEPT ![r] = kept[r].carried]
  /\ Goto(r, "done")
  /\ UNCHANGED <<qtyOnHand, ledger, headers, call, local, kept, tx, floats>>

RefundStep(r) ==
  \/ RefundRead(r) \/ RefundSetQty(r) \/ RefundCreateEntry(r)
  \/ RefundCreateHeader(r) \/ RefundSetPrice(r)
=============================================================================
