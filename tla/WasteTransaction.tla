-------------------------- MODULE WasteTransaction --------------------------
(* createWasteTransactions: qtyOnHand goes down.  The loop over the ledger   *)
(* compares with wastedQty, which is never assigned: it writes nothing.      *)
EXTENDS StockSession

\* Mutation: without the check that throws '113'.
WasteReadUnchecked(r) ==
  Serves(r, "WASTE", "read") /\ ReadQtyOnHand(r, FALSE, "write")

WasteRead(r) ==
  /\ Serves(r, "WASTE", "read")
  /\ ReadQtyOnHand(r, qtyOnHand[ThisLine(r).item] < ThisLine(r).qty, "write")

WasteSetQty(r) ==
  /\ Serves(r, "WASTE", "write")
  /\ \/ /\ Set(r, ThisLine(r).item, local[r].seen - ThisLine(r).qty)
        /\ NextLine(r)
        /\ UNCHANGED <<db, call, kept, floats>>
     \/ Retry(r, ThisLine(r).item)

WasteCreateHeader(r) ==
  Serves(r, "WASTE", "header") /\ CreateHeader(r, {}, Len(call[r].lines))

WasteStep(r) == WasteRead(r) \/ WasteSetQty(r) \/ WasteCreateHeader(r)
=============================================================================
