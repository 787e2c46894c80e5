-------------------------- MODULE AddTransactions --------------------------
(* createAddTransactions: each line raises qtyOnHand by its qty and opens a *)
(* ledger entry; the header document then becomes the entries' reference.   *)
EXTENDS StockSession

AddRead(r) ==
  Serves(r, "ADD", "read") /\ ReadQtyOnHand(r, FALSE, "write")

AddSetQty(r) ==
  /\ Serves(r, "ADD", "write")
  /\ \/ /\ Set(r, ThisLine(r).item, local[r].seen + ThisLine(r).qty)
        /\ Goto(r, "create")
        /\ UNCHANGED <<db, call, local, kept, floats>>
     \/ Retry(r, ThisLine(r).item)

AddCreateEntry(r) ==
  /\ Serves(r, "ADD", "create")
  /\ CreateEntry(r, ThisLine(r).item, ThisLine(r).qty)
  /\ NextLine(r)
  /\ UNCHANGED <<db, call, floats>>

AddCreateHeader(r) ==
  Serves(r, "ADD", "header") /\ CreateHeader(r, kept[r].transIds, Len(call[r].lines))

AddStep(r) == AddRead(r) \/ AddSetQty(r) \/ AddCreateEntry(r) \/ AddCreateHeader(r)
=============================================================================
