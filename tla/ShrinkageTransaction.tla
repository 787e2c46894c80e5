------------------------ MODULE ShrinkageTransaction ------------------------
(* createShrinkageTransactions: the ledger gives shrinkQty, oldest entry     *)
(* first, and qtyOnHand goes down by it.                                     *)
EXTENDS StockSession

ShrinkageRead(r) ==
  /\ Serves(r, "SHRINKAGE", "read")
  /\ ReadQtyOnHand(r, qtyOnHand[ThisLine(r).item] < ThisLine(r).qty, "find")

ShrinkageFind(r) ==
  /\ Serves(r, "SHRINKAGE", "find")
  /\ Find(r, ThisLine(r).qty, OpenEntries(ThisLine(r).item))
  /\ Goto(r, "drain")

ShrinkageDrain(r) ==
  /\ Serves(r, "SHRINKAGE", "drain")
  /\ \E d \in Oldest(local[r].docs) : Consume(r, d) \/ Retry(r, d.at)

ShrinkageSetQty(r) ==
  /\ Serves(r, "SHRINKAGE", "drain")
  /\ local[r].docs = {}
  /\ \/ /\ Set(r, ThisLine(r).item, local[r].seen - ThisLine(r).qty)
        /\ NextLine(r)
        /\ UNCHANGED <<db, call, kept, floats>>
     \/ Retry(r, ThisLine(r).item)

ShrinkageCreateHeader(r) ==
  Serves(r, "SHRINKAGE", "header") /\ CreateHeader(r, {}, Len(call[r].lines))

ShrinkageStep(r) ==
  \/ ShrinkageRead(r) \/ ShrinkageFind(r) \/ ShrinkageDrain(r)
  \/ ShrinkageSetQty(r) \/ ShrinkageCreateHeader(r)
=============================================================================
