------------------------ MODULE ReverseTransaction ------------------------
(* createReverseTransactions: takes an add back, line by line or whole.     *)
EXTENDS StockSession

\* findOne({refTransactionId, stockItemId}): the first entry of the add for the
\* item; without one the callback dereferences null.
ReverseFind(r) ==
  /\ Serves(r, "REVERSE", "read")
  /\ LET entries == {n \in DOMAIN ledger : /\ ledger[n].ref = call[r].target
                                           /\ ledger[n].item = ThisLine(r).item}
     IN  IF entries = {}
         THEN Throw(r)
         ELSE /\ Find(r, ThisLine(r).qty, {n \in entries : \A m \in entries : n <= m})
              /\ Goto(r, "write")

\* qtyRemaining goes down by the dto's qty, with no check; then the floating
\* decreaseTotalQty.
ReverseSetRemaining(r) ==
  /\ Serves(r, "REVERSE", "write")
  /\ \E d \in local[r].docs :
       \/ /\ Set(r, d.at, d.rem - ThisLine(r).qty)
          /\ Spawn(r, local[r].line, d.item, ThisLine(r).qty)
          /\ kept' = [kept EXCEPT ![r].carried = @ + 1]
          /\ NextLine(r)
          /\ UNCHANGED <<db, call>>
       \/ Retry(r, d.at)

\* find({refTransactionId}): every entry of the add.
ReverseAllFind(r) ==
  /\ Serves(r, "REVERSE_ALL", "read")
  /\ Find(r, 0, {n \in DOMAIN ledger : ledger[n].ref = call[r].target})
  /\ Goto(r, "write")

\* The entry is emptied, and qtyOnHand loses the whole qty it was added with.
ReverseAllSetRemaining(r) ==
  /\ Serves(r, "REVERSE_ALL", "write")
  /\ \E d \in Oldest(local[r].docs) :
       \/ /\ Set(r, d.at, 0)
          /\ Spawn(r, d.at, d.item, d.qty)
          /\ kept' = [kept EXCEPT ![r].carried = @ + 1]
          /\ local' = [local EXCEPT ![r].docs = @ \ {d}]
          /\ UNCHANGED <<db, call, pc>>
       \/ Retry(r, d.at)

ReverseAllEnd(r) ==
  /\ Serves(r, "REVERSE_ALL", "write")
  /\ local[r].docs = {}
  /\ Goto(r, "header")
  /\ UNCHANGED <<db, call, local, kept, tx, floats>>

\* items: writes, price: totalPrice, both gathered outside the callback.
ReverseCreateHeader(r) ==
  /\ Serves(r, "REVERSE", "header") \/ Serves(r, "REVERSE_ALL", "header")
  /\ CreateHeader(r, {}, kept[r].carried)

ReverseStep(r) ==
  \/ ReverseFind(r) \/ ReverseSetRemaining(r) \/ ReverseAllFind(r)
  \/ ReverseAllSetRemaining(r) \/ ReverseAllEnd(r) \/ ReverseCreateHeader(r)
=============================================================================
