------------------------ MODULE ReleaseTransactions ------------------------
(* createReleaseTransactions: each line is checked against qtyOnHand, taken *)
(* from the ledger in the item's pricing order, and only then deducted from *)
(* qtyOnHand by a call that is not awaited.                                 *)
EXTENDS StockSession

\* checkQty: '113' when there is not enough on hand.
ReleaseCheck(r) ==
  /\ Serves(r, "RELEASE", "read")
  /\ ReadQtyOnHand(r, qtyOnHand[ThisLine(r).item] < ThisLine(r).qty, "find")

\* EXPIRY unwinds the batches, and these items have none.
ReleaseFind(r) ==
  /\ Serves(r, "RELEASE", "find")
  /\ Find(r, ThisLine(r).qty,
          IF Pricing[ThisLine(r).item] = "EXPIRY" THEN {} ELSE OpenEntries(ThisLine(r).item))
  /\ Goto(r, "drain")

\* calculatePrice, over the documents found (FIFO) or their reverse (LIFO).
ReleaseDrain(r) ==
  /\ Serves(r, "RELEASE", "drain")
  /\ \E d \in IF Pricing[ThisLine(r).item] = "FIFO"
              THEN Oldest(local[r].docs) ELSE Newest(local[r].docs) :
       Consume(r, d) \/ Retry(r, d.at)

ReleaseSpawn(r) ==
  /\ Serves(r, "RELEASE", "drain")
  /\ local[r].docs = {}
  /\ Spawn(r, local[r].line, ThisLine(r).item, ThisLine(r).qty)
  /\ NextLine(r)
  /\ UNCHANGED <<db, call, kept, tx>>

\* create({...dto}, {session}): not an array, so the options are taken for a
\* second document, and both are saved at once, outside the transaction.
ReleaseCreateHeader(r) ==
  /\ Serves(r, "RELEASE", "header")
  /\ headers' = [headers EXCEPT ![r] = @ + 2]
  /\ charged' = [charged EXCEPT ![r] = @ + Len(call[r].lines)]
  /\ Goto(r, "commit")
  /\ UNCHANGED <<qtyOnHand, ledger, call, local, kept, tx, floats>>

ReleaseStep(r) ==
  \/ ReleaseCheck(r) \/ ReleaseFind(r) \/ ReleaseDrain(r)
  \/ ReleaseSpawn(r) \/ ReleaseCreateHeader(r)
=============================================================================
