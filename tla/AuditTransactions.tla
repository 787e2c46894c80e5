------------------------- MODULE AuditTransactions -------------------------
(* createAuditTransactions: qtyOnHand becomes the counted quantity; the      *)
(* difference is a new ledger entry (surplus) or is taken from the ledger.   *)
EXTENDS StockSession

\* '100' when the count agrees with qtyOnHand.
AuditRead(r) ==
  /\ Serves(r, "AUDIT", "read")
  /\ ReadQtyOnHand(r, qtyOnHand[ThisLine(r).item] = ThisLine(r).qty,
       IF ThisLine(r).qty > qtyOnHand[ThisLine(r).item] THEN "create" ELSE "find")

\* Mutation: a surplus entry for the whole count.
AuditCreateWholeEntry(r) ==
  /\ Serves(r, "AUDIT", "create")
  /\ CreateEntry(r, ThisLine(r).item, ThisLine(r).qty)
  /\ Goto(r, "drain")
  /\ UNCHANGED <<db, call, local, floats>>

AuditCreateEntry(r) ==
  /\ Serves(r, "AUDIT", "create")
  /\ CreateEntry(r, ThisLine(r).item, ThisLine(r).qty - local[r].seen)
  /\ Goto(r, "drain")
  /\ UNCHANGED <<db, call, local, floats>>

AuditFind(r) ==
  /\ Serves(r, "AUDIT", "find")
  /\ Find(r, local[r].seen - ThisLine(r).qty, OpenEntries(ThisLine(r).item))
  /\ Goto(r, "drain")

AuditDrain(r) ==
  /\ Serves(r, "AUDIT", "drain")
  /\ \E d \in Oldest(local[r].docs) : Consume(r, d) \/ Retry(r, d.at)

AuditSetQty(r) ==
  /\ Serves(r, "AUDIT", "drain")
  /\ local[r].docs = {}
  /\ \/ /\ Set(r, ThisLine(r).item, ThisLine(r).qty)
        /\ NextLine(r)
        /\ UNCHANGED <<db, call, kept, floats>>
     \/ Retry(r, ThisLine(r).item)

\* Mutation: without the loop over transIds.
AuditCreateHeaderOnly(r) ==
  Serves(r, "AUDIT", "header") /\ CreateHeader(r, {}, Len(call[r].lines))

AuditCreateHeader(r) ==
  Serves(r, "AUDIT", "header") /\ CreateHeader(r, kept[r].transIds, Len(call[r].lines))

AuditStep(r) ==
  \/ AuditRead(r) \/ AuditCreateEntry(r) \/ AuditFind(r) \/ AuditDrain(r)
  \/ AuditSetQty(r) \/ AuditCreateHeader(r)
=============================================================================
