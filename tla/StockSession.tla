---------------------------- MODULE StockSession ----------------------------
(***************************************************************************)
(* The stock collections, and the MongoDB sessions through which the seven *)
(* inventory services write them.                                          *)
(*                                                                         *)
(* A handler runs its callback under session.withTransaction.  Its writes  *)
(* carry the session: they are buffered in tx[r] until the commit.  Its    *)
(* reads do not: they return the committed values, whatever the callback   *)
(* has written itself.  A write to a document that another open            *)
(* transaction wrote, or that was committed by another one since the first *)
(* write of this transaction, is a WriteConflict: the driver aborts the    *)
(* transaction and calls the callback again, while the variables the       *)
(* handler declared outside of it (kept[r]) keep their values.             *)
(*                                                                         *)
(* Only stock items that do not track batches are modelled here, in one    *)
(* warehouse.                                                              *)
(***************************************************************************)
EXTENDS Integers, Sequences, FiniteSets

CONSTANTS
  Requests,      \* calls of the HTTP handlers
  StockItems,    \* stock items with a warehouseStockItems document here
  NoDocument,    \* stock items without one
  Pricing,       \* the pricingMethod of each stock item
  Kinds,         \* the handlers in use, a subset of AllKinds
  LineChoices,   \* the dto.items a request may carry
  OpeningQty,    \* the qtyOnHand of each item at the start
  OpeningLines,  \* the entries of the add that brought it
  MaxAttempts,   \* bound: calls of one callback before withTransaction gives up
  MaxInFlight    \* bound: requests served at a time

AllKinds == {"ADD", "REFUND", "RELEASE", "REVERSE", "REVERSE_ALL",
             "WASTE", "SHRINKAGE", "AUDIT"}

\* One element of dto.items: qty is its qty, wasteQty, shrinkQty or adjustment.
\* Quantities are counted in the smallest part in use, and may be negative.
Line == [item: StockItems \union NoDocument, qty: Int]

ASSUME KindsAssumption == Kinds \subseteq AllKinds
ASSUME LinesAssumption ==
  \A ls \in LineChoices : ls \in Seq(Line) /\ Len(ls) > 0
ASSUME OpeningAssumption ==
  /\ OpeningQty \in [StockItems -> Nat]
  /\ OpeningLines \in Seq([item: StockItems, qty: Nat])
  /\ Pricing \in [StockItems -> {"FIFO", "LIFO", "EXPIRY"}]
ASSUME BoundsAssumption == MaxAttempts \in Nat \ {0} /\ MaxInFlight \in Nat \ {0}
ASSUME NamesAssumption ==
  /\ "opening" \notin Requests /\ "none" \notin Requests
  /\ (StockItems \union NoDocument) \intersect Nat = {}

\* The creator of the opening entries, and the absent reference.
OpeningAdd == "opening"
NoRef == "none"

VARIABLES
  qtyOnHand,  \* warehouseStockItems.qtyOnHand
  ledger,     \* the stockItemTransactions documents, in natural order
  headers,    \* how many header documents a request has left in its collection
  charged,    \* the number of lines those headers are priced for
  pc,         \* the next step of a request
  call,       \* what was requested
  local,      \* variables of the callback
  kept,       \* variables of the handler, outside the callback
  tx,         \* what the open transaction of the session has written
  floats      \* calls of decreaseTotalQty that nobody awaits

db   == <<qtyOnHand, ledger, headers, charged>>
vars == <<qtyOnHand, ledger, headers, charged, pc, call, local, kept, tx, floats>>

NoTx    == [writes |-> {}, made |-> <<>>, header |-> FALSE, bill |-> 0,
            open |-> FALSE, missed |-> {}]
NoLocal == [line |-> 1, seen |-> 0, docs |-> {}, left |-> 0]
NewKept == [attempt |-> 1, transIds |-> {}, carried |-> 0]
NoCall  == [kind |-> "none", lines |-> <<>>, target |-> NoRef]

Finished == {"done", "failed", "crashed"}
Active(r) == pc[r] \notin {"idle"} \union Finished \/ floats[r] # {}

Init ==
  /\ qtyOnHand = OpeningQty
  /\ ledger = [n \in DOMAIN OpeningLines |->
       [item |-> OpeningLines[n].item, qty |-> OpeningLines[n].qty,
        qtyRemaining |-> OpeningLines[n].qty,
        by |-> OpeningAdd, nth |-> <<1, n>>, ref |-> OpeningAdd]]
  /\ headers = [r \in Requests |-> 0]
  /\ charged = [r \in Requests |-> 0]
  /\ pc = [r \in Requests |-> "idle"]
  /\ call = [r \in Requests |-> NoCall]
  /\ local = [r \in Requests |-> NoLocal]
  /\ kept = [r \in Requests |-> NewKept]
  /\ tx = [r \in Requests |-> NoTx]
  /\ floats = [r \in Requests |-> {}]

-----------------------------------------------------------------------------
(* Requests *)

ThisLine(r) == call[r].lines[local[r].line]
Serves(r, kind, at) == call[r].kind = kind /\ pc[r] = at
Goto(r, at) == pc' = [pc EXCEPT ![r] = at]

\* What validation lets through: @IsPositive on wasteQty, shrinkQty and
\* adjustment, but only @IsNumber on the qty of the other dtos.
Accepts(kind, lines) ==
  kind \in {"WASTE", "SHRINKAGE", "AUDIT"} => \A n \in DOMAIN lines : lines[n].qty > 0

\* A request arrives.  A reversal names an add that exists.
Arrive(r, kind) ==
  /\ pc[r] = "idle"
  /\ kind \in Kinds
  /\ Cardinality({o \in Requests : Active(o)}) < MaxInFlight
  /\ \E lines \in LineChoices, target \in {OpeningAdd} \union
        {o \in Requests : call[o].kind = "ADD" /\ headers[o] > 0} :
       /\ Accepts(kind, lines)
       /\ call' = [call EXCEPT ![r] = [kind |-> kind, lines |-> lines, target |-> target]]
  /\ Goto(r, "read")
  /\ UNCHANGED <<db, local, kept, tx, floats>>

\* An exception of the callback: withTransaction aborts and rethrows.
Throw(r) ==
  /\ Goto(r, "failed")
  /\ tx' = [tx EXCEPT ![r] = NoTx]
  /\ UNCHANGED <<db, call, local, kept, floats>>

\* The end of one turn of `for (const item of dto.items)`.
NextLine(r) ==
  /\ local' = [local EXCEPT ![r] = [NoLocal EXCEPT !.line = local[r].line + 1]]
  /\ Goto(r, IF local[r].line < Len(call[r].lines) THEN "read" ELSE "header")

\* The aggregation that finds the item's document in the warehouse: '201' or
\* a TypeError when there is none.  Refuse is the handler's check on what it read.
ReadQtyOnHand(r, refuse, at) ==
  LET item == ThisLine(r).item
  IN  IF item \notin StockItems \/ refuse
      THEN Throw(r)
      ELSE /\ local' = [local EXCEPT ![r].seen = qtyOnHand[item]]
           /\ Goto(r, at)
           /\ UNCHANGED <<db, call, kept, tx, floats>>

\* The entries, as they are now.
Find(r, q, entries) ==
  /\ local' = [local EXCEPT ![r] = [local[r] EXCEPT !.left = q, !.docs =
       {[at |-> n, item |-> ledger[n].item, qty |-> ledger[n].qty,
         rem |-> ledger[n].qtyRemaining] : n \in entries}]]
  /\ UNCHANGED <<db, call, kept, tx, floats>>

OpenEntries(i) ==
  {n \in DOMAIN ledger : ledger[n].item = i /\ ledger[n].qtyRemaining # 0}

-----------------------------------------------------------------------------
(* Session writes *)

Put(writes, d, v) == {w \in writes : w.doc # d} \union {[doc |-> d, to |-> v]}
Written(writes, d, default) ==
  IF \E w \in writes : w.doc = d THEN (CHOOSE w \in writes : w.doc = d).to ELSE default

Wrote(r) == {w.doc : w \in tx[r].writes}
Conflict(r, d) ==
  d \in tx[r].missed \/ \E o \in Requests \ {r} : d \in Wrote(o)

\* updateOne({_id: d}, {...: v}, {session}), on qtyOnHand or qtyRemaining.
Set(r, d, v) ==
  /\ ~Conflict(r, d)
  /\ tx' = [tx EXCEPT ![r] = [tx[r] EXCEPT
       !.writes = Put(tx[r].writes, d, v), !.open = TRUE]]

\* Mutations of Consume: the branches swapped, and a turn that does not move on
\* to the next document.
ConsumeSwapped(r, d) ==
  LET took == IF local[r].left > d.rem THEN local[r].left ELSE d.rem
  IN  /\ Set(r, d.at, d.rem - took)
      /\ local' = [local EXCEPT ![r] = [local[r] EXCEPT
       !.docs = local[r].docs \ {d}, !.left = local[r].left - took]]
      /\ UNCHANGED <<db, call, kept, floats, pc>>

ConsumeStays(r, d) ==
  /\ local[r].left > 0
  /\ Set(r, d.at, d.rem - 1)
  /\ local' = [local EXCEPT ![r].left = @ - 1]
  /\ UNCHANGED <<db, call, kept, floats, pc>>

\* One turn of the loop over the documents found: the entry gives what it
\* has, or what is left to take.
Consume(r, d) ==
  LET left == local[r].left
      took == IF left > d.rem THEN d.rem ELSE left
  IN  /\ IF left = 0 /\ d.rem >= 0 THEN UNCHANGED tx ELSE Set(r, d.at, d.rem - took)
      /\ local' = [local EXCEPT ![r] = [local[r] EXCEPT
       !.docs = local[r].docs \ {d}, !.left = left - took]]
      /\ UNCHANGED <<db, call, kept, floats, pc>>

Oldest(docs) == {d \in docs : \A e \in docs : d.at <= e.at}
Newest(docs) == {d \in docs : \A e \in docs : d.at >= e.at}

\* stockItemTransaction.create([{...}], {session}): a new document, no conflict.
AppendEntry(r, i, q, id) ==
  tx' = [tx EXCEPT ![r] = [tx[r] EXCEPT !.open = TRUE, !.made = Append(tx[r].made,
          [item |-> i, qty |-> q, qtyRemaining |-> q, by |-> r, nth |-> id, ref |-> NoRef])]]

CreateEntry(r, i, q) ==
  LET id == <<kept[r].attempt, local[r].line>>
  IN  /\ AppendEntry(r, i, q, id)
      /\ kept' = [kept EXCEPT ![r].transIds = @ \union {id}]

\* A WriteConflict on document d: the transaction is aborted and the callback
\* is called again, until withTransaction's time limit.
Retry(r, d) ==
  /\ Conflict(r, d)
  /\ tx' = [tx EXCEPT ![r] = NoTx]
  /\ local' = [local EXCEPT ![r] = NoLocal]
  /\ IF kept[r].attempt < MaxAttempts
     THEN kept' = [kept EXCEPT ![r].attempt = @ + 1] /\ Goto(r, "read")
     ELSE UNCHANGED kept /\ Goto(r, "failed")
  /\ UNCHANGED <<db, call, floats>>

\* The header document, in the session, billed for a number of lines; the
\* entries named by ids are then given its id.
CreateHeader(r, ids, lines) ==
  /\ tx' = [tx EXCEPT ![r] = [tx[r] EXCEPT
       !.header = TRUE, !.bill = lines, !.open = TRUE,
       !.made = [n \in DOMAIN tx[r].made |->
          IF tx[r].made[n].nth \in ids
          THEN [tx[r].made[n] EXCEPT !.ref = r] ELSE tx[r].made[n]]]]
  /\ Goto(r, "commit")
  /\ UNCHANGED <<db, call, local, kept, floats>>

\* The other open transactions have missed a write to the documents ds.
Missed(o, ds) ==
  IF tx[o].open THEN [tx[o] EXCEPT !.missed = tx[o].missed \union ds] ELSE tx[o]

\* commitTransaction: the buffered writes become visible at once.
Commit(r) ==
  /\ pc[r] = "commit"
  /\ qtyOnHand' = [i \in StockItems |-> Written(tx[r].writes, i, qtyOnHand[i])]
  /\ ledger' = [n \in DOMAIN ledger |-> [ledger[n] EXCEPT
       !.qtyRemaining = Written(tx[r].writes, n, ledger[n].qtyRemaining)]] \o tx[r].made
  /\ headers' = [headers EXCEPT ![r] = @ + (IF tx[r].header THEN 1 ELSE 0)]
  /\ charged' = [charged EXCEPT ![r] = @ + tx[r].bill]
  /\ tx' = [o \in Requests |-> IF o = r THEN NoTx ELSE Missed(o, Wrote(r))]
  /\ Goto(r, IF call[r].kind = "REFUND" THEN "price" ELSE "done")
  /\ UNCHANGED <<call, local, kept, floats>>

\* The process exits: every request still at work is lost, be it in a floating
\* call only, and the server aborts the transactions it had open.
ProcessExit ==
  /\ \E r \in Requests : Active(r)
  /\ pc' = [r \in Requests |-> IF Active(r) THEN "crashed" ELSE pc[r]]
  /\ tx' = [r \in Requests |-> NoTx]
  /\ floats' = [r \in Requests |-> {}]
  /\ UNCHANGED <<db, call, local, kept>>

-----------------------------------------------------------------------------
(* decreaseTotalQty, called without await: it goes on by itself *)

\* The call leaves a floating operation behind.
Spawn(r, of, i, q) ==
  floats' = [floats EXCEPT ![r] = @ \union
    {[of |-> <<kept[r].attempt, of>>, item |-> i, qty |-> q, at |-> "read", to |-> 0]}]

\* It reads the committed qtyOnHand ...
DecreaseTotalQtyRead(r) ==
  \E f \in floats[r] :
    /\ f.at = "read"
    /\ floats' = [floats EXCEPT ![r] = (@ \ {f}) \union
         {[f EXCEPT !.at = "write", !.to = qtyOnHand[f.item] - f.qty]}]
    /\ UNCHANGED <<db, pc, call, local, kept, tx>>

\* ... and writes through the session, in whatever state that is by then: a
\* transaction takes the write, an aborted one has left a session that writes
\* directly, and an ended session or a WriteConflict rejects it.  Nobody
\* handles the rejection, so the process exits.
DecreaseTotalQtyWrite(r) ==
  \E f \in floats[r] :
    /\ f.at = "write"
    /\ \/ /\ pc[r] \notin Finished
          /\ Set(r, f.item, f.to)
          /\ floats' = [floats EXCEPT ![r] = @ \ {f}]
          /\ UNCHANGED <<db, pc, call, local, kept>>
       \/ /\ pc[r] = "failed"
          /\ \A o \in Requests : f.item \notin Wrote(o)
          /\ qtyOnHand' = [qtyOnHand EXCEPT ![f.item] = f.to]
          /\ tx' = [o \in Requests |-> Missed(o, {f.item})]
          /\ floats' = [floats EXCEPT ![r] = @ \ {f}]
          /\ UNCHANGED <<ledger, headers, charged, pc, call, local, kept>>
       \/ /\ pc[r] = "done" \/ (pc[r] # "failed" /\ Conflict(r, f.item))
          /\ ProcessExit
=============================================================================
