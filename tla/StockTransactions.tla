------------------------- MODULE StockTransactions -------------------------
(***************************************************************************)
(* The seven inventory services over the same collections: any number of   *)
(* requests, interleaved at every awaited call, and a process that may     *)
(* exit at any time.                                                       *)
(***************************************************************************)
EXTENDS AddTransactions, RefundTransaction, ReleaseTransactions,
        ReverseTransaction, WasteTransaction, ShrinkageTransaction,
        AuditTransactions, FiniteSetsExt

\* The stock at the start came with the opening entries.
ASSUME OpeningAgrees ==
  \A i \in StockItems : OpeningQty[i] =
    SumFunctionOnSet([n \in DOMAIN OpeningLines |-> OpeningLines[n].qty],
                     {n \in DOMAIN OpeningLines : OpeningLines[n].item = i})

Handler(r) ==
  \/ AddStep(r) \/ RefundStep(r) \/ ReleaseStep(r) \/ ReverseStep(r)
  \/ WasteStep(r) \/ ShrinkageStep(r) \/ AuditStep(r)
  \/ Commit(r)

Floating(r) == DecreaseTotalQtyRead(r) \/ DecreaseTotalQtyWrite(r)

Next ==
  \/ \E r \in Requests : (\E kind \in Kinds : Arrive(r, kind)) \/ Handler(r) \/ Floating(r)
  \/ ProcessExit

Spec == Init /\ [][Next]_vars

\* The event loop and the driver go on with every call in progress.
FairSpec == Spec /\ \A r \in Requests : WF_vars(Handler(r)) /\ WF_vars(Floating(r))

-----------------------------------------------------------------------------
(* Types *)

Entry == [item: StockItems, qty: Int, qtyRemaining: Int,
          by: Requests \union {OpeningAdd}, nth: Nat \X Nat,
          ref: Requests \union {OpeningAdd, NoRef}]
Call == [kind: AllKinds \union {"none"}, lines: Seq(Line),
         target: Requests \union {OpeningAdd, NoRef}]
Steps == {"idle", "read", "find", "drain", "write", "create", "header", "commit", "price"}
         \union Finished
Kept == [attempt: 1 .. MaxAttempts, transIds: SUBSET (Nat \X Nat), carried: Nat]
Float == [of: Nat \X Nat, item: StockItems, qty: Int, at: {"read", "write"}, to: Int]
Doc == [at: Nat, item: StockItems, qty: Int, rem: Int]
Local == [line: Nat \ {0}, seen: Int, docs: SUBSET Doc, left: Int]
Write == [doc: StockItems \union Nat, to: Int]
Tx == [writes: SUBSET Write, made: Seq(Entry), header: BOOLEAN, bill: Nat,
       open: BOOLEAN, missed: SUBSET (StockItems \union Nat)]

TypeOK ==
  /\ qtyOnHand \in [StockItems -> Int]
  /\ ledger \in Seq(Entry)
  /\ headers \in [Requests -> Nat]
  /\ charged \in [Requests -> Nat]
  /\ pc \in [Requests -> Steps]
  /\ call \in [Requests -> Call]
  /\ local \in [Requests -> Local]
  /\ kept \in [Requests -> Kept]
  /\ tx \in [Requests -> Tx]
  /\ floats \in [Requests -> SUBSET Float]

-----------------------------------------------------------------------------
(* Properties *)

\* No call made so far names i in a line with a negative quantity, which the dto
\* of an add, a refund, a release and a partial reversal lets through ...
Unsigned(i) ==
  \A r \in Requests : \A n \in DOMAIN call[r].lines :
    call[r].lines[n].item = i => call[r].lines[n].qty >= 0
\* ... and no partial reversal, which subtracts unchecked, names i.
Unreversed(i) ==
  \A r \in Requests : call[r].kind = "REVERSE" =>
    \A n \in DOMAIN call[r].lines : call[r].lines[n].item # i

\* The handlers that read qtyOnHand, check it and write back what they computed
\* never store a negative quantity of an item, however stale the value read was,
\* until an add or a refund brings a negative one of that item: all handlers but
\* those that decrease it by the floating decreaseTotalQty.
CheckedWriters == Kinds \subseteq {"ADD", "REFUND", "WASTE", "SHRINKAGE", "AUDIT"}
QtyOnHandNotNegative ==
  CheckedWriters => \A i \in StockItems : Unsigned(i) => qtyOnHand[i] >= 0

\* The ledger never owes stock: an entry of an item holds between nothing and
\* what it was created with, whatever releases, wastes and whole reversals
\* overlap, as long as no call brought a negative quantity of the item (an add
\* then opens an entry below nothing, a release fills one beyond its qty) or
\* reversed it in part.
EntriesWithinQty ==
  \A n \in DOMAIN ledger :
    Unsigned(ledger[n].item) /\ Unreversed(ledger[n].item)
      => ledger[n].qtyRemaining \in 0 .. ledger[n].qty

\* withTransaction is all or nothing, through retries and exits: the entries a
\* request has left in the ledger all name its header document, and it has left
\* exactly one then; a request without a header has left none.
EntriesHaveTheirHeader ==
  \A n \in DOMAIN ledger : ledger[n].by \in Requests =>
    /\ ledger[n].ref = ledger[n].by
    /\ headers[ledger[n].by] = 1

Quiet == \A r \in Requests : ~Active(r)
Remaining(i) ==
  SumFunctionOnSet([n \in DOMAIN ledger |-> ledger[n].qtyRemaining],
                   {n \in DOMAIN ledger : ledger[n].item = i})

\* One request at a time, the two books agree at rest: qtyOnHand is what the
\* ledger entries have remaining.  Left out is what breaks this alone: waste
\* (the ledger keeps what was wasted), the reversals (a partial one may overdraw
\* an entry, a full one deducts again what was released), a release that did
\* not finish, two lines for the same item (the second reads the quantity the
\* first has not yet committed), and negative quantities (a negative release
\* raises qtyOnHand and finds no open entry to raise, a release over an entry
\* below nothing takes too much from the next one).
Unambiguous(lines) == \A m, n \in DOMAIN lines : lines[m].item = lines[n].item => m = n
BooksAgreeWhenSerial ==
  (/\ Quiet /\ MaxInFlight = 1
   /\ Kinds \intersect {"WASTE", "REVERSE", "REVERSE_ALL"} = {}
   /\ \A i \in StockItems : Pricing[i] # "EXPIRY"
   /\ \A i \in StockItems : Unsigned(i)
   /\ \A r \in Requests : Unambiguous(call[r].lines)
   /\ \A r \in Requests : call[r].kind = "RELEASE" => pc[r] = "done")
  => \A i \in StockItems : qtyOnHand[i] = Remaining(i)

\* What a refund or a reverse is billed for is summed in a variable outside the
\* callback: it is wrong only if the callback was called more than once.
BilledOnceUnlessRetried ==
  \A r \in Requests :
    (pc[r] = "done" /\ kept[r].attempt = 1 /\ call[r].kind # "REVERSE_ALL")
      => charged[r] = Len(call[r].lines)

\* Every request that arrives is answered, however its transaction fares.
EveryRequestEnds ==
  \A r \in Requests : pc[r] = "read" ~> pc[r] \in Finished
=============================================================================
