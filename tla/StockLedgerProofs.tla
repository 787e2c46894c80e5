------------------------- MODULE StockLedgerProofs -------------------------
(***************************************************************************)
(* Every variable of the stock handlers keeps its type; what a request     *)
(* leaves in the ledger comes with its header document; qtyOnHand never    *)
(* becomes negative under the handlers that check what they read; no       *)
(* request takes more from an entry than it has; what is billed outside a  *)
(* callback that ran once is billed once; and qtyOnHand and the ledger     *)
(* agree when one request follows the other.                               *)
(***************************************************************************)
EXTENDS StockTransactions, ArraysProofs, SequenceTheorems

-----------------------------------------------------------------------------
(* Types *)

\* The dtos have passed their validation; where a handler uses this line of its
\* dto there is one, and past the read its item has a document in the warehouse.
InLine == {"read", "find", "drain", "write", "create"}
LineOK ==
  \A r \in Requests :
    /\ pc[r] = "idle" => local[r].line = 1 /\ call[r] = NoCall
    /\ Accepts(call[r].kind, call[r].lines)
    /\ pc[r] \in InLine => local[r].line <= Len(call[r].lines)
    /\ pc[r] \in InLine \ {"read"} /\ call[r].kind # "REVERSE_ALL"
         => ThisLine(r).item \in StockItems

TypeInv == TypeOK /\ LineOK

LEMMA ExceptType ==
  ASSUME NEW S, NEW f \in [Requests -> S], NEW r \in Requests, NEW x \in S
  PROVE  LET g == [f EXCEPT ![r] = x]
         IN  /\ g \in [Requests -> S] /\ g[r] = x
             /\ \A o \in Requests \ {r} : g[o] = f[o]
OBVIOUS

LEMMA PutType ==
  ASSUME NEW W \in SUBSET Write, NEW d \in StockItems \union Nat, NEW v \in Int
  PROVE  Put(W, d, v) \in SUBSET Write
BY DEF Put, Write

LEMMA WrittenType ==
  ASSUME NEW W \in SUBSET Write, NEW d, NEW v \in Int
  PROVE  Written(W, d, v) \in Int
BY DEF Written, Write

LEMMA SetType ==
  ASSUME TypeOK, NEW r \in Requests, NEW d \in StockItems \union Nat, NEW v \in Int,
         Set(r, d, v)
  PROVE  tx' \in [Requests -> Tx]
<1>1. Put(tx[r].writes, d, v) \in SUBSET Write
  BY PutType DEF TypeOK, Tx
<1> QED
  BY <1>1 DEF TypeOK, Tx, Set

LEMMA ThisLineType ==
  ASSUME TypeInv, NEW r \in Requests, pc[r] \in InLine
  PROVE  /\ ThisLine(r) \in Line
         /\ local[r].line \in 1 .. Len(call[r].lines)
<1>1. call[r].lines \in Seq(Line) /\ local[r].line \in Nat \ {0}
  BY DEF TypeInv, TypeOK, Call, Local
<1>2. local[r].line \in 1 .. Len(call[r].lines)
  BY <1>1 DEF TypeInv, LineOK
<1> QED
  BY <1>1, <1>2 DEF ThisLine

\* LineOK is about the request that moved only.
LEMMA LineStep ==
  ASSUME LineOK, NEW r \in Requests, UNCHANGED call,
         \A o \in Requests \ {r} : pc'[o] = pc[o] /\ local'[o].line = local[o].line,
         pc'[r] # "idle",
         pc'[r] \in InLine => local'[r].line <= Len(call[r].lines),
         pc'[r] \in InLine \ {"read"} /\ call[r].kind # "REVERSE_ALL"
           => call[r].lines[local'[r].line].item \in StockItems
  PROVE  LineOK'
BY DEF LineOK, ThisLine

LEMMA GotoType ==
  ASSUME TypeOK, NEW r \in Requests, NEW at \in Steps, Goto(r, at)
  PROVE  /\ pc' \in [Requests -> Steps]
         /\ pc'[r] = at
         /\ \A o \in Requests \ {r} : pc'[o] = pc[o]
BY DEF TypeOK, Goto

LEMMA ThrowType ==
  ASSUME TypeInv, NEW r \in Requests, Throw(r)
  PROVE  TypeInv'
<1>1. tx' \in [Requests -> Tx]
  BY DEF Throw, TypeInv, TypeOK, NoTx, Tx
<1>2. /\ pc' \in [Requests -> Steps] /\ pc'[r] \notin InLine \union {"idle"}
      /\ \A o \in Requests \ {r} : pc'[o] = pc[o]
  BY GotoType DEF Throw, TypeInv, Steps, Finished, InLine
<1>3. UNCHANGED <<qtyOnHand, ledger, headers, charged, call, local, kept, floats>>
  BY DEF Throw, db
<1>4. LineOK'
  BY <1>2, <1>3, LineStep DEF TypeInv
<1> QED
  BY <1>1, <1>2, <1>3, <1>4 DEF TypeInv, TypeOK

LEMMA ReadType ==
  ASSUME TypeInv, NEW r \in Requests, pc[r] = "read", NEW refuse, NEW at \in InLine,
         ReadQtyOnHand(r, refuse, at)
  PROVE  TypeInv'
<1>1. ThisLine(r) \in Line /\ local[r].line \in 1 .. Len(call[r].lines)
  BY ThisLineType DEF InLine
<1>2. CASE Throw(r)
  BY <1>2, ThrowType
<1>3. CASE ~Throw(r)
  <2>1. /\ ThisLine(r).item \in StockItems
        /\ local' = [local EXCEPT ![r].seen = qtyOnHand[ThisLine(r).item]]
        /\ Goto(r, at)
        /\ UNCHANGED <<db, call, kept, tx, floats>>
    BY <1>3 DEF ReadQtyOnHand
  <2>2. local' \in [Requests -> Local] /\ \A o \in Requests : local'[o].line = local[o].line
    BY <2>1 DEF TypeInv, TypeOK, Local
  <2>3. /\ pc' \in [Requests -> Steps] /\ pc'[r] # "idle"
        /\ \A o \in Requests \ {r} : pc'[o] = pc[o]
    BY <2>1, GotoType DEF TypeInv, Steps, InLine
  <2>4. /\ local'[r].line <= Len(call[r].lines)
        /\ call[r].lines[local'[r].line].item \in StockItems
    BY <1>1, <2>1, <2>2 DEF ThisLine
  <2>5. LineOK'
    BY <2>1, <2>2, <2>3, <2>4, LineStep DEF TypeInv
  <2> QED
    BY <2>1, <2>2, <2>3, <2>5 DEF TypeInv, TypeOK, db
<1> QED
  BY <1>2, <1>3

LEMMA RetryType ==
  ASSUME TypeInv, NEW r \in Requests, pc[r] \in InLine, NEW d, Retry(r, d)
  PROVE  TypeInv'
<1>1. tx' \in [Requests -> Tx]
  BY DEF Retry, TypeInv, TypeOK, NoTx, Tx
<1>2. /\ local' \in [Requests -> Local] /\ local'[r].line = 1
      /\ \A o \in Requests \ {r} : local'[o] = local[o]
  BY DEF Retry, TypeInv, TypeOK, NoLocal, Local
<1>3. kept' \in [Requests -> Kept]
  <2>1. CASE kept[r].attempt < MaxAttempts
    <3>1. kept[r] \in Kept /\ kept' = [kept EXCEPT ![r].attempt = @ + 1]
      BY <2>1 DEF Retry, TypeInv, TypeOK
    <3>2. kept[r].attempt + 1 \in 1 .. MaxAttempts
      BY <2>1, <3>1, BoundsAssumption DEF Kept
    <3> QED
      BY <3>1, <3>2 DEF TypeInv, TypeOK, Kept
  <2>2. CASE ~(kept[r].attempt < MaxAttempts)
    BY <2>2 DEF Retry, TypeInv, TypeOK
  <2> QED
    BY <2>1, <2>2
<1>4. /\ pc' \in [Requests -> Steps] /\ pc'[r] \in {"read", "failed"}
      /\ \A o \in Requests \ {r} : pc'[o] = pc[o]
  BY GotoType DEF Retry, TypeInv, Steps, Finished
<1>5. UNCHANGED <<qtyOnHand, ledger, headers, charged, call, floats>>
  BY DEF Retry, db
<1>6. 1 <= Len(call[r].lines)
  BY ThisLineType DEF TypeInv, TypeOK, Call
<1>7. LineOK'
  BY <1>2, <1>4, <1>5, <1>6, LineStep DEF TypeInv, InLine
<1> QED
  BY <1>1, <1>2, <1>3, <1>4, <1>5, <1>7 DEF TypeInv, TypeOK

\* A step past the read that stays on its line keeps LineOK.
LEMMA SameLine ==
  ASSUME TypeInv, NEW r \in Requests, pc[r] \in InLine \ {"read"}, NEW at \in InLine,
         Goto(r, at), UNCHANGED call,
         \A o \in Requests : local'[o].line = local[o].line
  PROVE  LineOK' /\ pc' \in [Requests -> Steps]
<1>1. /\ pc' \in [Requests -> Steps] /\ pc'[r] = at
      /\ \A o \in Requests \ {r} : pc'[o] = pc[o]
  BY GotoType DEF TypeInv, Steps, InLine
<1>2. /\ local[r].line <= Len(call[r].lines)
      /\ call[r].kind # "REVERSE_ALL" => call[r].lines[local[r].line].item \in StockItems
  BY DEF TypeInv, LineOK, ThisLine
<1> QED
  BY <1>1, <1>2, LineStep DEF TypeInv, InLine

LEMMA NextLineType ==
  ASSUME TypeInv, NEW r \in Requests, pc[r] \in InLine, NextLine(r), UNCHANGED call
  PROVE  local' \in [Requests -> Local] /\ pc' \in [Requests -> Steps] /\ LineOK'
<1>1. /\ local[r].line \in Nat \ {0} /\ Len(call[r].lines) \in Nat
  BY DEF TypeInv, TypeOK, Local, Call
<1>2. /\ local' \in [Requests -> Local] /\ local'[r].line = local[r].line + 1
      /\ \A o \in Requests \ {r} : local'[o] = local[o]
  <2> DEFINE x == [NoLocal EXCEPT !.line = local[r].line + 1]
  <2>1. x \in Local /\ x.line = local[r].line + 1
    BY <1>1 DEF Local, NoLocal
  <2>2. local \in [Requests -> Local] /\ local' = [local EXCEPT ![r] = x]
    BY DEF NextLine, TypeInv, TypeOK
  <2> QED
    BY <2>1, <2>2
<1>3. /\ pc' \in [Requests -> Steps]
      /\ pc'[r] = IF local[r].line < Len(call[r].lines) THEN "read" ELSE "header"
      /\ \A o \in Requests \ {r} : pc'[o] = pc[o]
  BY GotoType DEF NextLine, TypeInv, Steps
<1>4. LineOK'
  BY <1>1, <1>2, <1>3, LineStep DEF TypeInv, InLine
<1> QED
  BY <1>2, <1>3, <1>4

LEMMA FindType ==
  ASSUME TypeInv, NEW r \in Requests, NEW q \in Int, NEW entries \in SUBSET (DOMAIN ledger),
         Find(r, q, entries)
  PROVE  /\ local' \in [Requests -> Local]
         /\ \A o \in Requests : local'[o].line = local[o].line
         /\ UNCHANGED <<qtyOnHand, ledger, headers, charged, call, kept, tx, floats>>
<1> DEFINE found == {[at |-> n, item |-> ledger[n].item, qty |-> ledger[n].qty,
                      rem |-> ledger[n].qtyRemaining] : n \in entries}
<1>1. \A n \in DOMAIN ledger : n \in Nat /\ ledger[n] \in Entry
  BY DEF TypeInv, TypeOK
<1>2. found \in SUBSET Doc
  BY <1>1 DEF Doc, Entry
<1>3. local' = [local EXCEPT ![r] = [local[r] EXCEPT !.left = q, !.docs = found]]
  BY DEF Find
<1>4. /\ local' \in [Requests -> Local]
      /\ \A o \in Requests : local'[o].line = local[o].line
  BY <1>2, <1>3 DEF TypeInv, TypeOK, Local
<1> QED
  BY <1>4 DEF Find, db

LEMMA ConsumeType ==
  ASSUME TypeInv, NEW r \in Requests, NEW d \in local[r].docs, Consume(r, d)
  PROVE  TypeInv'
<1> DEFINE left == local[r].left
           took == IF left > d.rem THEN d.rem ELSE left
<1>1. d \in Doc /\ left \in Int /\ local[r].docs \in SUBSET Doc
  BY DEF TypeInv, TypeOK, Local
<1>2. took \in Int /\ d.rem - took \in Int /\ d.at \in StockItems \union Nat
  BY <1>1 DEF Doc
<1>3. /\ local' = [local EXCEPT ![r] = [local[r] EXCEPT
            !.docs = local[r].docs \ {d}, !.left = left - took]]
      /\ UNCHANGED <<db, call, kept, floats, pc>>
  BY DEF Consume
<1>4. tx' \in [Requests -> Tx]
  <2>1. CASE UNCHANGED tx
    BY <2>1 DEF TypeInv, TypeOK
  <2>2. CASE Set(r, d.at, d.rem - took)
    BY <2>2, <1>2, SetType DEF TypeInv
  <2> QED
    BY <2>1, <2>2 DEF Consume
<1>5. /\ local' \in [Requests -> Local]
      /\ \A o \in Requests : local'[o].line = local[o].line
  <2> DEFINE x == [local[r] EXCEPT !.docs = local[r].docs \ {d}, !.left = left - took]
  <2>1. local[r] \in Local /\ local \in [Requests -> Local]
    BY DEF TypeInv, TypeOK
  <2>2. local[r].docs \ {d} \in SUBSET Doc /\ left - took \in Int
    BY <1>1, <1>2
  <2> HIDE DEF left, took
  <2>3. x \in Local /\ x.line = local[r].line
    BY <2>1, <2>2 DEF Local
  <2> QED
    BY <1>3, <2>1, <2>3
<1>6. LineOK'
  BY <1>3, <1>5 DEF TypeInv, LineOK, ThisLine
<1> QED
  BY <1>3, <1>4, <1>5, <1>6 DEF TypeInv, TypeOK, db

LEMMA AppendType ==
  ASSUME TypeInv, NEW r \in Requests, NEW i \in StockItems, NEW q \in Int,
         NEW id \in Nat \X Nat, AppendEntry(r, i, q, id)
  PROVE  tx' \in [Requests -> Tx]
<1> DEFINE e == [item |-> i, qty |-> q, qtyRemaining |-> q, by |-> r, nth |-> id, ref |-> NoRef]
<1>1. e \in Entry
  BY DEF Entry
<1>2. Append(tx[r].made, e) \in Seq(Entry)
  BY <1>1 DEF TypeInv, TypeOK, Tx
<1>3. tx' = [tx EXCEPT ![r] = [tx[r] EXCEPT !.open = TRUE, !.made = Append(tx[r].made, e)]]
  BY DEF AppendEntry
<1>4. tx[r] \in Tx /\ tx \in [Requests -> Tx]
  BY DEF TypeInv, TypeOK
<1>5. [tx[r] EXCEPT !.open = TRUE, !.made = Append(tx[r].made, e)] \in Tx
  BY <1>2, <1>4 DEF Tx
<1> QED
  BY <1>3, <1>4, <1>5

LEMMA CreateType ==
  ASSUME TypeInv, NEW r \in Requests, NEW i \in StockItems, NEW q \in Int,
         CreateEntry(r, i, q)
  PROVE  tx' \in [Requests -> Tx] /\ kept' \in [Requests -> Kept]
<1> DEFINE id == <<kept[r].attempt, local[r].line>>
<1>1. id \in Nat \X Nat /\ kept[r] \in Kept
  BY BoundsAssumption DEF TypeInv, TypeOK, Kept, Local
<1>2. AppendEntry(r, i, q, id) /\ kept' = [kept EXCEPT ![r].transIds = @ \union {id}]
  BY DEF CreateEntry
<1>3. kept' \in [Requests -> Kept]
  BY <1>1, <1>2 DEF TypeInv, TypeOK, Kept
<1> QED
  BY <1>1, <1>2, <1>3, AppendType

LEMMA HeaderType ==
  ASSUME TypeInv, NEW r \in Requests, NEW ids, NEW lines \in Nat, CreateHeader(r, ids, lines)
  PROVE  TypeInv'
<1> DEFINE made == [n \in DOMAIN tx[r].made |-> IF tx[r].made[n].nth \in ids
                      THEN [tx[r].made[n] EXCEPT !.ref = r] ELSE tx[r].made[n]]
<1>1. tx[r] \in Tx /\ tx[r].made \in Seq(Entry)
  BY DEF TypeInv, TypeOK, Tx
<1>2. /\ DOMAIN tx[r].made = 1 .. Len(tx[r].made) /\ Len(tx[r].made) \in Nat
      /\ \A n \in DOMAIN tx[r].made : tx[r].made[n] \in Entry
  BY <1>1
<1>3. made \in Seq(Entry)
  <2>1. \A n \in DOMAIN tx[r].made : made[n] \in Entry
    <3> TAKE n \in DOMAIN tx[r].made
    <3>1. tx[r].made[n] \in Entry /\ [tx[r].made[n] EXCEPT !.ref = r] \in Entry
      BY <1>2 DEF Entry
    <3> QED
      BY <3>1
  <2>2. made \in [1 .. Len(tx[r].made) -> Entry]
    BY <1>2, <2>1
  <2> QED
    BY <1>2, <2>2, SeqDef
<1>4. /\ tx' = [tx EXCEPT ![r] = [tx[r] EXCEPT
            !.header = TRUE, !.bill = lines, !.open = TRUE, !.made = made]]
      /\ Goto(r, "commit")
      /\ UNCHANGED <<db, call, local, kept, floats>>
  BY DEF CreateHeader
<1>5. tx' \in [Requests -> Tx]
  <2> HIDE DEF made
  <2>1. [tx[r] EXCEPT !.header = TRUE, !.bill = lines, !.open = TRUE, !.made = made] \in Tx
    BY <1>1, <1>3 DEF Tx
  <2> QED
    BY <1>4, <2>1, ExceptType DEF TypeInv, TypeOK
<1>6. /\ pc' \in [Requests -> Steps] /\ pc'[r] = "commit"
      /\ \A o \in Requests \ {r} : pc'[o] = pc[o]
  BY <1>4, GotoType DEF TypeInv, Steps
<1>7. LineOK'
  BY <1>4, <1>6, LineStep DEF TypeInv, InLine
<1> QED
  BY <1>4, <1>5, <1>6, <1>7 DEF TypeInv, TypeOK, db

\* A session write on the line's item, then on to another step of the line.
LEMMA SetStepType ==
  ASSUME TypeInv, NEW r \in Requests, pc[r] \in InLine \ {"read"}, NEW at \in InLine,
         NEW d \in StockItems \union Nat, NEW v \in Int,
         Set(r, d, v), Goto(r, at), UNCHANGED <<db, call, local, kept, floats>>
  PROVE  TypeInv'
<1>1. tx' \in [Requests -> Tx]
  BY SetType DEF TypeInv
<1>2. LineOK' /\ pc' \in [Requests -> Steps]
  BY SameLine
<1> QED
  BY <1>1, <1>2 DEF TypeInv, TypeOK, db

\* A session write on the line's item that ends the line.
LEMMA SetNextType ==
  ASSUME TypeInv, NEW r \in Requests, pc[r] \in InLine,
         NEW d \in StockItems \union Nat, NEW v \in Int,
         Set(r, d, v), NextLine(r), UNCHANGED <<db, call, kept, floats>>
  PROVE  TypeInv'
<1>1. tx' \in [Requests -> Tx]
  BY SetType DEF TypeInv
<1>2. LineOK' /\ pc' \in [Requests -> Steps] /\ local' \in [Requests -> Local]
  BY NextLineType
<1> QED
  BY <1>1, <1>2 DEF TypeInv, TypeOK, db

\* What a step inside a line may rely on.
LEMMA LineFacts ==
  ASSUME TypeInv, NEW r \in Requests, pc[r] \in InLine
  PROVE  /\ ThisLine(r).qty \in Int /\ local[r].seen \in Int
         /\ call[r].kind \in {"WASTE", "SHRINKAGE", "AUDIT"} => ThisLine(r).qty >= 0
         /\ Unsigned(ThisLine(r).item) => ThisLine(r).qty >= 0
         /\ Unreversed(ThisLine(r).item) => call[r].kind # "REVERSE"
         /\ Len(call[r].lines) \in Nat /\ local[r].line \in Nat
         /\ pc[r] # "read" /\ call[r].kind # "REVERSE_ALL" => ThisLine(r).item \in StockItems
<1>1. ThisLine(r) \in Line /\ local[r].line \in 1 .. Len(call[r].lines)
  BY ThisLineType
<1>2. call[r].lines \in Seq(Line)
  BY DEF TypeInv, TypeOK, Call
<1>3. local[r].line \in DOMAIN call[r].lines
  BY <1>1, <1>2
<1>4. call[r].kind \in {"WASTE", "SHRINKAGE", "AUDIT"} => ThisLine(r).qty > 0
  BY <1>3 DEF TypeInv, LineOK, Accepts, ThisLine
<1>5. /\ Unsigned(ThisLine(r).item) => ThisLine(r).qty >= 0
      /\ Unreversed(ThisLine(r).item) => call[r].kind # "REVERSE"
  BY <1>3 DEF Unsigned, Unreversed, ThisLine
<1> QED
  BY <1>1, <1>4, <1>5 DEF TypeInv, TypeOK, LineOK, Line, Local, Call

\* What the calls say of an item stands while no call arrives, and an arrival
\* only adds a call.
LEMMA SignsSame ==
  ASSUME UNCHANGED call
  PROVE  \A i : (Unsigned(i)' <=> Unsigned(i)) /\ (Unreversed(i)' <=> Unreversed(i))
BY DEF Unsigned, Unreversed

LEMMA SignsArrive ==
  ASSUME TypeInv, NEW r \in Requests, NEW kind \in Kinds, Arrive(r, kind), NEW i
  PROVE  (Unsigned(i)' => Unsigned(i)) /\ (Unreversed(i)' => Unreversed(i))
<1>1. DOMAIN call[r].lines = {}
  BY DEF Arrive, TypeInv, LineOK, NoCall
<1>2. PICK lines, target :
        call' = [call EXCEPT ![r] = [kind |-> kind, lines |-> lines, target |-> target]]
  BY DEF Arrive
<1>3. \A o \in Requests \ {r} : call'[o] = call[o]
  BY <1>2 DEF TypeInv, TypeOK
<1> QED
  BY <1>1, <1>3 DEF Unsigned, Unreversed

LEMMA HeaderLines ==
  ASSUME TypeInv, NEW r \in Requests
  PROVE  Len(call[r].lines) \in Nat /\ kept[r].carried \in Nat
BY DEF TypeInv, TypeOK, Call, Kept

LEMMA AddType ==
  ASSUME TypeInv, NEW r \in Requests, AddStep(r)
  PROVE  TypeInv'
<1>1. CASE AddRead(r)
  BY <1>1, ReadType DEF AddRead, Serves, InLine
<1>2. CASE AddSetQty(r)
  <2>1. pc[r] = "write" /\ ThisLine(r).item \in StockItems
        /\ local[r].seen + ThisLine(r).qty \in Int
    BY <1>2, LineFacts DEF AddSetQty, Serves, InLine
  <2> QED
    BY <1>2, <2>1, RetryType, SetStepType DEF AddSetQty, InLine
<1>3. CASE AddCreateEntry(r)
  <2>1. pc[r] = "create" /\ ThisLine(r).item \in StockItems /\ ThisLine(r).qty \in Int
    BY <1>3, LineFacts DEF AddCreateEntry, Serves, InLine
  <2>2. tx' \in [Requests -> Tx] /\ kept' \in [Requests -> Kept]
    BY <1>3, <2>1, CreateType DEF AddCreateEntry
  <2>3. local' \in [Requests -> Local] /\ pc' \in [Requests -> Steps] /\ LineOK'
    BY <1>3, <2>1, NextLineType DEF AddCreateEntry, InLine
  <2> QED
    BY <1>3, <2>2, <2>3 DEF AddCreateEntry, TypeInv, TypeOK, db
<1>4. CASE AddCreateHeader(r)
  BY <1>4, HeaderType, HeaderLines DEF AddCreateHeader
<1> QED
  BY <1>1, <1>2, <1>3, <1>4 DEF AddStep

LEMMA RefundType ==
  ASSUME TypeInv, NEW r \in Requests, RefundStep(r)
  PROVE  TypeInv'
<1>1. CASE RefundRead(r)
  BY <1>1, ReadType DEF RefundRead, Serves, InLine
<1>2. CASE RefundSetQty(r)
  <2>1. pc[r] = "write" /\ ThisLine(r).item \in StockItems
        /\ local[r].seen + ThisLine(r).qty \in Int
    BY <1>2, LineFacts DEF RefundSetQty, Serves, InLine
  <2> QED
    BY <1>2, <2>1, RetryType, SetStepType DEF RefundSetQty, InLine
<1>3. CASE RefundCreateEntry(r)
  <2> DEFINE id == <<kept[r].attempt, local[r].line>>
             k  == [kept[r] EXCEPT !.transIds = kept[r].transIds \union {id},
                                   !.carried = kept[r].carried + 1]
  <2>1. pc[r] = "create" /\ ThisLine(r).item \in StockItems /\ ThisLine(r).qty \in Int
    BY <1>3, LineFacts DEF RefundCreateEntry, Serves, InLine
  <2>2. kept[r] \in Kept /\ kept \in [Requests -> Kept] /\ id \in Nat \X Nat
    BY BoundsAssumption DEF TypeInv, TypeOK, Kept, Local
  <2>3. AppendEntry(r, ThisLine(r).item, ThisLine(r).qty, id) /\ kept' = [kept EXCEPT ![r] = k]
    BY <1>3 DEF RefundCreateEntry
  <2>4. kept' \in [Requests -> Kept]
    <3> HIDE DEF id
    <3>1. kept[r].transIds \union {id} \in SUBSET (Nat \X Nat) /\ kept[r].carried + 1 \in Nat
      BY <2>2 DEF Kept
    <3>2. k \in Kept
      BY <2>2, <3>1, Zenon DEF Kept
    <3> HIDE DEF k
    <3> QED
      BY <2>2, <2>3, <3>2, ExceptType
  <2>5. tx' \in [Requests -> Tx]
    BY <2>1, <2>2, <2>3, AppendType
  <2>6. local' \in [Requests -> Local] /\ pc' \in [Requests -> Steps] /\ LineOK'
    BY <1>3, <2>1, NextLineType DEF RefundCreateEntry, InLine
  <2> QED
    BY <1>3, <2>4, <2>5, <2>6 DEF RefundCreateEntry, TypeInv, TypeOK, db
<1>4. CASE RefundCreateHeader(r)
  BY <1>4, HeaderType DEF RefundCreateHeader
<1>5. CASE RefundSetPrice(r)
  <2>1. /\ pc' \in [Requests -> Steps] /\ pc'[r] = "done"
        /\ \A o \in Requests \ {r} : pc'[o] = pc[o]
    BY <1>5, GotoType DEF RefundSetPrice, TypeInv, Steps, Finished
  <2>2. LineOK'
    BY <1>5, <2>1, LineStep DEF RefundSetPrice, TypeInv, InLine
  <2>3. charged' \in [Requests -> Nat]
    BY <1>5, HeaderLines DEF RefundSetPrice, TypeInv, TypeOK
  <2> QED
    BY <1>5, <2>1, <2>2, <2>3 DEF RefundSetPrice, TypeInv, TypeOK
<1> QED
  BY <1>1, <1>2, <1>3, <1>4, <1>5 DEF RefundStep

LEMMA WasteType ==
  ASSUME TypeInv, NEW r \in Requests, WasteStep(r)
  PROVE  TypeInv'
<1>1. CASE WasteRead(r)
  BY <1>1, ReadType DEF WasteRead, Serves, InLine
<1>2. CASE WasteSetQty(r)
  <2>1. pc[r] = "write" /\ ThisLine(r).item \in StockItems
        /\ local[r].seen - ThisLine(r).qty \in Int
    BY <1>2, LineFacts DEF WasteSetQty, Serves, InLine
  <2> QED
    BY <1>2, <2>1, RetryType, SetNextType DEF WasteSetQty, InLine
<1>3. CASE WasteCreateHeader(r)
  BY <1>3, HeaderType, HeaderLines DEF WasteCreateHeader
<1> QED
  BY <1>1, <1>2, <1>3 DEF WasteStep

\* The loop over the documents found, by services that write qtyOnHand after it.
LEMMA ShrinkageType ==
  ASSUME TypeInv, NEW r \in Requests, ShrinkageStep(r)
  PROVE  TypeInv'
<1>1. CASE ShrinkageRead(r)
  BY <1>1, ReadType DEF ShrinkageRead, Serves, InLine
<1>2. CASE ShrinkageFind(r)
  <2>1. pc[r] = "find" /\ ThisLine(r).qty \in Int /\ OpenEntries(ThisLine(r).item) \subseteq DOMAIN ledger
    BY <1>2, LineFacts DEF ShrinkageFind, Serves, InLine, OpenEntries
  <2>2. /\ local' \in [Requests -> Local]
        /\ \A o \in Requests : local'[o].line = local[o].line
        /\ UNCHANGED <<qtyOnHand, ledger, headers, charged, call, kept, tx, floats>>
    BY <1>2, <2>1, FindType DEF ShrinkageFind
  <2>3. LineOK' /\ pc' \in [Requests -> Steps]
    BY <1>2, <2>1, <2>2, SameLine DEF ShrinkageFind, InLine
  <2> QED
    BY <2>2, <2>3 DEF TypeInv, TypeOK
<1>3. CASE ShrinkageDrain(r)
  <2>1. pc[r] \in InLine
    BY <1>3 DEF ShrinkageDrain, Serves, InLine
  <2>2. PICK d \in local[r].docs : Consume(r, d) \/ Retry(r, d.at)
    BY <1>3 DEF ShrinkageDrain, Oldest
  <2> QED
    BY <2>1, <2>2, ConsumeType, RetryType
<1>4. CASE ShrinkageSetQty(r)
  <2>1. pc[r] = "drain" /\ ThisLine(r).item \in StockItems
        /\ local[r].seen - ThisLine(r).qty \in Int
    BY <1>4, LineFacts DEF ShrinkageSetQty, Serves, InLine
  <2> QED
    BY <1>4, <2>1, RetryType, SetNextType DEF ShrinkageSetQty, InLine
<1>5. CASE ShrinkageCreateHeader(r)
  BY <1>5, HeaderType, HeaderLines DEF ShrinkageCreateHeader
<1> QED
  BY <1>1, <1>2, <1>3, <1>4, <1>5 DEF ShrinkageStep

LEMMA AuditType ==
  ASSUME TypeInv, NEW r \in Requests, AuditStep(r)
  PROVE  TypeInv'
<1>1. CASE AuditRead(r)
  <2>1. (IF ThisLine(r).qty > qtyOnHand[ThisLine(r).item] THEN "create" ELSE "find") \in InLine
    BY DEF InLine
  <2> QED
    BY <1>1, <2>1, ReadType DEF AuditRead, Serves
<1>2. CASE AuditCreateEntry(r)
  <2>1. /\ pc[r] = "create" /\ ThisLine(r).item \in StockItems
        /\ ThisLine(r).qty - local[r].seen \in Int
    BY <1>2, LineFacts DEF AuditCreateEntry, Serves, InLine
  <2>2. tx' \in [Requests -> Tx] /\ kept' \in [Requests -> Kept]
    BY <1>2, <2>1, CreateType DEF AuditCreateEntry
  <2>3. LineOK' /\ pc' \in [Requests -> Steps]
    BY <1>2, <2>1, SameLine DEF AuditCreateEntry, InLine
  <2> QED
    BY <1>2, <2>2, <2>3 DEF AuditCreateEntry, TypeInv, TypeOK, db
<1>3. CASE AuditFind(r)
  <2>1. /\ pc[r] = "find" /\ local[r].seen - ThisLine(r).qty \in Int
        /\ OpenEntries(ThisLine(r).item) \subseteq DOMAIN ledger
    BY <1>3, LineFacts DEF AuditFind, Serves, InLine, OpenEntries
  <2>2. /\ local' \in [Requests -> Local]
        /\ \A o \in Requests : local'[o].line = local[o].line
        /\ UNCHANGED <<qtyOnHand, ledger, headers, charged, call, kept, tx, floats>>
    BY <1>3, <2>1, FindType DEF AuditFind
  <2>3. LineOK' /\ pc' \in [Requests -> Steps]
    BY <1>3, <2>1, <2>2, SameLine DEF AuditFind, InLine
  <2> QED
    BY <2>2, <2>3 DEF TypeInv, TypeOK
<1>4. CASE AuditDrain(r)
  <2>1. pc[r] \in InLine
    BY <1>4 DEF AuditDrain, Serves, InLine
  <2>2. PICK d \in local[r].docs : Consume(r, d) \/ Retry(r, d.at)
    BY <1>4 DEF AuditDrain, Oldest
  <2> QED
    BY <2>1, <2>2, ConsumeType, RetryType
<1>5. CASE AuditSetQty(r)
  <2>1. pc[r] = "drain" /\ ThisLine(r).item \in StockItems /\ ThisLine(r).qty \in Int
    BY <1>5, LineFacts DEF AuditSetQty, Serves, InLine
  <2> QED
    BY <1>5, <2>1, RetryType, SetNextType DEF AuditSetQty, InLine
<1>6. CASE AuditCreateHeader(r)
  BY <1>6, HeaderType, HeaderLines DEF AuditCreateHeader
<1> QED
  BY <1>1, <1>2, <1>3, <1>4, <1>5, <1>6 DEF AuditStep

LEMMA SpawnType ==
  ASSUME TypeInv, NEW r \in Requests, NEW of \in Nat, NEW i \in StockItems, NEW q \in Int,
         Spawn(r, of, i, q)
  PROVE  floats' \in [Requests -> SUBSET Float]
<1>1. <<kept[r].attempt, of>> \in Nat \X Nat
  BY BoundsAssumption DEF TypeInv, TypeOK, Kept
<1> DEFINE f == [of |-> <<kept[r].attempt, of>>, item |-> i, qty |-> q, at |-> "read", to |-> 0]
<1>2. f \in Float
  BY <1>1 DEF Float
<1>3. floats' = [floats EXCEPT ![r] = @ \union {f}]
  BY DEF Spawn
<1> HIDE DEF f
<1> QED
  BY <1>2, <1>3 DEF TypeInv, TypeOK

LEMMA ReleaseType ==
  ASSUME TypeInv, NEW r \in Requests, ReleaseStep(r)
  PROVE  TypeInv'
<1>1. CASE ReleaseCheck(r)
  BY <1>1, ReadType DEF ReleaseCheck, Serves, InLine
<1>2. CASE ReleaseFind(r)
  <2> DEFINE found == IF Pricing[ThisLine(r).item] = "EXPIRY" THEN {}
                      ELSE OpenEntries(ThisLine(r).item)
  <2>1. pc[r] = "find" /\ ThisLine(r).qty \in Int /\ found \subseteq DOMAIN ledger
    BY <1>2, LineFacts DEF ReleaseFind, Serves, InLine, OpenEntries
  <2>2. /\ local' \in [Requests -> Local]
        /\ \A o \in Requests : local'[o].line = local[o].line
        /\ UNCHANGED <<qtyOnHand, ledger, headers, charged, call, kept, tx, floats>>
    BY <1>2, <2>1, FindType DEF ReleaseFind
  <2>3. LineOK' /\ pc' \in [Requests -> Steps]
    BY <1>2, <2>1, <2>2, SameLine DEF ReleaseFind, InLine
  <2> QED
    BY <2>2, <2>3 DEF TypeInv, TypeOK
<1>3. CASE ReleaseDrain(r)
  <2>1. pc[r] \in InLine
    BY <1>3 DEF ReleaseDrain, Serves, InLine
  <2>2. PICK d \in local[r].docs : Consume(r, d) \/ Retry(r, d.at)
    BY <1>3 DEF ReleaseDrain, Oldest, Newest
  <2> QED
    BY <2>1, <2>2, ConsumeType, RetryType
<1>4. CASE ReleaseSpawn(r)
  <2>1. /\ pc[r] = "drain" /\ ThisLine(r).item \in StockItems /\ ThisLine(r).qty \in Int
        /\ local[r].line \in Nat
    BY <1>4, LineFacts DEF ReleaseSpawn, Serves, InLine
  <2>2. floats' \in [Requests -> SUBSET Float]
    BY <1>4, <2>1, SpawnType DEF ReleaseSpawn
  <2>3. local' \in [Requests -> Local] /\ pc' \in [Requests -> Steps] /\ LineOK'
    BY <1>4, <2>1, NextLineType DEF ReleaseSpawn, InLine
  <2> QED
    BY <1>4, <2>2, <2>3 DEF ReleaseSpawn, TypeInv, TypeOK, db
<1>5. CASE ReleaseCreateHeader(r)
  <2>1. /\ pc' \in [Requests -> Steps] /\ pc'[r] = "commit"
        /\ \A o \in Requests \ {r} : pc'[o] = pc[o]
    BY <1>5, GotoType DEF ReleaseCreateHeader, TypeInv, Steps
  <2>2. LineOK'
    BY <1>5, <2>1, LineStep DEF ReleaseCreateHeader, TypeInv, InLine
  <2>3. charged' \in [Requests -> Nat] /\ headers' \in [Requests -> Nat]
    <3>1. Len(call[r].lines) \in Nat /\ charged[r] \in Nat /\ headers[r] \in Nat
      BY HeaderLines DEF TypeInv, TypeOK
    <3> QED
      BY <1>5, <3>1 DEF ReleaseCreateHeader, TypeInv, TypeOK
  <2> QED
    BY <1>5, <2>1, <2>2, <2>3 DEF ReleaseCreateHeader, TypeInv, TypeOK
<1> QED
  BY <1>1, <1>2, <1>3, <1>4, <1>5 DEF ReleaseStep

LEMMA CarriedType ==
  ASSUME TypeInv, NEW r \in Requests, kept' = [kept EXCEPT ![r].carried = @ + 1]
  PROVE  kept' \in [Requests -> Kept]
<1>1. kept[r] \in Kept /\ kept \in [Requests -> Kept]
  BY DEF TypeInv, TypeOK
<1>2. [kept[r] EXCEPT !.carried = kept[r].carried + 1] \in Kept
  BY <1>1 DEF Kept
<1> QED
  BY <1>1, <1>2

LEMMA ReverseType ==
  ASSUME TypeInv, NEW r \in Requests, ReverseStep(r)
  PROVE  TypeInv'
<1>1. CASE ReverseFind(r)
  <2> DEFINE entries == {n \in DOMAIN ledger : /\ ledger[n].ref = call[r].target
                                               /\ ledger[n].item = ThisLine(r).item}
             first == {n \in entries : \A m \in entries : n <= m}
  <2>1. /\ pc[r] = "read" /\ ThisLine(r).qty \in Int
        /\ local[r].line <= Len(call[r].lines)
    BY <1>1, LineFacts DEF ReverseFind, Serves, InLine, TypeInv, LineOK
  <2>2. CASE entries = {}
    BY <1>1, <2>2, ThrowType DEF ReverseFind
  <2>3. CASE entries # {}
    <3>1. Find(r, ThisLine(r).qty, first) /\ Goto(r, "write")
      BY <1>1, <2>3 DEF ReverseFind
    <3>2. ThisLine(r).item \in StockItems
      <4>1. PICK n \in DOMAIN ledger : ledger[n].item = ThisLine(r).item
        BY <2>3
      <4>2. ledger[n] \in Entry
        BY DEF TypeInv, TypeOK
      <4> QED
        BY <4>1, <4>2 DEF Entry
    <3>3. /\ local' \in [Requests -> Local]
          /\ \A o \in Requests : local'[o].line = local[o].line
          /\ UNCHANGED <<qtyOnHand, ledger, headers, charged, call, kept, tx, floats>>
      <4>1. first \in SUBSET (DOMAIN ledger)
        OBVIOUS
      <4> HIDE DEF first
      <4> QED
        BY <2>1, <3>1, <4>1, FindType
    <3>4. /\ pc' \in [Requests -> Steps] /\ pc'[r] # "idle"
          /\ \A o \in Requests \ {r} : pc'[o] = pc[o]
      BY <3>1, GotoType DEF TypeInv, Steps
    <3>5. LineOK'
      BY <2>1, <3>2, <3>3, <3>4, LineStep DEF TypeInv, ThisLine
    <3> QED
      BY <3>3, <3>4, <3>5 DEF TypeInv, TypeOK
  <2> QED
    BY <2>2, <2>3
<1>2. CASE ReverseSetRemaining(r)
  <2>1. pc[r] = "write" /\ ThisLine(r).qty \in Int /\ local[r].line \in Nat
    BY <1>2, LineFacts DEF ReverseSetRemaining, Serves, InLine
  <2>2. PICK d \in local[r].docs :
          \/ /\ Set(r, d.at, d.rem - ThisLine(r).qty)
             /\ Spawn(r, local[r].line, d.item, ThisLine(r).qty)
             /\ kept' = [kept EXCEPT ![r].carried = @ + 1]
             /\ NextLine(r)
             /\ UNCHANGED <<db, call>>
          \/ Retry(r, d.at)
    BY <1>2 DEF ReverseSetRemaining
  <2>3. d \in Doc
    BY DEF TypeInv, TypeOK, Local
  <2>4. d.at \in StockItems \union Nat /\ d.item \in StockItems /\ d.rem - ThisLine(r).qty \in Int
    BY <2>1, <2>3 DEF Doc
  <2>5. CASE Retry(r, d.at)
    BY <2>1, <2>5, RetryType DEF InLine
  <2>6. CASE ~Retry(r, d.at)
    <3>1. tx' \in [Requests -> Tx]
      BY <2>2, <2>4, <2>6, SetType DEF TypeInv
    <3>2. floats' \in [Requests -> SUBSET Float]
      BY <2>1, <2>2, <2>4, <2>6, SpawnType
    <3>3. local' \in [Requests -> Local] /\ pc' \in [Requests -> Steps] /\ LineOK'
      BY <2>1, <2>2, <2>6, NextLineType DEF InLine
    <3>4. kept' \in [Requests -> Kept]
      BY <2>2, <2>6, CarriedType
    <3> QED
      BY <2>2, <2>6, <3>1, <3>2, <3>3, <3>4 DEF TypeInv, TypeOK, db
  <2> QED
    BY <2>5, <2>6
<1>3. CASE ReverseAllFind(r)
  <2> DEFINE entries == {n \in DOMAIN ledger : ledger[n].ref = call[r].target}
  <2>1. /\ call[r].kind = "REVERSE_ALL" /\ pc[r] = "read"
        /\ local[r].line <= Len(call[r].lines)
    BY <1>3 DEF ReverseAllFind, Serves, TypeInv, LineOK, InLine
  <2>2. /\ local' \in [Requests -> Local]
        /\ \A o \in Requests : local'[o].line = local[o].line
        /\ UNCHANGED <<qtyOnHand, ledger, headers, charged, call, kept, tx, floats>>
    BY <1>3, FindType DEF ReverseAllFind
  <2>3. /\ pc' \in [Requests -> Steps] /\ pc'[r] # "idle"
        /\ \A o \in Requests \ {r} : pc'[o] = pc[o]
    BY <1>3, GotoType DEF ReverseAllFind, TypeInv, Steps
  <2>4. LineOK'
    BY <2>1, <2>2, <2>3, LineStep DEF TypeInv
  <2> QED
    BY <2>2, <2>3, <2>4 DEF TypeInv, TypeOK
<1>4. CASE ReverseAllSetRemaining(r)
  <2>1. pc[r] \in InLine
    BY <1>4 DEF ReverseAllSetRemaining, Serves, InLine
  <2>2. PICK d \in local[r].docs :
          \/ /\ Set(r, d.at, 0)
             /\ Spawn(r, d.at, d.item, d.qty)
             /\ kept' = [kept EXCEPT ![r].carried = @ + 1]
             /\ local' = [local EXCEPT ![r].docs = @ \ {d}]
             /\ UNCHANGED <<db, call, pc>>
          \/ Retry(r, d.at)
    BY <1>4 DEF ReverseAllSetRemaining, Oldest
  <2>3. d \in Doc
    BY DEF TypeInv, TypeOK, Local
  <2>4. d.at \in Nat /\ d.item \in StockItems /\ d.qty \in Int
    BY <2>3 DEF Doc
  <2>5. CASE Retry(r, d.at)
    BY <2>1, <2>5, RetryType
  <2>6. CASE ~Retry(r, d.at)
    <3>1. tx' \in [Requests -> Tx]
      BY <2>2, <2>4, <2>6, SetType DEF TypeInv
    <3>2. floats' \in [Requests -> SUBSET Float]
      BY <2>2, <2>4, <2>6, SpawnType
    <3>3. /\ local' \in [Requests -> Local]
          /\ \A o \in Requests : local'[o].line = local[o].line
      <4>1. local[r] \in Local /\ local \in [Requests -> Local]
        BY DEF TypeInv, TypeOK
      <4>2. local' = [local EXCEPT ![r] = [local[r] EXCEPT !.docs = local[r].docs \ {d}]]
        BY <2>2, <2>6
      <4>3. /\ [local[r] EXCEPT !.docs = local[r].docs \ {d}] \in Local
            /\ [local[r] EXCEPT !.docs = local[r].docs \ {d}].line = local[r].line
        BY <4>1 DEF Local
      <4> QED
        BY <4>1, <4>2, <4>3
    <3>4. kept' \in [Requests -> Kept]
      BY <2>2, <2>6, CarriedType
    <3>5. LineOK'
      BY <2>2, <2>6, <3>3 DEF TypeInv, LineOK, ThisLine
    <3> QED
      BY <2>2, <2>6, <3>1, <3>2, <3>3, <3>4, <3>5 DEF TypeInv, TypeOK, db
  <2> QED
    BY <2>5, <2>6
<1>5. CASE ReverseAllEnd(r)
  <2>1. /\ pc' \in [Requests -> Steps] /\ pc'[r] = "header"
        /\ \A o \in Requests \ {r} : pc'[o] = pc[o]
    BY <1>5, GotoType DEF ReverseAllEnd, TypeInv, Steps
  <2>2. LineOK'
    BY <1>5, <2>1, LineStep DEF ReverseAllEnd, TypeInv, InLine
  <2> QED
    BY <1>5, <2>1, <2>2 DEF ReverseAllEnd, TypeInv, TypeOK, db
<1>6. CASE ReverseCreateHeader(r)
  BY <1>6, HeaderType, HeaderLines DEF ReverseCreateHeader
<1> QED
  BY <1>1, <1>2, <1>3, <1>4, <1>5, <1>6 DEF ReverseStep

LEMMA MissedType ==
  ASSUME TypeInv, NEW o \in Requests, NEW ds \in SUBSET (StockItems \union Nat)
  PROVE  Missed(o, ds) \in Tx
<1>1. tx[o] \in Tx
  BY DEF TypeInv, TypeOK
<1>2. tx[o].missed \union ds \in SUBSET (StockItems \union Nat)
  BY <1>1 DEF Tx
<1>3. [tx[o] EXCEPT !.missed = tx[o].missed \union ds] \in Tx
  BY <1>1, <1>2 DEF Tx
<1> QED
  BY <1>1, <1>3 DEF Missed

LEMMA CommitType ==
  ASSUME TypeInv, NEW r \in Requests, Commit(r)
  PROVE  TypeInv'
<1>1. tx[r] \in Tx /\ tx[r].writes \in SUBSET Write /\ tx[r].made \in Seq(Entry)
  BY DEF TypeInv, TypeOK, Tx
<1>2. qtyOnHand' \in [StockItems -> Int]
  BY <1>1, WrittenType DEF Commit, TypeInv, TypeOK
<1> DEFINE kept0 == [n \in DOMAIN ledger |-> [ledger[n] EXCEPT
             !.qtyRemaining = Written(tx[r].writes, n, ledger[n].qtyRemaining)]]
<1>3. kept0 \in Seq(Entry)
  <2>1. /\ DOMAIN ledger = 1 .. Len(ledger) /\ Len(ledger) \in Nat
        /\ \A n \in DOMAIN ledger : ledger[n] \in Entry
    BY DEF TypeInv, TypeOK
  <2>2. \A n \in DOMAIN ledger : kept0[n] \in Entry
    <3> TAKE n \in DOMAIN ledger
    <3>1. ledger[n] \in Entry /\ Written(tx[r].writes, n, ledger[n].qtyRemaining) \in Int
      BY <1>1, <2>1, WrittenType DEF Entry
    <3>2. [ledger[n] EXCEPT !.qtyRemaining = Written(tx[r].writes, n, ledger[n].qtyRemaining)] \in Entry
      BY <3>1 DEF Entry
    <3> QED
      BY <3>2
  <2>3. kept0 \in [1 .. Len(ledger) -> Entry]
    BY <2>1, <2>2
  <2> QED
    BY <2>1, <2>3, SeqDef
<1>4. ledger' \in Seq(Entry)
  <2>1. ledger' = kept0 \o tx[r].made
    BY DEF Commit
  <2> HIDE DEF kept0
  <2> QED
    BY <1>1, <1>3, <2>1
<1>5. headers' \in [Requests -> Nat] /\ charged' \in [Requests -> Nat]
  <2>1. tx[r].bill \in Nat /\ headers[r] \in Nat /\ charged[r] \in Nat
    BY <1>1 DEF TypeInv, TypeOK, Tx
  <2> QED
    BY <2>1 DEF Commit, TypeInv, TypeOK
<1>6. tx' \in [Requests -> Tx]
  <2>1. Wrote(r) \in SUBSET (StockItems \union Nat)
    BY <1>1 DEF Wrote, Write
  <2>2. NoTx \in Tx
    BY DEF NoTx, Tx
  <2>3. \A o \in Requests : (IF o = r THEN NoTx ELSE Missed(o, Wrote(r))) \in Tx
    BY <2>1, <2>2, MissedType
  <2> QED
    BY <2>3 DEF Commit
<1>7. /\ pc' \in [Requests -> Steps] /\ pc'[r] \notin InLine \union {"idle"}
      /\ \A o \in Requests \ {r} : pc'[o] = pc[o]
  BY GotoType DEF Commit, TypeInv, Steps, Finished, InLine
<1>8. UNCHANGED <<call, local, kept, floats>>
  BY DEF Commit
<1>9. LineOK'
  BY <1>7, <1>8, LineStep DEF TypeInv
<1> QED
  BY <1>2, <1>4, <1>5, <1>6, <1>7, <1>8, <1>9 DEF TypeInv, TypeOK

LEMMA ExitType ==
  ASSUME TypeInv, ProcessExit
  PROVE  TypeInv'
<1>1. tx' \in [Requests -> Tx] /\ floats' \in [Requests -> SUBSET Float]
  BY DEF ProcessExit, NoTx, Tx
<1>2. pc' \in [Requests -> Steps] /\ \A r \in Requests : pc'[r] \in {pc[r], "crashed"}
  BY DEF ProcessExit, TypeInv, TypeOK, Steps, Finished
<1>3. UNCHANGED <<qtyOnHand, ledger, headers, charged, call, local, kept>>
  BY DEF ProcessExit, db
<1>4. LineOK'
  BY <1>2, <1>3 DEF TypeInv, LineOK, InLine, ThisLine
<1> QED
  BY <1>1, <1>2, <1>3, <1>4 DEF TypeInv, TypeOK

LEMMA FloatType ==
  ASSUME TypeInv, NEW r \in Requests, Floating(r)
  PROVE  TypeInv'
<1>1. CASE DecreaseTotalQtyRead(r)
  <2>1. PICK f \in floats[r] :
          /\ floats' = [floats EXCEPT ![r] = (@ \ {f}) \union
               {[f EXCEPT !.at = "write", !.to = qtyOnHand[f.item] - f.qty]}]
          /\ UNCHANGED <<db, pc, call, local, kept, tx>>
    BY <1>1 DEF DecreaseTotalQtyRead
  <2>2. f \in Float /\ floats[r] \in SUBSET Float /\ floats \in [Requests -> SUBSET Float]
    BY DEF TypeInv, TypeOK
  <2>3. qtyOnHand[f.item] - f.qty \in Int
    BY <2>2 DEF TypeInv, TypeOK, Float
  <2>4. [f EXCEPT !.at = "write", !.to = qtyOnHand[f.item] - f.qty] \in Float
    BY <2>2, <2>3 DEF Float
  <2>5. floats' \in [Requests -> SUBSET Float]
    BY <2>1, <2>2, <2>4
  <2>6. LineOK'
    BY <2>1 DEF TypeInv, LineOK, ThisLine
  <2> QED
    BY <2>1, <2>5, <2>6 DEF TypeInv, TypeOK, db
<1>2. CASE DecreaseTotalQtyWrite(r)
  <2>1. PICK f \in floats[r] :
          \/ /\ Set(r, f.item, f.to)
             /\ floats' = [floats EXCEPT ![r] = @ \ {f}]
             /\ UNCHANGED <<db, pc, call, local, kept>>
          \/ /\ qtyOnHand' = [qtyOnHand EXCEPT ![f.item] = f.to]
             /\ tx' = [o \in Requests |-> Missed(o, {f.item})]
             /\ floats' = [floats EXCEPT ![r] = @ \ {f}]
             /\ UNCHANGED <<ledger, headers, charged, pc, call, local, kept>>
          \/ ProcessExit
    BY <1>2 DEF DecreaseTotalQtyWrite
  <2>2. f \in Float
    BY DEF TypeInv, TypeOK
  <2>3. f.item \in StockItems /\ f.to \in Int
    BY <2>2 DEF Float
  <2>4. CASE Set(r, f.item, f.to) /\ floats' = [floats EXCEPT ![r] = @ \ {f}]
             /\ UNCHANGED <<db, pc, call, local, kept>>
    <3>1. tx' \in [Requests -> Tx]
      BY <2>3, <2>4, SetType DEF TypeInv
    <3>2. floats' \in [Requests -> SUBSET Float] /\ LineOK'
      BY <2>4 DEF TypeInv, TypeOK, LineOK, ThisLine
    <3> QED
      BY <2>4, <3>1, <3>2 DEF TypeInv, TypeOK, db
  <2>5. CASE /\ qtyOnHand' = [qtyOnHand EXCEPT ![f.item] = f.to]
             /\ tx' = [o \in Requests |-> Missed(o, {f.item})]
             /\ floats' = [floats EXCEPT ![r] = @ \ {f}]
             /\ UNCHANGED <<ledger, headers, charged, pc, call, local, kept>>
    <3>1. tx' \in [Requests -> Tx]
      BY <2>3, <2>5, MissedType
    <3>2. floats' \in [Requests -> SUBSET Float] /\ LineOK'
      BY <2>5 DEF TypeInv, TypeOK, LineOK, ThisLine
    <3>3. qtyOnHand' \in [StockItems -> Int]
      BY <2>3, <2>5 DEF TypeInv, TypeOK
    <3> QED
      BY <2>5, <3>1, <3>2, <3>3 DEF TypeInv, TypeOK
  <2> QED
    BY <2>1, <2>4, <2>5, ExitType
<1> QED
  BY <1>1, <1>2 DEF Floating

LEMMA ArriveType ==
  ASSUME TypeInv, NEW r \in Requests, NEW kind \in Kinds, Arrive(r, kind)
  PROVE  TypeInv'
<1>1. PICK lines \in LineChoices, target \in {OpeningAdd} \union Requests :
        /\ Accepts(kind, lines)
        /\ call' = [call EXCEPT ![r] = [kind |-> kind, lines |-> lines, target |-> target]]
  BY DEF Arrive
<1>2. lines \in Seq(Line) /\ Len(lines) >= 1
  BY LinesAssumption
<1>3. call' \in [Requests -> Call] /\ call'[r].lines = lines /\ call'[r].kind = kind
      /\ \A o \in Requests \ {r} : call'[o] = call[o]
  BY <1>1, <1>2, KindsAssumption DEF TypeInv, TypeOK, Call
<1>4. /\ pc' \in [Requests -> Steps] /\ pc'[r] = "read"
      /\ \A o \in Requests \ {r} : pc'[o] = pc[o]
  BY GotoType DEF Arrive, TypeInv, Steps
<1>5. UNCHANGED <<qtyOnHand, ledger, headers, charged, local, kept, tx, floats>>
  BY DEF Arrive, db
<1>6. local[r].line = 1
  BY DEF Arrive, TypeInv, LineOK
<1>7. LineOK'
  BY <1>1, <1>2, <1>3, <1>4, <1>5, <1>6 DEF TypeInv, LineOK, InLine, ThisLine
<1> QED
  BY <1>3, <1>4, <1>5, <1>7 DEF TypeInv, TypeOK

LEMMA InitType == Init => TypeInv
<1> SUFFICES ASSUME Init PROVE TypeInv
  OBVIOUS
<1> DEFINE e(n) == [item |-> OpeningLines[n].item, qty |-> OpeningLines[n].qty,
                    qtyRemaining |-> OpeningLines[n].qty,
                    by |-> OpeningAdd, nth |-> <<1, n>>, ref |-> OpeningAdd]
<1>1. ledger \in Seq(Entry)
  <2>1. /\ DOMAIN OpeningLines = 1 .. Len(OpeningLines) /\ Len(OpeningLines) \in Nat
        /\ \A n \in DOMAIN OpeningLines : OpeningLines[n] \in [item: StockItems, qty: Nat]
    <3> DEFINE S == [item: StockItems, qty: Nat]
    <3>1. OpeningLines \in Seq(S)
      BY OpeningAssumption
    <3> HIDE DEF S
    <3>2. /\ DOMAIN OpeningLines = 1 .. Len(OpeningLines) /\ Len(OpeningLines) \in Nat
          /\ \A n \in DOMAIN OpeningLines : OpeningLines[n] \in S
      BY <3>1
    <3> QED
      BY <3>2 DEF S
  <2>2. \A n \in DOMAIN OpeningLines : e(n) \in Entry
    BY <2>1 DEF Entry
  <2>3. ledger = [n \in 1 .. Len(OpeningLines) |-> e(n)]
    BY <2>1 DEF Init
  <2>4. ledger \in [1 .. Len(OpeningLines) -> Entry]
    BY <2>1, <2>2, <2>3
  <2> QED
    BY <2>1, <2>4, SeqDef
<1>2. /\ NoTx \in Tx /\ NoLocal \in Local /\ NewKept \in Kept
  BY BoundsAssumption DEF NoTx, Tx, NoLocal, Local, NewKept, Kept
<1>3. NoCall \in Call
  BY DEF NoCall, Call
<1>4. TypeOK
  BY <1>1, <1>2, <1>3, OpeningAssumption DEF Init, TypeOK, Steps
<1>5. LineOK
  BY DEF Init, LineOK, InLine, NoLocal, NoCall, Accepts
<1> QED
  BY <1>4, <1>5 DEF TypeInv

LEMMA NextType == TypeInv /\ [Next]_vars => TypeInv'
<1> SUFFICES ASSUME TypeInv, [Next]_vars PROVE TypeInv'
  OBVIOUS
<1>1. CASE UNCHANGED vars
  BY <1>1 DEF vars, TypeInv, TypeOK, LineOK, ThisLine
<1>2. ASSUME NEW r \in Requests, NEW kind \in Kinds, Arrive(r, kind) PROVE TypeInv'
  BY <1>2, ArriveType
<1>3. ASSUME NEW r \in Requests, Handler(r) PROVE TypeInv'
  BY <1>3, AddType, RefundType, ReleaseType, ReverseType, WasteType, ShrinkageType,
     AuditType, CommitType DEF Handler
<1>4. ASSUME NEW r \in Requests, Floating(r) PROVE TypeInv'
  BY <1>4, FloatType
<1>5. CASE ProcessExit
  BY <1>5, ExitType
<1> QED
  BY <1>1, <1>2, <1>3, <1>4, <1>5 DEF Next

\* The state of the inventory services is well typed, and a handler that is
\* in the middle of its items has an item to work on.
THEOREM Typing == Spec => []TypeInv
<1> QED
  BY InitType, NextType, PTL DEF Spec

\* Whatever the requests, the items and the interleaving, TypeOK holds.
THEOREM TypeCorrectness == Spec => []TypeOK
<1>1. TypeInv => TypeOK
  BY DEF TypeInv
<1> QED
  BY <1>1, Typing, PTL

-----------------------------------------------------------------------------
(* The ledger and its headers *)

\* The handlers that create entries, and where a committed request can be.
Makers == {"ADD", "REFUND", "AUDIT"}
After == {"price", "done", "crashed"}

\* The entries a request is about to insert are its own, and transIds lists
\* them; the header gives them their reference before the commit.
Own(r) ==
  /\ \A n \in DOMAIN tx[r].made :
       tx[r].made[n].by = r /\ tx[r].made[n].nth \in kept[r].transIds
  /\ tx[r].made # <<>> => call[r].kind \in Makers
  /\ pc[r] = "commit" /\ call[r].kind \in Makers =>
       tx[r].header /\ \A n \in DOMAIN tx[r].made : tx[r].made[n].ref = r
  /\ pc[r] = "idle" => call[r] = NoCall /\ tx[r].made = <<>>
  /\ pc[r] \notin After /\ call[r].kind # "RELEASE" => headers[r] = 0

\* An entry of the ledger is the work of a request that has committed.
Settled(e) ==
  e.by \in Requests =>
    /\ e.ref = e.by /\ headers[e.by] = 1
    /\ call[e.by].kind \in Makers /\ pc[e.by] \in After

HeadInv ==
  /\ \A r \in Requests : Own(r)
  /\ \A n \in DOMAIN ledger : Settled(ledger[n])

-----------------------------------------------------------------------------
(* Steps of one request *)

\* A step of a request that has not committed, short of the commit itself.
LEMMA OwnStep ==
  ASSUME HeadInv, NEW r \in Requests, pc[r] \notin After, pc'[r] # "idle",
         UNCHANGED <<ledger, call>>,
         \A o \in Requests \ {r} :
           /\ pc'[o] = pc[o] /\ headers'[o] = headers[o] /\ tx'[o].made = tx[o].made
           /\ tx'[o].header = tx[o].header /\ kept'[o] = kept[o],
         headers'[r] = headers[r] \/ call[r].kind = "RELEASE",
         \A n \in DOMAIN tx'[r].made :
           tx'[r].made[n].by = r /\ tx'[r].made[n].nth \in kept'[r].transIds,
         tx'[r].made # <<>> => call[r].kind \in Makers,
         pc'[r] = "commit" /\ call[r].kind \in Makers =>
           tx'[r].header /\ \A n \in DOMAIN tx'[r].made : tx'[r].made[n].ref = r
  PROVE  HeadInv'
<1>1. Own(r)'
  BY DEF HeadInv, Own, After
<1>2. ASSUME NEW o \in Requests \ {r} PROVE Own(o)'
  BY DEF HeadInv, Own
<1>3. ASSUME NEW n \in DOMAIN ledger PROVE Settled(ledger[n])'
  BY DEF HeadInv, Settled
<1> QED
  BY <1>1, <1>2, <1>3 DEF HeadInv

\* A step that inserts nothing.
LEMMA PlainStep ==
  ASSUME TypeOK, HeadInv, NEW r \in Requests, pc[r] \notin After \union {"idle"},
         NEW at \in Steps \ {"idle", "commit"}, Goto(r, at) \/ (UNCHANGED pc /\ pc[r] = at),
         UNCHANGED <<ledger, call, headers>>,
         \A o \in Requests \ {r} : tx'[o] = tx[o] /\ kept'[o] = kept[o],
         tx'[r].made = <<>> \/ tx'[r].made = tx[r].made,
         kept[r].transIds \subseteq kept'[r].transIds
  PROVE  HeadInv'
<1>1. pc'[r] = at /\ \A o \in Requests \ {r} : pc'[o] = pc[o]
  BY GotoType
<1>2. Own(r)
  BY DEF HeadInv
<1>3. /\ \A n \in DOMAIN tx'[r].made :
           tx'[r].made[n].by = r /\ tx'[r].made[n].nth \in kept'[r].transIds
      /\ tx'[r].made # <<>> => call[r].kind \in Makers
  BY <1>2 DEF Own
<1> QED
  BY <1>1, <1>3, OwnStep

LEMMA SetMade ==
  ASSUME TypeOK, NEW r \in Requests, NEW d, NEW v, Set(r, d, v)
  PROVE  /\ tx'[r].made = tx[r].made /\ tx'[r].header = tx[r].header
         /\ \A o \in Requests \ {r} : tx'[o] = tx[o]
<1> DEFINE w == Put(tx[r].writes, d, v)
<1>1. tx' = [tx EXCEPT ![r] = [tx[r] EXCEPT !.writes = w, !.open = TRUE]]
  BY DEF Set
<1> HIDE DEF w
<1> QED
  BY <1>1 DEF TypeOK, Tx

LEMMA ThrowHead ==
  ASSUME TypeOK, HeadInv, NEW r \in Requests, pc[r] \notin After \union {"idle"}, Throw(r)
  PROVE  HeadInv'
<1>1. tx'[r].made = <<>> /\ \A o \in Requests \ {r} : tx'[o] = tx[o]
  BY DEF Throw, TypeOK, NoTx
<1> QED
  BY <1>1, PlainStep DEF Throw, Steps, Finished, db

LEMMA RetryHead ==
  ASSUME TypeOK, HeadInv, NEW r \in Requests, pc[r] \notin After \union {"idle"},
         NEW d, Retry(r, d)
  PROVE  HeadInv'
<1>1. tx'[r].made = <<>> /\ \A o \in Requests \ {r} : tx'[o] = tx[o]
  BY DEF Retry, TypeOK, NoTx
<1>2. kept' = kept \/ kept' = [kept EXCEPT ![r].attempt = @ + 1]
  BY DEF Retry
<1>3. kept'[r].transIds = kept[r].transIds /\ \A o \in Requests \ {r} : kept'[o] = kept[o]
  BY <1>2 DEF TypeOK, Kept
<1>4. PICK at \in {"read", "failed"} : Goto(r, at)
  BY DEF Retry
<1> QED
  BY <1>1, <1>3, <1>4, PlainStep DEF Retry, Steps, Finished, db

LEMMA ReadHead ==
  ASSUME TypeOK, HeadInv, NEW r \in Requests, pc[r] = "read", NEW refuse,
         NEW at \in InLine, ReadQtyOnHand(r, refuse, at)
  PROVE  HeadInv'
<1>1. CASE Throw(r)
  BY <1>1, ThrowHead DEF After
<1>2. CASE ~Throw(r)
  <2>1. Goto(r, at) /\ UNCHANGED <<db, call, kept, tx, floats>>
    BY <1>2 DEF ReadQtyOnHand
  <2> QED
    BY <2>1, PlainStep DEF InLine, Steps, After, db
<1> QED
  BY <1>1, <1>2

LEMMA FindHead ==
  ASSUME TypeOK, HeadInv, NEW r \in Requests, pc[r] \in InLine, NEW q, NEW ns,
         NEW at \in InLine, Find(r, q, ns), Goto(r, at)
  PROVE  HeadInv'
BY PlainStep DEF Find, InLine, Steps, After, db

LEMMA ConsumeHead ==
  ASSUME TypeOK, HeadInv, NEW r \in Requests, pc[r] = "drain", NEW d, Consume(r, d)
  PROVE  HeadInv'
<1>1. UNCHANGED <<db, call, kept, floats, pc>> /\ (UNCHANGED tx \/ \E v : Set(r, d.at, v))
  BY DEF Consume
<1>2. tx'[r].made = tx[r].made /\ \A o \in Requests \ {r} : tx'[o] = tx[o]
  BY <1>1, SetMade
<1> QED
  BY <1>1, <1>2, PlainStep DEF After, Steps, db

\* A write in the session, and on to another step of the callback.
LEMMA SetHead ==
  ASSUME TypeOK, HeadInv, NEW r \in Requests, pc[r] \in InLine, NEW d, NEW v, Set(r, d, v),
         NextLine(r) \/ Goto(r, "create") \/ (UNCHANGED pc /\ pc[r] # "idle"),
         UNCHANGED <<db, call>>,
         kept[r].transIds \subseteq kept'[r].transIds,
         \A o \in Requests \ {r} : kept'[o] = kept[o]
  PROVE  HeadInv'
<1>1. tx'[r].made = tx[r].made /\ \A o \in Requests \ {r} : tx'[o] = tx[o]
  BY SetMade
<1>2. PICK at \in Steps \ {"idle", "commit"} : Goto(r, at) \/ (UNCHANGED pc /\ pc[r] = at)
  <2>1. NextLine(r) => \E at \in {"read", "header"} : Goto(r, at)
    BY DEF NextLine
  <2>2. {"read", "header", "create"} \union InLine \subseteq Steps \ {"idle", "commit"}
    BY DEF InLine, Steps, Finished
  <2> QED
    BY <2>1, <2>2
<1> QED
  BY <1>1, <1>2, PlainStep DEF InLine, After, db

\* A new entry: it is the request's, and transIds gets its id.
LEMMA AppendHead ==
  ASSUME TypeOK, HeadInv, NEW r \in Requests, pc[r] \in InLine, call[r].kind \in Makers,
         NEW i, NEW q, NEW id, AppendEntry(r, i, q, id),
         kept'[r].transIds = kept[r].transIds \union {id},
         \A o \in Requests \ {r} : kept'[o] = kept[o],
         NextLine(r) \/ Goto(r, "drain"), UNCHANGED <<db, call, floats>>
  PROVE  HeadInv'
<1> DEFINE e == [item |-> i, qty |-> q, qtyRemaining |-> q, by |-> r, nth |-> id, ref |-> NoRef]
           made == Append(tx[r].made, e)
<1>1. tx' = [tx EXCEPT ![r] = [tx[r] EXCEPT !.open = TRUE, !.made = made]]
  BY DEF AppendEntry
<1>2. tx[r].made \in Seq(Entry) /\ e.by = r /\ e.nth = id
  BY DEF TypeOK, Tx
<1> HIDE DEF e
<1>3. \A n \in DOMAIN made : made[n] = e \/ (n \in DOMAIN tx[r].made /\ made[n] = tx[r].made[n])
  BY <1>2
<1> HIDE DEF made
<1>4. tx'[r].made = made /\ \A o \in Requests \ {r} : tx'[o] = tx[o]
  BY <1>1 DEF TypeOK, Tx
<1>5. \A n \in DOMAIN tx[r].made :
        tx[r].made[n].by = r /\ tx[r].made[n].nth \in kept[r].transIds
  BY DEF HeadInv, Own
<1>6. \A n \in DOMAIN made : made[n].by = r /\ made[n].nth \in kept'[r].transIds
  BY <1>2, <1>3, <1>5
<1>7. PICK at \in {"read", "header", "drain"} : Goto(r, at)
  BY DEF NextLine
<1>8. pc'[r] = at /\ \A o \in Requests \ {r} : pc'[o] = pc[o]
  BY <1>7, GotoType DEF Steps
<1> QED
  BY <1>4, <1>6, <1>8, OwnStep DEF After, InLine, db

\* The header: every entry of the request is in transIds, so all get its id.
LEMMA HeaderHead ==
  ASSUME TypeOK, HeadInv, NEW r \in Requests, pc[r] = "header", NEW ids, NEW n,
         CreateHeader(r, ids, n), call[r].kind \in Makers => ids = kept[r].transIds
  PROVE  HeadInv'
<1> DEFINE m == tx[r].made
           made == [k \in DOMAIN m |->
                      IF m[k].nth \in ids THEN [m[k] EXCEPT !.ref = r] ELSE m[k]]
<1>1. tx' = [tx EXCEPT ![r] = [tx[r] EXCEPT
        !.header = TRUE, !.bill = n, !.open = TRUE, !.made = made]]
  BY DEF CreateHeader
<1>2. m \in Seq(Entry)
  BY DEF TypeOK, Tx
<1>3. \A k \in DOMAIN m : m[k] \in Entry
  BY <1>2
<1>4. \A k \in DOMAIN m : m[k].by = r /\ m[k].nth \in kept[r].transIds
  BY DEF HeadInv, Own
<1>5. DOMAIN made = DOMAIN m
  OBVIOUS
<1>6. \A k \in DOMAIN made : made[k].by = r /\ made[k].nth \in kept[r].transIds
  BY <1>3, <1>4, <1>5 DEF Entry
<1>7. call[r].kind \in Makers => \A k \in DOMAIN made : made[k].ref = r
  BY <1>3, <1>4, <1>5 DEF Entry
<1>8. made # <<>> => call[r].kind \in Makers
  <2>1. m # <<>> => call[r].kind \in Makers
    BY DEF HeadInv, Own
  <2>2. m = <<>> => made = <<>>
    BY <1>5
  <2> QED
    BY <2>1, <2>2
<1> HIDE DEF made, m
<1>9. /\ tx'[r].made = made /\ tx'[r].header
      /\ \A o \in Requests \ {r} : tx'[o] = tx[o]
  BY <1>1 DEF TypeOK, Tx
<1>10. pc'[r] = "commit" /\ \A o \in Requests \ {r} : pc'[o] = pc[o]
  BY GotoType DEF CreateHeader, Steps
<1>11. UNCHANGED <<ledger, call, headers, kept>>
  BY DEF CreateHeader, db
<1> QED
  BY <1>6, <1>7, <1>8, <1>9, <1>10, <1>11, OwnStep DEF After

-----------------------------------------------------------------------------
(* The handlers *)

LEMMA AddHead ==
  ASSUME TypeOK, HeadInv, NEW r \in Requests, AddStep(r) \/ RefundStep(r)
  PROVE  HeadInv'
<1>1. CASE AddRead(r) \/ RefundRead(r)
  BY <1>1, ReadHead DEF AddRead, RefundRead, Serves, InLine
<1>2. CASE AddSetQty(r) \/ RefundSetQty(r)
  <2>1. pc[r] = "write" /\
        \/ /\ Set(r, ThisLine(r).item, local[r].seen + ThisLine(r).qty)
           /\ Goto(r, "create")
           /\ UNCHANGED <<db, call, local, kept, floats>>
        \/ Retry(r, ThisLine(r).item)
    BY <1>2 DEF AddSetQty, RefundSetQty, Serves
  <2> QED
    BY <2>1, SetHead, RetryHead DEF InLine, After
<1>3. CASE AddCreateEntry(r)
  <2> DEFINE id == <<kept[r].attempt, local[r].line>>
  <2>1. /\ pc[r] = "create" /\ call[r].kind = "ADD"
        /\ AppendEntry(r, ThisLine(r).item, ThisLine(r).qty, id)
        /\ kept' = [kept EXCEPT ![r].transIds = @ \union {id}]
        /\ NextLine(r) /\ UNCHANGED <<db, call, floats>>
    BY <1>3 DEF AddCreateEntry, CreateEntry, Serves
  <2> HIDE DEF id
  <2>2. /\ kept'[r].transIds = kept[r].transIds \union {id}
        /\ \A o \in Requests \ {r} : kept'[o] = kept[o]
    BY <2>1 DEF TypeOK, Kept
  <2> QED
    BY <2>1, <2>2, AppendHead DEF InLine, Makers
<1>4. CASE RefundCreateEntry(r)
  <2> DEFINE id == <<kept[r].attempt, local[r].line>>
  <2>1. /\ pc[r] = "create" /\ call[r].kind = "REFUND"
        /\ AppendEntry(r, ThisLine(r).item, ThisLine(r).qty, id)
        /\ kept' = [kept EXCEPT ![r] = [kept[r] EXCEPT
             !.transIds = kept[r].transIds \union {id}, !.carried = kept[r].carried + 1]]
        /\ NextLine(r) /\ UNCHANGED <<db, call, floats>>
    BY <1>4 DEF RefundCreateEntry, Serves
  <2> HIDE DEF id
  <2>2. /\ kept'[r].transIds = kept[r].transIds \union {id}
        /\ \A o \in Requests \ {r} : kept'[o] = kept[o]
    BY <2>1 DEF TypeOK, Kept
  <2> QED
    BY <2>1, <2>2, AppendHead DEF InLine, Makers
<1>5. CASE AddCreateHeader(r) \/ RefundCreateHeader(r)
  BY <1>5, HeaderHead DEF AddCreateHeader, RefundCreateHeader, Serves
<1>6. CASE RefundSetPrice(r)
  <2>1. /\ pc[r] = "price" /\ Goto(r, "done")
        /\ UNCHANGED <<ledger, headers, call, kept, tx>>
    BY <1>6 DEF RefundSetPrice, Serves
  <2>2. pc'[r] = "done" /\ \A o \in Requests \ {r} : pc'[o] = pc[o]
    BY <2>1, GotoType DEF Steps, Finished
  <2> QED
    BY <2>1, <2>2 DEF HeadInv, Own, Settled, After
<1> QED
  BY <1>1, <1>2, <1>3, <1>4, <1>5, <1>6 DEF AddStep, RefundStep

LEMMA WasteHead ==
  ASSUME TypeOK, HeadInv, NEW r \in Requests, WasteStep(r) \/ ShrinkageStep(r)
  PROVE  HeadInv'
<1>1. CASE WasteRead(r) \/ ShrinkageRead(r)
  BY <1>1, ReadHead DEF WasteRead, ShrinkageRead, Serves, InLine
<1>2. CASE WasteSetQty(r)
  BY <1>2, SetHead, RetryHead DEF WasteSetQty, Serves, InLine, After
<1>3. CASE ShrinkageFind(r)
  BY <1>3, FindHead DEF ShrinkageFind, Serves, InLine
<1>4. CASE ShrinkageDrain(r)
  BY <1>4, ConsumeHead, RetryHead DEF ShrinkageDrain, Serves, After
<1>5. CASE ShrinkageSetQty(r)
  BY <1>5, SetHead, RetryHead DEF ShrinkageSetQty, Serves, InLine, After
<1>6. CASE WasteCreateHeader(r) \/ ShrinkageCreateHeader(r)
  BY <1>6, HeaderHead DEF WasteCreateHeader, ShrinkageCreateHeader, Serves, Makers
<1> QED
  BY <1>1, <1>2, <1>3, <1>4, <1>5, <1>6 DEF WasteStep, ShrinkageStep

LEMMA AuditHead ==
  ASSUME TypeOK, HeadInv, NEW r \in Requests, AuditStep(r)
  PROVE  HeadInv'
<1>1. CASE AuditRead(r)
  BY <1>1, ReadHead DEF AuditRead, Serves, InLine
<1>2. CASE AuditCreateEntry(r)
  <2> DEFINE id == <<kept[r].attempt, local[r].line>>
             q == ThisLine(r).qty - local[r].seen
  <2>1. /\ pc[r] = "create" /\ call[r].kind = "AUDIT"
        /\ AppendEntry(r, ThisLine(r).item, q, id)
        /\ kept' = [kept EXCEPT ![r].transIds = @ \union {id}]
        /\ Goto(r, "drain") /\ UNCHANGED <<db, call, floats>>
    BY <1>2 DEF AuditCreateEntry, CreateEntry, Serves
  <2> HIDE DEF id, q
  <2>2. /\ kept'[r].transIds = kept[r].transIds \union {id}
        /\ \A o \in Requests \ {r} : kept'[o] = kept[o]
    BY <2>1 DEF TypeOK, Kept
  <2> QED
    BY <2>1, <2>2, AppendHead DEF InLine, Makers
<1>3. CASE AuditFind(r)
  BY <1>3, FindHead DEF AuditFind, Serves, InLine
<1>4. CASE AuditDrain(r)
  BY <1>4, ConsumeHead, RetryHead DEF AuditDrain, Serves, After
<1>5. CASE AuditSetQty(r)
  BY <1>5, SetHead, RetryHead DEF AuditSetQty, Serves, InLine, After
<1>6. CASE AuditCreateHeader(r)
  BY <1>6, HeaderHead DEF AuditCreateHeader, Serves
<1> QED
  BY <1>1, <1>2, <1>3, <1>4, <1>5, <1>6 DEF AuditStep

LEMMA ReleaseHead ==
  ASSUME TypeOK, HeadInv, NEW r \in Requests, ReleaseStep(r)
  PROVE  HeadInv'
<1>1. CASE ReleaseCheck(r)
  BY <1>1, ReadHead DEF ReleaseCheck, Serves, InLine
<1>2. CASE ReleaseFind(r)
  BY <1>2, FindHead DEF ReleaseFind, Serves, InLine
<1>3. CASE ReleaseDrain(r)
  BY <1>3, ConsumeHead, RetryHead DEF ReleaseDrain, Serves, After
<1>4. CASE ReleaseSpawn(r)
  <2>1. pc[r] = "drain" /\ NextLine(r) /\ UNCHANGED <<db, call, kept, tx>>
    BY <1>4 DEF ReleaseSpawn, Serves
  <2>2. PICK at \in {"read", "header"} : Goto(r, at)
    BY <2>1 DEF NextLine
  <2> QED
    BY <2>1, <2>2, PlainStep DEF After, Steps, db
<1>5. CASE ReleaseCreateHeader(r)
  <2>1. /\ pc[r] = "header" /\ call[r].kind = "RELEASE" /\ Goto(r, "commit")
        /\ headers' = [headers EXCEPT ![r] = @ + 2]
        /\ UNCHANGED <<ledger, call, kept, tx>>
    BY <1>5 DEF ReleaseCreateHeader, Serves
  <2>2. pc'[r] = "commit" /\ \A o \in Requests \ {r} : pc'[o] = pc[o]
    BY <2>1, GotoType DEF Steps
  <2>3. \A o \in Requests \ {r} : headers'[o] = headers[o]
    BY <2>1 DEF TypeOK
  <2>4. Own(r)
    BY DEF HeadInv
  <2> QED
    BY <2>1, <2>2, <2>3, <2>4, OwnStep DEF After, Own, Makers
<1> QED
  BY <1>1, <1>2, <1>3, <1>4, <1>5 DEF ReleaseStep

LEMMA CarriedHead ==
  ASSUME TypeOK, NEW r \in Requests, kept' = [kept EXCEPT ![r].carried = @ + 1]
  PROVE  /\ kept'[r].transIds = kept[r].transIds
         /\ \A o \in Requests \ {r} : kept'[o] = kept[o]
BY DEF TypeOK, Kept

LEMMA ReverseHead ==
  ASSUME TypeOK, HeadInv, NEW r \in Requests, ReverseStep(r)
  PROVE  HeadInv'
<1>1. CASE ReverseFind(r)
  BY <1>1, FindHead, ThrowHead DEF ReverseFind, Serves, InLine, After
<1>2. CASE ReverseSetRemaining(r)
  BY <1>2, CarriedHead, SetHead, RetryHead DEF ReverseSetRemaining, Serves, InLine, After
<1>3. CASE ReverseAllFind(r)
  BY <1>3, FindHead DEF ReverseAllFind, Serves, InLine
<1>4. CASE ReverseAllSetRemaining(r)
  BY <1>4, CarriedHead, SetHead, RetryHead DEF ReverseAllSetRemaining, Serves, InLine, After
<1>5. CASE ReverseAllEnd(r)
  BY <1>5, PlainStep DEF ReverseAllEnd, Serves, Steps, After, db
<1>6. CASE ReverseCreateHeader(r)
  BY <1>6, HeaderHead DEF ReverseCreateHeader, Serves, Makers
<1> QED
  BY <1>1, <1>2, <1>3, <1>4, <1>5, <1>6 DEF ReverseStep

-----------------------------------------------------------------------------
(* Commits, exits, floating calls and arrivals *)

LEMMA MissedHead ==
  ASSUME TypeOK, NEW o \in Requests, NEW ds
  PROVE  Missed(o, ds).made = tx[o].made /\ Missed(o, ds).header = tx[o].header
BY DEF Missed, TypeOK, Tx

\* The commit publishes the entries and the header together.
LEMMA CommitHead ==
  ASSUME TypeOK, HeadInv, NEW r \in Requests, Commit(r)
  PROVE  HeadInv'
<1> DEFINE old == [n \in DOMAIN ledger |-> [ledger[n] EXCEPT
             !.qtyRemaining = Written(tx[r].writes, n, ledger[n].qtyRemaining)]]
           made == tx[r].made
           Later(e) == e.by \in Requests =>
                         /\ e.ref = e.by /\ headers'[e.by] = 1
                         /\ call'[e.by].kind \in Makers /\ pc'[e.by] \in After
<1>1. /\ pc[r] = "commit" /\ ledger' = old \o made
      /\ headers' = [headers EXCEPT ![r] = @ + (IF tx[r].header THEN 1 ELSE 0)]
      /\ tx' = [o \in Requests |-> IF o = r THEN NoTx ELSE Missed(o, Wrote(r))]
      /\ UNCHANGED <<call, kept>>
  BY DEF Commit
<1>2. ledger \in Seq(Entry) /\ made \in Seq(Entry)
  BY DEF TypeOK, Tx
<1>3. PICK at \in {"price", "done"} : Goto(r, at)
  BY DEF Commit
<1>4. pc'[r] \in After /\ \A o \in Requests \ {r} : pc'[o] = pc[o]
  BY <1>3, GotoType DEF Steps, Finished, After
<1>5. Own(r) /\ (call[r].kind # "RELEASE" => headers[r] = 0)
  BY <1>1 DEF HeadInv, Own, After
<1>6. call[r].kind \in Makers => headers'[r] = 1
  BY <1>1, <1>5 DEF TypeOK, Own, Makers
<1>7. ASSUME NEW o \in Requests PROVE Own(o)'
  <2>1. CASE o = r
    BY <1>1, <1>4, <2>1 DEF Own, NoTx, After
  <2>2. CASE o # r
    <3>1. tx'[o].made = tx[o].made /\ tx'[o].header = tx[o].header /\ headers'[o] = headers[o]
      BY <1>1, <2>2, MissedHead DEF TypeOK
    <3>2. Own(o)
      BY DEF HeadInv
    <3> QED
      BY <1>1, <1>4, <2>2, <3>1, <3>2 DEF Own
  <2> QED
    BY <2>1, <2>2
<1>8. ASSUME NEW e, Settled(e) PROVE Later(e)
  <2>1. e.by # r \/ pc[r] \in After
    BY <1>8 DEF Settled
  <2>2. e.by # r
    BY <1>1, <2>1 DEF After
  <2>3. e.by \in Requests => headers'[e.by] = headers[e.by]
    BY <1>1, <2>2 DEF TypeOK
  <2> QED
    BY <1>1, <1>4, <1>8, <2>2, <2>3 DEF Settled
<1>9. ASSUME NEW n \in DOMAIN ledger' PROVE Later(ledger'[n])
  <2>1. /\ Len(ledger) \in Nat /\ Len(made) \in Nat
        /\ DOMAIN ledger = 1 .. Len(ledger) /\ DOMAIN made = 1 .. Len(made)
        /\ \A k \in DOMAIN ledger : ledger[k] \in Entry
    BY <1>2
  <2>2. ASSUME NEW k \in DOMAIN ledger
        PROVE  old[k] \in Entry /\ old[k].by = ledger[k].by /\ old[k].ref = ledger[k].ref
    <3>1. ledger[k] \in Entry /\ ledger[k].qtyRemaining \in Int /\ tx[r].writes \in SUBSET Write
      BY <2>1 DEF Entry, TypeOK, Tx
    <3>2. Written(tx[r].writes, k, ledger[k].qtyRemaining) \in Int
      BY <3>1, WrittenType
    <3> QED
      BY <3>1, <3>2 DEF Entry
  <2>3. old \in [1 .. Len(ledger) -> Entry]
    BY <2>1, <2>2
  <2>4. old \in Seq(Entry) /\ Len(old) = Len(ledger)
    BY <2>1, <2>3, SeqDef
  <2> HIDE DEF old
  <2>5. \/ n \in DOMAIN ledger /\ ledger'[n] = old[n]
        \/ \E k \in DOMAIN made : ledger'[n] = made[k]
    <3>1. n \in 1 .. Len(old) + Len(made)
      BY <1>1, <1>2, <2>4
    <3>2. CASE n <= Len(old)
      BY <1>1, <1>2, <2>1, <2>4, <3>1, <3>2
    <3>3. CASE n > Len(old)
      <4>1. ledger'[n] = made[n - Len(old)] /\ n - Len(old) \in 1 .. Len(made)
        BY <1>1, <1>2, <2>1, <2>4, <3>1, <3>3
      <4> QED
        BY <2>1, <4>1
    <3> QED
      BY <2>1, <2>4, <3>1, <3>2, <3>3
  <2>6. CASE n \in DOMAIN ledger /\ ledger'[n] = old[n]
    <3>1. Later(ledger[n])
      BY <1>8, <2>6 DEF HeadInv
    <3> QED
      BY <2>2, <2>6, <3>1
  <2>7. CASE \E k \in DOMAIN made : ledger'[n] = made[k]
    <3>1. PICK k \in DOMAIN made : ledger'[n] = made[k]
      BY <2>7
    <3>2. made # <<>>
      BY <3>1
    <3>3. /\ call[r].kind \in Makers /\ made[k].by = r /\ made[k].ref = r
      BY <1>1, <1>5, <3>1, <3>2 DEF Own
    <3> QED
      BY <1>1, <1>4, <1>6, <3>1, <3>3
  <2> QED
    BY <2>5, <2>6, <2>7
<1> QED
  BY <1>7, <1>9 DEF HeadInv, Settled

LEMMA ExitHead ==
  ASSUME TypeOK, HeadInv, ProcessExit
  PROVE  HeadInv'
<1>1. /\ tx' = [r \in Requests |-> NoTx]
      /\ pc' = [r \in Requests |-> IF Active(r) THEN "crashed" ELSE pc[r]]
      /\ UNCHANGED <<ledger, headers, call, kept>>
  BY DEF ProcessExit, db
<1>2. \A o \in Requests : pc'[o] = pc[o] \/ pc'[o] = "crashed"
  BY <1>1
<1>3. ASSUME NEW o \in Requests PROVE Own(o)'
  <2>1. Own(o) /\ tx'[o].made = <<>>
    BY <1>1 DEF HeadInv, NoTx
  <2>2. ~(pc'[o] = "commit")
    BY <1>1 DEF Active, Finished
  <2> QED
    BY <1>1, <1>2, <2>1, <2>2 DEF Own, After
<1>4. ASSUME NEW n \in DOMAIN ledger PROVE Settled(ledger[n])'
  BY <1>1, <1>2 DEF HeadInv, Settled, After
<1> QED
  BY <1>1, <1>3, <1>4 DEF HeadInv

LEMMA FloatHead ==
  ASSUME TypeOK, HeadInv, NEW r \in Requests, Floating(r)
  PROVE  HeadInv'
<1>1. ASSUME UNCHANGED <<ledger, headers, pc, call, kept>>,
             \A o \in Requests : tx'[o].made = tx[o].made /\ tx'[o].header = tx[o].header
      PROVE  HeadInv'
  BY <1>1 DEF HeadInv, Own, Settled
<1>2. CASE DecreaseTotalQtyRead(r)
  BY <1>1, <1>2 DEF DecreaseTotalQtyRead, db
<1>3. CASE DecreaseTotalQtyWrite(r)
  <2>1. PICK f \in floats[r] :
          \/ Set(r, f.item, f.to) /\ UNCHANGED <<db, pc, call, local, kept>>
          \/ /\ tx' = [o \in Requests |-> Missed(o, {f.item})]
             /\ UNCHANGED <<ledger, headers, charged, pc, call, local, kept>>
          \/ ProcessExit
    BY <1>3 DEF DecreaseTotalQtyWrite
  <2>2. CASE Set(r, f.item, f.to) /\ UNCHANGED <<db, pc, call, local, kept>>
    BY <1>1, <2>2, SetMade DEF db
  <2>3. CASE /\ tx' = [o \in Requests |-> Missed(o, {f.item})]
             /\ UNCHANGED <<ledger, headers, charged, pc, call, local, kept>>
    BY <1>1, <2>3, MissedHead
  <2> QED
    BY <2>1, <2>2, <2>3, ExitHead
<1> QED
  BY <1>2, <1>3 DEF Floating

LEMMA ArriveHead ==
  ASSUME TypeOK, HeadInv, NEW r \in Requests, NEW kind \in Kinds, Arrive(r, kind)
  PROVE  HeadInv'
<1>1. pc[r] = "idle" /\ UNCHANGED <<ledger, headers, kept, tx>>
  BY DEF Arrive, db
<1>2. /\ pc'[r] = "read" /\ \A o \in Requests \ {r} : pc'[o] = pc[o]
  BY GotoType DEF Arrive, Steps
<1>3. PICK lines, target :
        call' = [call EXCEPT ![r] = [kind |-> kind, lines |-> lines, target |-> target]]
  BY DEF Arrive
<1>4. \A o \in Requests \ {r} : call'[o] = call[o]
  BY <1>3 DEF TypeOK
<1>5. headers[r] = 0 /\ tx[r].made = <<>>
  BY <1>1 DEF HeadInv, Own, After, NoCall
<1>6. ASSUME NEW o \in Requests PROVE Own(o)'
  BY <1>1, <1>2, <1>4, <1>5 DEF HeadInv, Own
<1>7. ASSUME NEW n \in DOMAIN ledger PROVE Settled(ledger[n])'
  BY <1>1, <1>2, <1>4 DEF HeadInv, Settled, After
<1> QED
  BY <1>1, <1>6, <1>7 DEF HeadInv

-----------------------------------------------------------------------------
(* The invariant *)

LEMMA InitHead == Init => HeadInv
<1> SUFFICES ASSUME Init PROVE HeadInv
  OBVIOUS
<1>1. ASSUME NEW r \in Requests PROVE Own(r)
  BY DEF Init, Own, NoTx, NoCall
<1>2. ASSUME NEW n \in DOMAIN ledger PROVE Settled(ledger[n])
  BY NamesAssumption DEF Init, Settled, OpeningAdd
<1> QED
  BY <1>1, <1>2 DEF HeadInv

LEMMA NextHead == TypeInv /\ HeadInv /\ [Next]_vars => HeadInv'
<1> SUFFICES ASSUME TypeOK, HeadInv, [Next]_vars PROVE HeadInv'
  BY DEF TypeInv
<1>1. CASE UNCHANGED vars
  BY <1>1 DEF vars, HeadInv, Own, Settled
<1>2. ASSUME NEW r \in Requests, NEW kind \in Kinds, Arrive(r, kind) PROVE HeadInv'
  BY <1>2, ArriveHead
<1>3. ASSUME NEW r \in Requests, Handler(r) PROVE HeadInv'
  BY <1>3, AddHead, WasteHead, AuditHead, ReleaseHead, ReverseHead, CommitHead DEF Handler
<1>4. ASSUME NEW r \in Requests, Floating(r) PROVE HeadInv'
  BY <1>4, FloatHead
<1>5. CASE ProcessExit
  BY <1>5, ExitHead
<1> QED
  BY <1>1, <1>2, <1>3, <1>4, <1>5 DEF Next

\* All or nothing: an entry in the ledger names the one header document that
\* its request has left, through every retry, rejection and exit.
THEOREM AllOrNothing == Spec => []EntriesHaveTheirHeader
<1>1. HeadInv => EntriesHaveTheirHeader
  BY DEF HeadInv, Settled, EntriesHaveTheirHeader
<1> QED
  BY <1>1, Typing, InitHead, NextHead, PTL DEF Spec

-----------------------------------------------------------------------------

\* No buffered write would make a quantity negative.
Safe(writes) ==
  \A w \in writes : w.doc \in StockItems /\ Unsigned(w.doc) => w.to >= 0

\* What request r knows: the quantity it read was not negative and, where it
\* has passed its check, covers what it is about to subtract.
Checked(r) ==
  \/ call[r].kind = "WASTE" /\ pc[r] = "write"
  \/ call[r].kind = "SHRINKAGE" /\ pc[r] \in {"find", "drain"}
Sound(r) ==
  /\ Safe(tx[r].writes)
  /\ floats[r] = {}
  /\ pc[r] # "idle" => call[r].kind \in Kinds
  /\ pc[r] \in InLine \ {"read"} /\ Unsigned(ThisLine(r).item) => local[r].seen >= 0
  /\ Checked(r) => local[r].seen >= ThisLine(r).qty

QtyInv ==
  /\ \A i \in StockItems : Unsigned(i) => qtyOnHand[i] >= 0
  /\ \A r \in Requests : Sound(r)

Inv == TypeInv /\ (CheckedWriters => QtyInv)

-----------------------------------------------------------------------------
(* One step of one request *)

\* Sound is about the request's own variables.
LEMMA SoundStep ==
  ASSUME QtyInv, NEW r \in Requests, UNCHANGED qtyOnHand,
         \A i : Unsigned(i)' => Unsigned(i),
         \A o \in Requests \ {r} :
           /\ pc'[o] = pc[o] /\ local'[o] = local[o] /\ call'[o] = call[o]
           /\ tx'[o].writes = tx[o].writes /\ floats'[o] = floats[o],
         Sound(r)'
  PROVE  QtyInv'
<1>1. ASSUME NEW o \in Requests, o # r PROVE Sound(o)'
  <2>1. Sound(o)
    BY DEF QtyInv
  <2>2. ThisLine(o)' = ThisLine(o) /\ (Checked(o)' <=> Checked(o))
    BY <1>1 DEF ThisLine, Checked
  <2> QED
    BY <1>1, <2>1, <2>2 DEF Sound, Safe
<1> QED
  BY <1>1 DEF QtyInv

\* A step to somewhere nothing is remembered of what was read.
LEMMA ForgetfulStep ==
  ASSUME TypeOK, QtyInv, NEW r \in Requests, pc[r] # "idle",
         NEW at \in Steps \ (InLine \ {"read"}), Goto(r, at),
         \A o \in Requests \ {r} : local'[o] = local[o] /\ tx'[o].writes = tx[o].writes,
         UNCHANGED <<qtyOnHand, call, floats>>, Safe(tx'[r].writes)
  PROVE  QtyInv'
<1>1. /\ pc'[r] = at /\ \A o \in Requests \ {r} : pc'[o] = pc[o]
  BY GotoType
<1>2. Sound(r)
  BY DEF QtyInv
<1>3. Sound(r)'
  BY <1>1, <1>2, SignsSame DEF Sound, Safe, Checked, InLine
<1> QED
  BY <1>1, <1>3, SignsSame, SoundStep

LEMMA ThrowSound ==
  ASSUME TypeOK, QtyInv, NEW r \in Requests, pc[r] # "idle", Throw(r)
  PROVE  QtyInv'
<1>1. tx'[r].writes = {} /\ \A o \in Requests \ {r} : tx'[o] = tx[o]
  BY DEF Throw, TypeOK, NoTx
<1> QED
  BY <1>1, ForgetfulStep DEF Throw, Safe, Steps, Finished, InLine, db

LEMMA RetrySound ==
  ASSUME TypeOK, QtyInv, NEW r \in Requests, pc[r] # "idle", NEW d, Retry(r, d)
  PROVE  QtyInv'
<1>1. tx'[r].writes = {} /\ \A o \in Requests \ {r} : tx'[o] = tx[o] /\ local'[o] = local[o]
  BY DEF Retry, TypeOK, NoTx
<1>2. PICK at \in {"read", "failed"} : Goto(r, at)
  BY DEF Retry
<1> QED
  BY <1>1, <1>2, ForgetfulStep DEF Retry, Safe, Steps, Finished, InLine, db

\* A step inside a line, that keeps what was read.
LEMMA InLineStep ==
  ASSUME TypeOK, QtyInv, NEW r \in Requests, pc[r] \in InLine \ {"read"},
         NEW at \in InLine \ {"read"}, Goto(r, at) \/ (at = pc[r] /\ UNCHANGED pc),
         local' = [local EXCEPT ![r] = local'[r]],
         local'[r].seen = local[r].seen, local'[r].line = local[r].line,
         Checked(r) \/ ~Checked(r)',
         \A o \in Requests \ {r} : tx'[o].writes = tx[o].writes,
         UNCHANGED <<qtyOnHand, call, floats>>, Safe(tx'[r].writes)
  PROVE  QtyInv'
<1>1. /\ pc'[r] = at /\ \A o \in Requests \ {r} : pc'[o] = pc[o] /\ local'[o] = local[o]
  BY GotoType DEF TypeOK, InLine, Steps
<1>2. Sound(r)
  BY DEF QtyInv
<1>3. ThisLine(r)' = ThisLine(r)
  BY DEF ThisLine
<1>4. Sound(r)'
  BY <1>1, <1>2, <1>3, SignsSame DEF Sound, Safe, InLine
<1> QED
  BY <1>1, <1>4, SignsSame, SoundStep

LEMMA ReadSound ==
  ASSUME TypeInv, QtyInv, NEW r \in Requests, pc[r] = "read", NEW refuse,
         NEW at \in InLine \ {"read"}, ReadQtyOnHand(r, refuse, at),
         \/ call[r].kind \notin {"WASTE", "SHRINKAGE"}
         \/ refuse \/ qtyOnHand[ThisLine(r).item] >= ThisLine(r).qty
  PROVE  QtyInv'
<1>1. CASE Throw(r)
  BY <1>1, ThrowSound DEF TypeInv
<1>2. CASE ~Throw(r)
  <2>1. /\ ThisLine(r).item \in StockItems /\ ~refuse
        /\ local' = [local EXCEPT ![r].seen = qtyOnHand[ThisLine(r).item]]
        /\ Goto(r, at)
        /\ UNCHANGED <<db, call, kept, tx, floats>>
    BY <1>2 DEF ReadQtyOnHand
  <2>2. /\ pc'[r] = at
        /\ \A o \in Requests \ {r} : pc'[o] = pc[o] /\ local'[o] = local[o]
    BY <2>1, GotoType DEF TypeInv, TypeOK, InLine, Steps
  <2>3. /\ local'[r].seen = qtyOnHand[ThisLine(r).item]
        /\ local'[r].line = local[r].line
    BY <2>1 DEF TypeInv, TypeOK, Local
  <2>4. ThisLine(r)' = ThisLine(r)
    BY <2>1, <2>3 DEF ThisLine
  <2>5. Sound(r) /\ (Unsigned(ThisLine(r).item) => qtyOnHand[ThisLine(r).item] >= 0)
    BY <2>1 DEF QtyInv
  <2>6. Checked(r)' => local'[r].seen >= ThisLine(r).qty
    BY <2>1, <2>3 DEF Checked
  <2>7. Sound(r)'
    BY <2>1, <2>2, <2>3, <2>4, <2>5, <2>6, SignsSame DEF Sound, Safe
  <2> QED
    BY <2>1, <2>2, <2>7, SignsSame, SoundStep DEF db
<1> QED
  BY <1>1, <1>2

\* A read with the check of waste and shrinkage.
LEMMA CheckSound ==
  ASSUME TypeInv, QtyInv, NEW r \in Requests, pc[r] = "read",
         NEW at \in InLine \ {"read"},
         ReadQtyOnHand(r, qtyOnHand[ThisLine(r).item] < ThisLine(r).qty, at)
  PROVE  QtyInv'
<1>1. CASE Throw(r)
  BY <1>1, ThrowSound DEF TypeInv
<1>2. CASE ~Throw(r)
  <2>1. ThisLine(r).item \in StockItems /\ ThisLine(r) \in Line
    BY <1>2, ThisLineType DEF ReadQtyOnHand, InLine
  <2>2. qtyOnHand[ThisLine(r).item] \in Int /\ ThisLine(r).qty \in Int
    BY <2>1 DEF TypeInv, TypeOK, Line
  <2>3. \/ qtyOnHand[ThisLine(r).item] < ThisLine(r).qty
        \/ qtyOnHand[ThisLine(r).item] >= ThisLine(r).qty
    BY <2>2
  <2> HIDE DEF InLine
  <2> QED
    BY <2>3, ReadSound
<1> QED
  BY <1>1, <1>2

LEMMA SetSafe ==
  ASSUME TypeOK, NEW r \in Requests, Safe(tx[r].writes), NEW d, NEW v \in Int,
         d \in StockItems /\ Unsigned(d) => v >= 0, Set(r, d, v)
  PROVE  /\ Safe(tx'[r].writes)
         /\ \A o \in Requests \ {r} : tx'[o] = tx[o]
BY DEF TypeOK, Tx, Set, Safe, Put

\* A write of qtyOnHand that ends the line.
LEMMA SetNextSound ==
  ASSUME TypeOK, QtyInv, NEW r \in Requests, pc[r] # "idle", NEW d, NEW v \in Int,
         d \in StockItems /\ Unsigned(d) => v >= 0, Set(r, d, v), NextLine(r),
         UNCHANGED <<db, call, kept, floats>>
  PROVE  QtyInv'
<1>1. Safe(tx'[r].writes) /\ \A o \in Requests \ {r} : tx'[o] = tx[o]
  BY SetSafe DEF QtyInv, Sound
<1>2. PICK at \in {"read", "header"} : Goto(r, at)
  BY DEF NextLine
<1>3. \A o \in Requests \ {r} : local'[o] = local[o]
  BY DEF NextLine, TypeOK
<1> QED
  BY <1>1, <1>2, <1>3, ForgetfulStep DEF Steps, InLine, db

LEMMA FindSound ==
  ASSUME TypeOK, QtyInv, NEW r \in Requests, pc[r] = "find", NEW q, NEW ns,
         Find(r, q, ns), Goto(r, "drain")
  PROVE  QtyInv'
<1> DEFINE ds == {[at |-> n, item |-> ledger[n].item, qty |-> ledger[n].qty,
                   rem |-> ledger[n].qtyRemaining] : n \in ns}
<1>1. local' = [local EXCEPT ![r] = [local[r] EXCEPT !.left = q, !.docs = ds]]
  BY DEF Find
<1> HIDE DEF ds
<1>2. /\ local'[r].seen = local[r].seen /\ local'[r].line = local[r].line
      /\ local' = [local EXCEPT ![r] = local'[r]]
  BY <1>1 DEF TypeOK, Local
<1>3. pc'[r] = "drain"
  BY DEF Goto, TypeOK
<1>4. UNCHANGED <<qtyOnHand, call, tx, floats>>
  BY DEF Find, db
<1>5. Checked(r) \/ ~Checked(r)'
  BY <1>3, <1>4 DEF Checked
<1> QED
  BY <1>2, <1>4, <1>5, InLineStep DEF InLine, QtyInv, Sound

\* A turn of the loop over the ledger writes an entry, never qtyOnHand.
LEMMA ConsumeSound ==
  ASSUME TypeOK, QtyInv, NEW r \in Requests, pc[r] = "drain", NEW d \in local[r].docs,
         Consume(r, d)
  PROVE  QtyInv'
<1> DEFINE left == local[r].left
           took == IF left > d.rem THEN d.rem ELSE left
<1>1. /\ local[r] \in Local /\ d \in Doc
  BY DEF TypeOK, Local
<1>2. left \in Int /\ d.rem \in Int /\ d.at \in Nat /\ took \in Int
  BY <1>1 DEF Local, Doc
<1>3. /\ IF left = 0 /\ d.rem >= 0 THEN UNCHANGED tx ELSE Set(r, d.at, d.rem - took)
      /\ local' = [local EXCEPT ![r] = [local[r] EXCEPT
           !.docs = local[r].docs \ {d}, !.left = left - took]]
      /\ UNCHANGED <<db, call, kept, floats, pc>>
  BY DEF Consume
<1> HIDE DEF left, took
<1>4. d.at \notin StockItems
  BY <1>2, NamesAssumption
<1>5. Safe(tx'[r].writes) /\ \A o \in Requests \ {r} : tx'[o] = tx[o]
  <2>1. CASE UNCHANGED tx
    BY <2>1 DEF QtyInv, Sound
  <2>2. CASE Set(r, d.at, d.rem - took)
    BY <1>2, <1>4, <2>2, SetSafe DEF QtyInv, Sound
  <2> QED
    BY <1>3, <2>1, <2>2
<1>6. /\ local'[r].seen = local[r].seen /\ local'[r].line = local[r].line
      /\ local' = [local EXCEPT ![r] = local'[r]]
  BY <1>3 DEF TypeOK, Local
<1>7. Checked(r) \/ ~Checked(r)'
  BY <1>3 DEF Checked
<1> QED
  BY <1>3, <1>5, <1>6, <1>7, InLineStep DEF InLine, db

LEMMA CreateSafe ==
  ASSUME TypeOK, NEW r \in Requests, Safe(tx[r].writes), NEW i, NEW q, NEW id,
         AppendEntry(r, i, q, id)
  PROVE  Safe(tx'[r].writes) /\ \A o \in Requests \ {r} : tx'[o] = tx[o]
<1> DEFINE made == Append(tx[r].made, [item |-> i, qty |-> q, qtyRemaining |-> q,
                                       by |-> r, nth |-> id, ref |-> NoRef])
<1>1. tx' = [tx EXCEPT ![r] = [tx[r] EXCEPT !.open = TRUE, !.made = made]]
  BY DEF AppendEntry
<1> HIDE DEF made
<1> QED
  BY <1>1 DEF TypeOK, Tx, Safe

LEMMA HeaderSound ==
  ASSUME TypeOK, QtyInv, NEW r \in Requests, pc[r] # "idle", NEW ids, NEW n,
         CreateHeader(r, ids, n)
  PROVE  QtyInv'
<1> DEFINE made == [k \in DOMAIN tx[r].made |->
              IF tx[r].made[k].nth \in ids
              THEN [tx[r].made[k] EXCEPT !.ref = r] ELSE tx[r].made[k]]
<1>1. tx' = [tx EXCEPT ![r] = [tx[r] EXCEPT
        !.header = TRUE, !.bill = n, !.open = TRUE, !.made = made]]
  BY DEF CreateHeader
<1> HIDE DEF made
<1>2. tx'[r].writes = tx[r].writes /\ \A o \in Requests \ {r} : tx'[o] = tx[o]
  BY <1>1 DEF TypeOK, Tx
<1>3. Safe(tx'[r].writes)
  BY <1>2 DEF QtyInv, Sound
<1> QED
  BY <1>2, <1>3, ForgetfulStep DEF CreateHeader, Steps, InLine, db

-----------------------------------------------------------------------------
(* The handlers *)

\* A handler that writes what it read plus what the line brings.
LEMMA RaiseSound ==
  ASSUME TypeInv, QtyInv, NEW r \in Requests, pc[r] = "write",
         call[r].kind \in {"ADD", "REFUND"},
         \/ /\ Set(r, ThisLine(r).item, local[r].seen + ThisLine(r).qty)
            /\ Goto(r, "create")
            /\ UNCHANGED <<db, call, local, kept, floats>>
         \/ Retry(r, ThisLine(r).item)
  PROVE  QtyInv'
<1>1. ThisLine(r).qty \in Int /\ local[r].seen \in Int
  BY LineFacts DEF InLine
<1>2. Unsigned(ThisLine(r).item) => local[r].seen >= 0 /\ ThisLine(r).qty >= 0
  BY LineFacts DEF QtyInv, Sound, InLine
<1>3. /\ local[r].seen + ThisLine(r).qty \in Int
      /\ Unsigned(ThisLine(r).item) => local[r].seen + ThisLine(r).qty >= 0
  BY <1>1, <1>2
<1>4. CASE /\ Set(r, ThisLine(r).item, local[r].seen + ThisLine(r).qty)
           /\ Goto(r, "create")
           /\ UNCHANGED <<db, call, local, kept, floats>>
  <2>1. Safe(tx'[r].writes) /\ \A o \in Requests \ {r} : tx'[o] = tx[o]
    BY <1>3, <1>4, SetSafe DEF QtyInv, Sound, TypeInv
  <2>2. ~Checked(r)' /\ local' = [local EXCEPT ![r] = local'[r]]
    BY <1>4 DEF Checked, TypeInv, TypeOK
  <2> QED
    BY <1>4, <2>1, <2>2, InLineStep DEF TypeInv, InLine, db
<1>5. CASE Retry(r, ThisLine(r).item)
  BY <1>5, RetrySound DEF TypeInv
<1> QED
  BY <1>4, <1>5

LEMMA CreateNextSound ==
  ASSUME TypeOK, QtyInv, NEW r \in Requests, pc[r] # "idle", NEW i, NEW q, NEW id,
         AppendEntry(r, i, q, id), NextLine(r), UNCHANGED <<db, call, floats>>
  PROVE  QtyInv'
<1>1. Safe(tx'[r].writes) /\ \A o \in Requests \ {r} : tx'[o] = tx[o]
  BY CreateSafe DEF QtyInv, Sound
<1>2. PICK at \in {"read", "header"} : Goto(r, at)
  BY DEF NextLine
<1>3. \A o \in Requests \ {r} : local'[o] = local[o]
  BY DEF NextLine, TypeOK
<1> QED
  BY <1>1, <1>2, <1>3, ForgetfulStep DEF Steps, InLine, db

LEMMA AddSound ==
  ASSUME TypeInv, QtyInv, NEW r \in Requests, AddStep(r)
  PROVE  QtyInv'
<1>1. CASE AddRead(r)
  BY <1>1, ReadSound DEF AddRead, Serves, InLine
<1>2. CASE AddSetQty(r)
  BY <1>2, RaiseSound DEF AddSetQty, Serves
<1>3. CASE AddCreateEntry(r)
  BY <1>3, CreateNextSound DEF AddCreateEntry, CreateEntry, Serves, TypeInv
<1>4. CASE AddCreateHeader(r)
  BY <1>4, HeaderSound DEF AddCreateHeader, Serves, TypeInv
<1> QED
  BY <1>1, <1>2, <1>3, <1>4 DEF AddStep

LEMMA RefundSound ==
  ASSUME TypeInv, QtyInv, NEW r \in Requests, RefundStep(r)
  PROVE  QtyInv'
<1>1. CASE RefundRead(r)
  BY <1>1, ReadSound DEF RefundRead, Serves, InLine
<1>2. CASE RefundSetQty(r)
  BY <1>2, RaiseSound DEF RefundSetQty, Serves
<1>3. CASE RefundCreateEntry(r)
  BY <1>3, CreateNextSound DEF RefundCreateEntry, Serves, TypeInv
<1>4. CASE RefundCreateHeader(r)
  BY <1>4, HeaderSound DEF RefundCreateHeader, Serves, TypeInv
<1>5. CASE RefundSetPrice(r)
  <2>1. Safe(tx[r].writes)
    BY DEF QtyInv, Sound
  <2> QED
    BY <1>5, <2>1, ForgetfulStep DEF RefundSetPrice, Serves, TypeInv, Steps, Finished, InLine
<1> QED
  BY <1>1, <1>2, <1>3, <1>4, <1>5 DEF RefundStep

LEMMA WasteSound ==
  ASSUME TypeInv, QtyInv, NEW r \in Requests, WasteStep(r)
  PROVE  QtyInv'
<1>1. CASE WasteRead(r)
  BY <1>1, CheckSound DEF WasteRead, Serves, InLine
<1>2. CASE WasteSetQty(r)
  <2>1. pc[r] = "write" /\ call[r].kind = "WASTE"
    BY <1>2 DEF WasteSetQty, Serves
  <2>2. ThisLine(r) \in Line /\ local[r].seen \in Int
    BY <2>1, ThisLineType DEF InLine, TypeInv, TypeOK, Local
  <2>3. local[r].seen >= ThisLine(r).qty
    BY <2>1 DEF QtyInv, Sound, Checked
  <2>4. local[r].seen - ThisLine(r).qty \in Nat
    BY <2>2, <2>3 DEF Line
  <2> QED
    BY <1>2, <2>1, <2>4, SetNextSound, RetrySound DEF WasteSetQty, TypeInv
<1>3. CASE WasteCreateHeader(r)
  BY <1>3, HeaderSound DEF WasteCreateHeader, Serves, TypeInv
<1> QED
  BY <1>1, <1>2, <1>3 DEF WasteStep

LEMMA ShrinkageSound ==
  ASSUME TypeInv, QtyInv, NEW r \in Requests, ShrinkageStep(r)
  PROVE  QtyInv'
<1>1. CASE ShrinkageRead(r)
  BY <1>1, CheckSound DEF ShrinkageRead, Serves, InLine
<1>2. CASE ShrinkageFind(r)
  BY <1>2, FindSound DEF ShrinkageFind, Serves, TypeInv
<1>3. CASE ShrinkageDrain(r)
  BY <1>3, ConsumeSound, RetrySound DEF ShrinkageDrain, Serves, TypeInv, Oldest
<1>4. CASE ShrinkageSetQty(r)
  <2>1. pc[r] = "drain" /\ call[r].kind = "SHRINKAGE"
    BY <1>4 DEF ShrinkageSetQty, Serves
  <2>2. ThisLine(r) \in Line /\ local[r].seen \in Int
    BY <2>1, ThisLineType DEF InLine, TypeInv, TypeOK, Local
  <2>3. local[r].seen >= ThisLine(r).qty
    BY <2>1 DEF QtyInv, Sound, Checked
  <2>4. local[r].seen - ThisLine(r).qty \in Nat
    BY <2>2, <2>3 DEF Line
  <2> QED
    BY <1>4, <2>1, <2>4, SetNextSound, RetrySound DEF ShrinkageSetQty, TypeInv
<1>5. CASE ShrinkageCreateHeader(r)
  BY <1>5, HeaderSound DEF ShrinkageCreateHeader, Serves, TypeInv
<1> QED
  BY <1>1, <1>2, <1>3, <1>4, <1>5 DEF ShrinkageStep

LEMMA AuditSound ==
  ASSUME TypeInv, QtyInv, NEW r \in Requests, AuditStep(r)
  PROVE  QtyInv'
<1>1. CASE AuditRead(r)
  BY <1>1, ReadSound DEF AuditRead, Serves, InLine
<1>2. CASE AuditCreateEntry(r)
  <2>1. /\ pc[r] = "create" /\ call[r].kind = "AUDIT"
        /\ AppendEntry(r, ThisLine(r).item, ThisLine(r).qty - local[r].seen,
                       <<kept[r].attempt, local[r].line>>)
        /\ Goto(r, "drain")
        /\ UNCHANGED <<db, call, local, floats>>
    BY <1>2 DEF AuditCreateEntry, CreateEntry, Serves
  <2>2. Safe(tx'[r].writes) /\ \A o \in Requests \ {r} : tx'[o] = tx[o]
    BY <2>1, CreateSafe DEF QtyInv, Sound, TypeInv
  <2>3. ~Checked(r)' /\ local' = [local EXCEPT ![r] = local'[r]]
    BY <2>1 DEF Checked, TypeInv, TypeOK
  <2> QED
    BY <2>1, <2>2, <2>3, InLineStep DEF TypeInv, InLine, db
<1>3. CASE AuditFind(r)
  BY <1>3, FindSound DEF AuditFind, Serves, TypeInv
<1>4. CASE AuditDrain(r)
  BY <1>4, ConsumeSound, RetrySound DEF AuditDrain, Serves, TypeInv, Oldest
<1>5. CASE AuditSetQty(r)
  <2>1. pc[r] = "drain"
    BY <1>5 DEF AuditSetQty, Serves
  <2>2. ThisLine(r).qty \in Int /\ ThisLine(r).qty >= 0
    BY <1>5, <2>1, LineFacts DEF InLine, AuditSetQty, Serves
  <2> QED
    BY <1>5, <2>1, <2>2, SetNextSound, RetrySound DEF AuditSetQty, TypeInv
<1>6. CASE AuditCreateHeader(r)
  BY <1>6, HeaderSound DEF AuditCreateHeader, Serves, TypeInv
<1> QED
  BY <1>1, <1>2, <1>3, <1>4, <1>5, <1>6 DEF AuditStep

\* The handlers with a floating decrement are not in use.
LEMMA NoRelease ==
  ASSUME QtyInv, CheckedWriters, NEW r \in Requests
  PROVE  ~ReleaseStep(r) /\ ~ReverseStep(r) /\ ~Floating(r)
<1>1. pc[r] # "idle" => call[r].kind \in Kinds
  BY DEF QtyInv, Sound
<1>2. call[r].kind \in {"RELEASE", "REVERSE", "REVERSE_ALL"} => pc[r] = "idle"
  BY <1>1 DEF CheckedWriters
<1>3. ~ReleaseStep(r)
  BY <1>2 DEF ReleaseStep, ReleaseCheck, ReleaseFind, ReleaseDrain, ReleaseSpawn,
     ReleaseCreateHeader, Serves
<1>4. ~ReverseStep(r)
  BY <1>2 DEF ReverseStep, ReverseFind, ReverseSetRemaining, ReverseAllFind,
     ReverseAllSetRemaining, ReverseAllEnd, ReverseCreateHeader, Serves
<1>5. ~Floating(r)
  BY DEF QtyInv, Sound, Floating, DecreaseTotalQtyRead, DecreaseTotalQtyWrite
<1> QED
  BY <1>3, <1>4, <1>5

-----------------------------------------------------------------------------
(* Commits, exits and arrivals *)

LEMMA CommitSound ==
  ASSUME TypeOK, QtyInv, NEW r \in Requests, Commit(r)
  PROVE  QtyInv'
<1>0. UNCHANGED <<call, local, floats>>
  BY DEF Commit
<1>1. \A i \in StockItems : Unsigned(i)' => qtyOnHand'[i] >= 0
  <2>1. Safe(tx[r].writes) /\ \A i \in StockItems : Unsigned(i) => qtyOnHand[i] >= 0
    BY DEF QtyInv, Sound
  <2>2. ASSUME NEW i \in StockItems, Unsigned(i)
        PROVE  Written(tx[r].writes, i, qtyOnHand[i]) >= 0
    BY <2>1, <2>2 DEF Written, Safe
  <2> QED
    BY <1>0, <2>2, SignsSame DEF Commit
<1>2. PICK at \in {"price", "done"} : Goto(r, at)
  BY DEF Commit
<1>3. /\ pc'[r] = at /\ \A o \in Requests \ {r} : pc'[o] = pc[o]
  BY <1>2, GotoType DEF Steps, Finished
<1>4. ASSUME NEW o \in Requests PROVE Safe(tx'[o].writes)
  <2>1. tx' = [p \in Requests |-> IF p = r THEN NoTx ELSE Missed(p, Wrote(r))]
    BY DEF Commit
  <2>2. tx'[o].writes = {} \/ tx'[o].writes = tx[o].writes
    BY <2>1 DEF NoTx, Missed, TypeOK, Tx
  <2>3. Safe(tx[o].writes)
    BY DEF QtyInv, Sound
  <2> QED
    BY <2>2, <2>3 DEF Safe
<1>5. UNCHANGED <<call, local, floats>>
  BY <1>0
<1>6. ASSUME NEW o \in Requests PROVE Sound(o)'
  <2>1. Sound(o)
    BY DEF QtyInv
  <2>2. pc'[o] = pc[o] \/ pc'[o] \notin InLine
    BY <1>3 DEF InLine
  <2>3. pc[o] # "idle" \/ pc'[o] = pc[o]
    BY <1>3 DEF Commit
  <2>4. ThisLine(o)' = ThisLine(o) /\ (Checked(o)' => Checked(o))
    BY <1>5, <2>2 DEF ThisLine, Checked, InLine
  <2> QED
    BY <1>4, <1>5, <2>1, <2>2, <2>3, <2>4, SignsSame DEF Sound, Safe
<1> QED
  BY <1>1, <1>6 DEF QtyInv

LEMMA ExitSound ==
  ASSUME TypeOK, QtyInv, ProcessExit
  PROVE  QtyInv'
<1>1. ASSUME NEW o \in Requests PROVE Sound(o)'
  <2>1. /\ Sound(o) /\ tx'[o].writes = {} /\ floats'[o] = {}
        /\ UNCHANGED <<qtyOnHand, call, local>>
    BY DEF QtyInv, ProcessExit, NoTx, db
  <2>2. pc'[o] = pc[o] \/ (pc'[o] = "crashed" /\ pc[o] # "idle")
    BY <2>1 DEF ProcessExit, Active, Sound, TypeOK
  <2>3. ThisLine(o)' = ThisLine(o) /\ (Checked(o)' => Checked(o))
    BY <2>1, <2>2 DEF ThisLine, Checked
  <2> QED
    BY <2>1, <2>2, <2>3, SignsSame DEF Sound, Safe, InLine
<1> QED
  BY <1>1, SignsSame DEF QtyInv, ProcessExit, db

LEMMA ArriveSound ==
  ASSUME TypeInv, QtyInv, NEW r \in Requests, NEW kind \in Kinds, Arrive(r, kind)
  PROVE  QtyInv'
<1>1. /\ pc'[r] = "read" /\ \A o \in Requests \ {r} : pc'[o] = pc[o]
  BY GotoType DEF Arrive, Steps, TypeInv
<1>2. PICK lines, target :
        call' = [call EXCEPT ![r] = [kind |-> kind, lines |-> lines, target |-> target]]
  BY DEF Arrive
<1>3. call'[r].kind = kind /\ \A o \in Requests \ {r} : call'[o] = call[o]
  BY <1>2 DEF TypeOK, TypeInv
<1>4. UNCHANGED <<qtyOnHand, local, tx, floats>>
  BY DEF Arrive, db
<1>5. \A i : Unsigned(i)' => Unsigned(i)
  BY SignsArrive
<1>6. Sound(r)'
  BY <1>1, <1>3, <1>4, <1>5 DEF QtyInv, Sound, Safe, Checked, InLine
<1> QED
  BY <1>1, <1>3, <1>4, <1>5, <1>6, SoundStep

-----------------------------------------------------------------------------
(* The invariant *)

LEMMA InitSound == Init => QtyInv
<1> SUFFICES ASSUME Init PROVE QtyInv
  OBVIOUS
<1>1. \A i \in StockItems : qtyOnHand[i] >= 0
  BY OpeningAssumption DEF Init
<1>2. ASSUME NEW r \in Requests PROVE Sound(r)
  BY DEF Init, Sound, Safe, Checked, NoTx, InLine
<1> QED
  BY <1>1, <1>2 DEF QtyInv

LEMMA NextSound == Inv /\ [Next]_vars => Inv'
<1> SUFFICES ASSUME Inv, [Next]_vars PROVE Inv'
  OBVIOUS
<1>1. TypeInv' /\ TypeInv /\ TypeOK
  BY NextType DEF Inv, TypeInv
<1> SUFFICES ASSUME CheckedWriters PROVE QtyInv'
  BY <1>1 DEF Inv, CheckedWriters
<1>2. QtyInv
  BY DEF Inv
<1>3. CASE UNCHANGED vars
  BY <1>2, <1>3, SignsSame DEF vars, QtyInv, Sound, Safe, Checked, ThisLine
<1>4. ASSUME NEW r \in Requests, NEW kind \in Kinds, Arrive(r, kind) PROVE QtyInv'
  BY <1>1, <1>2, <1>4, ArriveSound
<1>5. ASSUME NEW r \in Requests, Handler(r) PROVE QtyInv'
  BY <1>1, <1>2, <1>5, AddSound, RefundSound, WasteSound, ShrinkageSound, AuditSound,
     CommitSound, NoRelease DEF Handler
<1>6. ASSUME NEW r \in Requests, Floating(r) PROVE QtyInv'
  BY <1>2, <1>6, NoRelease
<1>7. CASE ProcessExit
  BY <1>1, <1>2, <1>7, ExitSound
<1> QED
  BY <1>3, <1>4, <1>5, <1>6, <1>7 DEF Next

\* A handler that checks the quantity it reads before it subtracts never stores
\* a negative one, however many requests overlap, retry or are cut off.
THEOREM NeverNegative == Spec => []QtyOnHandNotNegative
<1>1. Init => Inv
  BY InitType, InitSound DEF Inv
<1>2. Inv => QtyOnHandNotNegative
  BY DEF Inv, QtyInv, QtyOnHandNotNegative
<1> QED
  BY <1>1, <1>2, NextSound, PTL DEF Spec

-----------------------------------------------------------------------------
(* The ledger never owes stock *)

\* No call so far spoils the entries of an item.
Regular(i) == Unsigned(i) /\ Unreversed(i)
Within(e) == Regular(e.item) => e.qtyRemaining \in 0 .. e.qty

\* A write of an entry, and a copy of one, are of an entry that is there.
Fits(w) ==
  w.doc \in Nat =>
    /\ w.doc \in DOMAIN ledger
    /\ Regular(ledger[w.doc].item) => w.to \in 0 .. ledger[w.doc].qty
Copied(d) ==
  /\ d.at \in DOMAIN ledger /\ d.item = ledger[d.at].item
  /\ Regular(d.item) => d.rem \in 0 .. ledger[d.at].qty

\* What a request is about to write of the ledger, and what it goes by.
Takes(r) ==
  /\ \A w \in tx[r].writes : Fits(w)
  /\ \A n \in DOMAIN tx[r].made : Within(tx[r].made[n])
  /\ \A d \in local[r].docs :
       Copied(d) /\ (call[r].kind # "REVERSE_ALL" => d.item = ThisLine(r).item)
  /\ Regular(ThisLine(r).item) => local[r].left >= 0
  /\ pc[r] = "idle" => local[r].docs = {} /\ local[r].left = 0
  /\ call[r].kind = "AUDIT" /\ pc[r] = "create" => ThisLine(r).qty > local[r].seen
  /\ call[r].kind = "AUDIT" /\ pc[r] = "find" => ThisLine(r).qty < local[r].seen

TakesInv ==
  /\ \A n \in DOMAIN ledger : Within(ledger[n])
  /\ \A r \in Requests : Takes(r)

WithinInv == TypeInv /\ TakesInv

LEMMA RegularSame ==
  ASSUME UNCHANGED call
  PROVE  \A i : Regular(i)' <=> Regular(i)
BY SignsSame DEF Regular

\* A step of one request that leaves the ledger alone.
LEMMA TakesStep ==
  ASSUME TakesInv, NEW r \in Requests, UNCHANGED <<ledger, call>>,
         \A o \in Requests \ {r} :
           /\ pc'[o] = pc[o] /\ local'[o] = local[o]
           /\ tx'[o].writes = tx[o].writes /\ tx'[o].made = tx[o].made,
         pc'[r] # "idle",
         \A w \in tx'[r].writes : Fits(w),
         \A n \in DOMAIN tx'[r].made : Within(tx'[r].made[n]),
         \A d \in local'[r].docs :
           /\ Copied(d)
           /\ call[r].kind # "REVERSE_ALL" => d.item = call[r].lines[local'[r].line].item,
         Regular(call[r].lines[local'[r].line].item) => local'[r].left >= 0,
         call[r].kind = "AUDIT" /\ pc'[r] = "create" =>
           call[r].lines[local'[r].line].qty > local'[r].seen,
         call[r].kind = "AUDIT" /\ pc'[r] = "find" =>
           call[r].lines[local'[r].line].qty < local'[r].seen
  PROVE  TakesInv'
<1>a. \A i : Regular(i)' <=> Regular(i)
  BY RegularSame
<1>b. ASSUME NEW w \in tx'[r].writes PROVE Fits(w)'
  <2>1. ledger' = ledger /\ Fits(w)
    OBVIOUS
  <2> QED BY <1>a, <2>1 DEF Fits
<1>c. ASSUME NEW d \in local'[r].docs PROVE Copied(d)'
  <2>1. ledger' = ledger /\ Copied(d)
    OBVIOUS
  <2> QED BY <1>a, <2>1 DEF Copied
<1>d. ASSUME NEW n \in DOMAIN tx'[r].made PROVE Within(tx[r].made[n])'
  <2> SUFFICES ASSUME NEW e, e = tx'[r].made[n] PROVE Within(e)'
    OBVIOUS
  <2> QED BY <1>a DEF Within
<1>e. call' = call /\ ThisLine(r)' = call[r].lines[local'[r].line]
  BY DEF ThisLine
<1>f. Regular(ThisLine(r).item)' => local'[r].left >= 0
  <2> SUFFICES ASSUME NEW i, i = call[r].lines[local'[r].line].item
               PROVE  Regular(i)' => local'[r].left >= 0
    BY <1>e
  <2> QED BY <1>a
<1>g. \A d \in local'[r].docs : call'[r].kind # "REVERSE_ALL" => d.item = (ThisLine(r).item)'
  BY <1>e
<1>1. Takes(r)'
  BY <1>b, <1>c, <1>d, <1>e, <1>f, <1>g DEF Takes
<1>2. ASSUME NEW o \in Requests \ {r} PROVE Takes(o)'
  BY RegularSame DEF TakesInv, Takes, Fits, Copied, Within, ThisLine
<1> QED
  BY <1>1, <1>2, RegularSame DEF TakesInv, Within

\* A step past the comparison of an audit, that finds nothing new.
LEMMA TakesOn ==
  ASSUME TypeOK, TakesInv, NEW r \in Requests, UNCHANGED <<ledger, call>>,
         NEW at \in Steps \ {"idle"}, Goto(r, at) \/ (UNCHANGED pc /\ pc[r] = at),
         call[r].kind = "AUDIT" => at \notin {"create", "find"},
         \A o \in Requests \ {r} :
           /\ local'[o] = local[o]
           /\ tx'[o].writes = tx[o].writes /\ tx'[o].made = tx[o].made,
         \A w \in tx'[r].writes : Fits(w),
         \A n \in DOMAIN tx'[r].made : Within(tx'[r].made[n]),
         \/ local'[r].docs = {} /\ local'[r].left = 0
         \/ /\ local'[r].docs \subseteq local[r].docs /\ local'[r].line = local[r].line
            /\ Regular(ThisLine(r).item) => local'[r].left >= 0
  PROVE  TakesInv'
<1>1. pc'[r] = at /\ \A o \in Requests \ {r} : pc'[o] = pc[o]
  BY GotoType
<1>2. /\ \A d \in local'[r].docs :
           /\ Copied(d)
           /\ call[r].kind # "REVERSE_ALL" => d.item = call[r].lines[local'[r].line].item
      /\ Regular(call[r].lines[local'[r].line].item) => local'[r].left >= 0
  BY DEF TakesInv, Takes, ThisLine
<1> QED BY <1>1, <1>2, TakesStep

LEMMA NextLineTakes ==
  ASSUME TypeOK, NEW r \in Requests, NextLine(r)
  PROVE  /\ local'[r].docs = {} /\ local'[r].left = 0
         /\ \A o \in Requests \ {r} : local'[o] = local[o]
         /\ \E at \in {"read", "header"} : Goto(r, at)
<1>1. local' = [local EXCEPT ![r] = [NoLocal EXCEPT !.line = local[r].line + 1]]
  BY DEF NextLine
<1> DEFINE x == [NoLocal EXCEPT !.line = local[r].line + 1]
<1>2. x.docs = {} /\ x.left = 0
  BY DEF NoLocal
<1> HIDE DEF x
<1>3. local' = [local EXCEPT ![r] = x]
  BY <1>1 DEF x
<1> QED BY <1>2, <1>3 DEF TypeOK, NextLine

LEMMA SetFits ==
  ASSUME TypeOK, TakesInv, NEW r \in Requests, NEW d, NEW v, Set(r, d, v),
         d \in Nat => /\ d \in DOMAIN ledger
                      /\ Regular(ledger[d].item) => v \in 0 .. ledger[d].qty
  PROVE  /\ \A w \in tx'[r].writes : Fits(w)
         /\ \A n \in DOMAIN tx'[r].made : Within(tx'[r].made[n])
         /\ \A o \in Requests \ {r} : tx'[o] = tx[o]
<1> DEFINE ws == Put(tx[r].writes, d, v)
<1>1. tx' = [tx EXCEPT ![r] = [tx[r] EXCEPT !.writes = ws, !.open = TRUE]]
  BY DEF Set
<1>2. \A w \in ws : Fits(w)
  BY DEF Put, Fits, TakesInv, Takes
<1> HIDE DEF ws
<1>3. tx'[r].writes = ws
  BY <1>1 DEF TypeOK, Tx
<1> QED BY <1>2, <1>3, SetMade DEF TakesInv, Takes

LEMMA ThrowTakes ==
  ASSUME TypeOK, TakesInv, NEW r \in Requests, Throw(r)
  PROVE  TakesInv'
<1>1. /\ tx'[r].writes = {} /\ tx'[r].made = <<>> /\ \A o \in Requests \ {r} : tx'[o] = tx[o]
      /\ Goto(r, "failed") /\ UNCHANGED <<ledger, call, local>>
  BY DEF Throw, TypeOK, NoTx, db
<1>2. Regular(ThisLine(r).item) => local[r].left >= 0
  BY DEF TakesInv, Takes
<1> QED BY <1>1, <1>2, TakesOn DEF Steps, Finished

LEMMA RetryTakes ==
  ASSUME TypeOK, TakesInv, NEW r \in Requests, NEW d, Retry(r, d)
  PROVE  TakesInv'
<1>1. /\ tx'[r].writes = {} /\ tx'[r].made = <<>> /\ \A o \in Requests \ {r} : tx'[o] = tx[o]
      /\ local'[r].docs = {} /\ local'[r].left = 0 /\ \A o \in Requests \ {r} : local'[o] = local[o]
      /\ UNCHANGED <<ledger, call>>
  BY DEF Retry, TypeOK, NoTx, NoLocal, db
<1>2. PICK at \in {"read", "failed"} : Goto(r, at)
  BY DEF Retry
<1> QED BY <1>1, <1>2, TakesOn DEF Steps, Finished

\* The quantity on hand is read; an audit goes by how it compares with the count.
LEMMA ReadTakes ==
  ASSUME TypeOK, TakesInv, NEW r \in Requests, NEW refuse, NEW at \in InLine,
         ReadQtyOnHand(r, refuse, at),
         call[r].kind = "AUDIT" /\ ~refuse =>
           /\ at = "create" => ThisLine(r).qty > qtyOnHand[ThisLine(r).item]
           /\ at = "find" => ThisLine(r).qty < qtyOnHand[ThisLine(r).item]
  PROVE  TakesInv'
<1>1. CASE Throw(r)
  BY <1>1, ThrowTakes
<1>2. CASE ~Throw(r)
  <2>1. /\ local' = [local EXCEPT ![r].seen = qtyOnHand[ThisLine(r).item]]
        /\ Goto(r, at) /\ UNCHANGED <<db, call, kept, tx, floats>> /\ ~refuse
    BY <1>2 DEF ReadQtyOnHand
  <2>2. /\ pc'[r] = at /\ \A o \in Requests \ {r} : pc'[o] = pc[o]
    BY <2>1, GotoType DEF InLine, Steps
  <2>3. /\ local'[r].seen = qtyOnHand[ThisLine(r).item] /\ local'[r].line = local[r].line
        /\ local'[r].docs = local[r].docs /\ local'[r].left = local[r].left
        /\ \A o \in Requests \ {r} : local'[o] = local[o]
    BY <2>1 DEF TypeOK, Local
  <2>4. Takes(r)
    BY DEF TakesInv
  <2>5. at # "idle"
    BY DEF InLine
  <2> QED BY <2>1, <2>2, <2>3, <2>4, <2>5, TakesStep DEF Takes, db, ThisLine
<1> QED BY <1>1, <1>2

\* Entries are copied as they are.
LEMMA FindTakes ==
  ASSUME TypeOK, TakesInv, NEW r \in Requests, NEW q, Regular(ThisLine(r).item) => q >= 0,
         NEW ns \in SUBSET DOMAIN ledger,
         call[r].kind = "REVERSE_ALL" \/ \A n \in ns : ledger[n].item = ThisLine(r).item,
         Find(r, q, ns), NEW at \in {"drain", "write"}, Goto(r, at)
  PROVE  TakesInv'
<1> DEFINE ds == {[at |-> n, item |-> ledger[n].item, qty |-> ledger[n].qty,
                   rem |-> ledger[n].qtyRemaining] : n \in ns}
<1>1. local' = [local EXCEPT ![r] = [local[r] EXCEPT !.left = q, !.docs = ds]]
  BY DEF Find
<1>2. \A d \in ds : Copied(d) /\ (call[r].kind # "REVERSE_ALL" => d.item = ThisLine(r).item)
  BY DEF Copied, TakesInv, Within
<1> HIDE DEF ds
<1>3. /\ local'[r].left = q /\ local'[r].docs = ds /\ local'[r].line = local[r].line
      /\ \A o \in Requests \ {r} : local'[o] = local[o]
  BY <1>1 DEF TypeOK, Local
<1>4. pc'[r] = at /\ \A o \in Requests \ {r} : pc'[o] = pc[o]
  BY GotoType DEF Steps
<1>5. Takes(r)
  BY DEF TakesInv
<1> QED BY <1>2, <1>3, <1>4, <1>5, TakesStep DEF Find, db, Takes, ThisLine

\* One turn of the loop takes no more than the entry has, and not less than nothing.
LEMMA ConsumeTakes ==
  ASSUME TypeOK, TakesInv, NEW r \in Requests, pc[r] = "drain", NEW d \in local[r].docs,
         call[r].kind # "REVERSE_ALL", Consume(r, d)
  PROVE  TakesInv'
<1> DEFINE left == local[r].left
           took == IF left > d.rem THEN d.rem ELSE left
           i == ThisLine(r).item
<1>1. Copied(d) /\ d.item = i /\ (Regular(i) => left >= 0)
  BY DEF TakesInv, Takes
<1>2. ledger[d.at] \in Entry /\ d.at \in Nat /\ left \in Int
  BY <1>1 DEF TypeOK, Copied, Local
<1>3. /\ ledger[d.at].qty \in Int /\ d.at \in DOMAIN ledger /\ ledger[d.at].item = i
      /\ Regular(i) => d.rem \in Nat /\ d.rem <= ledger[d.at].qty
  BY <1>1, <1>2 DEF Copied, Entry
<1>4. Regular(i) => d.rem - took \in 0 .. ledger[d.at].qty /\ left - took >= 0
  BY <1>1, <1>2, <1>3
<1>5. /\ UNCHANGED tx \/ Set(r, d.at, d.rem - took)
      /\ local' = [local EXCEPT ![r] = [local[r] EXCEPT
           !.docs = local[r].docs \ {d}, !.left = left - took]]
      /\ UNCHANGED <<db, call, kept, floats, pc>>
  BY DEF Consume
<1> HIDE DEF left, took
<1>6. /\ local'[r].docs \subseteq local[r].docs /\ local'[r].line = local[r].line
      /\ Regular(i) => local'[r].left >= 0
      /\ \A o \in Requests \ {r} : local'[o] = local[o]
  BY <1>4, <1>5 DEF TypeOK, Local
<1>7. /\ \A w \in tx'[r].writes : Fits(w)
      /\ \A n \in DOMAIN tx'[r].made : Within(tx'[r].made[n])
      /\ \A o \in Requests \ {r} : tx'[o] = tx[o]
  BY <1>3, <1>4, <1>5, SetFits DEF TakesInv, Takes
<1> QED BY <1>5, <1>6, <1>7, TakesOn DEF Steps, db

\* A new entry has all it was created with.
LEMMA AppendWithin ==
  ASSUME TypeOK, TakesInv, NEW r \in Requests, NEW i, NEW q \in Int,
         Regular(i) => q >= 0, NEW id, AppendEntry(r, i, q, id)
  PROVE  /\ \A w \in tx'[r].writes : Fits(w)
         /\ \A n \in DOMAIN tx'[r].made : Within(tx'[r].made[n])
         /\ \A o \in Requests \ {r} : tx'[o] = tx[o]
<1> DEFINE e == [item |-> i, qty |-> q, qtyRemaining |-> q, by |-> r, nth |-> id, ref |-> NoRef]
           made == Append(tx[r].made, e)
<1>1. tx' = [tx EXCEPT ![r] = [tx[r] EXCEPT !.open = TRUE, !.made = made]]
  BY DEF AppendEntry
<1>2. tx[r].made \in Seq(Entry)
  BY DEF TypeOK, Tx
<1>3. Within(e)
  BY DEF Within
<1> HIDE DEF e
<1>4. \A n \in DOMAIN made : made[n] = e \/ (n \in DOMAIN tx[r].made /\ made[n] = tx[r].made[n])
  BY <1>2
<1> HIDE DEF made
<1>5. /\ tx'[r].made = made /\ tx'[r].writes = tx[r].writes
      /\ \A o \in Requests \ {r} : tx'[o] = tx[o]
  BY <1>1 DEF TypeOK, Tx
<1> QED BY <1>3, <1>4, <1>5 DEF TakesInv, Takes

LEMMA HeaderTakes ==
  ASSUME TypeOK, TakesInv, NEW r \in Requests, NEW ids, NEW n, CreateHeader(r, ids, n)
  PROVE  TakesInv'
<1> DEFINE m == tx[r].made
           made == [k \in DOMAIN m |->
                      IF m[k].nth \in ids THEN [m[k] EXCEPT !.ref = r] ELSE m[k]]
<1>1. tx' = [tx EXCEPT ![r] = [tx[r] EXCEPT
        !.header = TRUE, !.bill = n, !.open = TRUE, !.made = made]]
  BY DEF CreateHeader
<1>2. \A k \in DOMAIN m : m[k] \in Entry /\ Within(m[k])
  BY DEF TypeOK, Tx, TakesInv, Takes
<1>3. \A k \in DOMAIN made : Within(made[k])
  BY <1>2 DEF Entry, Within
<1> HIDE DEF made, m
<1>4. /\ tx'[r].made = made /\ tx'[r].writes = tx[r].writes
      /\ \A o \in Requests \ {r} : tx'[o] = tx[o]
  BY <1>1 DEF TypeOK, Tx
<1>5. Goto(r, "commit") /\ UNCHANGED <<ledger, call, local>>
  BY DEF CreateHeader, db
<1>6. Takes(r)
  BY DEF TakesInv
<1> QED BY <1>3, <1>4, <1>5, <1>6, TakesOn DEF Steps, Takes

\* A write of the quantity on hand, and on.
LEMMA SetQtyTakes ==
  ASSUME TypeOK, TakesInv, NEW r \in Requests, NEW d \in StockItems, NEW v, Set(r, d, v),
         NextLine(r) \/ (Goto(r, "create") /\ call[r].kind # "AUDIT" /\ UNCHANGED local),
         UNCHANGED <<db, call>>
  PROVE  TakesInv'
<1>1. d \notin Nat
  BY NamesAssumption
<1>2. /\ \A w \in tx'[r].writes : Fits(w)
      /\ \A n \in DOMAIN tx'[r].made : Within(tx'[r].made[n])
      /\ \A o \in Requests \ {r} : tx'[o] = tx[o]
  BY <1>1, SetFits
<1>3. Regular(ThisLine(r).item) => local[r].left >= 0
  BY DEF TakesInv, Takes
<1>4. CASE NextLine(r)
  BY <1>2, <1>4, NextLineTakes, TakesOn DEF db, Steps
<1>5. CASE Goto(r, "create") /\ call[r].kind # "AUDIT" /\ UNCHANGED local
  BY <1>2, <1>3, <1>5, TakesOn DEF db, Steps
<1> QED BY <1>4, <1>5

LEMMA AddTakes ==
  ASSUME TypeInv, TakesInv, NEW r \in Requests, AddStep(r) \/ RefundStep(r)
  PROVE  TakesInv'
<1>1. CASE AddRead(r) \/ RefundRead(r)
  BY <1>1, ReadTakes DEF AddRead, RefundRead, Serves, InLine, TypeInv
<1>2. CASE AddSetQty(r) \/ RefundSetQty(r)
  <2>1. /\ pc[r] = "write" /\ call[r].kind \in {"ADD", "REFUND"}
        /\ \/ /\ Set(r, ThisLine(r).item, local[r].seen + ThisLine(r).qty)
              /\ Goto(r, "create")
              /\ UNCHANGED <<db, call, local, kept, floats>>
           \/ Retry(r, ThisLine(r).item)
    BY <1>2 DEF AddSetQty, RefundSetQty, Serves
  <2>2. ThisLine(r).item \in StockItems
    BY <2>1, LineFacts DEF InLine
  <2> QED BY <2>1, <2>2, SetQtyTakes, RetryTakes DEF TypeInv
<1>3. CASE AddCreateEntry(r) \/ RefundCreateEntry(r)
  <2>1. /\ pc[r] = "create" /\ NextLine(r) /\ UNCHANGED <<db, call, floats>>
        /\ AppendEntry(r, ThisLine(r).item, ThisLine(r).qty, <<kept[r].attempt, local[r].line>>)
    BY <1>3 DEF AddCreateEntry, RefundCreateEntry, CreateEntry, Serves
  <2>2. ThisLine(r).qty \in Int /\ (Regular(ThisLine(r).item) => ThisLine(r).qty >= 0)
    BY <2>1, LineFacts DEF InLine, Regular
  <2>3. /\ \A w \in tx'[r].writes : Fits(w)
        /\ \A n \in DOMAIN tx'[r].made : Within(tx'[r].made[n])
        /\ \A o \in Requests \ {r} : tx'[o] = tx[o]
    BY <2>1, <2>2, AppendWithin DEF TypeInv
  <2> QED BY <2>1, <2>3, NextLineTakes, TakesOn DEF TypeInv, db, Steps
<1>4. CASE AddCreateHeader(r) \/ RefundCreateHeader(r)
  BY <1>4, HeaderTakes DEF AddCreateHeader, RefundCreateHeader, TypeInv
<1>5. CASE RefundSetPrice(r)
  <2>1. Takes(r)
    BY DEF TakesInv
  <2> QED BY <1>5, <2>1, TakesOn DEF RefundSetPrice, TypeInv, Takes, Steps, Finished
<1> QED BY <1>1, <1>2, <1>3, <1>4, <1>5 DEF AddStep, RefundStep

LEMMA WasteTakes ==
  ASSUME TypeInv, TakesInv, NEW r \in Requests, WasteStep(r) \/ ShrinkageStep(r)
  PROVE  TakesInv'
<1>1. CASE WasteRead(r) \/ ShrinkageRead(r)
  BY <1>1, ReadTakes DEF WasteRead, ShrinkageRead, Serves, InLine, TypeInv
<1>2. CASE WasteSetQty(r) \/ ShrinkageSetQty(r)
  <2>1. /\ pc[r] \in {"write", "drain"} /\ call[r].kind \in {"WASTE", "SHRINKAGE"}
        /\ \/ /\ Set(r, ThisLine(r).item, local[r].seen - ThisLine(r).qty)
              /\ NextLine(r)
              /\ UNCHANGED <<db, call, kept, floats>>
           \/ Retry(r, ThisLine(r).item)
    BY <1>2 DEF WasteSetQty, ShrinkageSetQty, Serves
  <2>2. ThisLine(r).item \in StockItems
    BY <2>1, LineFacts DEF InLine
  <2> QED BY <2>1, <2>2, SetQtyTakes, RetryTakes DEF TypeInv
<1>3. CASE ShrinkageFind(r)
  <2>1. ThisLine(r).qty >= 0
    BY <1>3, LineFacts DEF ShrinkageFind, Serves, InLine
  <2> QED BY <1>3, <2>1, FindTakes DEF ShrinkageFind, OpenEntries, TypeInv
<1>4. CASE ShrinkageDrain(r)
  BY <1>4, ConsumeTakes, RetryTakes DEF ShrinkageDrain, Serves, TypeInv, Oldest
<1>5. CASE WasteCreateHeader(r) \/ ShrinkageCreateHeader(r)
  BY <1>5, HeaderTakes DEF WasteCreateHeader, ShrinkageCreateHeader, TypeInv
<1> QED BY <1>1, <1>2, <1>3, <1>4, <1>5 DEF WasteStep, ShrinkageStep

LEMMA AuditTakes ==
  ASSUME TypeInv, TakesInv, NEW r \in Requests, AuditStep(r)
  PROVE  TakesInv'
<1>1. CASE AuditRead(r)
  <2> DEFINE n == qtyOnHand[ThisLine(r).item]
             at == IF ThisLine(r).qty > n THEN "create" ELSE "find"
  <2>1. pc[r] = "read" /\ ReadQtyOnHand(r, n = ThisLine(r).qty, at)
    BY <1>1 DEF AuditRead, Serves
  <2>2. CASE Throw(r)
    BY <2>2, ThrowTakes DEF TypeInv
  <2>3. CASE ~Throw(r)
    <3>1. ThisLine(r).item \in StockItems
      BY <2>1, <2>3 DEF ReadQtyOnHand
    <3>2. n \in Int /\ ThisLine(r).qty \in Int
      BY <2>1, <3>1, LineFacts DEF InLine, TypeInv, TypeOK
    <3>3. at \in InLine /\ (n # ThisLine(r).qty =>
            (at = "create" => ThisLine(r).qty > n) /\ (at = "find" => ThisLine(r).qty < n))
      BY <3>2 DEF InLine
    <3> HIDE DEF at
    <3> QED BY <2>1, <3>3, ReadTakes DEF TypeInv
  <2> QED BY <2>2, <2>3
<1>2. CASE AuditCreateEntry(r)
  <2>1. /\ pc[r] = "create" /\ call[r].kind = "AUDIT"
        /\ AppendEntry(r, ThisLine(r).item, ThisLine(r).qty - local[r].seen,
                       <<kept[r].attempt, local[r].line>>)
        /\ Goto(r, "drain")
        /\ UNCHANGED <<db, call, local, floats>>
    BY <1>2 DEF AuditCreateEntry, CreateEntry, Serves
  <2>2. Takes(r) /\ ThisLine(r).qty > local[r].seen
    BY <2>1 DEF TakesInv, Takes
  <2>3. ThisLine(r).qty - local[r].seen \in Int /\ ThisLine(r).qty - local[r].seen >= 0
    BY <2>1, <2>2, LineFacts DEF InLine
  <2>4. /\ \A w \in tx'[r].writes : Fits(w)
        /\ \A n \in DOMAIN tx'[r].made : Within(tx'[r].made[n])
        /\ \A o \in Requests \ {r} : tx'[o] = tx[o]
    <3> DEFINE more == ThisLine(r).qty - local[r].seen
    <3>1. AppendEntry(r, ThisLine(r).item, more, <<kept[r].attempt, local[r].line>>)
      BY <2>1
    <3>2. more \in Int /\ more >= 0
      BY <2>3
    <3> HIDE DEF more
    <3> QED BY <3>1, <3>2, AppendWithin DEF TypeInv
  <2> QED BY <2>1, <2>2, <2>4, TakesOn DEF TypeInv, Takes, db, Steps
<1>3. CASE AuditFind(r)
  <2>1. pc[r] = "find" /\ call[r].kind = "AUDIT"
    BY <1>3 DEF AuditFind, Serves
  <2>2. local[r].seen - ThisLine(r).qty >= 0
    BY <2>1, LineFacts DEF TakesInv, Takes, InLine
  <2> QED BY <1>3, <2>2, FindTakes DEF AuditFind, OpenEntries, TypeInv
<1>4. CASE AuditDrain(r)
  BY <1>4, ConsumeTakes, RetryTakes DEF AuditDrain, Serves, TypeInv, Oldest
<1>5. CASE AuditSetQty(r)
  <2>1. ThisLine(r).item \in StockItems
    BY <1>5, LineFacts DEF AuditSetQty, Serves, InLine
  <2> QED BY <1>5, <2>1, SetQtyTakes, RetryTakes DEF AuditSetQty, TypeInv
<1>6. CASE AuditCreateHeader(r)
  BY <1>6, HeaderTakes DEF AuditCreateHeader, TypeInv
<1> QED BY <1>1, <1>2, <1>3, <1>4, <1>5, <1>6 DEF AuditStep

LEMMA ReleaseTakes ==
  ASSUME TypeInv, TakesInv, NEW r \in Requests, ReleaseStep(r)
  PROVE  TakesInv'
<1>1. CASE ReleaseCheck(r)
  BY <1>1, ReadTakes DEF ReleaseCheck, Serves, InLine, TypeInv
<1>2. CASE ReleaseFind(r)
  <2>1. Regular(ThisLine(r).item) => ThisLine(r).qty >= 0
    BY <1>2, LineFacts DEF ReleaseFind, Serves, InLine, Regular
  <2> DEFINE ns == IF Pricing[ThisLine(r).item] = "EXPIRY" THEN {} ELSE OpenEntries(ThisLine(r).item)
  <2>2. ns \in SUBSET DOMAIN ledger /\ \A n \in ns : ledger[n].item = ThisLine(r).item
    BY DEF OpenEntries
  <2>3. Find(r, ThisLine(r).qty, ns) /\ Goto(r, "drain")
    BY <1>2 DEF ReleaseFind
  <2> HIDE DEF ns
  <2> QED BY <2>1, <2>2, <2>3, FindTakes DEF TypeInv
<1>3. CASE ReleaseDrain(r)
  BY <1>3, ConsumeTakes, RetryTakes DEF ReleaseDrain, Serves, TypeInv, Oldest, Newest
<1>4. CASE ReleaseSpawn(r)
  <2>1. NextLine(r) /\ UNCHANGED <<ledger, call, tx>>
    BY <1>4 DEF ReleaseSpawn, db
  <2>2. Takes(r)
    BY DEF TakesInv
  <2> QED BY <2>1, <2>2, NextLineTakes, TakesOn DEF TypeInv, Takes, Steps
<1>5. CASE ReleaseCreateHeader(r)
  <2>1. Takes(r)
    BY DEF TakesInv
  <2> QED BY <1>5, <2>1, TakesOn DEF ReleaseCreateHeader, TypeInv, Takes, Steps
<1> QED BY <1>1, <1>2, <1>3, <1>4, <1>5 DEF ReleaseStep

\* The whole reversal empties entries; the partial one is of a spoilt item.
LEMMA ReverseTakes ==
  ASSUME TypeInv, TakesInv, NEW r \in Requests, ReverseStep(r)
  PROVE  TakesInv'
<1>1. Takes(r)
  BY DEF TakesInv
<1>0. call[r].kind = "REVERSE" /\ pc[r] \in InLine => ~Regular(ThisLine(r).item)
  BY LineFacts DEF Regular
<1>6. CASE ReverseFind(r)
  <2> DEFINE ns == {n \in DOMAIN ledger : /\ ledger[n].ref = call[r].target
                                          /\ ledger[n].item = ThisLine(r).item}
             first == {n \in ns : \A m \in ns : n <= m}
  <2>1. CASE Throw(r)
    BY <2>1, ThrowTakes DEF TypeInv
  <2>2. CASE ~Throw(r)
    <3>1. Find(r, ThisLine(r).qty, first) /\ Goto(r, "write")
      BY <1>6, <2>2 DEF ReverseFind
    <3>2. ~Regular(ThisLine(r).item)
      BY <1>0, <1>6 DEF ReverseFind, Serves, InLine
    <3>3. first \in SUBSET DOMAIN ledger /\ \A n \in first : ledger[n].item = ThisLine(r).item
      OBVIOUS
    <3> HIDE DEF first
    <3> QED BY <3>1, <3>2, <3>3, FindTakes DEF TypeInv
  <2> QED BY <2>1, <2>2
<1>7. CASE ReverseSetRemaining(r)
  <2>1. PICK d \in local[r].docs :
          \/ /\ Set(r, d.at, d.rem - ThisLine(r).qty)
             /\ NextLine(r)
             /\ UNCHANGED <<db, call>>
          \/ Retry(r, d.at)
    BY <1>7 DEF ReverseSetRemaining
  <2>2. CASE Retry(r, d.at)
    BY <2>2, RetryTakes DEF TypeInv
  <2>3. CASE /\ Set(r, d.at, d.rem - ThisLine(r).qty)
             /\ NextLine(r)
             /\ UNCHANGED <<db, call>>
    <3>1. Copied(d) /\ d.item = ThisLine(r).item /\ ~Regular(d.item)
      BY <1>0, <1>1, <1>7 DEF Takes, ReverseSetRemaining, Serves, InLine
    <3>2. d.at \in DOMAIN ledger /\ ~Regular(ledger[d.at].item)
      BY <3>1 DEF Copied
    <3>3. /\ \A w \in tx'[r].writes : Fits(w)
          /\ \A n \in DOMAIN tx'[r].made : Within(tx'[r].made[n])
          /\ \A o \in Requests \ {r} : tx'[o] = tx[o]
      BY <2>3, <3>2, SetFits DEF TypeInv
    <3>4. call[r].kind = "REVERSE"
      BY <1>7 DEF ReverseSetRemaining, Serves
    <3> QED BY <2>3, <3>3, <3>4, NextLineTakes, TakesOn DEF TypeInv, db, Steps
  <2> QED BY <2>1, <2>2, <2>3
<1>2. CASE ReverseAllFind(r)
  <2>1. {n \in DOMAIN ledger : ledger[n].ref = call[r].target} \in SUBSET DOMAIN ledger
    OBVIOUS
  <2> QED BY <1>2, <2>1, FindTakes DEF ReverseAllFind, Serves, TypeInv
<1>3. CASE ReverseAllSetRemaining(r)
  <2>1. PICK d \in local[r].docs :
          \/ /\ Set(r, d.at, 0)
             /\ local' = [local EXCEPT ![r].docs = @ \ {d}]
             /\ UNCHANGED <<db, call, pc>>
          \/ Retry(r, d.at)
    BY <1>3 DEF ReverseAllSetRemaining, Oldest
  <2>2. CASE Retry(r, d.at)
    BY <2>2, RetryTakes DEF TypeInv
  <2>3. CASE /\ Set(r, d.at, 0)
             /\ local' = [local EXCEPT ![r].docs = @ \ {d}]
             /\ UNCHANGED <<db, call, pc>>
    <3>1. Copied(d)
      BY <1>1 DEF Takes
    <3>2. ledger[d.at] \in Entry /\ d.at \in DOMAIN ledger
      BY <3>1 DEF Copied, TypeInv, TypeOK
    <3>3. Regular(ledger[d.at].item) => 0 \in 0 .. ledger[d.at].qty
      BY <3>1, <3>2 DEF Copied, Entry
    <3>4. /\ \A w \in tx'[r].writes : Fits(w)
          /\ \A n \in DOMAIN tx'[r].made : Within(tx'[r].made[n])
          /\ \A o \in Requests \ {r} : tx'[o] = tx[o]
      BY <2>3, <3>2, <3>3, SetFits DEF TypeInv
    <3>5. /\ local'[r].docs \subseteq local[r].docs /\ local'[r].left = local[r].left
          /\ local'[r].line = local[r].line
          /\ \A o \in Requests \ {r} : local'[o] = local[o]
      BY <2>3 DEF TypeInv, TypeOK, Local
    <3>6. pc[r] = "write" /\ call[r].kind = "REVERSE_ALL"
      BY <1>3 DEF ReverseAllSetRemaining, Serves
    <3> QED BY <1>1, <2>3, <3>4, <3>5, <3>6, TakesOn DEF TypeInv, Takes, Steps, db
  <2> QED BY <2>1, <2>2, <2>3
<1>4. CASE ReverseAllEnd(r)
  BY <1>1, <1>4, TakesOn DEF ReverseAllEnd, TypeInv, Takes, Steps, db
<1>5. CASE ReverseCreateHeader(r)
  BY <1>5, HeaderTakes DEF ReverseCreateHeader, TypeInv
<1> QED BY <1>2, <1>3, <1>4, <1>5, <1>6, <1>7 DEF ReverseStep

\* Entries keep their places and quantities when a commit writes what remains of them.
LEMMA CommitTakes ==
  ASSUME TypeOK, TakesInv, NEW r \in Requests, Commit(r)
  PROVE  TakesInv'
<1> DEFINE old == [n \in DOMAIN ledger |-> [ledger[n] EXCEPT
             !.qtyRemaining = Written(tx[r].writes, n, ledger[n].qtyRemaining)]]
           made == tx[r].made
<1>1. /\ pc[r] = "commit" /\ ledger' = old \o made
      /\ tx' = [o \in Requests |-> IF o = r THEN NoTx ELSE Missed(o, Wrote(r))]
      /\ UNCHANGED <<call, local>>
  BY DEF Commit
<1>2. ledger \in Seq(Entry) /\ made \in Seq(Entry)
  BY DEF TypeOK, Tx
<1>3. /\ Len(ledger) \in Nat /\ Len(made) \in Nat
      /\ DOMAIN ledger = 1 .. Len(ledger) /\ DOMAIN made = 1 .. Len(made)
      /\ \A k \in DOMAIN ledger : ledger[k] \in Entry
  BY <1>2
<1>4. ASSUME NEW k \in DOMAIN ledger
      PROVE  /\ old[k] \in Entry /\ old[k].qty = ledger[k].qty
             /\ old[k].item = ledger[k].item /\ Within(old[k])
  <2> DEFINE w == Written(tx[r].writes, k, ledger[k].qtyRemaining)
  <2>1. ledger[k] \in Entry /\ Within(ledger[k]) /\ k \in Nat
    BY <1>3 DEF TakesInv
  <2>2. Regular(ledger[k].item) => w \in 0 .. ledger[k].qty
    <3>1. \A x \in tx[r].writes : Fits(x)
      BY DEF TakesInv, Takes
    <3> QED BY <2>1, <3>1 DEF Written, Fits, Within
  <2>4. w \in Int
    BY <2>1, WrittenType DEF Entry, TypeOK, Tx
  <2> HIDE DEF w
  <2>3. old[k] = [ledger[k] EXCEPT !.qtyRemaining = w]
    BY DEF w
  <2> HIDE DEF old
  <2> QED BY <2>1, <2>2, <2>3, <2>4 DEF Entry, Within
<1>5. old \in Seq(Entry) /\ Len(old) = Len(ledger)
  <2>1. old \in [1 .. Len(ledger) -> Entry]
    BY <1>3, <1>4
  <2> QED BY <1>3, <2>1, SeqDef
<1> HIDE DEF old
<1>6. \A k \in DOMAIN ledger : k \in DOMAIN ledger' /\ ledger'[k] = old[k]
  BY <1>1, <1>2, <1>3, <1>5
<1>7. \A k \in DOMAIN ledger' : k \in DOMAIN ledger \/ \E n \in DOMAIN made : ledger'[k] = made[n]
  <2> SUFFICES ASSUME NEW k \in DOMAIN ledger', k \notin DOMAIN ledger
               PROVE  \E n \in DOMAIN made : ledger'[k] = made[n]
    OBVIOUS
  <2>1. k \in 1 .. Len(old) + Len(made) /\ ~(k \in 1 .. Len(old))
    BY <1>1, <1>2, <1>3, <1>5
  <2>2. k - Len(old) \in DOMAIN made /\ ledger'[k] = made[k - Len(old)]
    BY <1>1, <1>2, <1>3, <1>5, <2>1
  <2> QED BY <2>2
<1>8. \A n \in DOMAIN made : Within(made[n])
  BY DEF TakesInv, Takes
<1>9. ASSUME NEW k \in DOMAIN ledger' PROVE Within(ledger'[k])
  BY <1>4, <1>6, <1>7, <1>8
<1>10. PICK at \in {"price", "done"} : Goto(r, at)
  BY DEF Commit
<1>11. pc'[r] = at /\ \A o \in Requests \ {r} : pc'[o] = pc[o]
  BY <1>10, GotoType DEF Steps, Finished
<1>12. ASSUME NEW o \in Requests PROVE Takes(o)'
  <2>1. Takes(o)
    BY DEF TakesInv
  <2>2. \/ tx'[o].writes = {} /\ tx'[o].made = <<>>
        \/ tx'[o].writes = tx[o].writes /\ tx'[o].made = tx[o].made
    BY <1>1 DEF NoTx, Missed, TypeOK, Tx
  <2>3. \A w \in tx'[o].writes : Fits(w)'
    BY <1>1, <1>4, <1>6, <2>1, <2>2, RegularSame DEF Takes, Fits
  <2>4. \A n \in DOMAIN tx'[o].made : Within(tx'[o].made[n])
    BY <2>1, <2>2 DEF Takes
  <2>5. ASSUME NEW d \in local'[o].docs PROVE Copied(d)'
    <3>1. Copied(d)
      BY <1>1, <2>1 DEF Takes
    <3>2. d.at \in DOMAIN ledger' /\ ledger'[d.at].item = ledger[d.at].item
             /\ ledger'[d.at].qty = ledger[d.at].qty
      BY <1>4, <1>6, <3>1 DEF Copied
    <3>3. Regular(d.item)' <=> Regular(d.item)
      BY <1>1, RegularSame
    <3> QED BY <3>1, <3>2, <3>3 DEF Copied
  <2>6. pc'[o] \in {"idle", "create", "find"} => pc'[o] = pc[o]
    BY <1>11
  <2> QED BY <1>1, <2>1, <2>3, <2>4, <2>5, <2>6, RegularSame DEF Takes, Within, ThisLine
<1> QED BY <1>1, <1>9, <1>12, RegularSame DEF TakesInv, Within

LEMMA ExitTakes ==
  ASSUME TypeOK, TakesInv, ProcessExit
  PROVE  TakesInv'
<1>1. ASSUME NEW o \in Requests PROVE Takes(o)'
  <2>1. /\ Takes(o) /\ tx'[o].writes = {} /\ tx'[o].made = <<>>
        /\ UNCHANGED <<ledger, call, local>> /\ (pc'[o] = pc[o] \/ pc'[o] = "crashed")
    BY DEF TakesInv, ProcessExit, NoTx, db
  <2> QED BY <2>1, RegularSame DEF Takes, Copied, ThisLine
<1> QED BY <1>1, RegularSame DEF TakesInv, ProcessExit, db, Within

LEMMA FloatTakes ==
  ASSUME TypeOK, TakesInv, NEW r \in Requests, Floating(r)
  PROVE  TakesInv'
<1>1. ASSUME UNCHANGED <<ledger, pc, call, local>>,
             \A o \in Requests : /\ \A w \in tx'[o].writes : Fits(w)
                                 /\ \A n \in DOMAIN tx'[o].made : Within(tx'[o].made[n])
      PROVE  TakesInv'
  BY <1>1, RegularSame DEF TakesInv, Takes, Fits, Copied, Within, ThisLine
<1>2. \A o \in Requests : /\ \A w \in tx[o].writes : Fits(w)
                          /\ \A n \in DOMAIN tx[o].made : Within(tx[o].made[n])
  BY DEF TakesInv, Takes
<1>3. CASE DecreaseTotalQtyRead(r)
  BY <1>1, <1>2, <1>3 DEF DecreaseTotalQtyRead, db
<1>4. CASE DecreaseTotalQtyWrite(r)
  <2>1. PICK f \in floats[r] :
          \/ Set(r, f.item, f.to) /\ UNCHANGED <<db, pc, call, local, kept>>
          \/ /\ tx' = [o \in Requests |-> Missed(o, {f.item})]
             /\ UNCHANGED <<ledger, headers, charged, pc, call, local, kept>>
          \/ ProcessExit
    BY <1>4 DEF DecreaseTotalQtyWrite
  <2>2. CASE Set(r, f.item, f.to) /\ UNCHANGED <<db, pc, call, local, kept>>
    <3>1. f.item \notin Nat
      BY NamesAssumption DEF TypeOK, Float
    <3> QED BY <1>1, <1>2, <2>2, <3>1, SetFits DEF db
  <2>3. CASE /\ tx' = [o \in Requests |-> Missed(o, {f.item})]
             /\ UNCHANGED <<ledger, headers, charged, pc, call, local, kept>>
    <3>1. \A o \in Requests : tx'[o].writes = tx[o].writes /\ tx'[o].made = tx[o].made
      BY <2>3 DEF Missed, TypeOK, Tx
    <3> QED BY <1>1, <1>2, <2>3, <3>1
  <2> QED BY <2>1, <2>2, <2>3, ExitTakes
<1> QED BY <1>3, <1>4 DEF Floating

LEMMA ArriveTakes ==
  ASSUME TypeInv, TakesInv, NEW r \in Requests, NEW kind \in Kinds, Arrive(r, kind)
  PROVE  TakesInv'
<1>1. /\ pc[r] = "idle" /\ pc'[r] = "read" /\ \A o \in Requests \ {r} : pc'[o] = pc[o]
  BY GotoType DEF Arrive, Steps, TypeInv
<1>2. PICK lines, target :
        call' = [call EXCEPT ![r] = [kind |-> kind, lines |-> lines, target |-> target]]
  BY DEF Arrive
<1>3. \A o \in Requests \ {r} : call'[o] = call[o]
  BY <1>2 DEF TypeInv, TypeOK
<1>4. UNCHANGED <<ledger, local, tx>>
  BY DEF Arrive, db
<1>5. \A i : Regular(i)' => Regular(i)
  BY SignsArrive DEF Regular
<1>6. /\ \A e : Within(e) => Within(e)'
      /\ \A w : Fits(w) => Fits(w)'
      /\ \A d : Copied(d) => Copied(d)'
  BY <1>4, <1>5 DEF Within, Fits, Copied
<1>7. ASSUME NEW o \in Requests PROVE Takes(o)'
  <2>1. Takes(o)
    BY DEF TakesInv
  <2>2. CASE o = r
    BY <1>1, <1>4, <1>6, <2>1, <2>2 DEF Takes
  <2>3. CASE o # r
    BY <1>1, <1>3, <1>4, <1>5, <1>6, <2>1, <2>3 DEF Takes, ThisLine
  <2> QED BY <2>2, <2>3
<1> QED BY <1>4, <1>6, <1>7 DEF TakesInv

LEMMA InitTakes == Init => TakesInv
<1> SUFFICES ASSUME Init PROVE TakesInv
  OBVIOUS
<1>1. ASSUME NEW n \in DOMAIN ledger PROVE Within(ledger[n])
  <2>1. n \in DOMAIN OpeningLines /\ OpeningLines \in Seq([item: StockItems, qty: Nat])
    BY OpeningAssumption DEF Init
  <2>2. OpeningLines[n] \in [item: StockItems, qty: Nat]
    <3> DEFINE L == [item: StockItems, qty: Nat]
    <3> HIDE DEF L
    <3>1. OpeningLines \in Seq(L) /\ n \in DOMAIN OpeningLines
      BY <2>1 DEF L
    <3>2. OpeningLines[n] \in L
      BY <3>1
    <3> QED BY <3>2 DEF L
  <2>3. OpeningLines[n].qty \in Nat
    BY <2>2
  <2> QED BY <2>1, <2>3 DEF Init, Within
<1>2. ASSUME NEW r \in Requests PROVE Takes(r)
  BY DEF Init, Takes, NoTx, NoLocal, NoCall
<1> QED BY <1>1, <1>2 DEF TakesInv

LEMMA NextTakes == WithinInv /\ [Next]_vars => WithinInv'
<1> SUFFICES ASSUME WithinInv, [Next]_vars PROVE WithinInv'
  OBVIOUS
<1>1. TypeInv' /\ TypeInv /\ TypeOK
  BY NextType DEF WithinInv, TypeInv
<1> SUFFICES TakesInv'
  BY <1>1 DEF WithinInv
<1>2. TakesInv
  BY DEF WithinInv
<1>3. CASE UNCHANGED vars
  BY <1>2, <1>3, RegularSame DEF vars, TakesInv, Takes, Fits, Copied, Within, ThisLine
<1>4. ASSUME NEW r \in Requests, NEW kind \in Kinds, Arrive(r, kind) PROVE TakesInv'
  BY <1>1, <1>2, <1>4, ArriveTakes
<1>5. ASSUME NEW r \in Requests, Handler(r) PROVE TakesInv'
  BY <1>1, <1>2, <1>5, AddTakes, WasteTakes, AuditTakes, ReleaseTakes, ReverseTakes,
     CommitTakes DEF Handler
<1>6. ASSUME NEW r \in Requests, Floating(r) PROVE TakesInv'
  BY <1>1, <1>2, <1>6, FloatTakes
<1>7. CASE ProcessExit
  BY <1>1, <1>2, <1>7, ExitTakes
<1> QED BY <1>3, <1>4, <1>5, <1>6, <1>7 DEF Next

\* The ledger never owes stock of an item that no call named with a negative
\* quantity or reversed in part: whatever overlaps, is retried or cut off, a
\* request takes from an entry what it has, or less.
THEOREM LedgerNeverOwes == Spec => []EntriesWithinQty
<1>1. Init => WithinInv
  BY InitType, InitTakes DEF WithinInv
<1>2. WithinInv => EntriesWithinQty
  BY DEF WithinInv, TakesInv, Within, Regular, EntriesWithinQty
<1> QED BY <1>1, <1>2, NextTakes, PTL DEF Spec

-----------------------------------------------------------------------------
(* Billing *)

\* The handlers that sum what they bill outside of the callback.
Carriers == {"REFUND", "REVERSE"}

\* What a request whose callback was called once has billed, where it stands.
Billed(r) ==
  /\ pc[r] = "idle" => charged[r] = 0 /\ tx[r].bill = 0 /\ kept[r].carried = 0
  /\ (kept[r].attempt = 1 /\ call[r].kind # "REVERSE_ALL") =>
    /\ pc[r] \in InLine \union {"header"} => charged[r] = 0 /\ tx[r].bill = 0
    /\ pc[r] \in InLine /\ call[r].kind \in Carriers => kept[r].carried = local[r].line - 1
    /\ pc[r] \in {"header", "commit", "price"} /\ call[r].kind \in Carriers =>
         kept[r].carried = Len(call[r].lines)
    /\ pc[r] = "commit" /\ call[r].kind # "REFUND" =>
         charged[r] + tx[r].bill = Len(call[r].lines)
    /\ pc[r] = "price" => call[r].kind = "REFUND"
    /\ pc[r] = "done" => charged[r] = Len(call[r].lines)

BillInv == \A r \in Requests : Billed(r)

\* A step of one request.
LEMMA BillStep ==
  ASSUME BillInv, NEW r \in Requests, UNCHANGED call,
         \A o \in Requests \ {r} :
           /\ pc'[o] = pc[o] /\ charged'[o] = charged[o] /\ kept'[o] = kept[o]
           /\ tx'[o].bill = tx[o].bill /\ local'[o].line = local[o].line,
         Billed(r)'
  PROVE  BillInv'
<1>1. ASSUME NEW o \in Requests \ {r} PROVE Billed(o)'
  BY DEF BillInv, Billed
<1> QED BY <1>1 DEF BillInv

\* A step inside a line, or out of the handler.
LEMMA BillStay ==
  ASSUME TypeOK, BillInv, NEW r \in Requests, UNCHANGED <<call, charged>>,
         NEW at \in Steps, Goto(r, at) \/ (UNCHANGED pc /\ pc[r] = at),
         \/ at \in InLine /\ pc[r] \in InLine
         \/ at = "failed",
         \A o \in Requests \ {r} :
           kept'[o] = kept[o] /\ tx'[o].bill = tx[o].bill /\ local'[o].line = local[o].line,
         at # "failed" => /\ tx'[r].bill = tx[r].bill /\ local'[r].line = local[r].line
                          /\ kept'[r].attempt = kept[r].attempt /\ kept'[r].carried = kept[r].carried
  PROVE  BillInv'
<1>1. pc'[r] = at /\ \A o \in Requests \ {r} : pc'[o] = pc[o]
  BY GotoType
<1>2. Billed(r)
  BY DEF BillInv
<1>3. Billed(r)'
  BY <1>1, <1>2 DEF Billed, InLine
<1> QED BY <1>1, <1>3, BillStep

\* A line is done; a carrier has counted it.
LEMMA BillNext ==
  ASSUME TypeInv, BillInv, NEW r \in Requests, pc[r] \in InLine, UNCHANGED <<call, charged>>,
         NextLine(r),
         \A o \in Requests \ {r} : kept'[o] = kept[o] /\ tx'[o].bill = tx[o].bill,
         tx'[r].bill = tx[r].bill, kept'[r].attempt = kept[r].attempt,
         call[r].kind \in Carriers => kept'[r].carried = kept[r].carried + 1
  PROVE  BillInv'
<1>1. /\ local[r].line \in Nat /\ Len(call[r].lines) \in Nat /\ kept[r].carried \in Nat
      /\ local[r].line <= Len(call[r].lines)
  BY LineFacts, HeaderLines DEF TypeInv, LineOK
<1>2. local'[r].line = local[r].line + 1 /\ \A o \in Requests \ {r} : local'[o] = local[o]
  <2> DEFINE x == [NoLocal EXCEPT !.line = local[r].line + 1]
  <2>1. x.line = local[r].line + 1 /\ local' = [local EXCEPT ![r] = x]
    BY DEF NoLocal, NextLine
  <2> HIDE DEF x
  <2> QED BY <2>1 DEF TypeInv, TypeOK
<1>3. /\ pc'[r] = IF local[r].line < Len(call[r].lines) THEN "read" ELSE "header"
      /\ \A o \in Requests \ {r} : pc'[o] = pc[o]
  BY GotoType DEF NextLine, TypeInv, Steps
<1>4. Billed(r)
  BY DEF BillInv
<1>6. local[r].line < Len(call[r].lines) \/ local[r].line = Len(call[r].lines)
  BY <1>1
<1>7. local'[r].line - 1 = local[r].line
  BY <1>1, <1>2
<1>8. call[r].kind \in Carriers /\ kept[r].attempt = 1 =>
        kept'[r].carried = local'[r].line - 1
  <2>1. call[r].kind \in Carriers /\ kept[r].attempt = 1 =>
          call[r].kind # "REVERSE_ALL" /\ kept[r].carried = local[r].line - 1
    BY <1>4 DEF Billed, Carriers
  <2> QED BY <1>1, <1>7, <2>1
<1>5. Billed(r)'
  BY <1>1, <1>2, <1>3, <1>4, <1>6, <1>7, <1>8 DEF Billed, InLine
<1> QED BY <1>2, <1>3, <1>5, BillStep

LEMMA SetBill ==
  ASSUME TypeOK, NEW r \in Requests, NEW d, NEW v, Set(r, d, v)
  PROVE  tx'[r].bill = tx[r].bill /\ \A o \in Requests \ {r} : tx'[o] = tx[o]
<1> DEFINE w == Put(tx[r].writes, d, v)
<1>1. tx' = [tx EXCEPT ![r] = [tx[r] EXCEPT !.writes = w, !.open = TRUE]]
  BY DEF Set
<1> HIDE DEF w
<1> QED BY <1>1 DEF TypeOK, Tx

LEMMA AppendBill ==
  ASSUME TypeOK, NEW r \in Requests, NEW i, NEW q, NEW id, AppendEntry(r, i, q, id)
  PROVE  tx'[r].bill = tx[r].bill /\ \A o \in Requests \ {r} : tx'[o] = tx[o]
<1> DEFINE made == Append(tx[r].made, [item |-> i, qty |-> q, qtyRemaining |-> q,
                                       by |-> r, nth |-> id, ref |-> NoRef])
<1>1. tx' = [tx EXCEPT ![r] = [tx[r] EXCEPT !.open = TRUE, !.made = made]]
  BY DEF AppendEntry
<1> HIDE DEF made
<1> QED BY <1>1 DEF TypeOK, Tx

LEMMA ThrowBill ==
  ASSUME TypeOK, BillInv, NEW r \in Requests, Throw(r)
  PROVE  BillInv'
<1>1. \A o \in Requests \ {r} : tx'[o] = tx[o]
  BY DEF Throw, TypeOK
<1> QED BY <1>1, BillStay DEF Throw, Steps, Finished, db

\* After a retry the callback was called more than once.
LEMMA RetryBill ==
  ASSUME TypeOK, BillInv, NEW r \in Requests, NEW d, Retry(r, d)
  PROVE  BillInv'
<1>1. /\ \A o \in Requests \ {r} : tx'[o] = tx[o] /\ local'[o] = local[o]
      /\ UNCHANGED <<call, charged>>
  BY DEF Retry, TypeOK, db
<1>2. CASE Goto(r, "failed") /\ UNCHANGED kept
  BY <1>1, <1>2, BillStay DEF Steps, Finished
<1>3. CASE Goto(r, "read") /\ kept' = [kept EXCEPT ![r].attempt = @ + 1]
  <2>1. kept[r] \in Kept /\ kept[r].attempt \in Nat \ {0}
    BY BoundsAssumption DEF TypeOK, Kept
  <2>2. kept'[r].attempt = kept[r].attempt + 1 /\ \A o \in Requests \ {r} : kept'[o] = kept[o]
    BY <1>3, <2>1 DEF TypeOK, Kept
  <2>3. ~(kept'[r].attempt = 1)
    BY <2>1, <2>2
  <2>4. pc'[r] = "read" /\ \A o \in Requests \ {r} : pc'[o] = pc[o]
    BY <1>3, GotoType DEF Steps
  <2>5. Billed(r)'
    BY <2>3, <2>4 DEF Billed
  <2> QED BY <1>1, <2>2, <2>4, <2>5, BillStep
<1> QED BY <1>2, <1>3 DEF Retry

LEMMA ReadBill ==
  ASSUME TypeOK, BillInv, NEW r \in Requests, pc[r] = "read", NEW refuse, NEW at \in InLine,
         ReadQtyOnHand(r, refuse, at)
  PROVE  BillInv'
<1>1. CASE Throw(r)
  BY <1>1, ThrowBill
<1>2. CASE ~Throw(r)
  <2>1. /\ local' = [local EXCEPT ![r].seen = qtyOnHand[ThisLine(r).item]]
        /\ Goto(r, at) /\ UNCHANGED <<db, call, kept, tx, floats>>
    BY <1>2 DEF ReadQtyOnHand
  <2>2. \A o \in Requests : local'[o].line = local[o].line
    BY <2>1 DEF TypeOK, Local
  <2> QED BY <2>1, <2>2, BillStay DEF InLine, Steps, db
<1> QED BY <1>1, <1>2

LEMMA FindBill ==
  ASSUME TypeOK, BillInv, NEW r \in Requests, pc[r] \in InLine, NEW q, NEW ns,
         Find(r, q, ns), NEW at \in InLine, Goto(r, at)
  PROVE  BillInv'
<1> DEFINE ds == {[at |-> n, item |-> ledger[n].item, qty |-> ledger[n].qty,
                   rem |-> ledger[n].qtyRemaining] : n \in ns}
<1>1. local' = [local EXCEPT ![r] = [local[r] EXCEPT !.left = q, !.docs = ds]]
  BY DEF Find
<1> HIDE DEF ds
<1>2. \A o \in Requests : local'[o].line = local[o].line
  BY <1>1 DEF TypeOK, Local
<1> QED BY <1>2, BillStay DEF Find, InLine, Steps, db

LEMMA ConsumeBill ==
  ASSUME TypeOK, BillInv, NEW r \in Requests, pc[r] = "drain", NEW d, Consume(r, d)
  PROVE  BillInv'
<1>1. /\ UNCHANGED tx \/ \E v : Set(r, d.at, v)
      /\ \E left : local' = [local EXCEPT ![r] = [local[r] EXCEPT
                               !.docs = local[r].docs \ {d}, !.left = left]]
      /\ UNCHANGED <<db, call, kept, floats, pc>>
  BY DEF Consume
<1>2. \A o \in Requests : local'[o].line = local[o].line /\ tx'[o].bill = tx[o].bill
  BY <1>1, SetBill DEF TypeOK, Local
<1> QED BY <1>1, <1>2, BillStay DEF InLine, Steps, db

\* The header is billed for the lines of the dto, or for what was carried.
LEMMA HeaderBill ==
  ASSUME TypeOK, BillInv, NEW r \in Requests, pc[r] = "header", NEW ids, NEW n,
         CreateHeader(r, ids, n),
         n = IF call[r].kind = "REFUND" THEN 0
             ELSE IF call[r].kind \in {"REVERSE", "REVERSE_ALL"} THEN kept[r].carried
             ELSE Len(call[r].lines)
  PROVE  BillInv'
<1> DEFINE made == [k \in DOMAIN tx[r].made |->
              IF tx[r].made[k].nth \in ids
              THEN [tx[r].made[k] EXCEPT !.ref = r] ELSE tx[r].made[k]]
<1>1. tx' = [tx EXCEPT ![r] = [tx[r] EXCEPT
        !.header = TRUE, !.bill = n, !.open = TRUE, !.made = made]]
  BY DEF CreateHeader
<1> HIDE DEF made
<1>2. tx'[r].bill = n /\ \A o \in Requests \ {r} : tx'[o] = tx[o]
  BY <1>1 DEF TypeOK, Tx
<1>3. pc'[r] = "commit" /\ \A o \in Requests \ {r} : pc'[o] = pc[o]
  BY GotoType DEF CreateHeader, Steps
<1>4. UNCHANGED <<call, charged, kept, local>>
  BY DEF CreateHeader, db
<1>5. Billed(r) /\ Len(call[r].lines) \in Nat
  BY DEF BillInv, TypeOK, Call
<1>6. Billed(r)'
  BY <1>2, <1>3, <1>4, <1>5 DEF Billed, Carriers, InLine
<1> QED BY <1>2, <1>3, <1>4, <1>6, BillStep

LEMMA AddBill ==
  ASSUME TypeInv, BillInv, NEW r \in Requests, AddStep(r) \/ RefundStep(r)
  PROVE  BillInv'
<1>1. CASE AddRead(r) \/ RefundRead(r)
  BY <1>1, ReadBill DEF AddRead, RefundRead, Serves, InLine, TypeInv
<1>2. CASE AddSetQty(r) \/ RefundSetQty(r)
  <2>1. /\ pc[r] = "write"
        /\ \/ /\ Set(r, ThisLine(r).item, local[r].seen + ThisLine(r).qty)
              /\ Goto(r, "create")
              /\ UNCHANGED <<db, call, local, kept, floats>>
           \/ Retry(r, ThisLine(r).item)
    BY <1>2 DEF AddSetQty, RefundSetQty, Serves
  <2>2. CASE Retry(r, ThisLine(r).item)
    BY <2>2, RetryBill DEF TypeInv
  <2>3. CASE Set(r, ThisLine(r).item, local[r].seen + ThisLine(r).qty) /\ Goto(r, "create")
               /\ UNCHANGED <<db, call, local, kept, floats>>
    BY <2>1, <2>3, SetBill, BillStay DEF TypeInv, InLine, Steps, db
  <2> QED BY <2>1, <2>2, <2>3
<1>3. CASE AddCreateEntry(r)
  <2> DEFINE id == <<kept[r].attempt, local[r].line>>
  <2>1. /\ pc[r] = "create" /\ call[r].kind = "ADD" /\ NextLine(r)
        /\ UNCHANGED <<db, call, floats>>
        /\ AppendEntry(r, ThisLine(r).item, ThisLine(r).qty, id)
        /\ kept' = [kept EXCEPT ![r].transIds = @ \union {id}]
    BY <1>3 DEF AddCreateEntry, CreateEntry, Serves
  <2> HIDE DEF id
  <2>2. \A o \in Requests : /\ kept'[o].attempt = kept[o].attempt
                            /\ o # r => kept'[o] = kept[o]
    BY <2>1 DEF TypeInv, TypeOK, Kept
  <2> QED BY <2>1, <2>2, AppendBill, BillNext DEF TypeInv, InLine, Carriers, db
<1>4. CASE RefundCreateEntry(r)
  <2> DEFINE id == <<kept[r].attempt, local[r].line>>
             ids == kept[r].transIds \union {id}
             carried == kept[r].carried + 1
  <2>1. /\ pc[r] = "create" /\ NextLine(r) /\ UNCHANGED <<db, call, floats>>
        /\ AppendEntry(r, ThisLine(r).item, ThisLine(r).qty, id)
        /\ kept' = [kept EXCEPT ![r] = [kept[r] EXCEPT !.transIds = ids, !.carried = carried]]
    BY <1>4 DEF RefundCreateEntry, Serves
  <2> HIDE DEF id, ids, carried
  <2>2. /\ kept'[r].attempt = kept[r].attempt /\ kept'[r].carried = carried
        /\ \A o \in Requests \ {r} : kept'[o] = kept[o]
    BY <2>1 DEF TypeInv, TypeOK, Kept
  <2> QED BY <2>1, <2>2, AppendBill, BillNext DEF TypeInv, InLine, carried, db
<1>5. CASE AddCreateHeader(r) \/ RefundCreateHeader(r)
  BY <1>5, HeaderBill DEF AddCreateHeader, RefundCreateHeader, Serves, TypeInv
<1>6. CASE RefundSetPrice(r)
  <2>1. /\ pc[r] = "price" /\ call[r].kind = "REFUND" /\ UNCHANGED <<call, local, kept, tx>>
        /\ charged' = [charged EXCEPT ![r] = kept[r].carried]
        /\ Goto(r, "done")
    BY <1>6 DEF RefundSetPrice, Serves
  <2>2. pc'[r] = "done" /\ \A o \in Requests \ {r} : pc'[o] = pc[o]
    BY <2>1, GotoType DEF TypeInv, Steps, Finished
  <2>3. charged'[r] = kept[r].carried /\ \A o \in Requests \ {r} : charged'[o] = charged[o]
    BY <2>1 DEF TypeInv, TypeOK
  <2>4. Billed(r)
    BY DEF BillInv
  <2>5. Billed(r)'
    BY <2>1, <2>2, <2>3, <2>4 DEF Billed, InLine, Carriers
  <2> QED BY <2>1, <2>2, <2>3, <2>5, BillStep
<1> QED BY <1>1, <1>2, <1>3, <1>4, <1>5, <1>6 DEF AddStep, RefundStep

LEMMA WasteBill ==
  ASSUME TypeInv, BillInv, NEW r \in Requests, WasteStep(r) \/ ShrinkageStep(r)
  PROVE  BillInv'
<1>1. CASE WasteRead(r) \/ ShrinkageRead(r)
  BY <1>1, ReadBill DEF WasteRead, ShrinkageRead, Serves, InLine, TypeInv
<1>2. CASE WasteSetQty(r) \/ ShrinkageSetQty(r)
  <2>1. /\ pc[r] \in InLine /\ call[r].kind \notin Carriers
        /\ \/ /\ Set(r, ThisLine(r).item, local[r].seen - ThisLine(r).qty)
              /\ NextLine(r)
              /\ UNCHANGED <<db, call, kept, floats>>
           \/ Retry(r, ThisLine(r).item)
    BY <1>2 DEF WasteSetQty, ShrinkageSetQty, Serves, InLine, Carriers
  <2>2. CASE Retry(r, ThisLine(r).item)
    BY <2>2, RetryBill DEF TypeInv
  <2>3. CASE Set(r, ThisLine(r).item, local[r].seen - ThisLine(r).qty) /\ NextLine(r)
               /\ UNCHANGED <<db, call, kept, floats>>
    BY <2>1, <2>3, SetBill, BillNext DEF TypeInv, db
  <2> QED BY <2>1, <2>2, <2>3
<1>3. CASE ShrinkageFind(r)
  BY <1>3, FindBill DEF ShrinkageFind, Serves, InLine, TypeInv
<1>4. CASE ShrinkageDrain(r)
  BY <1>4, ConsumeBill, RetryBill DEF ShrinkageDrain, Serves, TypeInv
<1>5. CASE WasteCreateHeader(r) \/ ShrinkageCreateHeader(r)
  BY <1>5, HeaderBill DEF WasteCreateHeader, ShrinkageCreateHeader, Serves, TypeInv
<1> QED BY <1>1, <1>2, <1>3, <1>4, <1>5 DEF WasteStep, ShrinkageStep

LEMMA AuditBill ==
  ASSUME TypeInv, BillInv, NEW r \in Requests, AuditStep(r)
  PROVE  BillInv'
<1>1. CASE AuditRead(r)
  BY <1>1, ReadBill DEF AuditRead, Serves, InLine, TypeInv
<1>2. CASE AuditCreateEntry(r)
  <2> DEFINE id == <<kept[r].attempt, local[r].line>>
  <2>1. /\ pc[r] = "create" /\ Goto(r, "drain")
        /\ UNCHANGED <<db, call, local, floats>>
        /\ AppendEntry(r, ThisLine(r).item, ThisLine(r).qty - local[r].seen, id)
        /\ kept' = [kept EXCEPT ![r].transIds = @ \union {id}]
    BY <1>2 DEF AuditCreateEntry, CreateEntry, Serves
  <2> HIDE DEF id
  <2>2. \A o \in Requests : /\ kept'[o].attempt = kept[o].attempt
                            /\ kept'[o].carried = kept[o].carried
                            /\ o # r => kept'[o] = kept[o]
    BY <2>1 DEF TypeInv, TypeOK, Kept
  <2> QED BY <2>1, <2>2, AppendBill, BillStay DEF TypeInv, InLine, Steps, db
<1>3. CASE AuditFind(r)
  BY <1>3, FindBill DEF AuditFind, Serves, InLine, TypeInv
<1>4. CASE AuditDrain(r)
  BY <1>4, ConsumeBill, RetryBill DEF AuditDrain, Serves, TypeInv
<1>5. CASE AuditSetQty(r)
  <2>1. /\ pc[r] = "drain" /\ call[r].kind = "AUDIT"
        /\ \/ /\ Set(r, ThisLine(r).item, ThisLine(r).qty)
              /\ NextLine(r)
              /\ UNCHANGED <<db, call, kept, floats>>
           \/ Retry(r, ThisLine(r).item)
    BY <1>5 DEF AuditSetQty, Serves
  <2>2. CASE Retry(r, ThisLine(r).item)
    BY <2>2, RetryBill DEF TypeInv
  <2>3. CASE Set(r, ThisLine(r).item, ThisLine(r).qty) /\ NextLine(r)
               /\ UNCHANGED <<db, call, kept, floats>>
    BY <2>1, <2>3, SetBill, BillNext DEF TypeInv, InLine, Carriers, db
  <2> QED BY <2>1, <2>2, <2>3
<1>6. CASE AuditCreateHeader(r)
  BY <1>6, HeaderBill DEF AuditCreateHeader, Serves, TypeInv
<1> QED BY <1>1, <1>2, <1>3, <1>4, <1>5, <1>6 DEF AuditStep

\* A release bills as it creates its header, before the commit.
LEMMA ReleaseBill ==
  ASSUME TypeInv, BillInv, NEW r \in Requests, ReleaseStep(r)
  PROVE  BillInv'
<1>1. CASE ReleaseCheck(r)
  BY <1>1, ReadBill DEF ReleaseCheck, Serves, InLine, TypeInv
<1>2. CASE ReleaseFind(r)
  BY <1>2, FindBill DEF ReleaseFind, Serves, InLine, TypeInv
<1>3. CASE ReleaseDrain(r)
  BY <1>3, ConsumeBill, RetryBill DEF ReleaseDrain, Serves, TypeInv
<1>4. CASE ReleaseSpawn(r)
  BY <1>4, BillNext DEF ReleaseSpawn, Serves, InLine, Carriers, db
<1>5. CASE ReleaseCreateHeader(r)
  <2>1. /\ pc[r] = "header" /\ call[r].kind = "RELEASE" /\ UNCHANGED <<call, local, kept, tx>>
        /\ charged' = [charged EXCEPT ![r] = @ + Len(call[r].lines)]
        /\ Goto(r, "commit")
    BY <1>5 DEF ReleaseCreateHeader, Serves
  <2>2. pc'[r] = "commit" /\ \A o \in Requests \ {r} : pc'[o] = pc[o]
    BY <2>1, GotoType DEF TypeInv, Steps
  <2>3. /\ charged'[r] = charged[r] + Len(call[r].lines)
        /\ \A o \in Requests \ {r} : charged'[o] = charged[o]
    BY <2>1 DEF TypeInv, TypeOK
  <2>4. Billed(r) /\ Len(call[r].lines) \in Nat
    BY HeaderLines DEF BillInv
  <2>5. Billed(r)'
    BY <2>1, <2>2, <2>3, <2>4 DEF Billed, InLine, Carriers
  <2> QED BY <2>1, <2>2, <2>3, <2>5, BillStep
<1> QED BY <1>1, <1>2, <1>3, <1>4, <1>5 DEF ReleaseStep

\* A whole reversal is billed for the entries, of which nothing is said.
LEMMA ReverseBill ==
  ASSUME TypeInv, BillInv, NEW r \in Requests, ReverseStep(r)
  PROVE  BillInv'
<1>1. ASSUME call[r].kind = "REVERSE_ALL", pc'[r] # "idle", UNCHANGED <<call, charged>>,
             \A o \in Requests \ {r} : /\ pc'[o] = pc[o] /\ kept'[o] = kept[o]
                                       /\ tx'[o] = tx[o] /\ local'[o] = local[o]
      PROVE  BillInv'
  <2>1. Billed(r)'
    BY <1>1 DEF Billed
  <2> QED BY <1>1, <2>1, BillStep
<1>2. CASE ReverseFind(r)
  BY <1>2, FindBill, ThrowBill DEF ReverseFind, Serves, InLine, TypeInv
<1>3. CASE ReverseSetRemaining(r)
  <2>1. pc[r] = "write"
    BY <1>3 DEF ReverseSetRemaining, Serves
  <2>2. PICK d \in local[r].docs :
          \/ /\ Set(r, d.at, d.rem - ThisLine(r).qty)
             /\ kept' = [kept EXCEPT ![r].carried = @ + 1]
             /\ NextLine(r)
             /\ UNCHANGED <<db, call>>
          \/ Retry(r, d.at)
    BY <1>3 DEF ReverseSetRemaining
  <2>3. CASE Retry(r, d.at)
    BY <2>3, RetryBill DEF TypeInv
  <2>4. CASE /\ Set(r, d.at, d.rem - ThisLine(r).qty)
             /\ kept' = [kept EXCEPT ![r].carried = @ + 1]
             /\ NextLine(r)
             /\ UNCHANGED <<db, call>>
    <3>1. /\ kept'[r].attempt = kept[r].attempt /\ kept'[r].carried = kept[r].carried + 1
          /\ \A o \in Requests \ {r} : kept'[o] = kept[o]
      BY <2>4 DEF TypeInv, TypeOK, Kept
    <3> QED BY <2>1, <2>4, <3>1, SetBill, BillNext DEF TypeInv, InLine, db
  <2> QED BY <2>2, <2>3, <2>4
<1>4. CASE ReverseAllFind(r)
  BY <1>4, FindBill DEF ReverseAllFind, Serves, InLine, TypeInv
<1>5. CASE ReverseAllSetRemaining(r)
  <2>1. PICK d \in local[r].docs :
          \/ /\ Set(r, d.at, 0)
             /\ kept' = [kept EXCEPT ![r].carried = @ + 1]
             /\ local' = [local EXCEPT ![r].docs = @ \ {d}]
             /\ UNCHANGED <<db, call, pc>>
          \/ Retry(r, d.at)
    BY <1>5 DEF ReverseAllSetRemaining, Oldest
  <2>2. CASE Retry(r, d.at)
    BY <2>2, RetryBill DEF TypeInv
  <2>3. CASE /\ Set(r, d.at, 0)
             /\ kept' = [kept EXCEPT ![r].carried = @ + 1]
             /\ local' = [local EXCEPT ![r].docs = @ \ {d}]
             /\ UNCHANGED <<db, call, pc>>
    <3>1. \A o \in Requests \ {r} : kept'[o] = kept[o] /\ local'[o] = local[o] /\ tx'[o] = tx[o]
      BY <2>3, SetBill DEF TypeInv, TypeOK
    <3>2. call[r].kind = "REVERSE_ALL" /\ pc[r] = "write"
      BY <1>5 DEF ReverseAllSetRemaining, Serves
    <3> QED BY <1>1, <2>3, <3>1, <3>2 DEF db
  <2> QED BY <2>1, <2>2, <2>3
<1>6. CASE ReverseAllEnd(r)
  <2>1. pc'[r] = "header" /\ \A o \in Requests \ {r} : pc'[o] = pc[o]
    BY <1>6, GotoType DEF ReverseAllEnd, TypeInv, Steps
  <2> QED BY <1>1, <1>6, <2>1 DEF ReverseAllEnd, Serves, db
<1>7. CASE ReverseCreateHeader(r)
  BY <1>7, HeaderBill DEF ReverseCreateHeader, Serves, TypeInv
<1> QED BY <1>2, <1>3, <1>4, <1>5, <1>6, <1>7 DEF ReverseStep

LEMMA CommitBill ==
  ASSUME TypeOK, BillInv, NEW r \in Requests, Commit(r)
  PROVE  BillInv'
<1> DEFINE at == IF call[r].kind = "REFUND" THEN "price" ELSE "done"
<1>1. /\ pc[r] = "commit" /\ charged' = [charged EXCEPT ![r] = @ + tx[r].bill]
      /\ tx' = [o \in Requests |-> IF o = r THEN NoTx ELSE Missed(o, Wrote(r))]
      /\ Goto(r, at) /\ UNCHANGED <<call, local, kept>>
  BY DEF Commit
<1>2. pc'[r] = at /\ \A o \in Requests \ {r} : pc'[o] = pc[o]
  BY <1>1, GotoType DEF Steps, Finished
<1>3. /\ charged'[r] = charged[r] + tx[r].bill
      /\ \A o \in Requests \ {r} : charged'[o] = charged[o]
  BY <1>1 DEF TypeOK
<1>4. \A o \in Requests \ {r} : tx'[o].bill = tx[o].bill
  BY <1>1 DEF Missed, TypeOK, Tx
<1>5. Billed(r)
  BY DEF BillInv
<1>6. Billed(r)'
  BY <1>1, <1>2, <1>3, <1>5 DEF Billed, InLine, Carriers
<1> QED BY <1>1, <1>2, <1>3, <1>4, <1>6, BillStep

LEMMA ExitBill ==
  ASSUME TypeOK, BillInv, ProcessExit
  PROVE  BillInv'
<1>1. ASSUME NEW o \in Requests PROVE Billed(o)'
  <2>1. /\ Billed(o) /\ tx'[o].bill = 0 /\ UNCHANGED <<charged, call, kept>>
        /\ pc'[o] = "crashed" \/ (pc'[o] = pc[o] /\ ~Active(o))
    BY DEF BillInv, ProcessExit, NoTx, db
  <2> QED BY <2>1 DEF Billed, Active, InLine, Finished
<1> QED BY <1>1 DEF BillInv

LEMMA FloatBill ==
  ASSUME TypeOK, BillInv, NEW r \in Requests, Floating(r)
  PROVE  BillInv'
<1>1. ASSUME UNCHANGED <<charged, pc, call, local, kept>>,
             \A o \in Requests : tx'[o].bill = tx[o].bill
      PROVE  BillInv'
  BY <1>1 DEF BillInv, Billed
<1>2. CASE DecreaseTotalQtyRead(r)
  BY <1>1, <1>2 DEF DecreaseTotalQtyRead, db
<1>3. CASE DecreaseTotalQtyWrite(r)
  <2>1. PICK f \in floats[r] :
          \/ Set(r, f.item, f.to) /\ UNCHANGED <<db, pc, call, local, kept>>
          \/ /\ tx' = [o \in Requests |-> Missed(o, {f.item})]
             /\ UNCHANGED <<ledger, headers, charged, pc, call, local, kept>>
          \/ ProcessExit
    BY <1>3 DEF DecreaseTotalQtyWrite
  <2>2. CASE Set(r, f.item, f.to) /\ UNCHANGED <<db, pc, call, local, kept>>
    BY <1>1, <2>2, SetBill DEF db
  <2>3. CASE /\ tx' = [o \in Requests |-> Missed(o, {f.item})]
             /\ UNCHANGED <<ledger, headers, charged, pc, call, local, kept>>
    <3>1. \A o \in Requests : tx'[o].bill = tx[o].bill
      BY <2>3 DEF Missed, TypeOK, Tx
    <3> QED BY <1>1, <2>3, <3>1
  <2> QED BY <2>1, <2>2, <2>3, ExitBill
<1> QED BY <1>2, <1>3 DEF Floating

LEMMA ArriveBill ==
  ASSUME TypeInv, BillInv, NEW r \in Requests, NEW kind, Arrive(r, kind)
  PROVE  BillInv'
<1>1. /\ pc[r] = "idle" /\ pc'[r] = "read" /\ \A o \in Requests \ {r} : pc'[o] = pc[o]
  BY GotoType DEF Arrive, TypeInv, Steps
<1>2. \A o \in Requests \ {r} : call'[o] = call[o]
  BY DEF Arrive, TypeInv, TypeOK
<1>3. UNCHANGED <<charged, local, kept, tx>>
  BY DEF Arrive, db
<1>4. local[r].line = 1
  BY <1>1 DEF TypeInv, LineOK
<1>5. ASSUME NEW o \in Requests PROVE Billed(o)'
  <2>1. Billed(o)
    BY DEF BillInv
  <2>2. CASE o = r
    BY <1>1, <1>3, <1>4, <2>1, <2>2 DEF Billed, InLine
  <2>3. CASE o # r
    BY <1>1, <1>2, <1>3, <2>1, <2>3 DEF Billed
  <2> QED BY <2>2, <2>3
<1> QED BY <1>5 DEF BillInv

LEMMA InitBill == Init => BillInv
BY DEF Init, BillInv, Billed, NewKept, NoTx, NoCall, InLine

LEMMA NextBill == TypeInv /\ BillInv /\ [Next]_vars => BillInv'
<1> SUFFICES ASSUME TypeInv, BillInv, [Next]_vars PROVE BillInv'
  OBVIOUS
<1>1. CASE UNCHANGED vars
  BY <1>1 DEF vars, BillInv, Billed
<1>2. ASSUME NEW r \in Requests, NEW kind \in Kinds, Arrive(r, kind) PROVE BillInv'
  BY <1>2, ArriveBill
<1>3. ASSUME NEW r \in Requests, Handler(r) PROVE BillInv'
  BY <1>3, AddBill, WasteBill, AuditBill, ReleaseBill, ReverseBill, CommitBill
  DEF Handler, TypeInv
<1>4. ASSUME NEW r \in Requests, Floating(r) PROVE BillInv'
  BY <1>4, FloatBill DEF TypeInv
<1>5. CASE ProcessExit
  BY <1>5, ExitBill DEF TypeInv
<1> QED BY <1>1, <1>2, <1>3, <1>4, <1>5 DEF Next

\* Whatever overlaps or is cut off, a request whose callback was called once
\* is billed for each of its lines, once.
THEOREM BilledOnce == Spec => []BilledOnceUnlessRetried
<1>1. Init => TypeInv /\ BillInv
  BY InitType, InitBill
<1>2. TypeInv /\ BillInv /\ [Next]_vars => (TypeInv /\ BillInv)'
  BY NextType, NextBill
<1>3. BillInv => BilledOnceUnlessRetried
  BY DEF BillInv, Billed, BilledOnceUnlessRetried
<1> QED BY <1>1, <1>2, <1>3, PTL DEF Spec

-----------------------------------------------------------------------------
(* The two books *)

\* The conditions under which the two books are said to agree that no step
\* changes, and those that hold before a step when they hold after it.
Serial ==
  /\ MaxInFlight = 1 /\ Kinds \intersect {"WASTE", "REVERSE", "REVERSE_ALL"} = {}
  /\ \A i \in StockItems : Pricing[i] # "EXPIRY"
NoneLost ==
  /\ \A r \in Requests : Unambiguous(call[r].lines)
  /\ \A i \in StockItems : Unsigned(i)
  /\ \A r \in Requests : call[r].kind = "RELEASE" => pc[r] \notin {"failed", "crashed"}
  /\ \A r \in Requests : pc[r] = "done" => floats[r] = {}

\* At most one request is at work, and it finds no trace of another.
Busy(r) == pc[r] \notin {"idle", "price"} \union Finished
AloneInv ==
  /\ \A r, o \in Requests : Active(r) /\ Active(o) => r = o
  /\ \A r \in Requests :
       /\ pc[r] = "idle" => call[r] = NoCall /\ local[r] = NoLocal /\ floats[r] = {}
       /\ pc[r] # "idle" => call[r].kind \in Kinds
       /\ ~Busy(r) => tx[r] = NoTx
       /\ pc[r] = "price" => call[r].kind = "REFUND"
       /\ tx[r].missed = {}
       /\ floats[r] # {} => call[r].kind = "RELEASE"

\* The two books as they will be when r commits.
ViewOf(book, t) ==
  [n \in DOMAIN book |-> [book[n] EXCEPT
    !.qtyRemaining = Written(t.writes, n, book[n].qtyRemaining)]] \o t.made
View(r) == ViewOf(ledger, tx[r])
QtyView(r, i) == Written(tx[r].writes, i, qtyOnHand[i])
EntriesOf(book, i) == {n \in DOMAIN book : book[n].item = i}
Left(book, i) ==
  SumFunctionOnSet([n \in DOMAIN book |-> book[n].qtyRemaining], EntriesOf(book, i))
Owes(r, i, q) == QtyView(r, i) = Left(View(r), i) + q

\* The line the callback is at has been written, in part.
OnLine(r) == pc[r] \in {"create", "drain"}
Reached(r, m) ==
  /\ m \in DOMAIN call[r].lines
  /\ m < local[r].line \/ (m = local[r].line /\ OnLine(r))
Touched(r) == {call[r].lines[m].item : m \in {k \in DOMAIN call[r].lines : Reached(r, k)}}

\* What qtyOnHand is ahead of the ledger by for the line the callback is at.
Owed(r) ==
  IF pc[r] = "create"
  THEN IF call[r].kind = "AUDIT" THEN 0 ELSE ThisLine(r).qty
  ELSE (IF call[r].kind = "AUDIT" THEN local[r].seen - ThisLine(r).qty ELSE ThisLine(r).qty)
       - local[r].left

\* The session writes a document once, and what was not reached is as it was.
Once(W) == \A v, w \in W : v.doc = w.doc => v = w
WritesOf(r) ==
  /\ Once(tx[r].writes)
  /\ \A d \in Wrote(r) : d \in Touched(r) \/ (d \in DOMAIN ledger /\ ledger[d].item \in Touched(r))
  /\ \A n \in DOMAIN tx[r].made : tx[r].made[n].item \in Touched(r)
  /\ \A f \in floats[r] : f.item \in Touched(r)
  /\ OnLine(r) =>
       /\ ThisLine(r).item \in Wrote(r) => pc[r] = "create" /\ call[r].kind # "AUDIT"
       /\ \A f \in floats[r] : f.item # ThisLine(r).item

\* The books differ by what floats and by what the line owes.
Balance(r) ==
  /\ \A f \in floats[r] :
       /\ f.item \notin Wrote(r) /\ Owes(r, f.item, f.qty)
       /\ f.at = "write" => f.to = qtyOnHand[f.item] - f.qty
       /\ \A g \in floats[r] : f.item = g.item => f = g
  /\ OnLine(r) => Owes(r, ThisLine(r).item, Owed(r))
  /\ \A i \in StockItems :
       (\A f \in floats[r] : f.item # i) /\ (OnLine(r) => i # ThisLine(r).item) => Owes(r, i, 0)

\* The callback has copies of the entries it has yet to take from, and has what
\* it wants or has emptied the others.
LocalOf(r) ==
  /\ pc[r] \in InLine \ {"read"} => local[r].seen = qtyOnHand[ThisLine(r).item]
  /\ pc[r] # "drain" => local[r].docs = {} /\ local[r].left = 0
  /\ pc[r] = "find" \/ (pc[r] = "drain" /\ (local[r].left # 0 \/ local[r].docs # {}))
       => local[r].seen >= ThisLine(r).qty
  /\ pc[r] = "drain" =>
       /\ call[r].kind \in {"RELEASE", "SHRINKAGE", "AUDIT"}
       /\ local[r].left >= 0
       /\ \A d \in local[r].docs :
            /\ d.at \in EntriesOf(ledger, ThisLine(r).item)
            /\ d.rem = ledger[d.at].qtyRemaining /\ d.at \notin Wrote(r)
            /\ \A e \in local[r].docs : d.at = e.at => d = e
       /\ local[r].left = 0 \/
            \A n \in EntriesOf(View(r), ThisLine(r).item) :
              (\A d \in local[r].docs : d.at # n) => View(r)[n].qtyRemaining = 0

Good(r) == WritesOf(r) /\ Balance(r) /\ LocalOf(r)
BookInv ==
  NoneLost =>
    /\ \A i \in StockItems : qtyOnHand[i] = Left(ledger, i)
    /\ \A r \in Requests : Busy(r) => Good(r)

LEMMA EntriesFinite ==
  ASSUME NEW b \in Seq(Entry), NEW i
  PROVE  /\ IsFiniteSet(EntriesOf(b, i))
         /\ DOMAIN b = 1 .. Len(b) /\ Len(b) \in Nat
         /\ \A n \in DOMAIN b : b[n] \in Entry /\ b[n].qtyRemaining \in Int
<1>1. DOMAIN b = 1 .. Len(b) /\ Len(b) \in Nat
  OBVIOUS
<1>2. IsFiniteSet(1 .. Len(b))
  BY <1>1, FS_Interval
<1>3. \A n \in DOMAIN b : b[n] \in Entry
  OBVIOUS
<1>4. \A n \in DOMAIN b : b[n].qtyRemaining \in Int
  BY <1>3 DEF Entry
<1> QED
  BY <1>1, <1>2, <1>3, <1>4, FS_Subset DEF EntriesOf

LEMMA LeftType ==
  ASSUME NEW b \in Seq(Entry), NEW i
  PROVE  Left(b, i) \in Int
<1> DEFINE f == [n \in DOMAIN b |-> b[n].qtyRemaining]
<1>1. \A n \in EntriesOf(b, i) : f[n] \in Int
  BY EntriesFinite DEF EntriesOf
<1> HIDE DEF f
<1>2. SumFunctionOnSet(f, EntriesOf(b, i)) \in Int
  BY <1>1, EntriesFinite, SumType
<1> QED
  BY <1>2 DEF Left, f

\* An entry that gives some, and books that differ in nothing that counts.
LEMMA LeftPut ==
  ASSUME NEW b \in Seq(Entry), NEW c \in Seq(Entry), DOMAIN c = DOMAIN b, NEW m \in DOMAIN b,
         \A n \in DOMAIN b : c[n].item = b[n].item,
         \A n \in DOMAIN b : n # m => c[n].qtyRemaining = b[n].qtyRemaining,
         NEW i
  PROVE  Left(c, i) = Left(b, i) +
           (IF b[m].item = i THEN c[m].qtyRemaining - b[m].qtyRemaining ELSE 0)
<1> DEFINE f == [n \in DOMAIN b |-> b[n].qtyRemaining]
           g == [n \in DOMAIN c |-> c[n].qtyRemaining]
           S == EntriesOf(b, i)
           x == IF b[m].item = i THEN f[m] ELSE 0
           y == IF b[m].item = i THEN g[m] ELSE 0
<1>1. EntriesOf(c, i) = S /\ IsFiniteSet(S)
  BY EntriesFinite DEF EntriesOf
<1>2. /\ \A n \in S : f[n] \in Int /\ g[n] \in Int
      /\ \A n \in S \ {m} : f[n] = g[n]
  BY EntriesFinite DEF EntriesOf
<1>3. x = (IF m \in S THEN f[m] ELSE 0) /\ y = (IF m \in S THEN g[m] ELSE 0)
  BY DEF EntriesOf
<1>4. y - x = IF b[m].item = i THEN c[m].qtyRemaining - b[m].qtyRemaining ELSE 0
  BY DEF Entry
<1> HIDE DEF f, g, S, x, y
<1>5. SumFunctionOnSet(g, S) = SumFunctionOnSet(f, S) + (y - x)
  BY <1>1, <1>2, <1>3, SumTrades
<1>6. Left(b, i) = SumFunctionOnSet(f, S) /\ Left(c, i) = SumFunctionOnSet(g, S)
  BY <1>1 DEF Left, f, g, S
<1> QED
  BY <1>4, <1>5, <1>6

LEMMA LeftSame ==
  ASSUME NEW b \in Seq(Entry), NEW c \in Seq(Entry), DOMAIN c = DOMAIN b, NEW i,
         \A n \in DOMAIN b : c[n].item = b[n].item /\ c[n].qtyRemaining = b[n].qtyRemaining
  PROVE  Left(c, i) = Left(b, i)
<1> DEFINE f == [n \in DOMAIN b |-> b[n].qtyRemaining]
           g == [n \in DOMAIN c |-> c[n].qtyRemaining]
<1>1. EntriesOf(c, i) = EntriesOf(b, i)
  BY DEF EntriesOf
<1>2. f = g
  OBVIOUS
<1> QED
  BY <1>1, <1>2 DEF Left

LEMMA LeftAppend ==
  ASSUME NEW b \in Seq(Entry), NEW e \in Entry, NEW i
  PROVE  Left(Append(b, e), i) = Left(b, i) + (IF e.item = i THEN e.qtyRemaining ELSE 0)
<1> DEFINE c == Append(b, e)
           f == [n \in DOMAIN b |-> b[n].qtyRemaining]
           g == [n \in DOMAIN c |-> c[n].qtyRemaining]
           m == Len(b) + 1
           S == EntriesOf(b, i)
           T == EntriesOf(c, i)
           y == IF e.item = i THEN e.qtyRemaining ELSE 0
<1>1. /\ Len(b) \in Nat /\ DOMAIN b = 1 .. Len(b) /\ c \in Seq(Entry)
      /\ DOMAIN c = DOMAIN b \union {m} /\ m \notin DOMAIN b
      /\ \A n \in DOMAIN b : c[n] = b[n]
      /\ c[m] = e
  OBVIOUS
<1> HIDE DEF c, m
<1>2. /\ \A n \in DOMAIN b : f[n] = g[n] /\ f[n] \in Int
      /\ g[m] = e.qtyRemaining /\ g[m] \in Int
  BY <1>1, EntriesFinite DEF Entry
<1>3. S \ {m} = T \ {m} /\ m \notin S /\ IsFiniteSet(S) /\ IsFiniteSet(T)
  BY <1>1, EntriesFinite DEF EntriesOf
<1>4. /\ \A n \in S : f[n] \in Int /\ n \in DOMAIN b
      /\ \A n \in T : g[n] \in Int
      /\ y = (IF m \in T THEN g[m] ELSE 0)
  BY <1>1, <1>2 DEF EntriesOf
<1>5. \A n \in S \ {m} : f[n] = g[n]
  BY <1>2, <1>4
<1>6. 0 = (IF m \in S THEN f[m] ELSE 0)
  BY <1>3
<1> HIDE DEF f, g, S, T, y
<1>7. SumFunctionOnSet(g, T) = SumFunctionOnSet(f, S) + (y - 0)
  BY <1>3, <1>4, <1>5, <1>6, SumTrades
<1>8. y \in Int
  BY DEF y, Entry
<1> QED
  BY <1>7, <1>8 DEF Left, f, g, S, T, y, c

\* What Put does to the writes of a session.
LEMMA PutWrites ==
  ASSUME NEW W \in SUBSET Write, Once(W), NEW d, NEW v
  PROVE  /\ Once(Put(W, d, v))
         /\ {w.doc : w \in Put(W, d, v)} = {w.doc : w \in W} \union {d}
         /\ \A x : Written(Put(W, d, v), d, x) = v
         /\ \A e, x : e # d => Written(Put(W, d, v), e, x) = Written(W, e, x)
<1> DEFINE P == Put(W, d, v)
           p == [doc |-> d, to |-> v]
<1>1. /\ p \in P /\ p.doc = d /\ p.to = v
      /\ \A w \in P : w.doc = d => w = p
      /\ \A w : w.doc # d => (w \in P <=> w \in W)
  BY DEF Put
<1>2. Once(P)
  BY <1>1 DEF Once
<1>3. {w.doc : w \in P} = {w.doc : w \in W} \union {d}
  BY <1>1
<1> HIDE DEF P, p
<1>4. ASSUME NEW x PROVE Written(P, d, x) = v
  BY <1>1 DEF Written
<1>5. ASSUME NEW e, NEW x, e # d PROVE Written(P, e, x) = Written(W, e, x)
  <2>1. CASE \E w \in W : w.doc = e
    <3>1. PICK w \in W : w.doc = e
      BY <2>1
    <3>2. Written(W, e, x) = w.to
      BY <3>1 DEF Written, Once
    <3>3. w \in P /\ \A o \in P : o.doc = e => o = w
      BY <1>1, <1>2, <1>5, <3>1 DEF Once
    <3> QED
      BY <3>1, <3>2, <3>3 DEF Written
  <2>2. CASE ~\E w \in W : w.doc = e
    BY <1>1, <1>5, <2>2 DEF Written
  <2> QED
    BY <2>1, <2>2
<1> QED
  BY <1>2, <1>3, <1>4, <1>5 DEF P

LEMMA WrittenNot ==
  ASSUME NEW W, NEW d, NEW x, d \notin {w.doc : w \in W}
  PROVE  Written(W, d, x) = x
BY DEF Written

-----------------------------------------------------------------------------
\* c is the book b, updated and extended by the session t.
IsView(c, b, t) ==
  /\ c \in Seq(Entry)
  /\ Len(b) \in Nat /\ DOMAIN b = 1 .. Len(b)
  /\ Len(t.made) \in Nat /\ DOMAIN t.made = 1 .. Len(t.made)
  /\ DOMAIN c = 1 .. Len(b) + Len(t.made)
  /\ \A n \in DOMAIN b :
       /\ n \in DOMAIN c /\ c[n].item = b[n].item
       /\ c[n].qtyRemaining = Written(t.writes, n, b[n].qtyRemaining)
  /\ \A n \in DOMAIN c : n \notin DOMAIN b =>
       n - Len(b) \in DOMAIN t.made /\ c[n] = t.made[n - Len(b)]

LEMMA ViewIs ==
  ASSUME NEW b \in Seq(Entry), NEW t \in Tx
  PROVE  IsView(ViewOf(b, t), b, t)
<1> DEFINE old == [n \in DOMAIN b |-> [b[n] EXCEPT
                     !.qtyRemaining = Written(t.writes, n, b[n].qtyRemaining)]]
           m == t.made
           c == old \o m
<1>1. /\ Len(b) \in Nat /\ DOMAIN b = 1 .. Len(b)
      /\ t.made \in Seq(Entry) /\ t.writes \in SUBSET Write
  BY DEF Tx
<1>2. Len(t.made) \in Nat /\ DOMAIN t.made = 1 .. Len(t.made)
  BY <1>1
<1>3. ASSUME NEW n \in DOMAIN b
      PROVE  /\ old[n] \in Entry /\ old[n].item = b[n].item
             /\ old[n].qtyRemaining = Written(t.writes, n, b[n].qtyRemaining)
  <2>1. b[n] \in Entry /\ b[n].qtyRemaining \in Int
    BY EntriesFinite
  <2>2. Written(t.writes, n, b[n].qtyRemaining) \in Int
    BY <1>1, <2>1, WrittenType
  <2> QED
    BY <2>1, <2>2 DEF Entry
<1>4. old \in [1 .. Len(b) -> Entry]
  BY <1>1, <1>3
<1>5. old \in Seq(Entry) /\ Len(old) = Len(b)
  BY <1>1, <1>4, SeqDef
<1>6. c = ViewOf(b, t)
  BY DEF ViewOf
<1> HIDE DEF old, m
<1>7. m = t.made
  BY DEF m
<1>8. c \in Seq(Entry) /\ Len(c) = Len(b) + Len(m) /\ DOMAIN c = 1 .. Len(b) + Len(m)
  BY <1>1, <1>2, <1>5, <1>7
<1>9. \A n \in 1 .. Len(b) : n \in DOMAIN c /\ c[n] = old[n]
  BY <1>1, <1>2, <1>5, <1>7, <1>8
<1>10. \A n \in DOMAIN c : n \notin 1 .. Len(b) =>
         n - Len(b) \in DOMAIN m /\ c[n] = m[n - Len(b)]
  BY <1>1, <1>2, <1>5, <1>7, <1>8
<1> HIDE DEF c
<1> QED
  BY <1>1, <1>2, <1>3, <1>6, <1>7, <1>8, <1>9, <1>10 DEF IsView

\* An update of an entry in the session.
LEMMA ViewPut ==
  ASSUME NEW b \in Seq(Entry), NEW t \in Tx, NEW u \in Tx, Once(t.writes),
         NEW d \in DOMAIN b, NEW v \in Int,
         u.writes = Put(t.writes, d, v), u.made = t.made, d \notin {w.doc : w \in t.writes}
  PROVE  /\ DOMAIN ViewOf(b, u) = DOMAIN ViewOf(b, t)
         /\ \A n \in DOMAIN ViewOf(b, t) :
              /\ ViewOf(b, u)[n].item = ViewOf(b, t)[n].item
              /\ ViewOf(b, u)[n].qtyRemaining = IF n = d THEN v ELSE ViewOf(b, t)[n].qtyRemaining
         /\ \A i : Left(ViewOf(b, u), i) = Left(ViewOf(b, t), i) +
              (IF b[d].item = i THEN v - b[d].qtyRemaining ELSE 0)
<1> DEFINE c == ViewOf(b, t)
           e == ViewOf(b, u)
<1>1. t.writes \in SUBSET Write
  BY DEF Tx
<1>2. /\ \A n : n # d => \A x : Written(u.writes, n, x) = Written(t.writes, n, x)
      /\ \A x : Written(u.writes, d, x) = v
  BY <1>1, PutWrites
<1>3. IsView(c, b, t) /\ IsView(e, b, u)
  BY ViewIs
<1> HIDE DEF c, e
<1>4. /\ c \in Seq(Entry) /\ e \in Seq(Entry) /\ DOMAIN c = DOMAIN e
      /\ d \in DOMAIN c /\ c[d].item = b[d].item /\ c[d].qtyRemaining = b[d].qtyRemaining
      /\ \A n \in DOMAIN c :
           /\ e[n].item = c[n].item
           /\ e[n].qtyRemaining = IF n = d THEN v ELSE c[n].qtyRemaining
  <2>1. c \in Seq(Entry) /\ e \in Seq(Entry) /\ DOMAIN c = DOMAIN e
    BY <1>3 DEF IsView
  <2>2. d \in DOMAIN c /\ c[d].item = b[d].item /\ c[d].qtyRemaining = b[d].qtyRemaining
    BY <1>3, WrittenNot DEF IsView
  <2>3. ASSUME NEW n \in DOMAIN b
        PROVE  e[n].item = c[n].item /\
               e[n].qtyRemaining = IF n = d THEN v ELSE c[n].qtyRemaining
    BY <1>2, <1>3 DEF IsView
  <2>4. ASSUME NEW n \in DOMAIN c, n \notin DOMAIN b
        PROVE  e[n] = c[n] /\ n # d
    BY <2>4, <1>3 DEF IsView
  <2> QED
    BY <2>1, <2>2, <2>3, <2>4
<1>5. \A i : Left(e, i) = Left(c, i) + (IF b[d].item = i THEN v - b[d].qtyRemaining ELSE 0)
  BY <1>4, LeftPut
<1> QED
  BY <1>4, <1>5 DEF c, e

\* A step that gives the entries nothing but another reference, if that.
LEMMA ViewSame ==
  ASSUME NEW b \in Seq(Entry), NEW t \in Tx, NEW u \in Tx,
         \A d \in Nat : \A x : Written(u.writes, d, x) = Written(t.writes, d, x),
         DOMAIN u.made = DOMAIN t.made,
         \A n \in DOMAIN t.made :
           u.made[n].item = t.made[n].item /\ u.made[n].qtyRemaining = t.made[n].qtyRemaining
  PROVE  \A i : Left(ViewOf(b, u), i) = Left(ViewOf(b, t), i)
<1> DEFINE c == ViewOf(b, t)
           e == ViewOf(b, u)
<1>1. IsView(c, b, t) /\ IsView(e, b, u)
  BY ViewIs
<1> HIDE DEF c, e
<1>2. Len(u.made) = Len(t.made)
  BY <1>1 DEF IsView
<1>3. c \in Seq(Entry) /\ e \in Seq(Entry) /\ DOMAIN c = DOMAIN e
  BY <1>2, <1>1 DEF IsView
<1>4. ASSUME NEW n \in DOMAIN b
      PROVE  e[n].item = c[n].item /\ e[n].qtyRemaining = c[n].qtyRemaining
  BY <1>1 DEF IsView
<1>5. ASSUME NEW n \in DOMAIN c, n \notin DOMAIN b
      PROVE  e[n].item = c[n].item /\ e[n].qtyRemaining = c[n].qtyRemaining
  BY <1>3, <1>5, <1>1 DEF IsView
<1>6. \A i : Left(e, i) = Left(c, i)
  BY <1>3, <1>4, <1>5, LeftSame
<1> QED
  BY <1>6 DEF c, e

\* A new entry.
LEMMA ViewAppend ==
  ASSUME NEW b \in Seq(Entry), NEW t \in Tx, NEW u \in Tx, NEW e \in Entry,
         u.writes = t.writes, u.made = Append(t.made, e)
  PROVE  \A i : Left(ViewOf(b, u), i) =
           Left(ViewOf(b, t), i) + (IF e.item = i THEN e.qtyRemaining ELSE 0)
<1> DEFINE old == [n \in DOMAIN b |-> [b[n] EXCEPT
                     !.qtyRemaining = Written(t.writes, n, b[n].qtyRemaining)]]
<1>1. t.made \in Seq(Entry) /\ t.writes \in SUBSET Write
  BY DEF Tx
<1>2. old \in Seq(Entry)
  <2>1. \A n \in DOMAIN b : old[n] \in Entry
    <3> TAKE n \in DOMAIN b
    <3>1. b[n] \in Entry /\ b[n].qtyRemaining \in Int
      BY EntriesFinite
    <3>2. Written(t.writes, n, b[n].qtyRemaining) \in Int
      BY <1>1, <3>1, WrittenType
    <3> QED
      BY <3>1, <3>2 DEF Entry
  <2>2. DOMAIN b = 1 .. Len(b) /\ Len(b) \in Nat
    BY EntriesFinite
  <2>3. old \in [1 .. Len(b) -> Entry]
    BY <2>1, <2>2
  <2> QED
    BY <2>2, <2>3, SeqDef
<1>3. ViewOf(b, t) = old \o t.made /\ ViewOf(b, u) = old \o Append(t.made, e)
  BY DEF ViewOf
<1> HIDE DEF old
<1>4. ViewOf(b, u) = Append(ViewOf(b, t), e)
  BY <1>1, <1>2, <1>3, AppendIsConcat, ConcatAssociative
<1>5. ViewOf(b, t) \in Seq(Entry)
  BY ViewIs DEF IsView
<1> QED
  BY <1>4, <1>5, LeftAppend

-----------------------------------------------------------------------------
(* One request at a time *)

LEMMA Serving ==
  ASSUME Serial, AloneInv, NEW r \in Requests, Active(r)
  PROVE  /\ pc[r] # "idle"
         /\ call[r].kind \in {"ADD", "REFUND", "RELEASE", "SHRINKAGE", "AUDIT"}
         /\ \A o \in Requests \ {r} : ~Active(o) /\ ~Busy(o) /\ tx[o] = NoTx
         /\ \A d : ~Conflict(r, d)
<1>1. pc[r] # "idle" /\ call[r].kind \in Kinds
  BY DEF AloneInv, Active
<1>2. \A o \in Requests \ {r} : ~Active(o) /\ ~Busy(o) /\ tx[o] = NoTx
  BY DEF AloneInv, Active, Busy
<1>3. \A o \in Requests \ {r} : Wrote(o) = {}
  BY <1>2 DEF Wrote, NoTx
<1> QED
  BY <1>1, <1>2, <1>3, KindsAssumption DEF AloneInv, Serial, AllKinds, Conflict

\* What is left to show of a step of the request that is served.
LEMMA BookStep ==
  ASSUME Serial, TypeOK, AloneInv, BookInv, NEW r \in Requests, Active(r),
         pc[r] = "done" => floats'[r] # {} /\ pc'[r] = "done",
         pc[r] = "crashed" => pc'[r] = "crashed",
         pc[r] = "failed" => pc'[r] = "failed",
         UNCHANGED <<qtyOnHand, ledger, call>>, pc'[r] # "idle",
         \A o \in Requests \ {r} :
           pc'[o] = pc[o] /\ local'[o] = local[o] /\ tx'[o] = tx[o] /\ floats'[o] = floats[o],
         tx'[r].missed = {}, ~Busy(r)' => tx'[r] = NoTx,
         pc'[r] = "price" => call[r].kind = "REFUND",
         floats'[r] # {} => floats[r] # {} \/ call[r].kind = "RELEASE",
         NoneLost /\ NoneLost' /\ Busy(r)' => Good(r)'
  PROVE  AloneInv' /\ BookInv'
<1>1. /\ pc[r] # "idle" /\ call[r].kind \in Kinds
      /\ \A o \in Requests \ {r} : ~Active(o) /\ ~Busy(o)
  BY Serving DEF AloneInv
<1>2. \A o \in Requests \ {r} : ~Active(o)' /\ ~Busy(o)'
  BY <1>1 DEF Active, Busy
<1>3. AloneInv'
  BY <1>1, <1>2 DEF AloneInv, Busy
<1>4. NoneLost' => NoneLost
  <2> SUFFICES ASSUME NoneLost' PROVE NoneLost
    OBVIOUS
  <2>1. \A o \in Requests : Unambiguous(call[o].lines)
    BY DEF NoneLost, Unambiguous
  <2>2. \A o \in Requests : call[o].kind = "RELEASE" => pc[o] \notin {"failed", "crashed"}
    BY DEF NoneLost
  <2>3. \A o \in Requests : pc[o] = "done" => floats[o] = {}
    BY DEF NoneLost
  <2> QED
    BY <2>1, <2>2, <2>3, SignsSame DEF NoneLost
<1>5. BookInv'
  BY <1>2, <1>4 DEF BookInv
<1> QED
  BY <1>3, <1>5

LEMMA SetTx ==
  ASSUME TypeOK, NEW r \in Requests, NEW d, NEW v, Set(r, d, v)
  PROVE  /\ tx'[r].writes = Put(tx[r].writes, d, v) /\ tx'[r].made = tx[r].made
         /\ tx'[r].missed = tx[r].missed
         /\ \A o \in Requests \ {r} : tx'[o] = tx[o]
<1> DEFINE w == Put(tx[r].writes, d, v)
<1>1. tx' = [tx EXCEPT ![r] = [tx[r] EXCEPT !.writes = w, !.open = TRUE]]
  BY DEF Set
<1> HIDE DEF w
<1>2. tx'[r].writes = w /\ tx'[r].made = tx[r].made /\ tx'[r].missed = tx[r].missed
  BY <1>1 DEF TypeOK, Tx
<1>3. \A o \in Requests \ {r} : tx'[o] = tx[o]
  BY <1>1 DEF TypeOK
<1> QED
  BY <1>2, <1>3 DEF w

LEMMA AppendTx ==
  ASSUME TypeOK, NEW r \in Requests, NEW i, NEW q, NEW id, AppendEntry(r, i, q, id)
  PROVE  /\ tx'[r].writes = tx[r].writes /\ tx'[r].missed = tx[r].missed
         /\ tx'[r].made = Append(tx[r].made, [item |-> i, qty |-> q, qtyRemaining |-> q,
                                               by |-> r, nth |-> id, ref |-> NoRef])
         /\ \A o \in Requests \ {r} : tx'[o] = tx[o]
<1> DEFINE m == Append(tx[r].made, [item |-> i, qty |-> q, qtyRemaining |-> q,
                                    by |-> r, nth |-> id, ref |-> NoRef])
<1>1. tx' = [tx EXCEPT ![r] = [tx[r] EXCEPT !.open = TRUE, !.made = m]]
  BY DEF AppendEntry
<1> HIDE DEF m
<1>2. tx'[r].writes = tx[r].writes /\ tx'[r].made = m /\ tx'[r].missed = tx[r].missed
  BY <1>1 DEF TypeOK, Tx
<1>3. \A o \in Requests \ {r} : tx'[o] = tx[o]
  BY <1>1 DEF TypeOK
<1> QED
  BY <1>2, <1>3 DEF m

LEMMA HeaderTx ==
  ASSUME TypeOK, NEW r \in Requests, NEW ids, NEW n, CreateHeader(r, ids, n)
  PROVE  /\ tx'[r].writes = tx[r].writes /\ tx'[r].missed = tx[r].missed
         /\ DOMAIN tx'[r].made = DOMAIN tx[r].made
         /\ \A k \in DOMAIN tx[r].made :
              /\ tx'[r].made[k].item = tx[r].made[k].item
              /\ tx'[r].made[k].qtyRemaining = tx[r].made[k].qtyRemaining
         /\ \A o \in Requests \ {r} : tx'[o] = tx[o]
<1> DEFINE m == tx[r].made
           x == [k \in DOMAIN m |-> IF m[k].nth \in ids THEN [m[k] EXCEPT !.ref = r] ELSE m[k]]
<1>1. tx' = [tx EXCEPT ![r] = [tx[r] EXCEPT
               !.header = TRUE, !.bill = n, !.open = TRUE, !.made = x]]
  BY DEF CreateHeader
<1>2. \A k \in DOMAIN m : m[k] \in Entry
  BY EntriesFinite DEF TypeOK, Tx
<1>3. DOMAIN x = DOMAIN m /\
      \A k \in DOMAIN m : x[k].item = m[k].item /\ x[k].qtyRemaining = m[k].qtyRemaining
  BY <1>2 DEF Entry
<1> HIDE DEF x, m
<1>4. tx'[r].writes = tx[r].writes /\ tx'[r].made = x /\ tx'[r].missed = tx[r].missed
  BY <1>1 DEF TypeOK, Tx
<1>5. \A o \in Requests \ {r} : tx'[o] = tx[o]
  BY <1>1 DEF TypeOK
<1> QED
  BY <1>3, <1>4, <1>5 DEF m

LEMMA NextLineLocal ==
  ASSUME TypeOK, NEW r \in Requests, NextLine(r)
  PROVE  /\ local'[r].docs = {} /\ local'[r].left = 0
         /\ local'[r].line = local[r].line + 1
         /\ \A o \in Requests \ {r} : local'[o] = local[o] /\ pc'[o] = pc[o]
         /\ pc'[r] \in {"read", "header"}
<1> DEFINE x == [NoLocal EXCEPT !.line = local[r].line + 1]
<1>1. x.docs = {} /\ x.left = 0 /\ x.line = local[r].line + 1
  BY DEF NoLocal
<1>2. local' = [local EXCEPT ![r] = x]
  BY DEF NextLine
<1> HIDE DEF x
<1>3. local'[r] = x /\ \A o \in Requests \ {r} : local'[o] = local[o]
  BY <1>2 DEF TypeOK
<1>4. PICK at \in {"read", "header"} : Goto(r, at)
  BY DEF NextLine
<1>5. pc'[r] = at /\ \A o \in Requests \ {r} : pc'[o] = pc[o]
  BY <1>4, GotoType DEF Steps
<1> QED
  BY <1>1, <1>3, <1>5

\* The item of a line comes up in that line only.
LEMMA Fresh ==
  ASSUME TypeInv, NEW r \in Requests, pc[r] \in InLine, ~OnLine(r),
         Unambiguous(call[r].lines)
  PROVE  ThisLine(r).item \notin Touched(r)
<1>1. local[r].line \in DOMAIN call[r].lines
  BY ThisLineType DEF TypeInv, TypeOK, Call
<1>2. DOMAIN call[r].lines \subseteq Nat /\ local[r].line \in Nat
  BY DEF TypeInv, TypeOK, Call, Local
<1>3. \A m : Reached(r, m) => m \in DOMAIN call[r].lines /\ m < local[r].line
  BY DEF Reached
<1> QED
  BY <1>1, <1>2, <1>3 DEF Touched, ThisLine, Unambiguous

LEMMA TouchedGrows ==
  ASSUME TypeInv, NEW r \in Requests, call'[r] = call[r],
         \/ local'[r].line = local[r].line + 1
         \/ local'[r].line = local[r].line /\ (OnLine(r) => OnLine(r)')
  PROVE  Touched(r) \subseteq Touched(r)'
<1>1. DOMAIN call[r].lines \subseteq Nat /\ local[r].line \in Nat
  BY DEF TypeInv, TypeOK, Call, Local
<1>2. \A m : Reached(r, m) => Reached(r, m)'
  BY <1>1 DEF Reached
<1> QED
  BY <1>2 DEF Touched

LEMMA TouchedNames ==
  ASSUME TypeInv, NEW r \in Requests
  PROVE  \A x \in Touched(r) : x \notin Nat
<1>1. call[r].lines \in Seq(Line)
  BY DEF TypeInv, TypeOK, Call
<1>2. \A m \in DOMAIN call[r].lines : call[r].lines[m] \in Line
  BY <1>1
<1>3. \A m \in DOMAIN call[r].lines : call[r].lines[m].item \in StockItems \union NoDocument
  BY <1>2 DEF Line
<1> QED
  BY <1>3, NamesAssumption DEF Touched

LEMMA ThisTouched ==
  ASSUME TypeInv, NEW r \in Requests, pc[r] \in InLine, OnLine(r)
  PROVE  ThisLine(r).item \in Touched(r)
<1>1. local[r].line \in DOMAIN call[r].lines
  BY ThisLineType DEF TypeInv, TypeOK, Call
<1> QED
  BY <1>1 DEF Touched, Reached, ThisLine

LEMMA ViewTypes ==
  ASSUME TypeOK, NEW r \in Requests, NEW i \in StockItems
  PROVE  QtyView(r, i) \in Int /\ Left(View(r), i) \in Int
<1>1. tx[r] \in Tx /\ ledger \in Seq(Entry) /\ qtyOnHand[i] \in Int
  BY DEF TypeOK
<1>2. View(r) \in Seq(Entry)
  BY <1>1, ViewIs DEF View, IsView
<1>3. tx[r].writes \in SUBSET Write
  BY <1>1 DEF Tx
<1>4. QtyView(r, i) \in Int
  BY <1>1, <1>3, WrittenType DEF QtyView
<1> QED
  BY <1>2, <1>4, LeftType

-----------------------------------------------------------------------------
(* What the steps of a callback do to the balance *)

LEMMA SameBooks ==
  ASSUME NEW r \in Requests, UNCHANGED <<qtyOnHand, ledger>>, tx'[r] = tx[r]
  PROVE  /\ \A i, q : Owes(r, i, q)' <=> Owes(r, i, q)
         /\ View(r)' = View(r) /\ Wrote(r)' = Wrote(r)
BY DEF Owes, View, QtyView, Wrote

LEMMA ThisLineIs ==
  ASSUME TypeInv, NEW r \in Requests, pc[r] \in InLine, call[r].kind # "REVERSE_ALL",
         pc[r] # "read" \/ ThisLine(r).item \in StockItems
  PROVE  /\ ThisLine(r).item \in StockItems /\ ThisLine(r).item \notin Nat
         /\ ThisLine(r).qty \in Int
         /\ local[r].seen \in Int /\ local[r].left \in Int /\ local[r].line \in Nat
         /\ \A d \in local[r].docs : d \in Doc
<1>1. ThisLine(r) \in Line /\ ThisLine(r).item \in StockItems
  BY ThisLineType DEF TypeInv, LineOK
<1>2. local[r] \in Local
  BY DEF TypeInv, TypeOK
<1> QED
  BY <1>1, <1>2, NamesAssumption DEF Line, Local

\* The line is read: what it starts from was not touched by an earlier one.
LEMMA ReadGood ==
  ASSUME TypeInv, NEW r \in Requests, Good(r), pc[r] = "read", call[r].kind # "REVERSE_ALL",
         ThisLine(r).item \in StockItems, Unambiguous(call[r].lines),
         local' = [local EXCEPT ![r].seen = qtyOnHand[ThisLine(r).item]],
         NEW at \in {"write", "find", "create"}, Goto(r, at),
         UNCHANGED <<db, call, kept, tx, floats>>,
         at = "find" => qtyOnHand[ThisLine(r).item] >= ThisLine(r).qty,
         at = "create" => call[r].kind = "AUDIT"
  PROVE  Good(r)'
<1>1. pc'[r] = at
  BY GotoType DEF TypeInv, Steps
<1>2. /\ local'[r].seen = qtyOnHand[ThisLine(r).item] /\ local'[r].docs = local[r].docs
      /\ local'[r].left = local[r].left /\ local'[r].line = local[r].line
  BY DEF TypeInv, TypeOK, Local
<1>3. ThisLine(r)' = ThisLine(r)
  BY <1>2 DEF ThisLine
<1>4. ThisLine(r).item \notin Touched(r)
  BY Fresh DEF InLine, OnLine
<1>5. Touched(r) \subseteq Touched(r)'
  BY <1>2, TouchedGrows DEF OnLine
<1>6. ThisLine(r).item \notin Nat /\ DOMAIN ledger \subseteq Nat
  BY ThisLineIs DEF InLine, TypeInv, TypeOK
<1>7. WritesOf(r) /\ ThisLine(r).item \notin Wrote(r) /\
      \A f \in floats[r] : f.item # ThisLine(r).item
  BY <1>4, <1>6 DEF Good, WritesOf
<1>8. Wrote(r)' = Wrote(r) /\ View(r)' = View(r) /\ \A i, q : Owes(r, i, q)' <=> Owes(r, i, q)
  BY SameBooks DEF db
<1>9. WritesOf(r)'
  <2>1. tx'[r] = tx[r] /\ floats'[r] = floats[r] /\ ledger' = ledger
    BY DEF db
  <2>2. ThisLine(r).item \notin Wrote(r)'
    BY <1>7, <1>8
  <2> QED
    BY <1>3, <1>5, <1>7, <1>8, <2>1, <2>2 DEF WritesOf
<1>10. Balance(r)'
  <2>1. Owes(r, ThisLine(r).item, 0)
    BY <1>7 DEF Good, Balance, OnLine
  <2>2. OnLine(r)' => Owed(r)' = 0
    BY <1>1 DEF OnLine, Owed
  <2>3. ~OnLine(r)
    BY DEF OnLine
  <2> QED
    BY <1>3, <1>8, <2>1, <2>2, <2>3 DEF Good, Balance, db
<1>11. LocalOf(r)'
  BY <1>1, <1>2, <1>3 DEF Good, LocalOf, db
<1> QED
  BY <1>9, <1>10, <1>11 DEF Good

\* The open entries are copied: the others of the item have nothing left.
LEMMA FindGood ==
  ASSUME TypeInv, NEW r \in Requests, Good(r), pc[r] = "find",
         call[r].kind \in {"RELEASE", "SHRINKAGE", "AUDIT"}, Unambiguous(call[r].lines),
         \A j \in StockItems : Unsigned(j),
         NEW q, q = (IF call[r].kind = "AUDIT" THEN local[r].seen - ThisLine(r).qty
                     ELSE ThisLine(r).qty),
         Find(r, q, OpenEntries(ThisLine(r).item)), Goto(r, "drain")
  PROVE  Good(r)'
<1> DEFINE i == ThisLine(r).item
           ds == {[at |-> n, item |-> ledger[n].item, qty |-> ledger[n].qty,
                   rem |-> ledger[n].qtyRemaining] : n \in OpenEntries(i)}
<1>1. pc'[r] = "drain"
  BY GotoType DEF TypeInv, Steps
<1>2. /\ local'[r].docs = ds /\ local'[r].left = q
      /\ local'[r].seen = local[r].seen /\ local'[r].line = local[r].line
  <2>1. local' = [local EXCEPT ![r] = [local[r] EXCEPT !.left = q, !.docs = ds]]
    BY DEF Find
  <2> HIDE DEF ds
  <2> QED
    BY <2>1 DEF TypeInv, TypeOK, Local
<1>3. UNCHANGED <<qtyOnHand, ledger, call, tx, floats>>
  BY DEF Find, db
<1>4. ThisLine(r)' = ThisLine(r)
  BY <1>2, <1>3 DEF ThisLine
<1>5. i \notin Touched(r)
  BY Fresh DEF InLine, OnLine
<1>6. Touched(r) \subseteq Touched(r)'
  BY <1>2, <1>3, TouchedGrows DEF OnLine
<1>7. /\ i \in StockItems /\ i \notin Nat /\ DOMAIN ledger \subseteq Nat
      /\ local[r].seen \in Int /\ ThisLine(r).qty \in Int
  <2>1. DOMAIN ledger \subseteq Nat
    BY DEF TypeInv, TypeOK
  <2> QED
    BY <2>1, ThisLineIs DEF InLine
<1>8. WritesOf(r) /\ i \notin Wrote(r) /\ \A f \in floats[r] : f.item # i
  BY <1>5, <1>7 DEF Good, WritesOf
<1>9. Wrote(r)' = Wrote(r) /\ View(r)' = View(r) /\ \A j, x : Owes(r, j, x)' <=> Owes(r, j, x)
  BY <1>3, SameBooks
<1>10. \A n \in EntriesOf(ledger, i) : n \notin Wrote(r)
  BY <1>5, <1>7, <1>8, TouchedNames DEF WritesOf, EntriesOf
<1>11. WritesOf(r)'
  <2>1. i \notin Wrote(r)'
    BY <1>8, <1>9
  <2> QED
    BY <1>3, <1>4, <1>6, <1>8, <1>9, <2>1 DEF WritesOf
<1>12. Balance(r)'
  <2>1. Owes(r, i, 0)
    BY <1>7, <1>8 DEF Good, Balance, OnLine
  <2>2. Owed(r)' = 0
    BY <1>1, <1>2, <1>3, <1>4, <1>7 DEF Owed
  <2>3. ~OnLine(r)
    BY DEF OnLine
  <2> QED
    BY <1>3, <1>4, <1>9, <2>1, <2>2, <2>3 DEF Good, Balance
<1>13. LocalOf(r)'
  <2>1. local[r].seen = qtyOnHand[i] /\ local[r].seen >= ThisLine(r).qty
    BY DEF Good, LocalOf, InLine
  <2>2. q \in Int /\ q >= 0
    <3>1. Unsigned(i)
      BY <1>7
    <3>2. ThisLine(r).qty >= 0
      BY <3>1, LineFacts DEF InLine
    <3> QED
      BY <1>7, <2>1, <3>2
  <2>3. ASSUME NEW d \in ds
        PROVE  /\ d.at \in EntriesOf(ledger, i) /\ d.rem = ledger[d.at].qtyRemaining
               /\ d.at \notin Wrote(r) /\ \A e \in ds : d.at = e.at => d = e
    BY <1>10 DEF OpenEntries, EntriesOf
  <2>4. ASSUME NEW n \in EntriesOf(View(r), i), \A d \in ds : d.at # n
        PROVE  View(r)[n].qtyRemaining = 0
    <3>1. IsView(View(r), ledger, tx[r])
      BY ViewIs DEF View, TypeInv, TypeOK
    <3>2. n \in DOMAIN View(r) /\ View(r)[n].item = i
      BY DEF EntriesOf
    <3>3. n \in DOMAIN ledger
      <4>1. ASSUME n \notin DOMAIN ledger PROVE FALSE
        <5>1. PICK k \in DOMAIN tx[r].made : View(r)[n] = tx[r].made[k]
          BY <3>1, <3>2, <4>1 DEF IsView
        <5> QED
          BY <1>5, <1>8, <3>2, <5>1 DEF WritesOf
      <4> QED
        BY <4>1
    <3>4. View(r)[n].item = ledger[n].item /\ n \in EntriesOf(ledger, i)
      BY <3>1, <3>2, <3>3 DEF IsView, EntriesOf
    <3>5. View(r)[n].qtyRemaining = ledger[n].qtyRemaining
      BY <1>10, <3>1, <3>3, <3>4, WrittenNot DEF IsView, Wrote
    <3>6. n \notin OpenEntries(i)
      <4>1. ASSUME n \in OpenEntries(i) PROVE \E d \in ds : d.at = n
        <5> DEFINE d == [at |-> n, item |-> ledger[n].item, qty |-> ledger[n].qty,
                         rem |-> ledger[n].qtyRemaining]
        <5>1. d \in ds /\ d.at = n
          BY <4>1
        <5> QED
          BY <5>1
      <4> QED
        BY <2>4, <4>1
    <3> QED
      BY <3>4, <3>5, <3>6 DEF OpenEntries, EntriesOf
  <2> HIDE DEF ds
  <2> QED
    BY <1>1, <1>2, <1>3, <1>4, <1>9, <2>1, <2>2, <2>3, <2>4 DEF LocalOf
<1> QED
  BY <1>11, <1>12, <1>13 DEF Good

\* One turn of the loop: what the entry gives is no longer wanted.
LEMMA ConsumeGood ==
  ASSUME TypeInv, TypeInv', NEW r \in Requests, Good(r), pc[r] = "drain",
         NEW d \in local[r].docs, Consume(r, d), call[r].kind # "REVERSE_ALL",
         \A n \in DOMAIN ledger : ledger[n].qtyRemaining >= 0
  PROVE  Good(r)'
<1> DEFINE left == local[r].left
           took == IF left > d.rem THEN d.rem ELSE left
<1>0. PICK i : i = ThisLine(r).item
  OBVIOUS
<1>1. /\ i \in StockItems /\ ThisLine(r).qty \in Int /\ local[r].seen \in Int
      /\ left \in Int /\ d \in Doc
  BY <1>0, ThisLineIs DEF InLine
<1>2. UNCHANGED <<qtyOnHand, ledger, call, floats, pc>> /\ pc'[r] = "drain"
  BY DEF Consume, db
<1>3. /\ local'[r].docs = local[r].docs \ {d} /\ local'[r].left = left - took
      /\ local'[r].seen = local[r].seen /\ local'[r].line = local[r].line
  <2>1. local' = [local EXCEPT ![r] = [local[r] EXCEPT
                    !.docs = local[r].docs \ {d}, !.left = left - took]]
    BY DEF Consume
  <2> HIDE DEF took, left
  <2> QED
    BY <2>1 DEF TypeInv, TypeOK, Local
<1>4. ThisLine(r)' = ThisLine(r) /\ OnLine(r) /\ OnLine(r)' /\ i = ThisLine(r).item
  BY <1>0, <1>2, <1>3 DEF ThisLine, OnLine
<1>5. Touched(r) \subseteq Touched(r)' /\ i \in Touched(r)
  BY <1>0, <1>2, <1>3, <1>4, TouchedGrows, ThisTouched DEF InLine
<1>6. /\ WritesOf(r) /\ Balance(r) /\ LocalOf(r)
      /\ i \notin Wrote(r) /\ \A f \in floats[r] : f.item # i
  BY <1>0, <1>4 DEF Good, WritesOf
<1>7. /\ d.at \in DOMAIN ledger /\ ledger[d.at].item = i /\ d.at \in Nat /\ d.at \notin Wrote(r)
      /\ d.rem = ledger[d.at].qtyRemaining /\ d.rem \in Int /\ d.rem >= 0
      /\ \A e \in local[r].docs : d.at = e.at => d = e
  BY <1>0, <1>1, <1>6 DEF LocalOf, EntriesOf, Doc
<1>8. /\ took \in Int /\ d.rem - took \in Int
      /\ left >= 0 /\ left - took >= 0
      /\ left - took = 0 \/ d.rem - took = 0
  BY <1>1, <1>6, <1>7 DEF LocalOf
<1>9. IsView(View(r), ledger, tx[r]) /\ tx[r] \in Tx /\ tx'[r] \in Tx /\ ledger \in Seq(Entry)
  BY ViewIs DEF View, TypeInv, TypeOK
\* What the step does to the book, be it a write or not.
<1>10. /\ DOMAIN View(r)' = DOMAIN View(r)
       /\ \A n \in DOMAIN View(r) :
            /\ View(r)'[n].item = View(r)[n].item
            /\ View(r)'[n].qtyRemaining =
                 IF n = d.at THEN d.rem - took ELSE View(r)[n].qtyRemaining
       /\ \A j : Left(View(r)', j) = Left(View(r), j) + (IF i = j THEN 0 - took ELSE 0)
       /\ \A j \in StockItems : QtyView(r, j)' = QtyView(r, j)
       /\ Once(tx'[r].writes) /\ tx'[r].made = tx[r].made
       /\ Wrote(r)' \subseteq Wrote(r) \union {d.at}
  <2>1. CASE UNCHANGED tx /\ left = 0 /\ d.rem >= 0
    <3>1. took = 0
      BY <1>1, <1>7, <2>1
    <3>2. View(r)' = View(r) /\ Wrote(r)' = Wrote(r) /\ tx'[r] = tx[r]
      BY <1>2, <2>1 DEF View, Wrote
    <3>3. \A j \in StockItems : QtyView(r, j)' = QtyView(r, j)
      BY <1>2, <2>1 DEF QtyView
    <3>4. View(r) \in Seq(Entry) /\ \A j : Left(View(r), j) \in Int
      BY <1>9, LeftType DEF IsView
    <3>5. d.at \in DOMAIN View(r) /\ View(r)[d.at].qtyRemaining = d.rem
      BY <1>7, <1>9, WrittenNot DEF IsView, Wrote
    <3>6. d.rem - took = d.rem
      BY <1>7, <3>1
    <3>7. \A j : Left(View(r), j) = Left(View(r), j) + (IF i = j THEN 0 - took ELSE 0)
      BY <3>1, <3>4
    <3> HIDE DEF took
    <3> QED
      BY <1>6, <3>2, <3>3, <3>5, <3>6, <3>7 DEF WritesOf
  <2>2. CASE Set(r, d.at, d.rem - took)
    <3> DEFINE v == d.rem - took
    <3>1. tx'[r].writes = Put(tx[r].writes, d.at, v) /\ tx'[r].made = tx[r].made
      BY <2>2, SetTx DEF TypeInv
    <3>2. v \in Int /\ v - d.rem = 0 - took
      BY <1>7, <1>8
    <3> HIDE DEF v, took
    <3>3. tx[r].writes \in SUBSET Write /\ Once(tx[r].writes) /\ d.at \notin {w.doc : w \in tx[r].writes}
      BY <1>6, <1>7, <1>9 DEF WritesOf, Tx, Wrote
    <3>4. /\ DOMAIN ViewOf(ledger, tx'[r]) = DOMAIN ViewOf(ledger, tx[r])
          /\ \A n \in DOMAIN ViewOf(ledger, tx[r]) :
               /\ ViewOf(ledger, tx'[r])[n].item = ViewOf(ledger, tx[r])[n].item
               /\ ViewOf(ledger, tx'[r])[n].qtyRemaining =
                    IF n = d.at THEN v ELSE ViewOf(ledger, tx[r])[n].qtyRemaining
          /\ \A j : Left(ViewOf(ledger, tx'[r]), j) = Left(ViewOf(ledger, tx[r]), j) +
               (IF ledger[d.at].item = j THEN v - ledger[d.at].qtyRemaining ELSE 0)
      <4> DEFINE t == tx[r]
                 u == tx'[r]
                 m == d.at
      <4>1. /\ ledger \in Seq(Entry) /\ t \in Tx /\ u \in Tx /\ Once(t.writes)
            /\ m \in DOMAIN ledger /\ v \in Int /\ u.made = t.made
            /\ u.writes = Put(t.writes, m, v) /\ m \notin {w.doc : w \in t.writes}
        BY <1>7, <1>9, <3>1, <3>2, <3>3
      <4> HIDE DEF t, u, m
      <4>2. /\ DOMAIN ViewOf(ledger, u) = DOMAIN ViewOf(ledger, t)
            /\ \A n \in DOMAIN ViewOf(ledger, t) :
                 /\ ViewOf(ledger, u)[n].item = ViewOf(ledger, t)[n].item
                 /\ ViewOf(ledger, u)[n].qtyRemaining =
                      IF n = m THEN v ELSE ViewOf(ledger, t)[n].qtyRemaining
            /\ \A j : Left(ViewOf(ledger, u), j) = Left(ViewOf(ledger, t), j) +
                 (IF ledger[m].item = j THEN v - ledger[m].qtyRemaining ELSE 0)
        BY <4>1, ViewPut
      <4> QED
        BY <4>2 DEF t, u, m
    <3>5. View(r)' = ViewOf(ledger, tx'[r]) /\ View(r) = ViewOf(ledger, tx[r])
      BY <1>2 DEF View
    <3>6. Once(tx'[r].writes) /\ Wrote(r)' = Wrote(r) \union {d.at}
      <4>1. Once(Put(tx[r].writes, d.at, v)) /\
            {w.doc : w \in Put(tx[r].writes, d.at, v)} = {w.doc : w \in tx[r].writes} \union {d.at}
        BY <3>3, PutWrites
      <4> QED
        BY <3>1, <4>1 DEF Wrote
    <3>7. ASSUME NEW j \in StockItems PROVE QtyView(r, j)' = QtyView(r, j)
      <4>1. d.at # j
        BY <1>7, NamesAssumption
      <4> QED
        BY <1>2, <3>1, <3>3, <4>1, PutWrites DEF QtyView
    <3>8. \A j : Left(View(r)', j) = Left(View(r), j) + (IF i = j THEN 0 - took ELSE 0)
      BY <1>7, <3>2, <3>4, <3>5
    <3> QED
      BY <3>1, <3>4, <3>5, <3>6, <3>7, <3>8 DEF v
  <2> QED
    BY <1>6, <2>1, <2>2 DEF Consume
<1>11. \A j \in StockItems : QtyView(r, j) \in Int /\ Left(View(r), j) \in Int
  BY ViewTypes DEF TypeInv
<1> HIDE DEF took
<1>12. ASSUME NEW j \in StockItems, j # i, NEW q, Owes(r, j, q) PROVE Owes(r, j, q)'
  BY <1>10, <1>11, <1>12 DEF Owes
<1>13. WritesOf(r)'
  <2>1. i \notin Wrote(r)'
    BY <1>6, <1>7, <1>1, <1>10, NamesAssumption
  <2>2. \A x \in Wrote(r)' : x \in Touched(r)' \/ (x \in DOMAIN ledger /\ ledger[x].item \in Touched(r)')
    BY <1>5, <1>6, <1>7, <1>10 DEF WritesOf
  <2> QED
    BY <1>2, <1>4, <1>5, <1>6, <1>10, <2>1, <2>2 DEF WritesOf
<1>14. Balance(r)'
  <2>1. \A f \in floats[r] : f.item \in StockItems
    BY DEF TypeInv, TypeOK, Float
  <2>2. Owed(r) = (IF call[r].kind = "AUDIT" THEN local[r].seen - ThisLine(r).qty ELSE ThisLine(r).qty) - left
    BY DEF Owed
  <2>3. Owed(r)' = (IF call[r].kind = "AUDIT" THEN local[r].seen - ThisLine(r).qty ELSE ThisLine(r).qty) - (left - took)
    BY <1>2, <1>3, <1>4 DEF Owed
  <2>4. Owes(r, i, Owed(r))
    BY <1>4, <1>6 DEF Balance
  <2>5. Owed(r)' = Owed(r) + took /\ Owed(r) \in Int
    BY <1>1, <1>8, <2>2, <2>3
  <2>6. QtyView(r, i)' = Left(View(r)', i) + Owed(r)'
    <3>1. QtyView(r, i)' = QtyView(r, i)
      BY <1>1, <1>10
    <3>4. Left(View(r)', i) = Left(View(r), i) + (0 - took)
      BY <1>10
    <3>2. QtyView(r, i) = Left(View(r), i) + Owed(r)
      BY <2>4 DEF Owes
    <3>3. QtyView(r, i) \in Int /\ Left(View(r), i) \in Int
      BY <1>1, <1>11
    <3> QED
      BY <1>8, <2>5, <3>1, <3>2, <3>3, <3>4
  <2>7. Owes(r, ThisLine(r).item, Owed(r))'
    BY <1>4, <2>6 DEF Owes
  <2>8. \A f \in floats[r] : f.item \notin Wrote(r)'
    BY <1>6, <1>7, <1>10, <2>1, NamesAssumption DEF Balance
  <2>9. ASSUME NEW f \in floats'[r]
        PROVE  /\ f.item \notin Wrote(r)' /\ Owes(r, f.item, f.qty)'
               /\ f.at = "write" => f.to = qtyOnHand'[f.item] - f.qty
               /\ \A g \in floats'[r] : f.item = g.item => f = g
    BY <1>2, <1>6, <1>12, <2>1, <2>8 DEF Balance
  <2>10. ASSUME NEW j \in StockItems, \A f \in floats'[r] : f.item # j, j # i
         PROVE  Owes(r, j, 0)'
    BY <1>2, <1>4, <1>6, <1>12, <2>10 DEF Balance
  <2> QED
    BY <1>4, <2>7, <2>9, <2>10 DEF Balance
<1>15. LocalOf(r)'
  <2>1. ASSUME NEW e \in local'[r].docs
        PROVE  /\ e.at \in EntriesOf(ledger, i) /\ e.rem = ledger[e.at].qtyRemaining
               /\ e.at \notin Wrote(r)' /\ \A x \in local'[r].docs : e.at = x.at => e = x
    BY <1>3, <1>4, <1>6, <1>7, <1>10 DEF LocalOf
  <2>2. \/ left - took = 0
        \/ \A n \in EntriesOf(View(r)', i) :
             (\A e \in local'[r].docs : e.at # n) => View(r)'[n].qtyRemaining = 0
    <3> SUFFICES ASSUME left - took # 0, NEW n \in EntriesOf(View(r)', i),
                        \A e \in local'[r].docs : e.at # n
                 PROVE  View(r)'[n].qtyRemaining = 0
      OBVIOUS
    <3>1. n \in EntriesOf(View(r), i)
      BY <1>10 DEF EntriesOf
    <3>2. CASE n = d.at
      BY <1>8, <1>10, <3>1, <3>2 DEF EntriesOf
    <3>3. CASE n # d.at
      <4>1. \A e \in local[r].docs : e.at # n
        BY <1>3, <3>3
      <4>2. left # 0
        BY <1>1, <1>7, <1>8 DEF took
      <4> QED
        BY <1>4, <1>6, <1>10, <3>1, <3>3, <4>1, <4>2 DEF LocalOf, EntriesOf
    <3> QED
      BY <3>2, <3>3
  <2>3. local[r].seen >= ThisLine(r).qty
    BY <1>6 DEF LocalOf
  <2> QED
    BY <1>2, <1>3, <1>4, <1>6, <1>8, <2>1, <2>2, <2>3 DEF LocalOf, InLine
<1> QED
  BY <1>13, <1>14, <1>15 DEF Good

\* A session write of a quantity leaves the entries alone.
LEMMA SetItemView ==
  ASSUME TypeInv, TypeInv', NEW r \in Requests, Once(tx[r].writes), NEW i \in StockItems,
         NEW v, Set(r, i, v), UNCHANGED <<qtyOnHand, ledger>>
  PROVE  /\ Once(tx'[r].writes) /\ tx'[r].made = tx[r].made /\ tx'[r].missed = tx[r].missed
         /\ Wrote(r)' = Wrote(r) \union {i} /\ View(r)' = View(r)
         /\ \A j \in StockItems : \A q : j # i => (Owes(r, j, q)' <=> Owes(r, j, q))
         /\ \A q : v = Left(View(r), i) + q => Owes(r, i, q)'
         /\ \A o \in Requests \ {r} : tx'[o] = tx[o]
<1> DEFINE t == tx[r]
           u == tx'[r]
<1>1. /\ ledger \in Seq(Entry) /\ t \in Tx /\ u \in Tx /\ t.writes \in SUBSET Write
      /\ u.made = t.made /\ u.writes = Put(t.writes, i, v) /\ u.missed = t.missed
      /\ Once(t.writes)
  <2>1. ledger \in Seq(Entry) /\ t \in Tx /\ u \in Tx
    BY DEF TypeInv, TypeOK
  <2>2. u.made = t.made /\ u.writes = Put(t.writes, i, v) /\ u.missed = t.missed
    BY SetTx DEF TypeInv
  <2>3. t.writes \in SUBSET Write
    BY <2>1 DEF Tx
  <2> QED
    BY <2>1, <2>2, <2>3
<1> HIDE DEF t, u
<1>2. /\ Once(u.writes)
      /\ {w.doc : w \in u.writes} = {w.doc : w \in t.writes} \union {i}
      /\ \A x : Written(u.writes, i, x) = v
      /\ \A e, x : e # i => Written(u.writes, e, x) = Written(t.writes, e, x)
  <2>1. /\ Once(Put(t.writes, i, v))
        /\ {w.doc : w \in Put(t.writes, i, v)} = {w.doc : w \in t.writes} \union {i}
        /\ \A x : Written(Put(t.writes, i, v), i, x) = v
        /\ \A e, x : e # i => Written(Put(t.writes, i, v), e, x) = Written(t.writes, e, x)
    <3> DEFINE W == t.writes
    <3>1. W \in SUBSET Write /\ Once(W)
      BY <1>1
    <3> HIDE DEF W
    <3>2. /\ Once(Put(W, i, v))
          /\ {w.doc : w \in Put(W, i, v)} = {w.doc : w \in W} \union {i}
          /\ \A x : Written(Put(W, i, v), i, x) = v
          /\ \A e, x : e # i => Written(Put(W, i, v), e, x) = Written(W, e, x)
      BY <3>1, PutWrites
    <3> QED
      BY <3>2 DEF W
  <2> QED
    BY <1>1, <2>1
<1>3. \A d \in Nat : \A x : Written(u.writes, d, x) = Written(t.writes, d, x)
  BY <1>2, NamesAssumption
<1>4. ViewOf(ledger, u) = ViewOf(ledger, t)
  <2>1. DOMAIN ledger \subseteq Nat
    BY <1>1
  <2>2. \A n \in DOMAIN ledger : Written(u.writes, n, ledger[n].qtyRemaining)
                                = Written(t.writes, n, ledger[n].qtyRemaining)
    BY <1>3, <2>1
  <2> QED
    BY <1>1, <2>2 DEF ViewOf
<1>5. View(r)' = View(r)
  BY <1>4 DEF View, t, u
<1>6. \A j \in StockItems : \A q : j # i => (Owes(r, j, q)' <=> Owes(r, j, q))
  BY <1>2, <1>5 DEF Owes, QtyView, t, u
<1>7. \A q : v = Left(View(r), i) + q => Owes(r, i, q)'
  BY <1>2, <1>5 DEF Owes, QtyView, t, u
<1>8. Wrote(r)' = Wrote(r) \union {i}
  BY <1>2 DEF Wrote, t, u
<1> QED
  BY <1>1, <1>2, <1>5, <1>6, <1>7, <1>8, SetTx DEF t, u, TypeInv

\* A new entry of a session counts for what it holds.
LEMMA AppendView ==
  ASSUME TypeInv, TypeInv', NEW r \in Requests, NEW i \in StockItems, NEW x \in Int,
         NEW id \in Nat \X Nat, AppendEntry(r, i, x, id), UNCHANGED <<qtyOnHand, ledger>>
  PROVE  /\ tx'[r].writes = tx[r].writes /\ Wrote(r)' = Wrote(r)
         /\ \A n \in DOMAIN tx'[r].made :
              tx'[r].made[n].item = i \/
              \E m \in DOMAIN tx[r].made : tx'[r].made[n] = tx[r].made[m]
         /\ \A j \in StockItems : \A q : j # i => (Owes(r, j, q)' <=> Owes(r, j, q))
         /\ \A q \in Int : Owes(r, i, q) => Owes(r, i, q - x)'
<1> DEFINE t == tx[r]
           u == tx'[r]
           e == [item |-> i, qty |-> x, qtyRemaining |-> x, by |-> r, nth |-> id, ref |-> NoRef]
<1>1. /\ ledger \in Seq(Entry) /\ t \in Tx /\ u \in Tx /\ t.made \in Seq(Entry)
      /\ u.made = Append(t.made, e) /\ u.writes = t.writes
  <2>1. ledger \in Seq(Entry) /\ t \in Tx /\ u \in Tx
    BY DEF TypeInv, TypeOK
  <2>2. u.made = Append(t.made, e) /\ u.writes = t.writes
    BY AppendTx DEF TypeInv
  <2>3. t.made \in Seq(Entry)
    BY <2>1 DEF Tx
  <2> QED
    BY <2>1, <2>2, <2>3
<1>2. e \in Entry /\ e.item = i /\ e.qtyRemaining = x
  BY DEF Entry
<1>3. \A n \in DOMAIN u.made : u.made[n] = e \/ \E m \in DOMAIN t.made : u.made[n] = t.made[m]
  <2> HIDE DEF t, u, e
  <2> QED
    BY <1>1, <1>2
<1> HIDE DEF t, u, e
<1>4. \A j : Left(ViewOf(ledger, u), j) = Left(ViewOf(ledger, t), j) + (IF i = j THEN x ELSE 0)
  BY <1>1, <1>2, ViewAppend
<1>5. \A j : Left(View(r)', j) = Left(View(r), j) + (IF i = j THEN x ELSE 0)
  BY <1>4 DEF View, t, u
<1>6. \A j \in StockItems : QtyView(r, j) \in Int /\ Left(View(r), j) \in Int
  BY ViewTypes DEF TypeInv
<1>7. \A j \in StockItems : QtyView(r, j)' = QtyView(r, j)
  BY <1>1 DEF QtyView, t, u
<1>8. ASSUME NEW j \in StockItems, j # i, NEW q PROVE Owes(r, j, q)' <=> Owes(r, j, q)
  <2>1. Left(View(r)', j) = Left(View(r), j) /\ QtyView(r, j)' = QtyView(r, j)
    BY <1>5, <1>6, <1>7, <1>8
  <2> QED
    BY <2>1 DEF Owes
<1>9. ASSUME NEW q \in Int, Owes(r, i, q) PROVE Owes(r, i, q - x)'
  <2>1. Left(View(r)', i) = Left(View(r), i) + x /\ QtyView(r, i)' = QtyView(r, i)
    BY <1>5, <1>7
  <2>2. QtyView(r, i) = Left(View(r), i) + q /\ QtyView(r, i) \in Int /\ Left(View(r), i) \in Int
    BY <1>6, <1>9 DEF Owes
  <2>3. QtyView(r, i)' = Left(View(r)', i) + (q - x)
    BY <2>1, <2>2
  <2> QED
    BY <2>3 DEF Owes
<1>10. Wrote(r)' = Wrote(r)
  BY <1>1 DEF Wrote, t, u
<1> QED
  BY <1>1, <1>2, <1>3, <1>8, <1>9, <1>10 DEF t, u

\* The line is at its end: what it owed it has paid, or left to a floating call.
LEMMA LineEnds ==
  ASSUME TypeInv, NEW r \in Requests, Good(r), pc[r] \in InLine, OnLine(r), NextLine(r),
         UNCHANGED <<qtyOnHand, ledger, call>>, NEW i, i = ThisLine(r).item,
         Once(tx'[r].writes), Wrote(r)' \subseteq Wrote(r) \union {i},
         \A n \in DOMAIN tx'[r].made : tx'[r].made[n].item \in Touched(r),
         \A j \in StockItems : \A q : j # i /\ Owes(r, j, q) => Owes(r, j, q)',
         \/ floats'[r] = floats[r] /\ Owes(r, i, 0)'
         \/ \E f : /\ floats'[r] = floats[r] \union {f} /\ f.item = i /\ f.at = "read"
                   /\ i \notin Wrote(r)' /\ Owes(r, i, f.qty)'
  PROVE  Good(r)'
<1>1. /\ local'[r].docs = {} /\ local'[r].left = 0 /\ local'[r].line = local[r].line + 1
      /\ pc'[r] \in {"read", "header"}
  BY NextLineLocal DEF TypeInv
<1>2. ~OnLine(r)' /\ pc'[r] \notin InLine \ {"read"}
  BY <1>1 DEF OnLine, InLine
<1>3. Touched(r) \subseteq Touched(r)' /\ i \in Touched(r)
  BY <1>1, TouchedGrows, ThisTouched
<1>4. /\ WritesOf(r) /\ Balance(r)
      /\ \A f \in floats[r] : f.item # i /\ f.item \in StockItems
  BY DEF Good, WritesOf, TypeInv, TypeOK, Float
<1>5. WritesOf(r)'
  <2>1. \A f \in floats'[r] : f.item \in Touched(r)'
    BY <1>3, <1>4 DEF WritesOf
  <2>2. \A d \in Wrote(r)' : d \in Touched(r)' \/ (d \in DOMAIN ledger /\ ledger[d].item \in Touched(r)')
    BY <1>3, <1>4 DEF WritesOf
  <2> QED
    BY <1>2, <1>3, <2>1, <2>2 DEF WritesOf
<1>6. Balance(r)'
  <2>1. ASSUME NEW f \in floats[r]
        PROVE  /\ f.item \notin Wrote(r)' /\ Owes(r, f.item, f.qty)'
               /\ f.at = "write" => f.to = qtyOnHand'[f.item] - f.qty
               /\ \A g \in floats'[r] : f.item = g.item => f = g
    BY <1>4 DEF Balance
  <2>2. ASSUME NEW f \in floats'[r], f \notin floats[r]
        PROVE  /\ f.item \notin Wrote(r)' /\ Owes(r, f.item, f.qty)'
               /\ f.at = "write" => f.to = qtyOnHand'[f.item] - f.qty
               /\ \A g \in floats'[r] : f.item = g.item => f = g
    BY <1>4, <2>2
  <2>3. ASSUME NEW j \in StockItems, \A f \in floats'[r] : f.item # j PROVE Owes(r, j, 0)'
    BY <1>4, <2>3 DEF Balance
  <2> QED
    BY <1>2, <2>1, <2>2, <2>3 DEF Balance
<1>7. LocalOf(r)'
  BY <1>1, <1>2 DEF LocalOf
<1> QED
  BY <1>5, <1>6, <1>7 DEF Good

\* All that was found has been gone through: nothing is left to take.
LEMMA NothingLeft ==
  ASSUME TypeInv, NEW r \in Requests, Good(r), pc[r] = "drain", local[r].docs = {},
         call[r].kind # "REVERSE_ALL"
  PROVE  local[r].left = 0
<1> SUFFICES ASSUME local[r].left # 0 PROVE FALSE
  OBVIOUS
<1> DEFINE i == ThisLine(r).item
           b == View(r)
           f == [n \in DOMAIN b |-> b[n].qtyRemaining]
           S == EntriesOf(b, i)
           none == [n \in S |-> 0]
<1>1. /\ i \in StockItems /\ ThisLine(r).qty \in Int /\ local[r].seen \in Int
      /\ local[r].left \in Int
  BY ThisLineIs DEF InLine
<1>2. /\ local[r].seen = qtyOnHand[i] /\ local[r].seen >= ThisLine(r).qty /\ local[r].left >= 0
      /\ \A n \in S : b[n].qtyRemaining = 0
      /\ i \notin Wrote(r) /\ Owes(r, i, Owed(r))
  BY DEF Good, LocalOf, WritesOf, Balance, OnLine, InLine
<1>3. b \in Seq(Entry)
  BY ViewIs DEF View, IsView, TypeInv, TypeOK
<1>4. Left(b, i) = 0
  <2>1. IsFiniteSet(S)
    BY <1>3, EntriesFinite
  <2>2. \A n \in S : f[n] = 0
    BY <1>2 DEF EntriesOf
  <2>3. Left(b, i) = SumFunctionOnSet(f, S)
    BY DEF Left
  <2> HIDE DEF f, S, b
  <2> QED
    BY <2>1, <2>2, <2>3, SumOfZeros
<1>5. QtyView(r, i) = qtyOnHand[i]
  BY <1>2, WrittenNot DEF QtyView, Wrote
<1>6. Owed(r) = (IF call[r].kind = "AUDIT" THEN local[r].seen - ThisLine(r).qty
                 ELSE ThisLine(r).qty) - local[r].left
  BY DEF Owed
<1>8. call[r].kind = "AUDIT" => ThisLine(r).qty >= 0
  BY LineFacts DEF InLine
<1> HIDE DEF i, b
<1>7. local[r].seen = 0 + Owed(r)
  BY <1>2, <1>4, <1>5 DEF Owes, b
<1> QED
  BY <1>1, <1>2, <1>6, <1>7, <1>8

LEMMA WriteGood ==
  ASSUME TypeInv, TypeInv', NEW r \in Requests, Good(r), pc[r] = "write",
         call[r].kind \in {"ADD", "REFUND"}, Unambiguous(call[r].lines),
         Set(r, ThisLine(r).item, local[r].seen + ThisLine(r).qty),
         Goto(r, "create"), UNCHANGED <<db, call, local, kept, floats>>
  PROVE  Good(r)'
<1>1. PICK i : i = ThisLine(r).item
  OBVIOUS
<1>2. PICK v : v = local[r].seen + ThisLine(r).qty
  OBVIOUS
<1>3. /\ i \in StockItems /\ i \notin Nat /\ ThisLine(r).qty \in Int /\ local[r].seen \in Int
  BY <1>1, ThisLineIs DEF InLine
<1>4. /\ pc'[r] = "create" /\ ThisLine(r)' = ThisLine(r) /\ OnLine(r)' /\ ~OnLine(r)
      /\ UNCHANGED <<qtyOnHand, ledger, call, local, floats>>
  BY GotoType DEF TypeInv, Steps, OnLine, ThisLine, db
<1>5. i \notin Touched(r)
  BY <1>1, <1>4, Fresh DEF InLine
<1>6. Touched(r) \subseteq Touched(r)' /\ i \in Touched(r)'
  <2>1. Touched(r) \subseteq Touched(r)'
    BY <1>4, TouchedGrows
  <2>2. local[r].line \in DOMAIN call[r].lines
    BY ThisLineType DEF InLine, TypeInv, TypeOK, Call
  <2>3. Reached(r, local[r].line)'
    BY <1>4, <2>2 DEF Reached
  <2> QED
    BY <1>1, <1>4, <2>1, <2>2, <2>3 DEF Touched, ThisLine
<1>7. /\ WritesOf(r) /\ Balance(r) /\ i \notin Wrote(r)
      /\ \A f \in floats[r] : f.item # i /\ f.item \in StockItems
  BY <1>3, <1>5 DEF Good, WritesOf, TypeInv, TypeOK, Float
<1>8. Set(r, i, v)
  BY <1>1, <1>2
<1>9. /\ Once(tx'[r].writes) /\ tx'[r].made = tx[r].made
      /\ Wrote(r)' = Wrote(r) \union {i}
      /\ \A j \in StockItems : \A q : j # i => (Owes(r, j, q)' <=> Owes(r, j, q))
      /\ \A q : v = Left(View(r), i) + q => Owes(r, i, q)'
  BY <1>3, <1>4, <1>7, <1>8, SetItemView DEF WritesOf
<1>10. WritesOf(r)'
  <2>1. \A d \in Wrote(r)' : d \in Touched(r)' \/ (d \in DOMAIN ledger /\ ledger[d].item \in Touched(r)')
    BY <1>6, <1>7, <1>9 DEF WritesOf
  <2> QED
    BY <1>1, <1>4, <1>6, <1>7, <1>9, <2>1 DEF WritesOf
<1>11. Balance(r)'
  <2>1. QtyView(r, i) = Left(View(r), i) + 0
    BY <1>3, <1>4, <1>7 DEF Balance, Owes
  <2>2. QtyView(r, i) = local[r].seen
    BY <1>1, <1>7, WrittenNot DEF QtyView, Wrote, Good, LocalOf, InLine
  <2>3. Left(View(r), i) \in Int
    BY <1>3, ViewTypes DEF TypeInv
  <2>4. v = Left(View(r), i) + ThisLine(r).qty
    BY <1>2, <1>3, <2>1, <2>2, <2>3
  <2>5. Owes(r, i, ThisLine(r).qty)'
    <3>1. PICK q : q = ThisLine(r).qty
      OBVIOUS
    <3> QED
      BY <1>4, <1>9, <2>4, <3>1
  <2>6. Owed(r)' = ThisLine(r)'.qty
    BY <1>4 DEF Owed
  <2>7. Owes(r, ThisLine(r).item, Owed(r))'
    BY <1>1, <1>4, <2>5, <2>6
  <2>8. \A f \in floats[r] : f.item \notin Wrote(r)'
    BY <1>7, <1>9 DEF Balance
  <2>9. \A f \in floats[r] : Owes(r, f.item, f.qty)'
    BY <1>7, <1>9 DEF Balance
  <2>10. \A j \in StockItems : (\A f \in floats[r] : f.item # j) /\ j # i => Owes(r, j, 0)'
    BY <1>4, <1>7, <1>9 DEF Balance
  <2> QED
    BY <1>1, <1>4, <1>7, <2>7, <2>8, <2>9, <2>10 DEF Balance
<1>12. LocalOf(r)'
  BY <1>4 DEF Good, LocalOf, InLine
<1> QED
  BY <1>10, <1>11, <1>12 DEF Good

\* Shrinkage and audit: the quantity follows what the ledger gave.
LEMMA SettleGood ==
  ASSUME TypeInv, TypeInv', NEW r \in Requests, Good(r), pc[r] = "drain", local[r].docs = {},
         call[r].kind \in {"SHRINKAGE", "AUDIT"},
         NEW v, v = (IF call[r].kind = "AUDIT" THEN ThisLine(r).qty
                     ELSE local[r].seen - ThisLine(r).qty),
         Set(r, ThisLine(r).item, v), NextLine(r), UNCHANGED <<db, call, kept, floats>>
  PROVE  Good(r)'
<1>1. PICK i : i = ThisLine(r).item
  OBVIOUS
<1>2. /\ i \in StockItems /\ ThisLine(r).qty \in Int /\ local[r].seen \in Int
      /\ local[r].left = 0 /\ OnLine(r) /\ UNCHANGED <<qtyOnHand, ledger, call, floats>>
  BY <1>1, ThisLineIs, NothingLeft DEF InLine, OnLine, db
<1>3. /\ WritesOf(r) /\ i \notin Wrote(r) /\ Owes(r, i, Owed(r))
      /\ local[r].seen = qtyOnHand[i]
  BY <1>1, <1>2 DEF Good, WritesOf, Balance, LocalOf, InLine
<1>4. /\ Once(tx'[r].writes) /\ tx'[r].made = tx[r].made
      /\ Wrote(r)' = Wrote(r) \union {i}
      /\ \A j \in StockItems : \A q : j # i => (Owes(r, j, q)' <=> Owes(r, j, q))
      /\ \A q : v = Left(View(r), i) + q => Owes(r, i, q)'
  <2>1. Set(r, i, v) /\ Once(tx[r].writes)
    BY <1>1, <1>3 DEF WritesOf
  <2> QED
    BY <1>2, <2>1, SetItemView
<1>5. v = Left(View(r), i) + 0
  <2>1. Owed(r) = IF call[r].kind = "AUDIT" THEN local[r].seen - ThisLine(r).qty
                  ELSE ThisLine(r).qty
    BY <1>2 DEF Owed
  <2>2. QtyView(r, i) = local[r].seen
    BY <1>3, WrittenNot DEF QtyView, Wrote
  <2>3. Left(View(r), i) \in Int
    BY <1>2, ViewTypes DEF TypeInv
  <2> QED
    BY <1>2, <1>3, <2>1, <2>2, <2>3 DEF Owes
<1>6. Owes(r, i, 0)'
  BY <1>4, <1>5
<1>7. \A n \in DOMAIN tx'[r].made : tx'[r].made[n].item \in Touched(r)
  BY <1>3, <1>4 DEF WritesOf
<1> QED
  BY <1>1, <1>2, <1>4, <1>6, <1>7, LineEnds DEF InLine

\* Release: the quantity is left to a call that nobody awaits.
LEMMA SpawnGood ==
  ASSUME TypeInv, TypeInv', NEW r \in Requests, Good(r), call[r].kind = "RELEASE",
         ReleaseSpawn(r)
  PROVE  Good(r)'
<1>0. /\ pc[r] = "drain" /\ local[r].docs = {} /\ NextLine(r)
      /\ Spawn(r, local[r].line, ThisLine(r).item, ThisLine(r).qty)
      /\ UNCHANGED <<qtyOnHand, ledger, call, tx>>
  BY DEF ReleaseSpawn, Serves, db
<1>1. PICK i : i = ThisLine(r).item
  OBVIOUS
<1>2. /\ i \in StockItems /\ ThisLine(r).qty \in Int
      /\ local[r].left = 0 /\ OnLine(r)
  BY <1>0, <1>1, ThisLineIs, NothingLeft DEF InLine, OnLine
<1>3. /\ WritesOf(r) /\ i \notin Wrote(r) /\ Owes(r, i, Owed(r))
  BY <1>0, <1>1, <1>2 DEF Good, WritesOf, Balance
<1>4. PICK f : /\ f = [of |-> <<kept[r].attempt, local[r].line>>, item |-> i,
                       qty |-> ThisLine(r).qty, at |-> "read", to |-> 0]
  OBVIOUS
<1>5. floats'[r] = floats[r] \union {f}
  BY <1>0, <1>1, <1>4 DEF Spawn, TypeInv, TypeOK
<1>6. f.item = i /\ f.at = "read" /\ f.qty = ThisLine(r).qty
  BY <1>4
<1>7. Owed(r) = f.qty
  BY <1>0, <1>2, <1>6 DEF Owed
<1>8. /\ \A j, q : Owes(r, j, q)' <=> Owes(r, j, q)
      /\ Wrote(r)' = Wrote(r) /\ tx'[r] = tx[r]
  BY <1>0, SameBooks
<1>9. Owes(r, i, f.qty)' /\ i \notin Wrote(r)'
  BY <1>3, <1>7, <1>8
<1> QED
  BY <1>0, <1>1, <1>2, <1>3, <1>5, <1>6, <1>8, <1>9, LineEnds DEF InLine, WritesOf

\* Add and refund: the entry follows the quantity.
LEMMA MakeGood ==
  ASSUME TypeInv, TypeInv', NEW r \in Requests, Good(r), pc[r] = "create",
         call[r].kind \in {"ADD", "REFUND"}, NEW id \in Nat \X Nat,
         AppendEntry(r, ThisLine(r).item, ThisLine(r).qty, id), NextLine(r),
         UNCHANGED <<db, call, floats>>
  PROVE  Good(r)'
<1>1. PICK i, x : i = ThisLine(r).item /\ x = ThisLine(r).qty
  OBVIOUS
<1>2. i \in StockItems /\ x \in Int /\ OnLine(r) /\ UNCHANGED <<qtyOnHand, ledger, call, floats>>
  BY <1>1, ThisLineIs DEF InLine, OnLine, db
<1>3. /\ WritesOf(r) /\ Owes(r, i, x) /\ i \in Touched(r)
  BY <1>1, <1>2, ThisTouched DEF Good, Balance, Owed, InLine
<1>4. AppendEntry(r, i, x, id)
  BY <1>1
<1>5. /\ tx'[r].writes = tx[r].writes /\ Wrote(r)' = Wrote(r)
      /\ \A n \in DOMAIN tx'[r].made :
           tx'[r].made[n].item = i \/
           \E m \in DOMAIN tx[r].made : tx'[r].made[n] = tx[r].made[m]
      /\ \A j \in StockItems : \A q : j # i => (Owes(r, j, q)' <=> Owes(r, j, q))
      /\ \A q \in Int : Owes(r, i, q) => Owes(r, i, q - x)'
  BY <1>2, <1>4, AppendView
<1>6. Owes(r, i, 0)'
  <2>1. Owes(r, i, x - x)'
    BY <1>2, <1>3, <1>5
  <2>2. x - x = 0
    BY <1>2
  <2> QED
    BY <2>1, <2>2
<1>7. \A n \in DOMAIN tx'[r].made : tx'[r].made[n].item \in Touched(r)
  BY <1>3, <1>5 DEF WritesOf
<1> QED
  BY <1>1, <1>2, <1>3, <1>5, <1>6, <1>7, LineEnds DEF InLine, WritesOf

\* The surplus of an audit: the entry comes first.
LEMMA SurplusGood ==
  ASSUME TypeInv, TypeInv', NEW r \in Requests, Good(r), pc[r] = "create",
         call[r].kind = "AUDIT", NEW id \in Nat \X Nat,
         AppendEntry(r, ThisLine(r).item, ThisLine(r).qty - local[r].seen, id),
         Goto(r, "drain"), UNCHANGED <<db, call, local, floats>>
  PROVE  Good(r)'
<1>1. PICK i, x : i = ThisLine(r).item /\ x = ThisLine(r).qty - local[r].seen
  OBVIOUS
<1>2. /\ i \in StockItems /\ ThisLine(r).qty \in Int /\ local[r].seen \in Int /\ x \in Int
      /\ OnLine(r) /\ OnLine(r)' /\ UNCHANGED <<qtyOnHand, ledger, call, local, floats>>
      /\ pc'[r] = "drain" /\ ThisLine(r)' = ThisLine(r)
  <2>1. pc'[r] = "drain"
    BY GotoType DEF TypeInv, Steps
  <2> QED
    <3>1. i \in StockItems /\ ThisLine(r).qty \in Int /\ local[r].seen \in Int
      BY <1>1, ThisLineIs DEF InLine
    <3>2. x \in Int
      BY <1>1, <3>1
    <3>3. ThisLine(r)' = ThisLine(r) /\ UNCHANGED <<qtyOnHand, ledger>>
      BY DEF ThisLine, db
    <3> QED
      BY <2>1, <3>1, <3>2, <3>3 DEF OnLine
<1>3. /\ WritesOf(r) /\ Balance(r) /\ LocalOf(r) /\ Owes(r, i, 0) /\ i \in Touched(r)
      /\ i \notin Wrote(r) /\ \A f \in floats[r] : f.item # i /\ f.item \in StockItems
  <2>1. i \in Touched(r)
    BY <1>1, <1>2, ThisTouched DEF InLine
  <2>2. WritesOf(r) /\ Balance(r) /\ LocalOf(r)
    BY DEF Good
  <2>3. Owes(r, i, 0)
    BY <1>1, <1>2, <2>2 DEF Balance, Owed
  <2>4. \A f \in floats[r] : f.item \in StockItems
    BY DEF TypeInv, TypeOK, Float
  <2>5. i \notin Wrote(r) /\ \A f \in floats[r] : f.item # i
    BY <1>1, <1>2, <2>2 DEF WritesOf
  <2> QED
    BY <2>1, <2>2, <2>3, <2>4, <2>5
<1>4. AppendEntry(r, i, x, id)
  BY <1>1
<1>5. /\ tx'[r].writes = tx[r].writes /\ Wrote(r)' = Wrote(r)
      /\ \A n \in DOMAIN tx'[r].made :
           tx'[r].made[n].item = i \/
           \E m \in DOMAIN tx[r].made : tx'[r].made[n] = tx[r].made[m]
      /\ \A j \in StockItems : \A q : j # i => (Owes(r, j, q)' <=> Owes(r, j, q))
      /\ \A q \in Int : Owes(r, i, q) => Owes(r, i, q - x)'
  BY <1>2, <1>4, AppendView
<1>6. Touched(r) \subseteq Touched(r)'
  BY <1>2, TouchedGrows
<1>7. WritesOf(r)'
  <2>1. \A d \in Wrote(r)' : d \in Touched(r)' \/ (d \in DOMAIN ledger /\ ledger[d].item \in Touched(r)')
    BY <1>3, <1>5, <1>6 DEF WritesOf
  <2>2. \A n \in DOMAIN tx'[r].made : tx'[r].made[n].item \in Touched(r)'
    BY <1>3, <1>5, <1>6 DEF WritesOf
  <2>3. i \notin Wrote(r)'
    BY <1>3, <1>5
  <2> QED
    BY <1>1, <1>2, <1>3, <1>5, <1>6, <2>1, <2>2, <2>3 DEF WritesOf
<1>8. Balance(r)'
  <2>1. Owes(r, i, 0 - x)'
    BY <1>3, <1>5
  <2>2. Owed(r)' = 0 - x
    BY <1>1, <1>2, <1>3 DEF Owed, LocalOf
  <2>3. Owes(r, ThisLine(r).item, Owed(r))'
    <3>1. PICK q : q = 0 - x
      OBVIOUS
    <3>2. Owes(r, i, q)'
      BY <2>1, <3>1
    <3> QED
      BY <1>1, <1>2, <2>2, <3>1, <3>2
  <2>4. \A f \in floats[r] : f.item \notin Wrote(r)' /\ Owes(r, f.item, f.qty)'
    BY <1>3, <1>5 DEF Balance
  <2>5. \A j \in StockItems : (\A f \in floats[r] : f.item # j) /\ j # i => Owes(r, j, 0)'
    BY <1>1, <1>2, <1>3, <1>5 DEF Balance
  <2> QED
    BY <1>1, <1>2, <1>3, <2>3, <2>4, <2>5 DEF Balance
<1>9. LocalOf(r)'
  BY <1>2, <1>3 DEF LocalOf, InLine
<1> QED
  BY <1>7, <1>8, <1>9 DEF Good

\* A step towards the commit that changes neither book.
LEMMA HeaderGood ==
  ASSUME TypeInv, TypeInv', NEW r \in Requests, Good(r), pc[r] = "header", pc'[r] = "commit",
         UNCHANGED <<qtyOnHand, ledger, call, local, floats>>,
         tx'[r].writes = tx[r].writes, DOMAIN tx'[r].made = DOMAIN tx[r].made,
         \A k \in DOMAIN tx[r].made :
           /\ tx'[r].made[k].item = tx[r].made[k].item
           /\ tx'[r].made[k].qtyRemaining = tx[r].made[k].qtyRemaining
  PROVE  Good(r)'
<1> DEFINE t == tx[r]
           u == tx'[r]
<1>1. /\ ledger \in Seq(Entry) /\ t \in Tx /\ u \in Tx
  BY DEF TypeInv, TypeOK
<1>2. /\ u.writes = t.writes /\ DOMAIN u.made = DOMAIN t.made
      /\ \A k \in DOMAIN t.made :
           u.made[k].item = t.made[k].item /\ u.made[k].qtyRemaining = t.made[k].qtyRemaining
  OBVIOUS
<1> HIDE DEF t, u
<1>3. \A j : Left(ViewOf(ledger, u), j) = Left(ViewOf(ledger, t), j)
  BY <1>1, <1>2, ViewSame
<1>4. \A j, q : Owes(r, j, q)' <=> Owes(r, j, q)
  BY <1>2, <1>3 DEF Owes, QtyView, View, t, u
<1>5. Wrote(r)' = Wrote(r)
  BY DEF Wrote
<1>6. ~OnLine(r) /\ ~OnLine(r)'
  BY DEF OnLine
<1>7. Touched(r) \subseteq Touched(r)'
  BY <1>6, TouchedGrows
<1>8. WritesOf(r)'
  BY <1>2, <1>5, <1>6, <1>7 DEF Good, WritesOf, t, u
<1>9. Balance(r)'
  BY <1>4, <1>5, <1>6 DEF Good, Balance
<1>10. LocalOf(r)'
  BY DEF Good, LocalOf, InLine
<1> QED
  BY <1>8, <1>9, <1>10 DEF Good

LEMMA FloatReadGood ==
  ASSUME TypeInv, NEW r \in Requests, Good(r), DecreaseTotalQtyRead(r)
  PROVE  Good(r)'
<1>1. PICK f \in floats[r] :
        /\ floats' = [floats EXCEPT ![r] = (@ \ {f}) \union
             {[f EXCEPT !.at = "write", !.to = qtyOnHand[f.item] - f.qty]}]
        /\ UNCHANGED <<db, pc, call, local, kept, tx>>
  BY DEF DecreaseTotalQtyRead
<1>2. PICK g : g = [f EXCEPT !.at = "write", !.to = qtyOnHand[f.item] - f.qty]
  OBVIOUS
<1>3. /\ f \in Float /\ g.item = f.item /\ g.qty = f.qty
      /\ g.to = qtyOnHand[f.item] - f.qty
  BY <1>2 DEF TypeInv, TypeOK, Float
<1>4. /\ floats'[r] = (floats[r] \ {f}) \union {g}
      /\ UNCHANGED <<qtyOnHand, ledger, pc, call, local, tx>>
  BY <1>1, <1>2 DEF TypeInv, TypeOK, db
<1>5. /\ \A j, q : Owes(r, j, q)' <=> Owes(r, j, q)
      /\ Wrote(r)' = Wrote(r) /\ View(r)' = View(r)
  BY <1>4, SameBooks
<1>6. /\ ThisLine(r)' = ThisLine(r) /\ (OnLine(r)' <=> OnLine(r)) /\ Owed(r)' = Owed(r)
      /\ Touched(r)' = Touched(r)
  BY <1>4 DEF ThisLine, OnLine, Owed, Touched, Reached
<1>7. WritesOf(r) /\ Balance(r) /\ LocalOf(r)
  BY DEF Good
<1>8. WritesOf(r)'
  <2>1. \A x \in floats'[r] : x.item \in Touched(r)'
    BY <1>3, <1>4, <1>6, <1>7 DEF WritesOf
  <2>2. OnLine(r) => \A x \in floats'[r] : x.item # ThisLine(r).item
    BY <1>3, <1>4, <1>7 DEF WritesOf
  <2> QED
    BY <1>4, <1>5, <1>6, <1>7, <2>1, <2>2 DEF WritesOf
<1>9. Balance(r)'
  <2>1. ASSUME NEW x \in floats'[r]
        PROVE  /\ x.item \notin Wrote(r) /\ Owes(r, x.item, x.qty)
               /\ x.at = "write" => x.to = qtyOnHand[x.item] - x.qty
               /\ \A y \in floats'[r] : x.item = y.item => x = y
    BY <1>3, <1>4, <1>7 DEF Balance
  <2>2. \A j \in StockItems : (\A x \in floats'[r] : x.item # j) => \A x \in floats[r] : x.item # j
    BY <1>3, <1>4
  <2>3. \A x \in floats'[r] : Owes(r, x.item, x.qty)'
    BY <1>5, <2>1
  <2>4. OnLine(r) => Owes(r, ThisLine(r).item, Owed(r))'
    BY <1>5, <1>6, <1>7 DEF Balance
  <2>5. \A j \in StockItems : (\A f2 \in floats'[r] : f2.item # j) /\ (OnLine(r) => j # ThisLine(r).item)
          => Owes(r, j, 0)'
    BY <1>5, <1>7, <2>2 DEF Balance
  <2> QED
    BY <1>4, <1>5, <1>6, <2>1, <2>3, <2>4, <2>5 DEF Balance
<1>10. LocalOf(r)'
  BY <1>4, <1>5, <1>6, <1>7 DEF LocalOf
<1> QED
  BY <1>8, <1>9, <1>10 DEF Good

LEMMA FloatWriteGood ==
  ASSUME TypeInv, TypeInv', NEW r \in Requests, Good(r), call[r].kind = "RELEASE",
         NEW f \in floats[r], f.at = "write",
         Set(r, f.item, f.to), floats' = [floats EXCEPT ![r] = @ \ {f}],
         UNCHANGED <<db, pc, call, local, kept>>
  PROVE  Good(r)'
<1>1. PICK i : i = f.item
  OBVIOUS
<1>2. /\ i \in StockItems /\ i \notin Nat /\ DOMAIN ledger \subseteq Nat
      /\ floats'[r] = floats[r] \ {f} /\ f.qty \in Int
      /\ UNCHANGED <<qtyOnHand, ledger, pc, call, local>>
  <2>1. f \in Float /\ DOMAIN ledger \subseteq Nat /\ floats'[r] = floats[r] \ {f}
    BY DEF TypeInv, TypeOK
  <2> QED
    BY <1>1, <2>1, NamesAssumption DEF Float, db
<1>3. WritesOf(r) /\ Balance(r) /\ LocalOf(r)
  BY DEF Good
<1>4. /\ i \notin Wrote(r) /\ i \in Touched(r) /\ Owes(r, i, f.qty)
      /\ f.to = qtyOnHand[i] - f.qty
      /\ \A g \in floats[r] : g # f => g.item # i
      /\ OnLine(r) => ThisLine(r).item # i
  BY <1>1, <1>3 DEF WritesOf, Balance
<1>5. /\ Once(tx'[r].writes) /\ tx'[r].made = tx[r].made
      /\ Wrote(r)' = Wrote(r) \union {i} /\ View(r)' = View(r)
      /\ \A j \in StockItems : \A q : j # i => (Owes(r, j, q)' <=> Owes(r, j, q))
      /\ \A q : f.to = Left(View(r), i) + q => Owes(r, i, q)'
  <2>1. Once(tx[r].writes) /\ Set(r, i, f.to)
    BY <1>1, <1>3 DEF WritesOf
  <2> QED
    BY <1>2, <2>1, SetItemView
<1>6. Owes(r, i, 0)'
  <2>1. QtyView(r, i) = qtyOnHand[i]
    BY <1>4, WrittenNot DEF QtyView, Wrote
  <2>2. Left(View(r), i) \in Int
    BY <1>2, ViewTypes DEF TypeInv
  <2>3. f.to = Left(View(r), i) + 0
    BY <1>2, <1>4, <2>1, <2>2 DEF Owes
  <2> QED
    BY <1>5, <2>3
<1>7. /\ ThisLine(r)' = ThisLine(r) /\ (OnLine(r)' <=> OnLine(r)) /\ Owed(r)' = Owed(r)
      /\ Touched(r)' = Touched(r)
  BY <1>2 DEF ThisLine, OnLine, Owed, Touched, Reached
<1>8. WritesOf(r)'
  BY <1>2, <1>3, <1>4, <1>5, <1>7 DEF WritesOf
<1>9. Balance(r)'
  <2>1. ASSUME NEW g \in floats'[r]
        PROVE  /\ g.item \notin Wrote(r)' /\ Owes(r, g.item, g.qty)'
               /\ g.at = "write" => g.to = qtyOnHand'[g.item] - g.qty
               /\ \A h \in floats'[r] : g.item = h.item => g = h
    <3>1. g \in floats[r] /\ g.item # i /\ g.item \in StockItems
      BY <1>2, <1>4 DEF TypeInv, TypeOK, Float
    <3> QED
      BY <1>2, <1>3, <1>5, <3>1 DEF Balance
  <2>2. OnLine(r) => Owes(r, ThisLine(r).item, Owed(r))'
    <3> SUFFICES ASSUME OnLine(r) PROVE Owes(r, ThisLine(r).item, Owed(r))'
      OBVIOUS
    <3>1. PICK j, q : j = ThisLine(r).item /\ q = Owed(r)
      OBVIOUS
    <3>2. j \in StockItems /\ j # i /\ Owes(r, j, q)
      BY <1>3, <1>4, <3>1 DEF Balance, TypeInv, LineOK, OnLine, InLine
    <3>3. Owes(r, j, q)'
      BY <1>5, <3>2
    <3> QED
      BY <1>7, <3>1, <3>3
  <2>3. ASSUME NEW j \in StockItems, \A g \in floats'[r] : g.item # j,
               OnLine(r) => j # ThisLine(r).item
        PROVE  Owes(r, j, 0)'
    <3>1. CASE j = i
      BY <1>6, <3>1
    <3>2. CASE j # i
      <4>1. \A g \in floats[r] : g.item # j
        BY <1>1, <1>2, <2>3, <3>2
      <4> QED
        BY <1>3, <1>5, <2>3, <3>2, <4>1 DEF Balance
    <3> QED
      BY <3>1, <3>2
  <2> QED
    BY <1>7, <2>1, <2>2, <2>3 DEF Balance
<1>10. LocalOf(r)'
  <2>1. pc[r] = "drain" => \A d \in local[r].docs : d.at \notin Wrote(r)'
    BY <1>2, <1>3, <1>5 DEF LocalOf, EntriesOf
  <2> QED
    BY <1>2, <1>3, <1>5, <1>7, <2>1 DEF LocalOf
<1> QED
  BY <1>8, <1>9, <1>10 DEF Good

-----------------------------------------------------------------------------
(* The handlers *)

BooksInv == TypeInv /\ AloneInv /\ BookInv

LEMMA GoodNow ==
  ASSUME BookInv, NoneLost, NEW r \in Requests, Busy(r)
  PROVE  Good(r) /\ Unambiguous(call[r].lines) /\ \A i \in StockItems : Unsigned(i)
BY DEF BookInv, NoneLost

LEMMA ThrowBooks ==
  ASSUME Serial, BooksInv, NEW r \in Requests, Busy(r), Throw(r)
  PROVE  AloneInv' /\ BookInv'
<1>1. tx'[r] = NoTx /\ \A o \in Requests \ {r} : tx'[o] = tx[o]
  BY DEF Throw, BooksInv, TypeInv, TypeOK
<1>2. pc'[r] = "failed" /\ \A o \in Requests \ {r} : pc'[o] = pc[o]
  BY GotoType DEF Throw, BooksInv, TypeInv, Steps, Finished
<1>3. UNCHANGED <<qtyOnHand, ledger, call, local, floats>>
  BY DEF Throw, db
<1> QED
  BY <1>1, <1>2, <1>3, BookStep DEF BooksInv, TypeInv, Busy, Active, Finished, NoTx

LEMMA ReadBooks ==
  ASSUME Serial, BooksInv, NEW r \in Requests, pc[r] = "read", NEW refuse,
         NEW at \in {"write", "find", "create"}, ReadQtyOnHand(r, refuse, at),
         at = "find" /\ ~refuse /\ ThisLine(r).item \in StockItems
           => qtyOnHand[ThisLine(r).item] >= ThisLine(r).qty,
         at = "create" => call[r].kind = "AUDIT", call[r].kind # "REVERSE_ALL"
  PROVE  AloneInv' /\ BookInv'
<1>0. Busy(r) /\ Active(r)
  BY DEF Busy, Active, Finished
<1>1. CASE Throw(r)
  BY <1>0, <1>1, ThrowBooks
<1>2. CASE ~Throw(r)
  <2>1. /\ ThisLine(r).item \in StockItems /\ ~refuse /\ Goto(r, at)
        /\ local' = [local EXCEPT ![r].seen = qtyOnHand[ThisLine(r).item]]
        /\ UNCHANGED <<db, call, kept, tx, floats>>
    BY <1>2 DEF ReadQtyOnHand
  <2>2. pc'[r] = at /\ \A o \in Requests \ {r} : pc'[o] = pc[o]
    BY <2>1, GotoType DEF BooksInv, TypeInv, Steps
  <2>3. \A o \in Requests \ {r} : local'[o] = local[o]
    BY <2>1 DEF BooksInv, TypeInv, TypeOK
  <2>4. NoneLost => Good(r)'
    BY <1>0, <2>1, GoodNow, ReadGood DEF BooksInv
  <2>5. tx'[r].missed = {} /\ Busy(r)' /\ UNCHANGED <<qtyOnHand, ledger>>
    BY <2>1, <2>2 DEF BooksInv, AloneInv, Busy, Finished, db
  <2> QED
    BY <1>0, <2>1, <2>2, <2>3, <2>4, <2>5, BookStep DEF BooksInv, TypeInv
<1> QED
  BY <1>1, <1>2

\* A step of the callback proper: in the session, short of the commit.
LEMMA CallbackBooks ==
  ASSUME Serial, BooksInv, NEW r \in Requests, pc[r] \in InLine \union {"header"},
         UNCHANGED <<qtyOnHand, ledger, call>>,
         pc'[r] \in InLine \union {"header", "commit"},
         \A o \in Requests \ {r} :
           pc'[o] = pc[o] /\ local'[o] = local[o] /\ tx'[o] = tx[o] /\ floats'[o] = floats[o],
         tx'[r].missed = tx[r].missed, floats'[r] = floats[r] \/ call[r].kind = "RELEASE",
         Good(r) /\ Unambiguous(call[r].lines) /\ (\A i \in StockItems : Unsigned(i)) => Good(r)'
  PROVE  AloneInv' /\ BookInv'
<1>1. Busy(r) /\ Active(r) /\ Busy(r)' /\ tx'[r].missed = {}
  BY DEF Busy, Active, Finished, InLine, BooksInv, AloneInv
<1>2. NoneLost => Good(r)'
  BY <1>1, GoodNow DEF BooksInv
<1> QED
  BY <1>1, <1>2, BookStep DEF BooksInv, TypeInv, InLine

LEMMA HeaderBooks ==
  ASSUME Serial, BooksInv, TypeInv', NEW r \in Requests, pc[r] = "header", NEW ids, NEW n,
         CreateHeader(r, ids, n)
  PROVE  AloneInv' /\ BookInv'
<1>1. Goto(r, "commit") /\ UNCHANGED <<qtyOnHand, ledger, call, local, floats>>
  BY DEF CreateHeader, db
<1>2. pc'[r] = "commit" /\ \A o \in Requests \ {r} : pc'[o] = pc[o]
  BY <1>1, GotoType DEF BooksInv, TypeInv, Steps
<1>3. /\ tx'[r].writes = tx[r].writes /\ tx'[r].missed = tx[r].missed
      /\ DOMAIN tx'[r].made = DOMAIN tx[r].made
      /\ \A k \in DOMAIN tx[r].made :
           /\ tx'[r].made[k].item = tx[r].made[k].item
           /\ tx'[r].made[k].qtyRemaining = tx[r].made[k].qtyRemaining
      /\ \A o \in Requests \ {r} : tx'[o] = tx[o]
  BY HeaderTx DEF BooksInv, TypeInv
<1>4. Good(r) => Good(r)'
  BY <1>1, <1>2, <1>3, HeaderGood DEF BooksInv
<1> QED
  BY <1>1, <1>2, <1>3, <1>4, CallbackBooks

LEMMA AddBooks ==
  ASSUME Serial, BooksInv, TypeInv', NEW r \in Requests, AddStep(r) \/ RefundStep(r)
  PROVE  AloneInv' /\ BookInv'
<1> USE DEF BooksInv, TypeInv
<1>0. pc[r] \notin {"idle"} \union Finished => Active(r) /\ \A d : ~Retry(r, d)
  BY Serving DEF Active, Retry
<1>1. CASE AddRead(r) \/ RefundRead(r)
  BY <1>1, ReadBooks DEF AddRead, RefundRead, Serves
<1>2. CASE AddSetQty(r) \/ RefundSetQty(r)
  <2>1. /\ pc[r] = "write" /\ call[r].kind \in {"ADD", "REFUND"}
        /\ Set(r, ThisLine(r).item, local[r].seen + ThisLine(r).qty)
        /\ Goto(r, "create")
        /\ UNCHANGED <<db, call, local, kept, floats>>
    BY <1>0, <1>2 DEF AddSetQty, RefundSetQty, Serves, Finished
  <2>2. pc'[r] = "create" /\ \A o \in Requests \ {r} : pc'[o] = pc[o]
    BY <2>1, GotoType DEF Steps
  <2>3. tx'[r].missed = tx[r].missed /\ \A o \in Requests \ {r} : tx'[o] = tx[o]
    BY <2>1, SetTx
  <2>4. Good(r) /\ Unambiguous(call[r].lines) => Good(r)'
    BY <2>1, WriteGood
  <2> QED
    BY <2>1, <2>2, <2>3, <2>4, CallbackBooks DEF InLine, db
<1>3. CASE AddCreateEntry(r) \/ RefundCreateEntry(r)
  <2>1. PICK id : id = <<kept[r].attempt, local[r].line>>
    OBVIOUS
  <2>2. /\ pc[r] = "create" /\ call[r].kind \in {"ADD", "REFUND"}
        /\ AppendEntry(r, ThisLine(r).item, ThisLine(r).qty, id)
        /\ NextLine(r) /\ UNCHANGED <<db, call, floats>>
    BY <1>3, <2>1 DEF AddCreateEntry, RefundCreateEntry, CreateEntry, Serves
  <2>3. id \in Nat \X Nat
    <3>1. kept[r] \in Kept /\ local[r] \in Local
      BY DEF TypeOK
    <3>2. kept[r].attempt \in Nat /\ local[r].line \in Nat
      BY <3>1, BoundsAssumption DEF Kept, Local
    <3> QED
      BY <2>1, <3>2
  <2>4. tx'[r].missed = tx[r].missed /\ \A o \in Requests \ {r} : tx'[o] = tx[o]
    BY <2>2, AppendTx
  <2>5. /\ pc'[r] \in {"read", "header"}
        /\ \A o \in Requests \ {r} : local'[o] = local[o] /\ pc'[o] = pc[o]
    BY <2>2, NextLineLocal
  <2>6. Good(r) /\ Unambiguous(call[r].lines) => Good(r)'
    BY <2>2, <2>3, MakeGood
  <2> QED
    BY <2>2, <2>4, <2>5, <2>6, CallbackBooks DEF InLine, db
<1>4. CASE AddCreateHeader(r) \/ RefundCreateHeader(r)
  BY <1>4, HeaderBooks DEF AddCreateHeader, RefundCreateHeader, Serves
<1>5. CASE RefundSetPrice(r)
  <2>1. /\ pc[r] = "price" /\ Goto(r, "done") /\ call[r].kind = "REFUND"
        /\ UNCHANGED <<qtyOnHand, ledger, headers, call, local, kept, tx, floats>>
    BY <1>5 DEF RefundSetPrice, Serves
  <2>2. pc'[r] = "done" /\ \A o \in Requests \ {r} : pc'[o] = pc[o]
    BY <2>1, GotoType DEF Steps, Finished
  <2>3. tx[r] = NoTx /\ tx[r].missed = {}
    BY <2>1 DEF AloneInv, Busy
  <2> QED
    BY <1>0, <2>1, <2>2, <2>3, BookStep DEF Busy, Finished
<1> QED
  BY <1>1, <1>2, <1>3, <1>4, <1>5 DEF AddStep, RefundStep

LEMMA FindBooks ==
  ASSUME Serial, BooksInv, TypeInv', NEW r \in Requests, pc[r] = "find",
         call[r].kind \in {"RELEASE", "SHRINKAGE", "AUDIT"},
         NEW q, q = (IF call[r].kind = "AUDIT" THEN local[r].seen - ThisLine(r).qty
                     ELSE ThisLine(r).qty),
         Find(r, q, OpenEntries(ThisLine(r).item)), Goto(r, "drain")
  PROVE  AloneInv' /\ BookInv'
<1> DEFINE ds == {[at |-> n, item |-> ledger[n].item, qty |-> ledger[n].qty,
                   rem |-> ledger[n].qtyRemaining] : n \in OpenEntries(ThisLine(r).item)}
<1>1. pc'[r] = "drain" /\ \A o \in Requests \ {r} : pc'[o] = pc[o]
  BY GotoType DEF BooksInv, TypeInv, Steps
<1>2. local' = [local EXCEPT ![r] = [local[r] EXCEPT !.left = q, !.docs = ds]]
  BY DEF Find
<1> HIDE DEF ds
<1>3. \A o \in Requests \ {r} : local'[o] = local[o]
  BY <1>2 DEF BooksInv, TypeInv, TypeOK
<1>4. UNCHANGED <<qtyOnHand, ledger, call, tx, floats>>
  BY DEF Find, db
<1>5. Good(r) /\ Unambiguous(call[r].lines) /\ (\A i \in StockItems : Unsigned(i)) => Good(r)'
  BY FindGood DEF BooksInv
<1> QED
  BY <1>1, <1>3, <1>4, <1>5, CallbackBooks DEF InLine

LEMMA ConsumeBooks ==
  ASSUME Serial, BooksInv, TypeInv', EntriesWithinQty, NEW r \in Requests, pc[r] = "drain",
         call[r].kind # "REVERSE_ALL", NEW d \in local[r].docs, Consume(r, d)
  PROVE  AloneInv' /\ BookInv'
<1> DEFINE x == [local[r] EXCEPT !.docs = local[r].docs \ {d}, !.left = local[r].left -
                   (IF local[r].left > d.rem THEN d.rem ELSE local[r].left)]
<1>1. UNCHANGED <<qtyOnHand, ledger, call, floats, pc>> /\ local' = [local EXCEPT ![r] = x]
  BY DEF Consume, db
<1> HIDE DEF x
<1>2. \A o \in Requests \ {r} : local'[o] = local[o]
  BY <1>1 DEF BooksInv, TypeInv, TypeOK
<1>3. tx'[r].missed = tx[r].missed /\ \A o \in Requests \ {r} : tx'[o] = tx[o]
  <2>1. UNCHANGED tx \/ \E v : Set(r, d.at, v)
    BY DEF Consume
  <2> QED
    BY <2>1, SetTx DEF BooksInv, TypeInv
<1>4. ASSUME \A i \in StockItems : Unsigned(i), NEW n \in DOMAIN ledger
      PROVE  ledger[n].qtyRemaining >= 0
  <2>1. ledger[n] \in Entry
    BY DEF BooksInv, TypeInv, TypeOK
  <2>2. ledger[n].item \in StockItems /\ ledger[n].qty \in Int
    BY <2>1 DEF Entry
  <2>3. \A o \in Requests : call[o].kind # "REVERSE"
    BY DEF Serial, BooksInv, AloneInv, NoCall
  <2>4. Unsigned(ledger[n].item) /\ Unreversed(ledger[n].item)
    BY <1>4, <2>2, <2>3 DEF Unreversed
  <2> QED
    BY <2>2, <2>4 DEF EntriesWithinQty
<1>5. Good(r) /\ (\A i \in StockItems : Unsigned(i)) => Good(r)'
  BY <1>4, ConsumeGood DEF BooksInv
<1> QED
  BY <1>1, <1>2, <1>3, <1>5, CallbackBooks DEF InLine

LEMMA SettleBooks ==
  ASSUME Serial, BooksInv, TypeInv', NEW r \in Requests, pc[r] = "drain", local[r].docs = {},
         call[r].kind \in {"SHRINKAGE", "AUDIT"},
         NEW v, v = (IF call[r].kind = "AUDIT" THEN ThisLine(r).qty
                     ELSE local[r].seen - ThisLine(r).qty),
         Set(r, ThisLine(r).item, v), NextLine(r), UNCHANGED <<db, call, kept, floats>>
  PROVE  AloneInv' /\ BookInv'
<1>1. /\ pc'[r] \in {"read", "header"}
      /\ \A o \in Requests \ {r} : local'[o] = local[o] /\ pc'[o] = pc[o]
  BY NextLineLocal DEF BooksInv, TypeInv
<1>2. tx'[r].missed = tx[r].missed /\ \A o \in Requests \ {r} : tx'[o] = tx[o]
  BY SetTx DEF BooksInv, TypeInv
<1>3. Good(r) => Good(r)'
  BY SettleGood DEF BooksInv
<1> QED
  BY <1>1, <1>2, <1>3, CallbackBooks DEF InLine, db

LEMMA ShrinkageBooks ==
  ASSUME Serial, BooksInv, TypeInv', EntriesWithinQty, NEW r \in Requests, ShrinkageStep(r)
  PROVE  AloneInv' /\ BookInv'
<1> USE DEF BooksInv
<1>0. pc[r] \notin {"idle"} \union Finished => \A d : ~Retry(r, d)
  BY Serving DEF Active, Retry
<1>1. CASE ShrinkageRead(r)
  <2>0. PICK refuse : refuse <=> qtyOnHand[ThisLine(r).item] < ThisLine(r).qty
    OBVIOUS
  <2>1. /\ pc[r] = "read" /\ call[r].kind = "SHRINKAGE"
        /\ ReadQtyOnHand(r, refuse, "find")
    BY <1>1, <2>0 DEF ShrinkageRead, Serves, ReadQtyOnHand
  <2>2. ThisLine(r).qty \in Int
    BY <2>1, ThisLineType DEF InLine, Line, TypeInv
  <2>3. ThisLine(r).item \in StockItems => qtyOnHand[ThisLine(r).item] \in Int
    BY DEF TypeInv, TypeOK
  <2>4. ~refuse /\ ThisLine(r).item \in StockItems
          => qtyOnHand[ThisLine(r).item] >= ThisLine(r).qty
    BY <2>0, <2>2, <2>3
  <2> QED
    BY <2>1, <2>4, ReadBooks
<1>2. CASE ShrinkageFind(r)
  BY <1>2, FindBooks DEF ShrinkageFind, Serves
<1>3. CASE ShrinkageDrain(r)
  <2>1. /\ pc[r] = "drain" /\ call[r].kind = "SHRINKAGE"
        /\ \E d \in local[r].docs : Consume(r, d)
    BY <1>0, <1>3 DEF ShrinkageDrain, Serves, Oldest, Finished
  <2> QED
    BY <2>1, ConsumeBooks
<1>4. CASE ShrinkageSetQty(r)
  <2>1. /\ pc[r] = "drain" /\ call[r].kind = "SHRINKAGE" /\ local[r].docs = {}
        /\ Set(r, ThisLine(r).item, local[r].seen - ThisLine(r).qty)
        /\ NextLine(r) /\ UNCHANGED <<db, call, kept, floats>>
    BY <1>0, <1>4 DEF ShrinkageSetQty, Serves, Finished
  <2> QED
    BY <2>1, SettleBooks
<1>5. CASE ShrinkageCreateHeader(r)
  BY <1>5, HeaderBooks DEF ShrinkageCreateHeader, Serves
<1> QED
  BY <1>1, <1>2, <1>3, <1>4, <1>5 DEF ShrinkageStep

LEMMA AuditBooks ==
  ASSUME Serial, BooksInv, TypeInv', EntriesWithinQty, NEW r \in Requests, AuditStep(r)
  PROVE  AloneInv' /\ BookInv'
<1> USE DEF BooksInv
<1>0. pc[r] \notin {"idle"} \union Finished => \A d : ~Retry(r, d)
  BY Serving DEF Active, Retry
<1>1. CASE AuditRead(r)
  <2>1. PICK at : at = IF ThisLine(r).qty > qtyOnHand[ThisLine(r).item] THEN "create" ELSE "find"
    OBVIOUS
  <2>2. /\ pc[r] = "read" /\ call[r].kind = "AUDIT" /\ at \in {"write", "find", "create"}
        /\ ReadQtyOnHand(r, qtyOnHand[ThisLine(r).item] = ThisLine(r).qty, at)
    BY <1>1, <2>1 DEF AuditRead, Serves
  <2>3. ThisLine(r).qty \in Int
    BY <2>2, ThisLineType DEF InLine, Line
  <2>4. ThisLine(r).item \in StockItems => qtyOnHand[ThisLine(r).item] \in Int
    BY DEF TypeInv, TypeOK
  <2> QED
    BY <2>1, <2>2, <2>3, <2>4, ReadBooks
<1>2. CASE AuditCreateEntry(r)
  <2>1. PICK id : id = <<kept[r].attempt, local[r].line>>
    OBVIOUS
  <2>2. /\ pc[r] = "create" /\ call[r].kind = "AUDIT"
        /\ AppendEntry(r, ThisLine(r).item, ThisLine(r).qty - local[r].seen, id)
        /\ Goto(r, "drain") /\ UNCHANGED <<db, call, local, floats>>
    BY <1>2, <2>1 DEF AuditCreateEntry, CreateEntry, Serves
  <2>3. id \in Nat \X Nat
    <3>1. kept[r] \in Kept /\ local[r] \in Local
      BY DEF TypeInv, TypeOK
    <3>2. kept[r].attempt \in Nat /\ local[r].line \in Nat
      BY <3>1, BoundsAssumption DEF Kept, Local
    <3> QED
      BY <2>1, <3>2
  <2>4. tx'[r].missed = tx[r].missed /\ \A o \in Requests \ {r} : tx'[o] = tx[o]
    BY <2>2, AppendTx DEF TypeInv
  <2>5. pc'[r] = "drain" /\ \A o \in Requests \ {r} : pc'[o] = pc[o]
    BY <2>2, GotoType DEF TypeInv, Steps
  <2>6. Good(r) => Good(r)'
    BY <2>2, <2>3, SurplusGood
  <2> QED
    BY <2>2, <2>4, <2>5, <2>6, CallbackBooks DEF InLine, db
<1>3. CASE AuditFind(r)
  BY <1>3, FindBooks DEF AuditFind, Serves
<1>4. CASE AuditDrain(r)
  <2>1. /\ pc[r] = "drain" /\ call[r].kind = "AUDIT"
        /\ \E d \in local[r].docs : Consume(r, d)
    BY <1>0, <1>4 DEF AuditDrain, Serves, Oldest, Finished
  <2> QED
    BY <2>1, ConsumeBooks
<1>5. CASE AuditSetQty(r)
  <2>1. /\ pc[r] = "drain" /\ call[r].kind = "AUDIT" /\ local[r].docs = {}
        /\ Set(r, ThisLine(r).item, ThisLine(r).qty)
        /\ NextLine(r) /\ UNCHANGED <<db, call, kept, floats>>
    BY <1>0, <1>5 DEF AuditSetQty, Serves, Finished
  <2> QED
    BY <2>1, SettleBooks
<1>6. CASE AuditCreateHeader(r)
  BY <1>6, HeaderBooks DEF AuditCreateHeader, Serves
<1> QED
  BY <1>1, <1>2, <1>3, <1>4, <1>5, <1>6 DEF AuditStep

LEMMA ReleaseBooks ==
  ASSUME Serial, BooksInv, TypeInv', EntriesWithinQty, NEW r \in Requests, ReleaseStep(r)
  PROVE  AloneInv' /\ BookInv'
<1> USE DEF BooksInv
<1>0. pc[r] \notin {"idle"} \union Finished => \A d : ~Retry(r, d)
  BY Serving DEF Active, Retry
<1>1. CASE ReleaseCheck(r)
  <2>0. PICK refuse : refuse <=> qtyOnHand[ThisLine(r).item] < ThisLine(r).qty
    OBVIOUS
  <2>1. /\ pc[r] = "read" /\ call[r].kind = "RELEASE"
        /\ ReadQtyOnHand(r, refuse, "find")
    BY <1>1, <2>0 DEF ReleaseCheck, Serves, ReadQtyOnHand
  <2>2. ThisLine(r).qty \in Int
    BY <2>1, ThisLineType DEF InLine, Line, TypeInv
  <2>3. ThisLine(r).item \in StockItems => qtyOnHand[ThisLine(r).item] \in Int
    BY DEF TypeInv, TypeOK
  <2>4. ~refuse /\ ThisLine(r).item \in StockItems
          => qtyOnHand[ThisLine(r).item] >= ThisLine(r).qty
    BY <2>0, <2>2, <2>3
  <2> QED
    BY <2>1, <2>4, ReadBooks
<1>2. CASE ReleaseFind(r)
  <2>1. pc[r] = "find" /\ call[r].kind = "RELEASE"
    BY <1>2 DEF ReleaseFind, Serves
  <2>2. ThisLine(r).item \in StockItems
    BY <2>1, ThisLineIs DEF InLine
  <2>3. Find(r, ThisLine(r).qty, OpenEntries(ThisLine(r).item)) /\ Goto(r, "drain")
    BY <1>2, <2>2 DEF ReleaseFind, Serial
  <2> QED
    BY <2>1, <2>3, FindBooks
<1>3. CASE ReleaseDrain(r)
  <2>1. /\ pc[r] = "drain" /\ call[r].kind = "RELEASE"
        /\ \E d \in local[r].docs : Consume(r, d)
    BY <1>0, <1>3 DEF ReleaseDrain, Serves, Oldest, Newest, Finished
  <2> QED
    BY <2>1, ConsumeBooks
<1>4. CASE ReleaseSpawn(r)
  <2>1. /\ pc[r] = "drain" /\ call[r].kind = "RELEASE" /\ NextLine(r)
        /\ Spawn(r, local[r].line, ThisLine(r).item, ThisLine(r).qty)
        /\ UNCHANGED <<db, call, kept, tx>>
    BY <1>4 DEF ReleaseSpawn, Serves
  <2>2. /\ pc'[r] \in {"read", "header"}
        /\ \A o \in Requests \ {r} : local'[o] = local[o] /\ pc'[o] = pc[o]
    BY <2>1, NextLineLocal DEF TypeInv
  <2>3. \A o \in Requests \ {r} : floats'[o] = floats[o]
    BY <2>1 DEF Spawn, TypeInv, TypeOK
  <2>4. Good(r) => Good(r)'
    BY <1>4, <2>1, SpawnGood
  <2> QED
    BY <2>1, <2>2, <2>3, <2>4, CallbackBooks DEF InLine, db
<1>5. CASE ReleaseCreateHeader(r)
  <2>1. /\ pc[r] = "header" /\ call[r].kind = "RELEASE" /\ Goto(r, "commit")
        /\ UNCHANGED <<qtyOnHand, ledger, call, local, kept, tx, floats>>
    BY <1>5 DEF ReleaseCreateHeader, Serves
  <2>2. pc'[r] = "commit" /\ \A o \in Requests \ {r} : pc'[o] = pc[o]
    BY <2>1, GotoType DEF TypeInv, Steps
  <2>3. Good(r) => Good(r)'
    BY <2>1, <2>2, HeaderGood
  <2> QED
    BY <2>1, <2>2, <2>3, CallbackBooks
<1> QED
  BY <1>1, <1>2, <1>3, <1>4, <1>5 DEF ReleaseStep

\* The handlers that are left out do not run.
LEMMA NotServed ==
  ASSUME Serial, BooksInv, NEW r \in Requests
  PROVE  ~WasteStep(r) /\ ~ReverseStep(r)
<1>1. pc[r] \notin {"idle"} \union Finished => call[r].kind \notin {"WASTE", "REVERSE", "REVERSE_ALL"}
  BY Serving DEF BooksInv, Active
<1>2. \A kind \in {"WASTE", "REVERSE", "REVERSE_ALL"}, at \in {"read", "write", "header"} :
        ~Serves(r, kind, at)
  BY <1>1 DEF Serves, Finished
<1>3. ~WasteStep(r)
  BY <1>2 DEF WasteStep, WasteRead, WasteSetQty, WasteCreateHeader
<1>4. ~ReverseStep(r)
  BY <1>2 DEF ReverseStep, ReverseFind, ReverseSetRemaining, ReverseAllFind,
     ReverseAllSetRemaining, ReverseAllEnd, ReverseCreateHeader
<1> QED
  BY <1>3, <1>4

\* The commit: what the two books were going to be is what they are.
LEMMA CommitBooks ==
  ASSUME Serial, BooksInv, NEW r \in Requests, Commit(r)
  PROVE  AloneInv' /\ BookInv'
<1> USE DEF BooksInv, TypeInv
<1>1. /\ pc[r] = "commit" /\ UNCHANGED <<call, local, floats>>
      /\ qtyOnHand' = [i \in StockItems |-> QtyView(r, i)]
      /\ ledger' = View(r)
      /\ tx' = [o \in Requests |-> IF o = r THEN NoTx ELSE Missed(o, Wrote(r))]
  BY DEF Commit, QtyView, View, ViewOf
<1>2. PICK at \in {"price", "done"} :
        Goto(r, at) /\ (at = "price" <=> call[r].kind = "REFUND")
  BY DEF Commit
<1>3. pc'[r] = at /\ \A o \in Requests \ {r} : pc'[o] = pc[o]
  BY <1>2, GotoType DEF Steps, Finished
<1>4. /\ Busy(r) /\ Active(r) /\ ~Busy(r)'
      /\ \A o \in Requests \ {r} : ~Active(o) /\ ~Busy(o) /\ ~Active(o)' /\ ~Busy(o)'
  <2>1. Busy(r) /\ Active(r) /\ ~Busy(r)'
    BY <1>1, <1>3 DEF Busy, Active, Finished
  <2>2. \A o \in Requests \ {r} : ~Active(o) /\ ~Busy(o)
    BY <2>1, Serving
  <2> QED
    BY <1>1, <1>3, <2>1, <2>2 DEF Busy, Active
<1>5. \A o \in Requests : tx'[o] = NoTx
  <2>1. \A o \in Requests \ {r} : tx[o] = NoTx
    BY <1>4, Serving
  <2>2. \A o \in Requests \ {r} : Missed(o, Wrote(r)) = tx[o]
    BY <2>1 DEF Missed, NoTx
  <2> QED
    BY <1>1, <2>1, <2>2
<1>6. AloneInv'
  <2>1. NoTx.missed = {}
    BY DEF NoTx
  <2> QED
    BY <1>1, <1>2, <1>3, <1>4, <1>5, <2>1 DEF AloneInv, Active
<1>7. NoneLost' => NoneLost /\ floats[r] = {}
  <2> SUFFICES ASSUME NoneLost' PROVE NoneLost /\ floats[r] = {}
    OBVIOUS
  <2>1. \A o \in Requests : Unambiguous(call[o].lines)
    BY <1>1 DEF NoneLost, Unambiguous
  <2>2. \A o \in Requests : call[o].kind = "RELEASE" => pc[o] \notin {"failed", "crashed"}
    BY <1>1, <1>3 DEF NoneLost
  <2>3. \A o \in Requests : pc[o] = "done" => floats[o] = {}
    BY <1>1, <1>3 DEF NoneLost
  <2>4. floats[r] = {}
    BY <1>1, <1>2, <1>3 DEF NoneLost, AloneInv
  <2> QED
    BY <1>1, <2>1, <2>2, <2>3, <2>4, SignsSame DEF NoneLost
<1>8. BookInv'
  <2> SUFFICES ASSUME NoneLost', NEW i \in StockItems PROVE qtyOnHand'[i] = Left(ledger', i)
    BY <1>4 DEF BookInv, Left, EntriesOf
  <2>1. Balance(r)
    BY <1>4, <1>7, GoodNow DEF Good
  <2>2. Owes(r, i, 0)
    BY <1>1, <1>7, <2>1 DEF Balance, OnLine
  <2>3. QtyView(r, i) \in Int /\ Left(View(r), i) \in Int
    BY ViewTypes
  <2>4. QtyView(r, i) = Left(View(r), i)
    BY <2>2, <2>3 DEF Owes
  <2>5. qtyOnHand'[i] = QtyView(r, i)
    BY <1>1
  <2> QED
    BY <1>1, <2>4, <2>5
<1> QED
  BY <1>6, <1>8

\* The process exits: the books are as they were, for what is still claimed.
LEMMA ExitBooks ==
  ASSUME Serial, BooksInv, ProcessExit
  PROVE  AloneInv' /\ BookInv'
<1>1. /\ pc' = [r \in Requests |-> IF Active(r) THEN "crashed" ELSE pc[r]]
      /\ tx' = [r \in Requests |-> NoTx]
      /\ floats' = [r \in Requests |-> {}]
      /\ UNCHANGED <<qtyOnHand, ledger, call, local>>
  BY DEF ProcessExit, db
<1>2. \A r \in Requests : ~Active(r)' /\ ~Busy(r)'
  BY <1>1 DEF Active, Busy, Finished
<1>3. AloneInv'
  <2>1. NoTx.missed = {}
    BY DEF NoTx
  <2>2. \A r \in Requests : pc'[r] # "price" /\ (pc'[r] = "idle" => pc[r] = "idle")
    BY <1>1 DEF Active, Finished
  <2>3. \A r \in Requests : pc'[r] # "idle" => pc[r] # "idle"
    BY <1>1 DEF Active, AloneInv, BooksInv
  <2> QED
    BY <1>1, <1>2, <2>1, <2>2, <2>3 DEF AloneInv, BooksInv
<1>4. NoneLost' => NoneLost
  <2> SUFFICES ASSUME NoneLost' PROVE NoneLost
    OBVIOUS
  <2>1. \A r \in Requests : Unambiguous(call[r].lines)
    BY <1>1 DEF NoneLost, Unambiguous
  <2>2. \A r \in Requests : call[r].kind = "RELEASE" => pc[r] \notin {"failed", "crashed"}
    BY <1>1 DEF NoneLost, Active, Finished
  <2>3. ASSUME NEW r \in Requests, pc[r] = "done" PROVE floats[r] = {}
    <3>1. floats[r] # {} => call[r].kind = "RELEASE" /\ pc'[r] = "crashed"
      BY <1>1 DEF BooksInv, AloneInv, Active
    <3> QED
      BY <1>1, <3>1 DEF NoneLost
  <2> QED
    BY <1>1, <2>1, <2>2, <2>3, SignsSame DEF NoneLost
<1>5. BookInv'
  BY <1>1, <1>2, <1>4 DEF BookInv, BooksInv
<1> QED
  BY <1>3, <1>5

LEMMA FloatBooks ==
  ASSUME Serial, BooksInv, TypeInv', NEW r \in Requests, Floating(r)
  PROVE  AloneInv' /\ BookInv'
<1> USE DEF BooksInv
<1>0. floats[r] # {} /\ Active(r) /\ pc[r] # "idle" /\ call[r].kind = "RELEASE"
  <2>1. floats[r] # {}
    BY DEF Floating, DecreaseTotalQtyRead, DecreaseTotalQtyWrite
  <2> QED
    BY <2>1 DEF Active, AloneInv
<1>1. CASE DecreaseTotalQtyRead(r)
  <2>1. PICK f \in floats[r] : \E g :
          floats' = [floats EXCEPT ![r] = (@ \ {f}) \union {g}]
    BY <1>1 DEF DecreaseTotalQtyRead
  <2>2. UNCHANGED <<qtyOnHand, ledger, pc, call, local, tx>>
    BY <1>1 DEF DecreaseTotalQtyRead, db
  <2>3. floats'[r] # {} /\ \A o \in Requests \ {r} : floats'[o] = floats[o]
    BY <2>1 DEF TypeInv, TypeOK
  <2>4. NoneLost /\ Busy(r)' => Good(r)'
    BY <1>1, <2>2, GoodNow, FloatReadGood DEF Busy
  <2>5. tx'[r].missed = {} /\ (~Busy(r)' => tx'[r] = NoTx) /\ (pc'[r] = "price" => call[r].kind = "REFUND")
    BY <2>2 DEF AloneInv, Busy
  <2> QED
    BY <1>0, <2>2, <2>3, <2>4, <2>5, BookStep DEF TypeInv
<1>2. CASE DecreaseTotalQtyWrite(r)
  <2>1. PICK f \in floats[r] :
          /\ f.at = "write"
          /\ \/ /\ pc[r] \notin Finished /\ Set(r, f.item, f.to)
                /\ floats' = [floats EXCEPT ![r] = @ \ {f}]
                /\ UNCHANGED <<db, pc, call, local, kept>>
             \/ /\ pc[r] = "failed"
                /\ tx' = [o \in Requests |-> Missed(o, {f.item})]
                /\ floats' = [floats EXCEPT ![r] = @ \ {f}]
                /\ UNCHANGED <<ledger, headers, charged, pc, call, local, kept>>
             \/ ProcessExit
    BY <1>2 DEF DecreaseTotalQtyWrite
  <2>2. CASE /\ pc[r] \notin Finished /\ Set(r, f.item, f.to)
             /\ floats' = [floats EXCEPT ![r] = @ \ {f}]
             /\ UNCHANGED <<db, pc, call, local, kept>>
    <3>1. Busy(r) /\ Busy(r)' /\ UNCHANGED <<qtyOnHand, ledger>>
      BY <1>0, <2>2 DEF Busy, AloneInv, db
    <3>2. NoneLost => Good(r)'
      BY <1>0, <2>1, <2>2, <3>1, GoodNow, FloatWriteGood
    <3>3. tx'[r].missed = {} /\ \A o \in Requests \ {r} : tx'[o] = tx[o]
      BY <2>2, SetTx DEF TypeInv, AloneInv
    <3>4. \A o \in Requests \ {r} : floats'[o] = floats[o]
      BY <2>2 DEF TypeInv, TypeOK
    <3> QED
      BY <1>0, <2>2, <3>1, <3>2, <3>3, <3>4, BookStep DEF TypeInv, Busy, Finished
  <2>3. CASE /\ pc[r] = "failed"
             /\ tx' = [o \in Requests |-> Missed(o, {f.item})]
             /\ floats' = [floats EXCEPT ![r] = @ \ {f}]
             /\ UNCHANGED <<ledger, headers, charged, pc, call, local, kept>>
    <3>1. \A o \in Requests : tx[o] = NoTx
      BY <1>0, <2>3, Serving DEF AloneInv, Busy, Finished
    <3>2. tx' = tx
      BY <2>3, <3>1 DEF Missed, NoTx, TypeInv, TypeOK
    <3>3. /\ ~NoneLost'
          /\ \A o \in Requests : floats'[o] # {} => floats[o] # {}
          /\ \A o \in Requests \ {r} : floats'[o] = floats[o]
      BY <1>0, <2>3 DEF NoneLost, TypeInv, TypeOK
    <3>4. AloneInv'
      BY <2>3, <3>2, <3>3 DEF AloneInv, Busy, Active
    <3> QED
      BY <3>3, <3>4 DEF BookInv
  <2> QED
    BY <2>1, <2>2, <2>3, ExitBooks
<1> QED
  BY <1>1, <1>2 DEF Floating

\* A request arrives where none is at work, and starts from the books as they are.
LEMMA ArriveBooks ==
  ASSUME Serial, BooksInv, TypeInv', NEW r \in Requests, NEW kind \in Kinds, Arrive(r, kind)
  PROVE  AloneInv' /\ BookInv'
<1> USE DEF BooksInv
<1>1. pc[r] = "idle" /\ UNCHANGED <<qtyOnHand, ledger, local, tx, floats>>
  BY DEF Arrive, db
<1>2. pc'[r] = "read" /\ \A o \in Requests \ {r} : pc'[o] = pc[o]
  BY GotoType DEF Arrive, Steps, TypeInv
<1>3. PICK lines, target :
        call' = [call EXCEPT ![r] = [kind |-> kind, lines |-> lines, target |-> target]]
  BY DEF Arrive
<1>4. call'[r].kind = kind /\ \A o \in Requests \ {r} : call'[o] = call[o]
  BY <1>3 DEF TypeInv, TypeOK
<1>5. /\ call[r] = NoCall /\ local[r] = NoLocal /\ floats[r] = {} /\ tx[r] = NoTx
      /\ local[r].docs = {} /\ local[r].left = 0 /\ local[r].line = 1
  BY <1>1 DEF AloneInv, Busy, NoLocal
<1>6. \A o \in Requests : ~Active(o)
  <2> DEFINE A == {o \in Requests : Active(o)}
  <2>1. Cardinality(A) < 1
    BY DEF Arrive, Serial
  <2> SUFFICES ASSUME NEW o \in Requests, Active(o) PROVE FALSE
    OBVIOUS
  <2>2. A = {o}
    BY DEF AloneInv
  <2> HIDE DEF A
  <2>3. Cardinality(A) = 1
    BY <2>2, FS_Singleton
  <2> QED
    BY <2>1, <2>3
<1>7. \A o \in Requests \ {r} : ~Active(o)' /\ ~Busy(o)'
  BY <1>1, <1>2, <1>6 DEF Active, Busy
<1>8. AloneInv'
  BY <1>1, <1>2, <1>4, <1>5, <1>7 DEF AloneInv, Busy, Finished
<1>9. NoneLost' => NoneLost
  <2> SUFFICES ASSUME NoneLost' PROVE NoneLost
    OBVIOUS
  <2>1. ASSUME NEW o \in Requests PROVE Unambiguous(call[o].lines)
    <3>1. CASE o = r
      BY <1>5, <3>1 DEF NoCall, Unambiguous
    <3>2. CASE o # r
      BY <1>4, <3>2 DEF NoneLost, Unambiguous
    <3> QED
      BY <3>1, <3>2
  <2>2. \A o \in Requests : call[o].kind = "RELEASE" => pc[o] \notin {"failed", "crashed"}
    BY <1>1, <1>2, <1>4 DEF NoneLost
  <2>3. \A o \in Requests : pc[o] = "done" => floats[o] = {}
    BY <1>1, <1>2 DEF NoneLost
  <2>4. \A i \in StockItems : Unsigned(i)
    BY SignsArrive DEF NoneLost
  <2> QED
    BY <2>1, <2>2, <2>3, <2>4 DEF NoneLost
<1>10. ASSUME NoneLost PROVE Good(r)'
  <2>1. tx[r].writes = {} /\ tx[r].made = <<>>
    BY <1>5 DEF NoTx
  <2>2. ASSUME NEW i \in StockItems PROVE Owes(r, i, 0)
    <3>1. qtyOnHand[i] = Left(ledger, i)
      BY <1>10 DEF BookInv
    <3>2. QtyView(r, i) = qtyOnHand[i]
      BY <2>1 DEF QtyView, Written
    <3>3. ledger \in Seq(Entry) /\ tx[r] \in Tx
      BY DEF TypeInv, TypeOK
    <3>4. IsView(View(r), ledger, tx[r])
      BY <3>3, ViewIs DEF View
    <3>5. /\ DOMAIN View(r) = DOMAIN ledger /\ View(r) \in Seq(Entry)
          /\ \A n \in DOMAIN ledger :
               /\ View(r)[n].item = ledger[n].item
               /\ View(r)[n].qtyRemaining = ledger[n].qtyRemaining
      BY <2>1, <3>4 DEF IsView, Written
    <3>6. Left(View(r), i) = Left(ledger, i)
      BY <3>3, <3>5, LeftSame
    <3>7. QtyView(r, i) \in Int /\ Left(View(r), i) \in Int
      BY ViewTypes DEF TypeInv
    <3> QED
      BY <3>1, <3>2, <3>6, <3>7 DEF Owes
  <2>3. \A i \in StockItems : Owes(r, i, 0)'
    BY <1>1, <2>2 DEF Owes, QtyView, View
  <2>4. ~OnLine(r)'
    BY <1>2 DEF OnLine
  <2>5. WritesOf(r)'
    BY <1>1, <1>5, <2>1, <2>4 DEF WritesOf, Once, Wrote
  <2>6. Balance(r)'
    BY <1>1, <1>5, <2>3, <2>4 DEF Balance
  <2>7. LocalOf(r)'
    BY <1>1, <1>2, <1>5 DEF LocalOf, InLine
  <2> QED
    BY <2>5, <2>6, <2>7 DEF Good
<1>11. BookInv'
  BY <1>1, <1>7, <1>9, <1>10 DEF BookInv
<1> QED
  BY <1>8, <1>11

-----------------------------------------------------------------------------
(* The invariant *)

LEMMA InitBooks == Init => AloneInv /\ BookInv
<1> SUFFICES ASSUME Init PROVE AloneInv /\ BookInv
  OBVIOUS
<1>1. \A r \in Requests : /\ pc[r] = "idle" /\ call[r] = NoCall /\ local[r] = NoLocal
                          /\ tx[r] = NoTx /\ floats[r] = {} /\ ~Busy(r) /\ ~Active(r)
  BY DEF Init, Busy, Active
<1>2. AloneInv
  BY <1>1 DEF AloneInv, NoTx
<1>3. ASSUME NEW i \in StockItems PROVE qtyOnHand[i] = Left(ledger, i)
  <2>1. /\ DOMAIN ledger = DOMAIN OpeningLines
        /\ \A n \in DOMAIN OpeningLines :
             ledger[n].item = OpeningLines[n].item /\ ledger[n].qtyRemaining = OpeningLines[n].qty
    BY DEF Init
  <2>2. /\ [n \in DOMAIN ledger |-> ledger[n].qtyRemaining]
             = [n \in DOMAIN OpeningLines |-> OpeningLines[n].qty]
        /\ EntriesOf(ledger, i) = {n \in DOMAIN OpeningLines : OpeningLines[n].item = i}
    BY <2>1 DEF EntriesOf
  <2>3. qtyOnHand[i] = OpeningQty[i]
    BY DEF Init
  <2> QED
    BY <2>2, <2>3, OpeningAgrees DEF Left
<1> QED
  BY <1>1, <1>2, <1>3 DEF BookInv

LEMMA NextBooks ==
  Serial /\ BooksInv /\ EntriesWithinQty /\ [Next]_vars => BooksInv'
<1> SUFFICES ASSUME Serial, BooksInv, EntriesWithinQty, [Next]_vars PROVE BooksInv'
  OBVIOUS
<1>1. TypeInv'
  BY NextType DEF BooksInv
<1>2. CASE UNCHANGED vars
  <2>1. UNCHANGED <<qtyOnHand, ledger, pc, call, local, tx, floats>>
    BY <1>2 DEF vars
  <2>2. AloneInv'
    BY <2>1 DEF BooksInv, AloneInv, Active, Busy
  <2>3. NoneLost' => NoneLost
    BY <2>1, SignsSame DEF NoneLost, Unambiguous
  <2>4. ASSUME NEW r \in Requests, Good(r) PROVE Good(r)'
    <3>1. /\ \A i, q : Owes(r, i, q)' <=> Owes(r, i, q)
          /\ View(r)' = View(r) /\ Wrote(r)' = Wrote(r)
      BY <2>1, SameBooks
    <3>2. /\ ThisLine(r)' = ThisLine(r) /\ (OnLine(r)' <=> OnLine(r)) /\ Owed(r)' = Owed(r)
          /\ Touched(r)' = Touched(r)
      BY <2>1 DEF ThisLine, OnLine, Owed, Touched, Reached
    <3>3. WritesOf(r)'
      BY <2>1, <2>4, <3>1, <3>2 DEF Good, WritesOf
    <3>4. OnLine(r) => Owes(r, ThisLine(r).item, Owed(r))'
      BY <2>4, <3>1, <3>2 DEF Good, Balance
    <3>5. Balance(r)'
      BY <2>1, <2>4, <3>1, <3>2, <3>4 DEF Good, Balance
    <3>6. LocalOf(r)'
      BY <2>1, <2>4, <3>1, <3>2 DEF Good, LocalOf
    <3> QED
      BY <3>3, <3>5, <3>6 DEF Good
  <2>5. \A r \in Requests : Busy(r)' => Busy(r)
    BY <2>1 DEF Busy
  <2>6. BookInv'
    BY <2>1, <2>3, <2>4, <2>5 DEF BooksInv, BookInv
  <2> QED
    BY <1>1, <2>2, <2>6 DEF BooksInv
<1>3. ASSUME NEW r \in Requests, NEW kind \in Kinds, Arrive(r, kind) PROVE AloneInv' /\ BookInv'
  BY <1>1, <1>3, ArriveBooks
<1>4. ASSUME NEW r \in Requests, Handler(r) PROVE AloneInv' /\ BookInv'
  BY <1>1, <1>4, AddBooks, ReleaseBooks, ShrinkageBooks, AuditBooks, CommitBooks,
     NotServed DEF Handler
<1>5. ASSUME NEW r \in Requests, Floating(r) PROVE AloneInv' /\ BookInv'
  BY <1>1, <1>5, FloatBooks
<1>6. CASE ProcessExit
  BY <1>1, <1>6, ExitBooks DEF BooksInv
<1> QED
  BY <1>1, <1>2, <1>3, <1>4, <1>5, <1>6 DEF Next, BooksInv

\* One request at a time, the two books agree at rest: whatever adds, refunds,
\* releases, shrinkages and audits came, thrown or cut off at any step (a
\* release excepted), qtyOnHand is what the entries of the item have remaining.
THEOREM BooksAgree == Spec => []BooksAgreeWhenSerial
<1>1. CASE Serial
  <2>1. Init => BooksInv
    BY InitType, InitBooks DEF BooksInv
  <2>2. BooksInv /\ EntriesWithinQty /\ [Next]_vars => BooksInv'
    BY <1>1, NextBooks
  <2>3. BooksInv => BooksAgreeWhenSerial
    <3> SUFFICES ASSUME BooksInv, Quiet,
                        \A r \in Requests : Unambiguous(call[r].lines),
                        \A j \in StockItems : Unsigned(j),
                        \A r \in Requests : call[r].kind = "RELEASE" => pc[r] = "done",
                        NEW i \in StockItems
                 PROVE  qtyOnHand[i] = Remaining(i)
      BY DEF BooksAgreeWhenSerial
    <3>1. \A r \in Requests : floats[r] = {}
      BY DEF Quiet, Active
    <3>2. NoneLost
      BY <3>1 DEF NoneLost
    <3>3. qtyOnHand[i] = Left(ledger, i)
      BY <3>2 DEF BooksInv, BookInv
    <3> QED
      BY <3>3 DEF Left, EntriesOf, Remaining
  <2> QED
    BY <2>1, <2>2, <2>3, LedgerNeverOwes, PTL DEF Spec
<1>2. CASE ~Serial
  <2>1. TRUE => BooksAgreeWhenSerial
    BY <1>2 DEF Serial, BooksAgreeWhenSerial
  <2> QED
    BY <2>1, PTL
<1> QED
  BY <1>1, <1>2
=============================================================================
