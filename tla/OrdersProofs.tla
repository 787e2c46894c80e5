---------------------------- MODULE OrdersProofs ----------------------------
(***************************************************************************)
(* Theorems about Orders: its types; that no quantity on hold is ever      *)
(* negative, and that full refunds give back what was released, for any    *)
(* requests, documents and interleaving; and that one request at a time an *)
(* order is sold once, once closed stays as it is, and what is on hold of  *)
(* an item is what the on-hold orders ask for.                             *)
(***************************************************************************)
EXTENDS Orders, ArraysProofs, SequenceTheorems, FiniteSetTheorems, TLAPS

\* A request at work names an order; one about to write a quantity has a line,
\* has read a quantity that is not negative and, if it is to subtract, covers
\* the line.
Ready(r) ==
  /\ pc[r] # "idle" => call[r].order \in Requests
  /\ pc[r] \in {"holdWrite", "retrieveWrite"} => AtLine(r) /\ local[r].seen >= 0
  /\ pc[r] = "retrieveWrite" => local[r].seen >= ThisLine(r).qty

HoldInv ==
  /\ TypeOK
  /\ \A r \in Requests : Ready(r)
  /\ QtyOnHoldNotNegative

-----------------------------------------------------------------------------
(* Lines *)

LEMMA LinesType ==
  ASSUME TypeOK, NEW r \in Requests
  PROVE  /\ Lines(r) \in Seq(OrderLine) /\ Len(Lines(r)) \in Nat
         /\ AtLine(r) => ThisLine(r) \in OrderLine
<1>1. call[r].items \in Seq(OrderLine) /\ local[r].found.items \in Seq(OrderLine)
  BY DEF TypeOK, Call, Local, Order
<1>2. Lines(r) \in Seq(OrderLine)
  BY <1>1 DEF Lines
<1>3. local[r].line \in Nat \ {0}
  BY DEF TypeOK, Local
<1> QED
  BY <1>2, <1>3 DEF AtLine, ThisLine

LEMMA NoLines == <<>> \in Seq(OrderLine)
BY EmptySeq

LEMMA EndsType ==
  ASSUME NEW lines \in Seq(OrderLine)
  PROVE  LastOf(lines) \in Seq(OrderLine) /\ FirstOf(lines) \in Seq(OrderLine)
<1>1. CASE lines = <<>>
  BY <1>1 DEF LastOf, FirstOf
<1>2. CASE lines # <<>>
  <2>1. Len(lines) \in 1 .. Len(lines) /\ 1 \in 1 .. Len(lines)
    BY <1>2
  <2>2. lines[Len(lines)] \in OrderLine /\ lines[1] \in OrderLine
    BY <2>1
  <2> QED
    BY <1>2, <2>2 DEF LastOf, FirstOf
<1> QED
  BY <1>1, <1>2

LEMMA NewLineType ==
  ASSUME TypeOK, NEW r \in Requests, NEW n \in LastNewLine(r)
  PROVE  <<call[r].items[n]>> \in Seq(OrderLine)
<1>1. call[r].items \in Seq(OrderLine) /\ n \in DOMAIN call[r].items
  BY DEF TypeOK, Call, LastNewLine, NewLines
<1>2. call[r].items[n] \in OrderLine
  BY <1>1
<1> QED
  BY <1>2

-----------------------------------------------------------------------------
(* Steps of one request *)

LEMMA GotoStep ==
  ASSUME TypeOK, NEW r \in Requests, NEW at \in Steps, Goto(r, at)
  PROVE  /\ pc' \in [Requests -> Steps] /\ pc'[r] = at
         /\ \A o \in Requests \ {r} : pc'[o] = pc[o]
BY DEF TypeOK, Goto

\* Ready is about the request's own variables.
LEMMA ReadyStep ==
  ASSUME HoldInv, NEW r \in Requests, TypeOK', QtyOnHoldNotNegative',
         \A o \in Requests \ {r} :
           pc'[o] = pc[o] /\ local'[o] = local[o] /\ call'[o] = call[o],
         Ready(r)'
  PROVE  HoldInv'
<1>1. ASSUME NEW o \in Requests, o # r PROVE Ready(o)'
  <2>1. /\ Ready(o) /\ AtLine(o)' = AtLine(o) /\ ThisLine(o)' = ThisLine(o)
    BY <1>1 DEF HoldInv, AtLine, ThisLine, Lines
  <2> QED
    BY <1>1, <2>1 DEF Ready
<1> QED
  BY <1>1 DEF HoldInv

\* A step that writes no quantity and is not about to.
LEMMA PlainStep ==
  ASSUME HoldInv, NEW r \in Requests, pc[r] # "idle",
         NEW at \in Steps \ {"holdWrite", "retrieveWrite"}, Goto(r, at),
         UNCHANGED <<load, qtyOnHold, call>>,
         orders' \in [Requests -> Order],
         released' \in [Requests -> Seq(OrderLine)],
         refunded' \in [Requests -> Seq(OrderLine)],
         local' \in [Requests -> Local], \A o \in Requests \ {r} : local'[o] = local[o]
  PROVE  HoldInv'
<1>1. /\ pc' \in [Requests -> Steps] /\ pc'[r] = at
      /\ \A o \in Requests \ {r} : pc'[o] = pc[o]
  BY GotoStep DEF HoldInv
<1>2. TypeOK'
  BY <1>1 DEF HoldInv, TypeOK
<1>3. Ready(r)'
  BY <1>1 DEF HoldInv, Ready
<1>4. QtyOnHoldNotNegative'
  BY DEF HoldInv, QtyOnHoldNotNegative
<1> QED
  BY <1>1, <1>2, <1>3, <1>4, ReadyStep

LEMMA StepNames ==
  {"find", "release", "hold", "retrieve", "refund", "void", "voidRefund", "update",
   "answer", "done", "failed"} \subseteq Steps \ {"holdWrite", "retrieveWrite"}
BY DEF Steps, Finished

LEMMA FailStep ==
  ASSUME HoldInv, NEW r \in Requests, pc[r] # "idle", Fail(r)
  PROVE  HoldInv'
BY PlainStep, StepNames DEF Fail, stock, HoldInv, TypeOK

\* A step of control only.
LEMMA MoveStep ==
  ASSUME HoldInv, NEW r \in Requests, pc[r] # "idle",
         NEW at \in Steps \ {"holdWrite", "retrieveWrite"}, Goto(r, at),
         UNCHANGED <<stock, orders, call, local>>
  PROVE  HoldInv'
BY PlainStep DEF stock, HoldInv, TypeOK

LEMMA FindStep ==
  ASSUME HoldInv, NEW r \in Requests, pc[r] # "idle", NEW status,
         NEW at \in Steps \ {"holdWrite", "retrieveWrite"}, FindOrder(r, status, at)
  PROVE  HoldInv'
<1> DEFINE order == orders[call[r].order]
<1>1. order \in Order
  BY DEF HoldInv, Ready, TypeOK
<1>2. CASE Fail(r)
  BY <1>2, FailStep
<1>3. CASE ~Fail(r)
  <2>1. /\ local' = [local EXCEPT ![r].found = order]
        /\ Goto(r, at)
        /\ UNCHANGED <<stock, orders, call>>
    BY <1>3 DEF FindOrder
  <2> HIDE DEF order
  <2>2. local' \in [Requests -> Local] /\ \A o \in Requests \ {r} : local'[o] = local[o]
    BY <1>1, <2>1 DEF HoldInv, TypeOK, Local
  <2> QED
    BY <2>1, <2>2, PlainStep DEF stock, HoldInv, TypeOK
<1> QED
  BY <1>2, <1>3

LEMMA UpdateStep ==
  ASSUME HoldInv, NEW r \in Requests, pc[r] # "idle", NEW order \in Order,
         UpdateOrder(r, order)
  PROVE  HoldInv'
<1>1. orders' \in [Requests -> Order]
  BY DEF UpdateOrder, HoldInv, TypeOK
<1> QED
  BY <1>1, PlainStep, StepNames DEF UpdateOrder, stock, HoldInv, TypeOK

LEMMA ReleaseStep ==
  ASSUME HoldInv, NEW r \in Requests, pc[r] # "idle", NEW lines \in Seq(OrderLine),
         NEW at \in Steps \ {"holdWrite", "retrieveWrite"}, Release(r, lines, at)
  PROVE  HoldInv'
<1>1. CASE Fail(r)
  BY <1>1, FailStep
<1>2. CASE ~Fail(r)
  <2>1. /\ released' = [released EXCEPT ![r] = released[r] \o lines]
        /\ Goto(r, at)
        /\ UNCHANGED <<load, qtyOnHold, refunded, orders, call, local>>
    BY <1>2 DEF Release
  <2>2. released[r] \o lines \in Seq(OrderLine)
    BY ConcatProperties DEF HoldInv, TypeOK
  <2>3. released' \in [Requests -> Seq(OrderLine)]
    BY <2>1, <2>2 DEF HoldInv, TypeOK
  <2> QED
    BY <2>1, <2>3, PlainStep DEF HoldInv, TypeOK
<1> QED
  BY <1>1, <1>2

LEMMA RefundStep ==
  ASSUME HoldInv, NEW r \in Requests, pc[r] # "idle", NEW lines \in Seq(OrderLine),
         NEW at \in Steps \ {"holdWrite", "retrieveWrite"}, Refund(r, lines, at)
  PROVE  HoldInv'
<1>1. CASE Fail(r)
  BY <1>1, FailStep
<1>2. CASE ~Fail(r)
  <2>1. /\ refunded' = [refunded EXCEPT ![r] = refunded[r] \o lines]
        /\ Goto(r, at)
        /\ UNCHANGED <<load, qtyOnHold, released, orders, call, local>>
    BY <1>2 DEF Refund
  <2>2. refunded[r] \o lines \in Seq(OrderLine)
    BY ConcatProperties DEF HoldInv, TypeOK
  <2>3. refunded' \in [Requests -> Seq(OrderLine)]
    BY <2>1, <2>2 DEF HoldInv, TypeOK
  <2> QED
    BY <2>1, <2>3, PlainStep DEF HoldInv, TypeOK
<1> QED
  BY <1>1, <1>2

-----------------------------------------------------------------------------
(* Quantities on hold *)

\* A read leaves the request ready to write: checked, if it is to subtract.
LEMMA ReadStep ==
  ASSUME HoldInv, NEW r \in Requests, pc[r] # "idle", NEW checked \in BOOLEAN,
         NEW at \in {"holdWrite", "retrieveWrite"}, ReadQtyOnHold(r, checked, at),
         at = "retrieveWrite" => checked
  PROVE  HoldInv'
<1>1. CASE Fail(r)
  BY <1>1, FailStep
<1>2. CASE ~Fail(r)
  <2>1. PICK n \in Located(r) :
          /\ ~(checked /\ qtyOnHold[n] - ThisLine(r).qty < 0)
          /\ local' = [local EXCEPT ![r] =
               [local[r] EXCEPT !.doc = n, !.seen = qtyOnHold[n]]]
          /\ Goto(r, at)
          /\ UNCHANGED <<stock, orders, call>>
    BY <1>2 DEF ReadQtyOnHold
  <2>2. n \in DOMAIN Documents /\ n \in Nat
    BY DocumentsAssumption DEF Located
  <2>3. qtyOnHold[n] \in Int /\ qtyOnHold[n] >= 0
    BY <2>2 DEF HoldInv, TypeOK, QtyOnHoldNotNegative
  <2>4. AtLine(r) /\ ThisLine(r) \in OrderLine
    BY LinesType DEF ReadQtyOnHold, HoldInv
  <2>5. /\ local' \in [Requests -> Local] /\ local'[r].seen = qtyOnHold[n]
        /\ local'[r].line = local[r].line /\ local'[r].found = local[r].found
        /\ \A o \in Requests \ {r} : local'[o] = local[o]
    BY <2>1, <2>2, <2>3 DEF HoldInv, TypeOK, Local
  <2>6. /\ pc' \in [Requests -> Steps] /\ pc'[r] = at
        /\ \A o \in Requests \ {r} : pc'[o] = pc[o]
    BY <2>1, GotoStep DEF HoldInv, Steps
  <2>7. UNCHANGED <<load, qtyOnHold, released, refunded, orders, call>>
    BY <2>1 DEF stock
  <2>8. AtLine(r)' /\ ThisLine(r)' = ThisLine(r)
    BY <2>4, <2>5, <2>7 DEF AtLine, ThisLine, Lines
  <2>9. TypeOK' /\ QtyOnHoldNotNegative'
    BY <2>5, <2>6, <2>7 DEF HoldInv, TypeOK, QtyOnHoldNotNegative
  <2>10. at = "retrieveWrite" => qtyOnHold[n] >= ThisLine(r).qty
    BY <2>1, <2>3, <2>4 DEF OrderLine
  <2>11. Ready(r)'
    BY <2>3, <2>5, <2>6, <2>7, <2>8, <2>10 DEF HoldInv, Ready
  <2> QED
    BY <2>5, <2>6, <2>7, <2>9, <2>11, ReadyStep
<1> QED
  BY <1>1, <1>2

LEMMA OneQty ==
  ASSUME NEW S, NEW f \in [S -> Int], NEW a, NEW q \in Nat
  PROVE  /\ [f EXCEPT ![a] = q] \in [S -> Int]
         /\ \A n \in S : [f EXCEPT ![a] = q][n] \in {q, f[n]}
<1> DEFINE g == [f EXCEPT ![a] = q]
<1>1. DOMAIN g = S /\ \A n \in S : g[n] = IF n = a THEN q ELSE f[n]
  OBVIOUS
<1>2. \A n \in S : g[n] \in Int /\ g[n] \in {q, f[n]}
  BY <1>1
<1>3. g = [n \in S |-> g[n]]
  BY <1>1
<1> QED
  BY <1>2, <1>3

LEMMA WriteStep ==
  ASSUME HoldInv, NEW r \in Requests, pc[r] # "idle", NEW q \in Nat,
         NEW at \in {"hold", "retrieve"}, WriteQtyOnHold(r, q, at)
  PROVE  HoldInv'
<1>1. /\ qtyOnHold' = [qtyOnHold EXCEPT ![local[r].doc] = q]
      /\ local' = [local EXCEPT ![r] = [local[r] EXCEPT !.line = local[r].line + 1]]
      /\ Goto(r, at)
      /\ UNCHANGED <<load, released, refunded, orders, call>>
  BY DEF WriteQtyOnHold
<1>2. /\ local' \in [Requests -> Local]
      /\ \A o \in Requests \ {r} : local'[o] = local[o]
  <2>1. local[r] \in Local /\ local[r].line + 1 \in Nat \ {0}
    BY DEF HoldInv, TypeOK, Local
  <2> DEFINE next == local[r].line + 1
  <2> HIDE DEF next
  <2>2. [local[r] EXCEPT !.line = next] \in Local
    BY <2>1 DEF Local, next
  <2> QED
    BY <1>1, <2>2 DEF HoldInv, TypeOK, next
<1>3. /\ pc' \in [Requests -> Steps] /\ pc'[r] = at
      /\ \A o \in Requests \ {r} : pc'[o] = pc[o]
  BY <1>1, GotoStep DEF HoldInv, Steps
<1>4. TypeOK' /\ QtyOnHoldNotNegative'
  <2>1. qtyOnHold \in [DOMAIN Documents -> Int] /\ \A n \in DOMAIN Documents : qtyOnHold[n] >= 0
    BY DEF HoldInv, TypeOK, QtyOnHoldNotNegative
  <2>2. /\ qtyOnHold' \in [DOMAIN Documents -> Int]
        /\ \A n \in DOMAIN Documents : qtyOnHold'[n] \in {q, qtyOnHold[n]}
    BY <1>1, <2>1, OneQty
  <2>3. TypeOK'
    BY <1>1, <1>2, <1>3, <2>2 DEF HoldInv, TypeOK
  <2>4. QtyOnHoldNotNegative'
    BY <2>1, <2>2 DEF QtyOnHoldNotNegative
  <2> QED
    BY <2>3, <2>4
<1>5. Ready(r)'
  BY <1>1, <1>3 DEF HoldInv, Ready
<1> QED
  BY <1>1, <1>2, <1>3, <1>4, <1>5, ReadyStep

LEMMA HoldStep ==
  ASSUME HoldInv, NEW r \in Requests,
         HoldRead(r) \/ HoldWrite(r) \/ RetrieveRead(r) \/ RetrieveWrite(r) \/ LoopEnds(r)
  PROVE  HoldInv'
<1>1. CASE HoldRead(r)
  BY <1>1, ReadStep DEF HoldRead, Serves
<1>2. CASE RetrieveRead(r)
  BY <1>2, ReadStep DEF RetrieveRead, Serves
<1>3. CASE HoldWrite(r) \/ RetrieveWrite(r)
  <2>1. pc[r] \in {"holdWrite", "retrieveWrite"}
    BY <1>3 DEF HoldWrite, RetrieveWrite, Serves
  <2>2. /\ ThisLine(r).qty \in Nat /\ local[r].seen \in Int /\ local[r].seen >= 0
    BY <2>1, LinesType DEF HoldInv, Ready, OrderLine, TypeOK, Local
  <2>3. CASE HoldWrite(r)
    <3>1. local[r].seen + ThisLine(r).qty \in Nat
      BY <2>2
    <3> QED
      BY <2>3, <3>1, WriteStep DEF HoldWrite, Serves
  <2>4. CASE RetrieveWrite(r)
    <3>1. local[r].seen >= ThisLine(r).qty
      BY <2>4 DEF RetrieveWrite, Serves, HoldInv, Ready
    <3>2. local[r].seen - ThisLine(r).qty \in Nat
      BY <2>2, <3>1
    <3> QED
      BY <2>4, <3>2, WriteStep DEF RetrieveWrite, Serves
  <2> QED
    BY <1>3, <2>3, <2>4
<1>4. CASE LoopEnds(r)
  <2>1. pc[r] # "idle"
    BY <1>4 DEF LoopEnds, Serves
  <2> QED
    BY <1>4, <2>1, FailStep, MoveStep, StepNames DEF LoopEnds
<1> QED
  BY <1>1, <1>2, <1>3, <1>4

-----------------------------------------------------------------------------
(* The handlers *)

LEMMA CallType ==
  ASSUME TypeOK, NEW r \in Requests
  PROVE  /\ call[r].items \in Seq(OrderLine) /\ call[r].back \in Seq(OrderLine)
         /\ local[r].found.items \in Seq(OrderLine)
         /\ \A status \in {call[r].status, NewStatus(r)} :
              [status |-> status, items |-> call[r].items,
               warehouse |-> call[r].warehouse] \in Order
BY DEF TypeOK, Call, Local, Order, NewStatus, Statuses

LEMMA EditedOrder ==
  ASSUME NEW old \in Order, NEW status \in Statuses, NEW items \in Seq(OrderLine)
  PROVE  /\ [old EXCEPT !.items = items] \in Order
         /\ [old EXCEPT !.status = status, !.items = items] \in Order
BY Zenon DEF Order

LEMMA CreateStep ==
  ASSUME HoldInv, NEW r \in Requests,
         CreateStart(r) \/ CreateRelease(r) \/ CustomerStart(r) \/ CreateInsert(r)
  PROVE  HoldInv'
<1>1. CASE CreateStart(r)
  <2>1. PICK at \in {"release", "hold", "update"} : Goto(r, at)
    BY <1>1 DEF CreateStart
  <2> QED
    BY <1>1, <2>1, MoveStep, StepNames DEF CreateStart, Serves
<1>2. CASE CreateRelease(r)
  BY <1>2, CallType, EndsType, ReleaseStep, StepNames DEF CreateRelease, Serves, HoldInv
<1>3. CASE CreateInsert(r)
  BY <1>3, CallType, FailStep, UpdateStep DEF CreateInsert, Serves, HoldInv
<1>4. CASE CustomerStart(r)
  <2>1. PICK at \in {"hold", "update"} : Goto(r, at)
    BY <1>4 DEF CustomerStart
  <2> QED
    BY <1>4, <2>1, MoveStep, StepNames DEF CustomerStart, Serves
<1> QED
  BY <1>1, <1>2, <1>3, <1>4

LEMMA ActivateStep ==
  ASSUME HoldInv, NEW r \in Requests,
         ActivateFind(r) \/ ActivateRelease(r) \/ ActivateUpdate(r)
  PROVE  HoldInv'
<1>1. CASE ActivateFind(r)
  BY <1>1, FindStep, StepNames DEF ActivateFind, Serves
<1>2. CASE ActivateRelease(r)
  BY <1>2, CallType, EndsType, ReleaseStep, StepNames DEF ActivateRelease, Serves, HoldInv
<1>3. CASE ActivateUpdate(r)
  BY <1>3, CallType, UpdateStep DEF ActivateUpdate, Serves, HoldInv
<1> QED
  BY <1>1, <1>2, <1>3

LEMMA CancelStep ==
  ASSUME HoldInv, NEW r \in Requests, CancelFind(r) \/ CancelUpdate(r)
  PROVE  HoldInv'
<1>1. CASE CancelFind(r)
  BY <1>1, FindStep, StepNames DEF CancelFind, Serves
<1>2. CASE CancelUpdate(r)
  <2>1. pc[r] # "idle"
    BY <1>2 DEF CancelUpdate, Serves
  <2>2. orders[call[r].order] \in Order
    BY <2>1 DEF HoldInv, Ready, TypeOK
  <2>3. [orders[call[r].order] EXCEPT !.status = "VOID", !.items = <<>>] \in Order
    BY <2>2, NoLines, EditedOrder DEF Statuses
  <2> QED
    BY <1>2, <2>1, <2>3, UpdateStep DEF CancelUpdate
<1> QED
  BY <1>1, <1>2

LEMMA WithdrawStep ==
  ASSUME HoldInv, NEW r \in Requests,
         \/ RefundFind(r) \/ ReturnFind(r) \/ RefundFirst(r) \/ RefundRelease(r)
         \/ ReturnRelease(r) \/ VoidFind(r) \/ VoidRefund(r) \/ WithdrawUpdate(r)
         \/ WithdrawAnswer(r)
  PROVE  HoldInv'
<1> USE StepNames
<1>1. CASE RefundFind(r)
  BY <1>1, FindStep DEF RefundFind, Serves
<1>2. CASE ReturnFind(r)
  BY <1>2, FindStep DEF ReturnFind, Serves
<1>3. CASE RefundFirst(r)
  BY <1>3, CallType, EndsType, RefundStep DEF RefundFirst, Serves, HoldInv
<1>4. CASE RefundRelease(r)
  BY <1>4, CallType, EndsType, ReleaseStep DEF RefundRelease, Serves, HoldInv
<1>5. CASE ReturnRelease(r)
  <2>1. pc[r] # "idle"
    BY <1>5 DEF ReturnRelease, Serves
  <2>2. /\ LastOf(call[r].items) \in Seq(OrderLine) /\ <<>> \in Seq(OrderLine)
        /\ \A n \in LastNewLine(r) : <<call[r].items[n]>> \in Seq(OrderLine)
    BY CallType, NewLineType, EndsType, NoLines DEF HoldInv
  <2> QED
    BY <1>5, <2>1, <2>2, ReleaseStep, FailStep DEF ReturnRelease
<1>6. CASE VoidFind(r)
  BY <1>6, FindStep DEF VoidFind, Serves
<1>7. CASE VoidRefund(r)
  BY <1>7, CallType, RefundStep DEF VoidRefund, Serves, HoldInv
<1>8. CASE WithdrawUpdate(r)
  <2>1. pc[r] # "idle" /\ call[r].kind \in {"REFUND", "RETURN"}
    BY <1>8 DEF WithdrawUpdate, Serves
  <2>2. orders[call[r].order] \in Order
    BY <2>1 DEF HoldInv, Ready, TypeOK
  <2>3. /\ [orders[call[r].order] EXCEPT !.items = call[r].items] \in Order
        /\ [orders[call[r].order] EXCEPT !.status = call[r].kind,
             !.items = IF call[r].kind = "REFUND" THEN <<>> ELSE call[r].items] \in Order
    <3>1. /\ call[r].kind \in Statuses /\ call[r].items \in Seq(OrderLine)
          /\ (IF call[r].kind = "REFUND" THEN <<>> ELSE call[r].items) \in Seq(OrderLine)
      BY <2>1, CallType, NoLines DEF HoldInv, Statuses
    <3> QED
      BY <2>2, <3>1, EditedOrder
  <2> QED
    BY <1>8, <2>1, <2>3, UpdateStep DEF WithdrawUpdate
<1>9. CASE WithdrawAnswer(r)
  BY <1>9, FailStep DEF WithdrawAnswer, Serves
<1> QED
  BY <1>1, <1>2, <1>3, <1>4, <1>5, <1>6, <1>7, <1>8, <1>9

LEMMA ArriveStep ==
  ASSUME HoldInv, NEW r \in Requests, Arrive(r)
  PROVE  HoldInv'
<1>1. PICK c \in Creations(r) \union Activations \union Cancellations \union Withdrawals :
        call' = [call EXCEPT ![r] = c]
  BY DEF Arrive
<1>2. c \in Call /\ c.order \in Requests
  <2>1. /\ load.lists \subseteq Seq(OrderLine) /\ <<>> \in Seq(OrderLine)
        /\ load.statuses \subseteq Statuses /\ load.warehouses \subseteq Warehouses
        /\ load.methods \subseteq AllMethods /\ "none" \in AllMethods
        /\ {"CREATE", "CUSTOMER", "ACTIVATE", "CANCEL", "REFUND", "RETURN"} \subseteq AllKinds
    BY LoadsAssumption DEF HoldInv, TypeOK, AllKinds, AllMethods
  <2>2. CASE c \in Creations(r)
    BY <2>1, <2>2 DEF Creations, Creating, Call
  <2>3. CASE c \in Activations
    BY <2>1, <2>3 DEF Activations, Call
  <2>4. CASE c \in Cancellations
    BY <2>1, <2>4 DEF Cancellations, Call
  <2>5. CASE c \in Withdrawals
    BY <2>1, <2>5 DEF Withdrawals, Call
  <2> QED
    BY <1>1, <2>2, <2>3, <2>4, <2>5
<1>3. /\ call' \in [Requests -> Call] /\ call'[r] = c
      /\ \A o \in Requests \ {r} : call'[o] = call[o]
  BY <1>1, <1>2 DEF HoldInv, TypeOK
<1>4. UNCHANGED <<load, qtyOnHold, released, refunded, orders, local>>
  BY DEF Arrive, stock
<1>5. /\ pc' \in [Requests -> Steps] /\ pc'[r] = "find"
      /\ \A o \in Requests \ {r} : pc'[o] = pc[o]
  BY GotoStep, StepNames DEF Arrive, HoldInv
<1>6. TypeOK' /\ QtyOnHoldNotNegative'
  BY <1>3, <1>4, <1>5 DEF HoldInv, TypeOK, QtyOnHoldNotNegative
<1>7. Ready(r)'
  BY <1>2, <1>3, <1>5 DEF Ready
<1> QED
  BY <1>3, <1>4, <1>5, <1>6, <1>7, ReadyStep

LEMMA ExitStep ==
  ASSUME HoldInv, ProcessExit
  PROVE  HoldInv'
<1>1. /\ pc' = [r \in Requests |-> IF Working(r) THEN "crashed" ELSE pc[r]]
      /\ UNCHANGED <<load, qtyOnHold, released, refunded, orders, call, local>>
  BY DEF ProcessExit, stock
<1>2. TypeOK' /\ QtyOnHoldNotNegative'
  BY <1>1 DEF HoldInv, TypeOK, QtyOnHoldNotNegative, Steps, Finished
<1>3. ASSUME NEW r \in Requests PROVE Ready(r)'
  <2>1. pc'[r] = pc[r] \/ (pc'[r] = "crashed" /\ pc[r] # "idle")
    BY <1>1 DEF Working
  <2>2. AtLine(r)' = AtLine(r) /\ ThisLine(r)' = ThisLine(r)
    BY <1>1 DEF AtLine, ThisLine, Lines
  <2> QED
    BY <1>1, <2>1, <2>2 DEF HoldInv, Ready
<1> QED
  BY <1>2, <1>3 DEF HoldInv

-----------------------------------------------------------------------------
(* The invariant *)

LEMMA InitHold == Init => HoldInv
<1> SUFFICES ASSUME Init PROVE HoldInv
  OBVIOUS
<1>1. NoOrder \in Order /\ NoCall \in Call
  BY DEF NoOrder, Order, NoCall, Call, AllMethods
<1>2. NewLocal \in Local
  BY <1>1 DEF NewLocal, Local
<1>3. TypeOK
  BY <1>1, <1>2 DEF Init, TypeOK, Steps
<1>4. QtyOnHoldNotNegative
  BY DEF Init, QtyOnHoldNotNegative
<1>5. \A r \in Requests : Ready(r)
  BY DEF Init, Ready
<1> QED
  BY <1>3, <1>4, <1>5 DEF HoldInv

LEMMA NextHold == HoldInv /\ [Next]_vars => HoldInv'
<1> SUFFICES ASSUME HoldInv, [Next]_vars PROVE HoldInv'
  OBVIOUS
<1>1. CASE UNCHANGED vars
  <2>1. TypeOK' /\ QtyOnHoldNotNegative'
    BY <1>1 DEF vars, HoldInv, TypeOK, QtyOnHoldNotNegative
  <2>2. ASSUME NEW r \in Requests PROVE Ready(r)'
    <3>1. Ready(r)
      BY DEF HoldInv
    <3> QED
      BY <1>1, <3>1 DEF vars, Ready, AtLine, ThisLine, Lines
  <2> QED
    BY <2>1, <2>2 DEF HoldInv
<1>2. ASSUME NEW r \in Requests, Arrive(r) PROVE HoldInv'
  BY <1>2, ArriveStep
<1>3. ASSUME NEW r \in Requests, Handler(r) PROVE HoldInv'
  BY <1>3, HoldStep, CreateStep, ActivateStep, CancelStep, WithdrawStep DEF Handler
<1>4. CASE ProcessExit
  BY <1>4, ExitStep
<1> QED
  BY <1>1, <1>2, <1>3, <1>4 DEF Next

THEOREM HoldInvariant == Spec => []HoldInv
<1> QED
  BY InitHold, NextHold, PTL DEF Spec

\* The state of the orders is well typed.
THEOREM OrdersTypes == Spec => []TypeOK
<1>1. HoldInv => TypeOK
  BY DEF HoldInv
<1> QED
  BY <1>1, HoldInvariant, PTL

\* The check that throws '113' is enough: no interleaving of the handlers, and
\* no request that stops half-way, leaves a negative quantity on hold.
THEOREM HoldsNeverNegative == Spec => []QtyOnHoldNotNegative
<1>1. HoldInv => QtyOnHoldNotNegative
  BY DEF HoldInv
<1> QED
  BY <1>1, HoldInvariant, PTL
-----------------------------------------------------------------------------
(* What a step of a handler does *)

\* What the last call of a handler writes to its order.
Wrote(r, order) ==
  LET old == orders[call[r].order]
  IN  CASE call[r].kind \in Creating ->
             order.status = NewStatus(r) /\ order.items = call[r].items
        [] call[r].kind = "ACTIVATE" ->
             order.status = call[r].status /\ order.items = call[r].items
        [] call[r].kind = "CANCEL" -> order.status = "VOID" /\ order.items = <<>>
        [] OTHER -> IF call[r].method = "PARTIALLY" THEN order.status = old.status
                    ELSE /\ order.status = call[r].kind
                         /\ call[r].kind = "REFUND" => order.items = <<>>

Writes(r) ==
  /\ pc[r] = "update" /\ pc'[r] = "done"
  /\ \E order \in Order : /\ orders' = [orders EXCEPT ![call[r].order] = order]
                          /\ Wrote(r, order)

\* The status a handler asks for when it looks its order up.
Expected(r) ==
  IF call[r].kind \in {"ACTIVATE", "CANCEL"} THEN orders[call[r].order].status = "ONHOLD"
  ELSE call[r].kind \in {"REFUND", "RETURN"} => orders[call[r].order].status = "ACTIVE"

Frame(r) ==
  /\ load' = load /\ call' = call
  /\ \A o \in Requests \ {r} : pc'[o] = pc[o]
  /\ pc[r] \notin {"idle"} \union Finished
  /\ pc'[r] \notin {"idle", "find", "crashed"}
  /\ (orders' = orders /\ pc'[r] # "done") \/ Writes(r)
  /\ pc[r] = "find" /\ pc'[r] # "failed" => Expected(r)

\* A step that leaves the order alone.
Leaves(r) ==
  /\ load' = load /\ call' = call /\ orders' = orders
  /\ pc[r] \notin {"idle"} \union Finished
  /\ \E at \in Steps \ {"idle", "find", "done", "crashed"} : pc' = [pc EXCEPT ![r] = at]

LEMMA FailLeaves ==
  ASSUME NEW r \in Requests, TypeOK, Fail(r), pc[r] \notin {"idle"} \union Finished
  PROVE  Leaves(r) /\ pc'[r] = "failed"
BY DEF Fail, Goto, stock, Leaves, Steps, Finished, TypeOK

LEMMA LeavesFrame ==
  ASSUME TypeOK, NEW r \in Requests, Leaves(r),
         pc[r] = "find" /\ pc'[r] # "failed" => Expected(r)
  PROVE  Frame(r)
BY DEF TypeOK, Leaves, Frame

LEMMA WritesFrame ==
  ASSUME TypeOK, NEW r \in Requests, pc[r] = "update", NEW order \in Order,
         UpdateOrder(r, order), Wrote(r, order)
  PROVE  Frame(r)
BY DEF TypeOK, UpdateOrder, Goto, stock, Frame, Writes, Finished

LEMMA FindFrame ==
  ASSUME TypeOK, NEW r \in Requests, pc[r] \notin {"idle"} \union Finished, NEW status,
         NEW at \in Steps \ {"idle", "find", "done", "crashed"}, FindOrder(r, status, at),
         orders[call[r].order].status = status /\ pc[r] = "find" => Expected(r)
  PROVE  Frame(r)
<1>1. CASE Fail(r)
  BY <1>1, FailLeaves, LeavesFrame
<1>2. CASE ~Fail(r)
  BY <1>2, LeavesFrame DEF FindOrder, Goto, stock, Leaves
<1> QED BY <1>1, <1>2

LEMMA HandlerFrame ==
  ASSUME HoldInv, NEW r \in Requests, Handler(r)
  PROVE  Frame(r)
<1> USE DEF Serves
<1>1. TypeOK
  BY DEF HoldInv
<1> DEFINE Next1 == Steps \ {"idle", "find", "done", "crashed"}
<1>2. {"release", "hold", "holdWrite", "retrieve", "retrieveWrite", "refund", "void",
       "voidRefund", "update", "answer", "failed"} \subseteq Next1
  BY DEF Steps, Finished
<1>3. ASSUME NEW at \in Next1, Goto(r, at), UNCHANGED <<load, orders, call>>,
             pc[r] \notin {"idle", "find"} \union Finished
      PROVE  Frame(r)
  BY <1>1, <1>3, LeavesFrame DEF Goto, Leaves
<1>4. ASSUME Fail(r), pc[r] \notin {"idle"} \union Finished
      PROVE  Frame(r)
  BY <1>1, <1>4, FailLeaves, LeavesFrame
<1>5. CASE HoldRead(r) \/ RetrieveRead(r)
  BY <1>2, <1>3, <1>4, <1>5 DEF HoldRead, RetrieveRead, ReadQtyOnHold, stock, Finished
<1>6. CASE HoldWrite(r) \/ RetrieveWrite(r)
  BY <1>2, <1>3, <1>6 DEF HoldWrite, RetrieveWrite, WriteQtyOnHold, Finished
<1>7. CASE LoopEnds(r)
  BY <1>2, <1>3, <1>4, <1>7 DEF LoopEnds, stock, Finished
<1>8. CASE CreateStart(r) \/ CustomerStart(r)
  <2>1. \E at \in Next1 : Goto(r, at)
    BY <1>2, <1>8 DEF CreateStart, CustomerStart
  <2>2. /\ Leaves(r) /\ Expected(r)
    BY <2>1, <1>8 DEF CreateStart, CustomerStart, Leaves, Goto, stock, Expected, Finished
  <2> QED BY <1>1, <2>2, LeavesFrame
<1>9. CASE CreateRelease(r) \/ ActivateRelease(r)
  BY <1>2, <1>3, <1>4, <1>9 DEF CreateRelease, ActivateRelease, Release, Finished
<1>10. CASE CreateInsert(r)
  <2>1. CASE Fail(r)
    BY <1>4, <1>10, <2>1 DEF CreateInsert, Finished
  <2>2. CASE ~Fail(r)
    <3> DEFINE order == [status |-> NewStatus(r), items |-> call[r].items,
                         warehouse |-> call[r].warehouse]
    <3>1. /\ call[r].kind \in Creating /\ pc[r] = "update" /\ UpdateOrder(r, order)
      BY <1>10, <2>2 DEF CreateInsert
    <3>2. order \in Order /\ order.status = NewStatus(r) /\ order.items = call[r].items
      BY <1>1, CallType
    <3> HIDE DEF order
    <3>3. Wrote(r, order)
      BY <3>1, <3>2 DEF Wrote, Creating
    <3> QED BY <1>1, <3>1, <3>2, <3>3, WritesFrame
  <2> QED BY <2>1, <2>2
<1>11. CASE ActivateFind(r) \/ CancelFind(r) \/ RefundFind(r) \/ ReturnFind(r)
  BY <1>1, <1>2, <1>11, FindFrame
     DEF ActivateFind, CancelFind, RefundFind, ReturnFind, Expected, Finished
<1>12. CASE ActivateUpdate(r)
  BY <1>1, <1>12, CallType, WritesFrame DEF ActivateUpdate, Wrote, Creating
<1>13. CASE CancelUpdate(r)
  <2>1. orders[call[r].order] \in Order
    BY <1>13 DEF CancelUpdate, HoldInv, Ready, TypeOK
  <2> DEFINE order == [orders[call[r].order] EXCEPT !.status = "VOID", !.items = <<>>]
  <2>2. order \in Order /\ order.status = "VOID" /\ order.items = <<>>
    <3>1. order \in Order
      BY <2>1, NoLines, EditedOrder DEF Statuses
    <3> QED BY <2>1, <3>1 DEF Order
  <2>3. UpdateOrder(r, order) /\ call[r].kind = "CANCEL" /\ pc[r] = "update"
    BY <1>13 DEF CancelUpdate
  <2> HIDE DEF order
  <2> QED BY <1>1, <2>2, <2>3, WritesFrame DEF Wrote, Creating
<1>14. CASE RefundFirst(r) \/ VoidRefund(r)
  BY <1>2, <1>3, <1>4, <1>14 DEF RefundFirst, VoidRefund, Refund, Finished
<1>15. CASE RefundRelease(r) \/ ReturnRelease(r)
  <2>1. pc[r] = "release"
    BY <1>15 DEF RefundRelease, ReturnRelease
  <2>2. Fail(r) \/ \E at \in {"update", "refund", "void"} : \E lines : Release(r, lines, at)
    BY <1>15 DEF RefundRelease, ReturnRelease
  <2> QED BY <1>2, <1>3, <1>4, <2>1, <2>2 DEF Release, Finished
<1>16. CASE VoidFind(r)
  BY <1>1, <1>2, <1>16, FindFrame DEF VoidFind, Finished
<1>17. CASE WithdrawUpdate(r)
  <2>1. call[r].kind \in {"REFUND", "RETURN"} /\ pc[r] = "update"
    BY <1>17 DEF WithdrawUpdate
  <2>2. /\ orders[call[r].order] \in Order /\ call[r].items \in Seq(OrderLine)
        /\ call[r].kind \in Statuses
        /\ (IF call[r].kind = "REFUND" THEN <<>> ELSE call[r].items) \in Seq(OrderLine)
    BY <2>1, CallType, NoLines DEF HoldInv, Ready, TypeOK, Statuses
  <2> DEFINE kept == [orders[call[r].order] EXCEPT !.items = call[r].items]
             ended == [orders[call[r].order] EXCEPT !.status = call[r].kind,
                        !.items = IF call[r].kind = "REFUND" THEN <<>> ELSE call[r].items]
  <2>3. kept \in Order /\ kept.status = orders[call[r].order].status
    BY <2>2, EditedOrder DEF Order
  <2>4. ended \in Order /\ ended.status = call[r].kind
        /\ (call[r].kind = "REFUND" => ended.items = <<>>)
    BY <2>2, EditedOrder DEF Order
  <2>5. UpdateOrder(r, IF call[r].method = "PARTIALLY" THEN kept ELSE ended)
    BY <1>17 DEF WithdrawUpdate
  <2> HIDE DEF kept, ended
  <2> QED BY <1>1, <2>1, <2>3, <2>4, <2>5, WritesFrame DEF Wrote, Creating
<1>18. CASE WithdrawAnswer(r)
  BY <1>4, <1>18 DEF WithdrawAnswer, Finished
<1> QED
  BY <1>5, <1>6, <1>7, <1>8, <1>9, <1>10, <1>11, <1>12, <1>13, <1>14, <1>15, <1>16, <1>17,
     <1>18 DEF Handler

\* A step that is not a handler's.
ArriveFrame(r) ==
  /\ load' = load /\ orders' = orders
  /\ pc[r] = "idle" /\ pc' = [pc EXCEPT ![r] = "find"]
  /\ Cardinality({o \in Requests : Working(o)}) < load.atOnce
  /\ \E c \in Call :
       /\ call' = [call EXCEPT ![r] = c]
       /\ c.kind \in AllKinds
       /\ c.kind \in Creating => c.order = r
       /\ c.kind \notin Creating => c.order \in Requests /\ orders[c.order] # NoOrder
       /\ c.kind \in Creating \union {"ACTIVATE"} => c.status \in Statuses

LEMMA ArriveHasFrame ==
  ASSUME HoldInv, NEW r \in Requests, Arrive(r)
  PROVE  ArriveFrame(r)
<1>1. PICK c \in Creations(r) \union Activations \union Cancellations \union Withdrawals :
        /\ call' = [call EXCEPT ![r] = c]
        /\ c.kind \notin Creating => orders[c.order] # NoOrder
  BY DEF Arrive
<1>2. /\ load.lists \subseteq Seq(OrderLine) /\ <<>> \in Seq(OrderLine)
      /\ load.statuses \subseteq Statuses /\ load.warehouses \subseteq Warehouses
      /\ load.methods \subseteq AllMethods /\ "none" \in AllMethods
      /\ {"CREATE", "CUSTOMER", "ACTIVATE", "CANCEL", "REFUND", "RETURN"} \subseteq AllKinds
  BY LoadsAssumption DEF HoldInv, TypeOK, AllMethods, AllKinds
<1> DEFINE Legal == /\ c.kind \in Creating => c.order = r
                    /\ c.kind \notin Creating => c.order \in Requests
                    /\ c.kind \in Creating \union {"ACTIVATE"} => c.status \in Statuses
<1>3. ASSUME c \in Creations(r) PROVE c \in Call /\ Legal
  <2>1. c \in Call
    BY <1>2, <1>3 DEF Creations, Creating, Call
  <2>2. Legal
    BY <1>2, <1>3 DEF Creations, Creating
  <2> QED BY <2>1, <2>2
<1>4. ASSUME c \in Activations PROVE c \in Call /\ Legal
  <2>1. c \in Call
    BY <1>2, <1>4 DEF Activations, Creating, Call
  <2>2. Legal
    BY <1>2, <1>4 DEF Activations, Creating
  <2> QED BY <2>1, <2>2
<1>5. ASSUME c \in Cancellations PROVE c \in Call /\ Legal
  <2>1. c \in Call
    BY <1>2, <1>5 DEF Cancellations, Creating, Call
  <2>2. Legal
    BY <1>2, <1>5 DEF Cancellations, Creating
  <2> QED BY <2>1, <2>2
<1>6. ASSUME c \in Withdrawals PROVE c \in Call /\ Legal
  <2>1. c \in Call
    BY <1>2, <1>6 DEF Withdrawals, Creating, Call
  <2>2. Legal
    BY <1>2, <1>6 DEF Withdrawals, Creating
  <2> QED BY <2>1, <2>2
<1>7. c \in Call /\ Legal
  BY <1>1, <1>3, <1>4, <1>5, <1>6
<1>8. c.kind \in AllKinds
  BY <1>1, <1>2 DEF Creations, Activations, Cancellations, Withdrawals, Creating, AllKinds
<1> QED
  BY <1>1, <1>7, <1>8 DEF Arrive, ArriveFrame, stock, Goto

ExitFrame ==
  /\ UNCHANGED <<load, call, orders>>
  /\ pc' = [r \in Requests |-> IF Working(r) THEN "crashed" ELSE pc[r]]

\* Every step is one of four.
LEMMA StepFrames ==
  ASSUME HoldInv, [Next]_vars
  PROVE  \/ \E r \in Requests : ArriveFrame(r) \/ Frame(r)
         \/ ExitFrame
         \/ UNCHANGED vars
BY ArriveHasFrame, HandlerFrame DEF Next, ProcessExit, ExitFrame, stock

-----------------------------------------------------------------------------
(* Calls and orders name each other *)

\* A request that creates an order is the only one to name it until it has.
Named(r) ==
  /\ orders[r].status = "none" => orders[r] = NoOrder
  /\ pc[r] = "idle" => orders[r] = NoOrder
  /\ pc[r] # "idle" =>
       /\ call[r].kind \in AllKinds
       /\ call[r].kind \in Creating => call[r].order = r
       /\ call[r].kind \in Creating /\ Working(r) => orders[r] = NoOrder
       /\ call[r].kind \notin Creating => orders[call[r].order].status # "none"
       /\ call[r].kind \in Creating \union {"ACTIVATE"} => call[r].status \in Statuses
NamedInv == \A r \in Requests : Named(r)

LEMMA WritesNamed ==
  ASSUME HoldInv, NamedInv, NEW r \in Requests, Frame(r)
  PROVE  NamedInv'
<1>1. /\ call[r].order \in Requests /\ Named(r) /\ orders \in [Requests -> Order]
      /\ pc \in [Requests -> Steps] /\ pc[r] # "idle" /\ Working(r)
  BY DEF HoldInv, Ready, NamedInv, Frame, TypeOK, Working
<1>2. ASSUME NEW o \in Requests, orders'[o] # orders[o]
      PROVE  /\ o = call[r].order /\ orders'[o].status # "none" /\ pc[o] # "idle"
             /\ pc'[r] = "done"
             /\ call[o].kind \in Creating /\ Working(o) => o = r
  <2>1. PICK order \in Order : /\ orders' = [orders EXCEPT ![call[r].order] = order]
                               /\ Wrote(r, order) /\ pc'[r] = "done"
    BY <1>2 DEF Frame, Writes
  <2>2. o = call[r].order /\ orders'[o] = order
    BY <1>1, <1>2, <2>1
  <2>3. order.status # "none"
    BY <1>1, <2>1 DEF Wrote, NewStatus, Named, Creating, Statuses, AllKinds
  <2>4. pc[o] # "idle" /\ (call[o].kind \in Creating /\ Working(o) => o = r)
    BY <1>1, <2>2 DEF Named, NamedInv, NoOrder
  <2> QED BY <2>1, <2>2, <2>3, <2>4
<1>3. ASSUME NEW o \in Requests PROVE Named(o)'
  <2>1. Named(o) /\ call'[o] = call[o] /\ call[o].order = call'[o].order
    BY DEF NamedInv, Frame
  <2>2. pc'[o] = "idle" <=> pc[o] = "idle"
    BY DEF Frame
  <2>3. Working(o)' => Working(o)
    BY <1>1 DEF Frame, Working
  <2>4. orders'[o].status = "none" => orders'[o] = NoOrder
    BY <1>2, <2>1 DEF Named
  <2>5. pc'[o] = "idle" => orders'[o] = NoOrder
    BY <1>2, <2>1, <2>2 DEF Named
  <2>6. call[o].kind \in Creating /\ Working(o)' => orders'[o] = NoOrder
    <3>1. call[o].kind \in Creating /\ Working(o)' /\ orders'[o] # orders[o] => FALSE
      BY <1>2, <2>3 DEF Working, Finished
    <3> QED BY <2>1, <2>2, <2>3, <3>1 DEF Named, Working
  <2>7. pc[o] # "idle" /\ call[o].kind \notin Creating => orders'[call[o].order].status # "none"
    <3>1. pc[o] # "idle" => call[o].order \in Requests
      BY DEF HoldInv, Ready
    <3> QED BY <1>2, <2>1, <3>1 DEF Named
  <2> QED BY <2>1, <2>2, <2>4, <2>5, <2>6, <2>7 DEF Named, Frame
<1> QED BY <1>3 DEF NamedInv

LEMMA NextNamed ==
  ASSUME HoldInv, NamedInv, [Next]_vars
  PROVE  NamedInv'
<1>1. ASSUME NEW r \in Requests, ArriveFrame(r), NEW o \in Requests
      PROVE  Named(o)'
  <2>1. Named(o) /\ orders' = orders /\ pc \in [Requests -> Steps] /\ call \in [Requests -> Call]
    BY <1>1 DEF NamedInv, ArriveFrame, HoldInv, TypeOK
  <2>2. CASE o = r
    BY <1>1, <2>1, <2>2 DEF ArriveFrame, Named, NamedInv
  <2>3. CASE o # r
    BY <1>1, <2>1, <2>3 DEF ArriveFrame, Named, Working
  <2> QED BY <2>2, <2>3
<1>2. ASSUME ExitFrame, NEW o \in Requests
      PROVE  Named(o)'
  BY <1>2 DEF ExitFrame, Named, NamedInv, Working, Finished
<1>3. CASE UNCHANGED vars
  BY <1>3 DEF vars, NamedInv, Named, Working
<1>4. (\E r \in Requests : ArriveFrame(r)) \/ ExitFrame => NamedInv'
  BY <1>1, <1>2 DEF NamedInv
<1> QED BY <1>3, <1>4, StepFrames, WritesNamed

-----------------------------------------------------------------------------
(* One request at a time *)

\* What a request has found stays so until it ends.
FoundInv ==
  load.atOnce = 1 =>
    /\ \A r, o \in Requests : Working(r) /\ Working(o) => r = o
    /\ \A r \in Requests : Working(r) /\ pc[r] # "find" => Expected(r)

LEMMA NextFound ==
  ASSUME HoldInv, FoundInv, [Next]_vars
  PROVE  FoundInv'
<1> SUFFICES ASSUME load'.atOnce = 1 PROVE FoundInv'
  BY DEF FoundInv
<1>1. load' = load /\ load.atOnce = 1
  BY StepFrames DEF ArriveFrame, Frame, ExitFrame, vars
<1>2. ASSUME NEW r \in Requests, ArriveFrame(r)
      PROVE  FoundInv'
  <2> DEFINE W == {o \in Requests : Working(o)}
  <2>1. W = {}
    <3>1. Cardinality(W) < 1
      BY <1>1, <1>2 DEF ArriveFrame
    <3>2. ASSUME NEW o \in W PROVE FALSE
      <4>1. W = {o}
        BY <1>1 DEF FoundInv
      <4>2. Cardinality(W) = 1
        BY <4>1, FS_Singleton
      <4> QED BY <3>1, <4>2
    <3> QED BY <3>2
  <2>2. \A o \in Requests : Working(o)' => o = r /\ pc'[o] = "find"
    BY <1>2, <2>1 DEF ArriveFrame, HoldInv, TypeOK, Working
  <2> QED BY <2>2 DEF FoundInv
<1>3. ASSUME NEW r \in Requests, Frame(r)
      PROVE  FoundInv'
  <2>1. Working(r) /\ call' = call
    BY <1>3 DEF Frame, Working
  <2>2. \A o \in Requests : Working(o)' => o = r
    BY <1>1, <1>3, <2>1 DEF Frame, Working, FoundInv
  <2>3. Working(r)' => orders' = orders /\ Expected(r)
    BY <1>1, <1>3, <2>1 DEF Frame, Working, Finished, FoundInv, Writes
  <2>4. Working(r)' => Expected(r)'
    BY <2>1, <2>3 DEF Expected
  <2> QED BY <2>2, <2>4 DEF FoundInv
<1>4. CASE ExitFrame
  BY <1>4 DEF ExitFrame, FoundInv, Working, Finished
<1>5. CASE UNCHANGED vars
  BY <1>1, <1>5 DEF vars, FoundInv, Working, Expected
<1> QED BY <1>2, <1>3, <1>4, <1>5, StepFrames

-----------------------------------------------------------------------------
(* An order is sold once *)

SoldInv ==
  load.atOnce = 1 => \A o \in Requests :
    /\ \A r, s \in Sold(o) : r = s
    /\ Sold(o) # {} => orders[o].status \notin {"none", "ONHOLD"}

LEMMA NextSold ==
  ASSUME HoldInv, NamedInv, FoundInv, SoldInv, [Next]_vars
  PROVE  SoldInv'
<1> SUFFICES ASSUME load'.atOnce = 1, NEW o \in Requests
             PROVE  /\ \A r, s \in Sold(o)' : r = s
                    /\ Sold(o)' # {} => orders'[o].status \notin {"none", "ONHOLD"}
  BY DEF SoldInv, Sold
<1>1. load' = load /\ load.atOnce = 1
  BY StepFrames DEF ArriveFrame, Frame, ExitFrame, vars
<1>2. /\ \A r, s \in Sold(o) : r = s
      /\ Sold(o) # {} => orders[o].status \notin {"none", "ONHOLD"}
  BY <1>1 DEF SoldInv
<1>3. CASE Sold(o)' = Sold(o) /\ orders' = orders
  BY <1>2, <1>3
<1>4. ASSUME NEW r \in Requests, ArriveFrame(r) PROVE Sold(o)' = Sold(o) /\ orders' = orders
  <2>1. /\ orders' = orders /\ pc[r] = "idle" /\ pc'[r] = "find"
        /\ \A s \in Requests \ {r} : pc'[s] = pc[s] /\ call'[s] = call[s]
    BY <1>4 DEF ArriveFrame, HoldInv, TypeOK
  <2> QED BY <2>1 DEF Sold
<1>5. ASSUME ExitFrame PROVE Sold(o)' = Sold(o) /\ orders' = orders
  BY <1>5 DEF ExitFrame, Sold, Working, Finished
<1>6. ASSUME NEW r \in Requests, Frame(r), ~Writes(r) PROVE Sold(o)' = Sold(o) /\ orders' = orders
  BY <1>6 DEF Frame, Sold, Finished
<1>7. ASSUME NEW r \in Requests, Frame(r), Writes(r)
      PROVE  /\ \A a, b \in Sold(o)' : a = b
             /\ Sold(o)' # {} => orders'[o].status \notin {"none", "ONHOLD"}
  <2>1. PICK order \in Order : /\ orders' = [orders EXCEPT ![call[r].order] = order]
                               /\ Wrote(r, order) /\ pc'[r] = "done" /\ pc[r] = "update"
    BY <1>7 DEF Writes
  <2>2. /\ call[r].order \in Requests /\ Named(r) /\ Working(r) /\ Expected(r)
        /\ orders \in [Requests -> Order]
    BY <1>1, <2>1 DEF HoldInv, Ready, NamedInv, FoundInv, Working, Finished, TypeOK
  <2>3. \A s \in Requests : s \in Sold(o)' =>
          s \in Sold(o) \/ (s = r /\ call[r].kind \in {"CREATE", "ACTIVATE"}
                            /\ call[r].order = o /\ call[r].status = "ACTIVE")
    BY <1>7 DEF Frame, Sold
  <2>4. CASE call[r].order # o
    BY <1>2, <2>1, <2>2, <2>3, <2>4 DEF Sold
  <2>5. CASE call[r].order = o
    <3>1. orders'[o] = order
      BY <2>1, <2>2, <2>5
    <3>2. CASE call[r].kind \in {"CREATE", "CUSTOMER", "ACTIVATE"}
      <4>1. Sold(o) = {}
        <5>1. CASE call[r].kind = "ACTIVATE"
          BY <1>2, <2>2, <2>5, <5>1 DEF Expected
        <5>2. CASE call[r].kind # "ACTIVATE"
          <6>1. orders[o].status = "none"
            BY <2>2, <2>5, <3>2, <5>2 DEF Named, Creating, Working, NoOrder
          <6> QED BY <1>2, <6>1
        <5> QED BY <5>1, <5>2
      <4>2. order.status \in Statuses
        BY <2>1, <2>2, <3>2 DEF Wrote, Named, Creating, Working, NewStatus, Statuses
      <4>3. \A s \in Sold(o)' : s = r /\ call[r].kind \in {"CREATE", "ACTIVATE"} /\ call[r].status = "ACTIVE"
        BY <2>3, <4>1 DEF Sold
      <4>4. Sold(o)' # {} => order.status = "ACTIVE"
        BY <2>1, <4>3 DEF Wrote, Creating, NewStatus
      <4> QED BY <3>1, <4>3, <4>4
    <3>3. CASE call[r].kind \notin {"CREATE", "CUSTOMER", "ACTIVATE"}
      <4>1. \A s \in Sold(o)' : s \in Sold(o)
        BY <2>3, <3>3 DEF Sold
      <4>2. call[r].kind \in {"CANCEL", "REFUND", "RETURN"}
        BY <2>2, <3>3 DEF Named, Working, AllKinds
      <4>3. order.status \in {"VOID", "REFUND", "RETURN", orders[o].status}
        BY <2>1, <2>5, <4>2 DEF Wrote, Creating
      <4> QED BY <1>2, <3>1, <4>1, <4>3
    <3> QED BY <3>2, <3>3
  <2> QED BY <2>4, <2>5
<1>8. CASE UNCHANGED vars
  <2>1. Sold(o)' = Sold(o) /\ orders' = orders
    BY <1>8 DEF vars, Sold
  <2> QED BY <1>3, <2>1
<1> QED BY <1>3, <1>4, <1>5, <1>6, <1>7, <1>8, StepFrames

SerialInv == HoldInv /\ NamedInv /\ FoundInv /\ SoldInv

LEMMA SerialInvariant == Spec => []SerialInv
<1>1. Init => SerialInv
  <2> HAVE Init
  <2>1. NamedInv
    BY DEF Init, NamedInv, Named, Working
  <2>2. \A r \in Requests : ~Working(r) /\ pc[r] = "idle"
    BY DEF Init, Working
  <2>3. FoundInv /\ SoldInv
    BY <2>2 DEF FoundInv, SoldInv, Sold
  <2> QED BY <2>1, <2>3, InitHold DEF SerialInv
<1>2. SerialInv /\ [Next]_vars => SerialInv'
  BY NextHold, NextNamed, NextFound, NextSold DEF SerialInv
<1> QED BY <1>1, <1>2, PTL DEF Spec

\* One request at a time, no order is released twice: neither a creation and an
\* activation nor two activations of one order both succeed.
THEOREM SoldOnce == Spec => []SoldOnceWhenSerial
<1>1. SerialInv => SoldOnceWhenSerial
  <2> SUFFICES ASSUME SoldInv, load.atOnce = 1, NEW o \in Requests
               PROVE  Cardinality(Sold(o)) <= 1
    BY DEF SerialInv, SoldOnceWhenSerial
  <2>1. CASE Sold(o) = {}
    BY <2>1, FS_EmptySet
  <2>2. CASE Sold(o) # {}
    <3>1. PICK r \in Sold(o) : TRUE
      BY <2>2
    <3>2. Sold(o) = {r}
      BY <3>1 DEF SoldInv
    <3>3. Cardinality({r}) = 1
      BY FS_Singleton
    <3> QED BY <3>2, <3>3
  <2> QED BY <2>1, <2>2
<1> QED BY <1>1, SerialInvariant, PTL

\* One request at a time, an order that was voided, refunded or returned is never
\* written again.
THEOREM ClosedOrdersStay == Spec => ClosedOrdersStayWhenSerial
<1> DEFINE Stay == load.atOnce = 1 => \A o \in Requests :
                     orders[o].status \in Closed => orders'[o] = orders[o]
<1>1. SerialInv /\ [Next]_vars => [Stay]_vars
  <2> SUFFICES ASSUME SerialInv, [Next]_vars, load.atOnce = 1, NEW o \in Requests,
                      orders[o].status \in Closed
               PROVE  orders'[o] = orders[o]
    OBVIOUS
  <2> USE DEF SerialInv
  <2>1. ASSUME NEW r \in Requests, Frame(r), orders'[o] # orders[o] PROVE FALSE
    <3>1. Writes(r) /\ Working(r) /\ Named(r) /\ orders \in [Requests -> Order]
      BY <2>1 DEF Frame, Working, NamedInv, HoldInv, TypeOK
    <3>2. call[r].order = o /\ pc[r] = "update"
      BY <2>1, <3>1 DEF Writes
    <3>3. Expected(r)
      BY <3>1, <3>2 DEF FoundInv
    <3> QED BY <3>1, <3>2, <3>3 DEF Expected, Named, Working, Closed, AllKinds, Creating, NoOrder
  <2> QED BY <2>1, StepFrames DEF ArriveFrame, ExitFrame, vars
<1> QED BY <1>1, SerialInvariant, PTL DEF Spec, ClosedOrdersStayWhenSerial

-----------------------------------------------------------------------------
(* A full refund gives back what was released *)

\* The requests of a load whose refunds are full, where they stand.
Scope(r) ==
  pc[r] # "idle" =>
    /\ call[r].kind # "RETURN"
    /\ call[r].kind = "REFUND" =>
         call[r].method = "FULLY" /\ pc[r] \in {"find", "void", "voidRefund", "update"} \union Finished
    /\ pc[r] \in {"hold", "holdWrite"} => call[r].status # "ACTIVE" \/ call[r].kind = "CUSTOMER"

\* A request that sells has had its last line released before it writes the order.
Sells(r) == call[r].kind \in {"CREATE", "ACTIVATE"} /\ call[r].status = "ACTIVE"
Paid(r) ==
  (Sells(r) /\ pc[r] \in {"retrieve", "retrieveWrite", "update"} /\ Len(call[r].items) = 1)
    => call[r].items[1] \in LinesOf(released[r])

Fresh(r) ==
  /\ pc[r] = "idle" => released[r] = <<>>
  /\ refunded[r] # <<>> => pc[r] \in {"update"} \union Finished

\* Of lines that are one line only, that line was released for an order.
ReleasedFor(o, l) == \E r \in Requests : call[r].order = o /\ l \in LinesOf(released[r])
Covered(o, lines) == Len(lines) = 1 => ReleasedFor(o, lines[1])

CoveredAll(r) ==
  /\ orders[r].status = "ACTIVE" => Covered(r, orders[r].items)
  /\ call[r].kind = "REFUND" /\ pc[r] = "voidRefund" => Covered(call[r].order, local[r].found.items)
  /\ Covered(call[r].order, refunded[r])

CoveredNext(o, lines) ==
  Len(lines) = 1 => \E r \in Requests : call'[r].order = o /\ lines[1] \in LinesOf(released'[r])

RefundInv ==
  FullRefundsOnly => \A r \in Requests : Scope(r) /\ Paid(r) /\ Fresh(r) /\ CoveredAll(r)

\* How a step changes what these speak of.
Tracks(r) ==
  /\ \A o \in Requests \ {r} :
       local'[o] = local[o] /\ released'[o] = released[o] /\ refunded'[o] = refunded[o]
  /\ \/ released'[r] = released[r]
     \/ released'[r] = released[r] \o LastOf(call[r].items) /\ pc[r] = "release"
  /\ \/ refunded'[r] = refunded[r]
     \/ /\ pc[r] = "voidRefund" /\ pc'[r] = "update" /\ call[r].kind = "REFUND"
        /\ refunded'[r] = refunded[r] \o local[r].found.items
  /\ call[r].kind = "REFUND" => pc'[r] \in {"void", "voidRefund", "update"} \union Finished
  /\ pc'[r] \in {"hold", "holdWrite"} =>
       pc[r] \in {"hold", "holdWrite"} \/ call[r].status # "ACTIVE" \/ call[r].kind = "CUSTOMER"
  /\ Sells(r) /\ pc'[r] \in {"retrieve", "retrieveWrite", "update"} =>
       \/ pc[r] \in {"retrieve", "retrieveWrite"} /\ released'[r] = released[r]
       \/ pc[r] = "release" /\ released'[r] = released[r] \o LastOf(call[r].items)
  /\ call[r].kind = "REFUND" /\ pc'[r] = "voidRefund" =>
       local'[r].found = orders[call[r].order] /\ orders[call[r].order].status = "ACTIVE"
  /\ pc[r] = "update" => pc'[r] \in Finished

LEMMA HandlerTracks ==
  ASSUME HoldInv, NEW r \in Requests, Handler(r), Scope(r), NamedInv
  PROVE  Tracks(r)
<1> USE DEF Serves
<1>1. /\ pc \in [Requests -> Steps] /\ local \in [Requests -> Local]
      /\ released \in [Requests -> Seq(OrderLine)] /\ refunded \in [Requests -> Seq(OrderLine)]
  BY DEF HoldInv, TypeOK
<1>2. CASE Fail(r)
  BY <1>1, <1>2 DEF Fail, Goto, stock, Tracks, Finished
<1>3. Frame(r)
  BY HandlerFrame
<1>4. call[r].kind # "RETURN" /\ (call[r].kind = "REFUND" => call[r].method = "FULLY")
  BY <1>3 DEF Scope, Frame
<1>5. CASE HoldRead(r) \/ RetrieveRead(r)
  <2>1. CASE HoldRead(r) /\ ~Fail(r)
    BY <1>1, <1>4, <2>1 DEF HoldRead, ReadQtyOnHold, stock, Goto, Tracks, Creating, Finished, Sells
  <2>2. CASE RetrieveRead(r) /\ ~Fail(r)
    BY <1>1, <1>4, <2>2 DEF RetrieveRead, ReadQtyOnHold, stock, Goto, Tracks, Finished, Sells
  <2> QED BY <1>2, <1>5, <2>1, <2>2
<1>6. CASE HoldWrite(r) \/ RetrieveWrite(r)
  BY <1>1, <1>4, <1>6 DEF HoldWrite, RetrieveWrite, WriteQtyOnHold, Goto, Tracks, Creating, Finished, Sells
<1>7. CASE LoopEnds(r)
  BY <1>1, <1>2, <1>4, <1>7 DEF LoopEnds, stock, Goto, Tracks, Creating, Finished, Sells, Scope
<1>8. CASE CreateStart(r) \/ CustomerStart(r)
  BY <1>1, <1>4, <1>8 DEF CreateStart, CustomerStart, stock, Goto, Tracks, Finished, Sells
<1>9. CASE CreateRelease(r) \/ ActivateRelease(r)
  BY <1>1, <1>2, <1>4, <1>9 DEF CreateRelease, ActivateRelease, Release, Goto, Tracks, Finished, Sells
<1>10. CASE CreateInsert(r) \/ ActivateUpdate(r) \/ CancelUpdate(r) \/ WithdrawUpdate(r)
  <2>1. CASE \E order : UpdateOrder(r, order)
    BY <1>1, <1>4, <2>1 DEF UpdateOrder, stock, Goto, Tracks, Finished, Sells
  <2> QED BY <1>2, <1>10, <2>1 DEF CreateInsert, ActivateUpdate, CancelUpdate, WithdrawUpdate
<1>11. CASE ActivateFind(r) \/ CancelFind(r)
  BY <1>1, <1>2, <1>4, <1>11 DEF ActivateFind, CancelFind, FindOrder, stock, Goto, Tracks, Finished, Sells
<1>12. CASE RefundFind(r) \/ VoidFind(r)
  <2>1. CASE RefundFind(r) /\ ~Fail(r)
    BY <1>1, <1>4, <2>1 DEF RefundFind, FindOrder, stock, Goto, Tracks, Finished, Sells
  <2>2. CASE VoidFind(r) /\ ~Fail(r)
    BY <1>1, <1>4, <2>2 DEF VoidFind, FindOrder, stock, Goto, Tracks, Finished, Sells, Local
  <2> QED BY <1>2, <1>12, <2>1, <2>2
<1>13. CASE VoidRefund(r)
  BY <1>1, <1>2, <1>4, <1>13 DEF VoidRefund, Refund, Goto, Tracks, Finished, Sells
<1>14. CASE ReturnFind(r) \/ ReturnRelease(r)
  BY <1>4, <1>14 DEF ReturnFind, ReturnRelease
<1>15. CASE RefundFirst(r) \/ RefundRelease(r) \/ WithdrawAnswer(r)
  BY <1>4, <1>15 DEF RefundFirst, RefundRelease, WithdrawAnswer, Scope, Finished
<1> QED
  BY <1>5, <1>6, <1>7, <1>8, <1>9, <1>10, <1>11, <1>12, <1>13, <1>14, <1>15 DEF Handler

-----------------------------------------------------------------------------

LEMMA LastLine ==
  ASSUME NEW done \in Seq(OrderLine), NEW lines \in Seq(OrderLine)
  PROVE  /\ LinesOf(done) \subseteq LinesOf(done \o LastOf(lines))
         /\ Len(lines) = 1 => lines[1] \in LinesOf(done \o LastOf(lines))
<1>1. LastOf(lines) \in Seq(OrderLine)
  BY EndsType
<1>2. /\ DOMAIN done = 1 .. Len(done) /\ Len(done) \in Nat
      /\ Len(done \o LastOf(lines)) = Len(done) + Len(LastOf(lines))
      /\ Len(LastOf(lines)) \in Nat
      /\ DOMAIN (done \o LastOf(lines)) = 1 .. Len(done \o LastOf(lines))
      /\ \A k \in 1 .. Len(done) : (done \o LastOf(lines))[k] = done[k]
      /\ \A k \in 1 .. Len(LastOf(lines)) : (done \o LastOf(lines))[Len(done) + k] = LastOf(lines)[k]
  BY <1>1, ConcatProperties
<1>3. LinesOf(done) \subseteq LinesOf(done \o LastOf(lines))
  BY <1>2 DEF LinesOf
<1>4. ASSUME Len(lines) = 1 PROVE lines[1] \in LinesOf(done \o LastOf(lines))
  <2>1. lines # <<>> /\ LastOf(lines) = <<lines[1]>>
    BY <1>4 DEF LastOf
  <2>2. Len(LastOf(lines)) = 1 /\ LastOf(lines)[1] = lines[1]
    BY <2>1
  <2>3. /\ Len(done) + 1 \in DOMAIN (done \o LastOf(lines))
        /\ (done \o LastOf(lines))[Len(done) + 1] = lines[1]
    BY <1>2, <2>2
  <2> QED BY <2>3 DEF LinesOf
<1> QED BY <1>3, <1>4

\* What has been released is never taken back.
LEMMA CoveredStays ==
  ASSUME \A o \in Requests : /\ LinesOf(released[o]) \subseteq LinesOf(released'[o])
                             /\ call'[o] = call[o] \/ released[o] = <<>>,
         NEW o, NEW lines, Covered(o, lines)
  PROVE  CoveredNext(o, lines)
<1>1. \A r \in Requests : \A l : l \in LinesOf(released[r]) => call'[r] = call[r]
  <2>1. LinesOf(<<>>) = {}
    BY DEF LinesOf
  <2> QED BY <2>1
<1> QED BY <1>1 DEF Covered, ReleasedFor, CoveredNext

LEMMA AllCoveredNext ==
  ASSUME NEW r,
         orders'[r].status = "ACTIVE" => CoveredNext(r, orders'[r].items),
         call'[r].kind = "REFUND" /\ pc'[r] = "voidRefund" =>
           CoveredNext(call'[r].order, local'[r].found.items),
         CoveredNext(call'[r].order, refunded'[r])
  PROVE  CoveredAll(r)'
BY DEF CoveredAll, Covered, ReleasedFor, CoveredNext

LEMMA HandlerRefunds ==
  ASSUME HoldInv, NamedInv, RefundInv, FullRefundsOnly, NEW r \in Requests, Handler(r)
  PROVE  \A o \in Requests : (Scope(o) /\ Paid(o) /\ Fresh(o) /\ CoveredAll(o))'
<1>1. Frame(r) /\ Scope(r) /\ Paid(r) /\ Fresh(r) /\ Tracks(r)
  BY HandlerFrame, HandlerTracks DEF RefundInv
<1>2. /\ released[r] \in Seq(OrderLine) /\ refunded[r] \in Seq(OrderLine)
      /\ call[r].items \in Seq(OrderLine) /\ local[r].found.items \in Seq(OrderLine)
  BY CallType DEF HoldInv, TypeOK
<1>3. /\ LinesOf(released[r]) \subseteq LinesOf(released'[r])
      /\ released'[r] = released[r] \o LastOf(call[r].items) /\ Len(call[r].items) = 1 =>
           call[r].items[1] \in LinesOf(released'[r])
  BY <1>1, <1>2, LastLine DEF Tracks
<1>4. \A o \in Requests : /\ LinesOf(released[o]) \subseteq LinesOf(released'[o])
                          /\ call'[o] = call[o] \/ released[o] = <<>>
  BY <1>1, <1>3 DEF Tracks, Frame
<1>5. \A o, lines : Covered(o, lines) => CoveredNext(o, lines)
  BY <1>4, CoveredStays
<1>6. Scope(r)'
  BY <1>1 DEF Frame, Tracks, Scope, Finished
<1>7. Paid(r)'
  BY <1>1, <1>3 DEF Frame, Tracks, Paid, Sells
<1>8. refunded'[r] = refunded[r] \/ refunded'[r] = local[r].found.items
  <2>1. pc[r] = "voidRefund" => refunded[r] = <<>>
    BY <1>1 DEF Fresh, Finished
  <2>2. <<>> \o local[r].found.items = local[r].found.items
    BY <1>2, ConcatEmptySeq
  <2> QED BY <1>1, <2>1, <2>2 DEF Tracks
<1>9. Fresh(r)'
  BY <1>1 DEF Frame, Tracks, Fresh, Finished
<1>10. ASSUME NEW o \in Requests, orders'[o].status = "ACTIVE" PROVE CoveredNext(o, orders'[o].items)
  <2>1. CASE orders'[o] = orders[o]
    BY <1>5, <1>10, <2>1 DEF RefundInv, CoveredAll
  <2>2. CASE orders'[o] # orders[o]
    <3>1. PICK order \in Order : /\ orders' = [orders EXCEPT ![call[r].order] = order]
                                 /\ Wrote(r, order) /\ pc[r] = "update" /\ pc'[r] = "done"
      BY <1>1, <2>2 DEF Frame, Writes
    <3>2. /\ o = call[r].order /\ order.status = "ACTIVE" /\ orders'[o].items = order.items
      BY <1>10, <2>2, <3>1 DEF HoldInv, TypeOK
    <3>3. Sells(r) /\ order.items = call[r].items
      <4>1. Named(r) /\ call[r].kind \in AllKinds \ {"RETURN"}
            /\ (call[r].kind = "REFUND" => call[r].method = "FULLY")
        BY <1>1, <3>1 DEF NamedInv, Named, Scope
      <4> QED BY <3>1, <3>2, <4>1 DEF Wrote, Sells, NewStatus, AllKinds, Creating
    <3>4. Len(call[r].items) = 1 => call[r].items[1] \in LinesOf(released[r])
      BY <1>1, <3>1, <3>3 DEF Paid
    <3>5. CoveredNext(o, order.items)
      BY <1>1, <1>3, <3>2, <3>3, <3>4 DEF CoveredNext, Frame
    <3> QED BY <3>2, <3>5
  <2> QED BY <2>1, <2>2
<1>11. CoveredAll(r)'
  <2>1. orders'[r].status = "ACTIVE" => CoveredNext(r, orders'[r].items)
    BY <1>10
  <2>2. ASSUME call'[r].kind = "REFUND", pc'[r] = "voidRefund"
        PROVE  CoveredNext(call'[r].order, local'[r].found.items)
    <3>1. /\ call'[r] = call[r] /\ call[r].order \in Requests
          /\ local'[r].found = orders[call[r].order] /\ orders[call[r].order].status = "ACTIVE"
      BY <1>1, <2>2 DEF Frame, Tracks, HoldInv, Ready
    <3>2. Covered(call[r].order, local'[r].found.items)
      BY <3>1 DEF RefundInv, CoveredAll
    <3> QED BY <1>5, <3>1, <3>2
  <2>3. CoveredNext(call'[r].order, refunded'[r])
    <3>1. call'[r] = call[r]
      BY <1>1 DEF Frame
    <3>2. CASE refunded'[r] = refunded[r]
      BY <1>5, <3>1, <3>2 DEF RefundInv, CoveredAll
    <3>3. CASE refunded'[r] # refunded[r]
      <4>1. Covered(call[r].order, refunded'[r])
        BY <1>1, <1>8, <3>3 DEF Tracks, RefundInv, CoveredAll
      <4> QED BY <1>5, <3>1, <4>1
    <3> QED BY <3>2, <3>3
  <2> QED BY <2>1, <2>2, <2>3, AllCoveredNext
<1>12. ASSUME NEW o \in Requests, o # r
       PROVE  (Scope(o) /\ Paid(o) /\ Fresh(o) /\ CoveredAll(o))'
  <2>1. /\ pc'[o] = pc[o] /\ call' = call /\ local'[o] = local[o]
        /\ released'[o] = released[o] /\ refunded'[o] = refunded[o]
    BY <1>1, <1>12 DEF Frame, Tracks
  <2>2. Scope(o) /\ Paid(o) /\ Fresh(o) /\ CoveredAll(o)
    BY DEF RefundInv
  <2>3. Scope(o)' /\ Paid(o)' /\ Fresh(o)'
    BY <2>1, <2>2 DEF Scope, Paid, Fresh, Sells
  <2>4. CoveredAll(o)'
    BY <1>5, <1>10, <2>1, <2>2, AllCoveredNext DEF CoveredAll
  <2> QED BY <2>3, <2>4
<1> QED BY <1>6, <1>7, <1>9, <1>11, <1>12

LEMMA NextRefund ==
  ASSUME HoldInv, NamedInv, RefundInv, [Next]_vars
  PROVE  RefundInv'
<1> SUFFICES ASSUME FullRefundsOnly' PROVE \A o \in Requests : (Scope(o) /\ Paid(o) /\ Fresh(o) /\ CoveredAll(o))'
  BY DEF RefundInv
<1>1. load' = load /\ FullRefundsOnly
  <2>1. load' = load
    BY StepFrames DEF ArriveFrame, Frame, ExitFrame, vars
  <2> QED BY <2>1 DEF FullRefundsOnly
<1>2. ASSUME NEW r \in Requests, Handler(r)
      PROVE  \A o \in Requests : (Scope(o) /\ Paid(o) /\ Fresh(o) /\ CoveredAll(o))'
  BY <1>1, <1>2, HandlerRefunds
<1>3. ASSUME NEW r \in Requests, Arrive(r), NEW o \in Requests
      PROVE  (Scope(o) /\ Paid(o) /\ Fresh(o) /\ CoveredAll(o))'
  <2>1. PICK c \in Creations(r) \union Activations \union Cancellations \union Withdrawals :
          c.kind \in load.kinds /\ call' = [call EXCEPT ![r] = c]
    BY <1>3 DEF Arrive
  <2>2. /\ pc[r] = "idle" /\ released[r] = <<>> /\ refunded[r] = <<>>
        /\ pc' = [pc EXCEPT ![r] = "find"]
        /\ UNCHANGED <<released, refunded, orders, local>>
    BY <1>1, <1>3 DEF Arrive, Goto, stock, RefundInv, Fresh, Finished
  <2>3. c.kind # "RETURN" /\ (c.kind = "REFUND" => c.method = "FULLY")
    BY <1>1, <2>1 DEF FullRefundsOnly, Creations, Creating, Activations, Cancellations, Withdrawals
  <2>4. \A a \in Requests : call'[a] = call[a] \/ released[a] = <<>>
    BY <2>1, <2>2 DEF HoldInv, TypeOK
  <2>5. \A a, lines : Covered(a, lines) => CoveredNext(a, lines)
    BY <2>2, <2>4, CoveredStays
  <2>6. Scope(o) /\ Paid(o) /\ Fresh(o) /\ CoveredAll(o)
    BY <1>1 DEF RefundInv
  <2>7. CASE o # r
    <3>1. call'[o] = call[o] /\ pc'[o] = pc[o]
      BY <2>1, <2>2, <2>7 DEF HoldInv, TypeOK
    <3>2. (Scope(o) /\ Paid(o) /\ Fresh(o))'
      BY <2>2, <2>6, <3>1 DEF Scope, Paid, Fresh, Sells
    <3>3. CoveredAll(o)'
      BY <2>2, <2>5, <2>6, <3>1, AllCoveredNext DEF CoveredAll
    <3> QED BY <3>2, <3>3
  <2>8. CASE o = r
    <3>1. call'[o] = c /\ pc'[o] = "find"
      BY <2>1, <2>2, <2>8 DEF HoldInv, TypeOK
    <3>2. (Scope(o) /\ Paid(o) /\ Fresh(o))'
      BY <2>2, <2>3, <2>8, <3>1 DEF Scope, Paid, Fresh, Finished
    <3>3. CoveredAll(o)'
      <4>1. orders'[o].status = "ACTIVE" => CoveredNext(o, orders'[o].items)
        BY <2>2, <2>5, <2>6 DEF CoveredAll
      <4>2. Len(refunded'[o]) # 1
        BY <2>2, <2>8
      <4>3. CoveredNext(call'[o].order, refunded'[o])
        BY <4>2 DEF CoveredNext
      <4> QED BY <3>1, <4>1, <4>3, AllCoveredNext
    <3> QED BY <3>2, <3>3
  <2> QED BY <2>7, <2>8
<1>4. ASSUME ProcessExit, NEW o \in Requests
      PROVE  (Scope(o) /\ Paid(o) /\ Fresh(o) /\ CoveredAll(o))'
  <2>1. /\ UNCHANGED <<released, refunded, orders, call, local>>
        /\ pc' = [r \in Requests |-> IF Working(r) THEN "crashed" ELSE pc[r]]
    BY <1>4 DEF ProcessExit, stock
  <2>2. pc'[o] = pc[o] \/ (pc'[o] = "crashed" /\ pc[o] # "idle")
    BY <2>1 DEF Working
  <2>3. Scope(o) /\ Paid(o) /\ Fresh(o) /\ CoveredAll(o)
    BY <1>1 DEF RefundInv
  <2>4. (Scope(o) /\ Paid(o) /\ Fresh(o))'
    BY <2>1, <2>2, <2>3 DEF Scope, Paid, Fresh, Sells, Finished
  <2>5. \A a, lines : Covered(a, lines) => CoveredNext(a, lines)
    BY <2>1 DEF Covered, ReleasedFor, CoveredNext
  <2>6. CoveredAll(o)'
    BY <2>1, <2>2, <2>3, <2>5, AllCoveredNext DEF CoveredAll
  <2> QED BY <2>4, <2>6
<1>5. ASSUME UNCHANGED vars, NEW o \in Requests
      PROVE  (Scope(o) /\ Paid(o) /\ Fresh(o) /\ CoveredAll(o))'
  <2>1. Scope(o) /\ Paid(o) /\ Fresh(o) /\ CoveredAll(o)
    BY <1>1 DEF RefundInv
  <2> QED BY <1>5, <2>1 DEF vars, Scope, Paid, Fresh, Sells, CoveredAll, Covered, ReleasedFor
<1> QED BY <1>2, <1>3, <1>4, <1>5 DEF Next

LEMMA RefundInvariant == Spec => [](HoldInv /\ NamedInv /\ RefundInv)
<1>1. Init => HoldInv /\ NamedInv /\ RefundInv
  <2> HAVE Init
  <2>1. NamedInv
    BY DEF Init, NamedInv, Named, Working
  <2>2. \A r \in Requests : /\ pc[r] = "idle" /\ released[r] = <<>> /\ refunded[r] = <<>>
                            /\ orders[r].status = "none" /\ Len(refunded[r]) # 1
    BY DEF Init, NoOrder
  <2>3. RefundInv
    BY <2>2 DEF RefundInv, Scope, Paid, Fresh, CoveredAll, Covered
  <2> QED BY <2>1, <2>3, InitHold
<1>2. HoldInv /\ NamedInv /\ RefundInv /\ [Next]_vars => (HoldInv /\ NamedInv /\ RefundInv)'
  BY NextHold, NextNamed, NextRefund
<1> QED BY <1>1, <1>2, PTL DEF Spec

\* However requests interleave, fail half-way and exit, a full refund of an order
\* of one line gives back a line that was released for that order.
THEOREM RefundsWereReleased == Spec => []RefundsWhatWasReleased
<1>1. HoldInv /\ RefundInv => RefundsWhatWasReleased
  <2> SUFFICES ASSUME HoldInv, RefundInv, FullRefundsOnly, NEW r \in Requests,
                      Len(refunded[r]) = 1, NEW l \in LinesOf(refunded[r])
               PROVE  \E o \in Requests : call[o].order = call[r].order /\ l \in LinesOf(released[o])
    BY DEF RefundsWhatWasReleased
  <2>1. refunded[r] \in Seq(OrderLine) /\ DOMAIN refunded[r] = 1 .. 1
    BY DEF HoldInv, TypeOK
  <2>2. l = refunded[r][1]
    BY <2>1 DEF LinesOf
  <2> QED BY <2>2 DEF RefundInv, CoveredAll, Covered, ReleasedFor
<1> QED BY <1>1, RefundInvariant, PTL
-----------------------------------------------------------------------------
(* Quantities of lines *)

\* Of the lines before one.
SumUpTo(lines, i, line) ==
  SumFunctionOnSet(QtyOf(lines), {k \in DOMAIN lines : k < line /\ lines[k].item = i})

LEMMA SomeLines ==
  ASSUME NEW lines \in Seq(OrderLine), NEW s, s \subseteq DOMAIN lines
  PROVE  /\ IsFiniteSet(s) /\ \A k \in s : QtyOf(lines)[k] \in Int
         /\ SumFunctionOnSet(QtyOf(lines), s) \in Int
<1>1. DOMAIN lines = 1 .. Len(lines) /\ Len(lines) \in Nat
  OBVIOUS
<1>2. IsFiniteSet(1 .. Len(lines))
  BY <1>1, FS_Interval
<1>3. IsFiniteSet(s)
  BY <1>1, <1>2, FS_Subset
<1>4. \A k \in s : QtyOf(lines)[k] \in Int
  <2> TAKE k \in s
  <2>1. lines[k] \in OrderLine /\ k \in DOMAIN lines
    BY <1>1
  <2> QED BY <2>1 DEF QtyOf, OrderLine
<1> HIDE DEF QtyOf
<1>5. SumFunctionOnSet(QtyOf(lines), s) \in Int
  BY <1>3, <1>4, SumType
<1> QED BY <1>3, <1>4, <1>5

LEMMA SumsAreNumbers ==
  ASSUME NEW lines \in Seq(OrderLine), NEW i, NEW line
  PROVE  SumOver(lines, i) \in Int /\ SumUpTo(lines, i, line) \in Int
BY SomeLines DEF SumOver, SumUpTo

LEMMA SumUpToEnds ==
  ASSUME NEW lines \in Seq(OrderLine), NEW i
  PROVE  /\ SumUpTo(lines, i, 1) = 0
         /\ \A line \in Nat : line > Len(lines) => SumUpTo(lines, i, line) = SumOver(lines, i)
<1>1. DOMAIN lines = 1 .. Len(lines) /\ Len(lines) \in Nat
  OBVIOUS
<1>2. {k \in DOMAIN lines : k < 1 /\ lines[k].item = i} = {}
  BY <1>1
<1>3. SumUpTo(lines, i, 1) = 0
  BY <1>2, SumOfNone DEF SumUpTo
<1>4. ASSUME NEW line \in Nat, line > Len(lines)
      PROVE  {k \in DOMAIN lines : k < line /\ lines[k].item = i} = {k \in DOMAIN lines : lines[k].item = i}
  BY <1>1, <1>4
<1> QED BY <1>3, <1>4 DEF SumUpTo, SumOver

LEMMA SumUpToNext ==
  ASSUME NEW lines \in Seq(OrderLine), NEW i, NEW line \in DOMAIN lines
  PROVE  SumUpTo(lines, i, line + 1)
           = SumUpTo(lines, i, line) + (IF lines[line].item = i THEN lines[line].qty ELSE 0)
<1> DEFINE before == {k \in DOMAIN lines : k < line /\ lines[k].item = i}
           upTo == {k \in DOMAIN lines : k < line + 1 /\ lines[k].item = i}
<1>1. line \in Int /\ DOMAIN lines \subseteq Int /\ lines[line] \in OrderLine
  OBVIOUS
<1>2. line \notin before /\ before \subseteq DOMAIN lines /\ upTo \subseteq DOMAIN lines
  BY <1>1
<1>3. upTo = IF lines[line].item = i THEN before \union {line} ELSE before
  BY <1>1
<1>4. QtyOf(lines)[line] = lines[line].qty
  BY DEF QtyOf
<1>5. SumUpTo(lines, i, line) = SumFunctionOnSet(QtyOf(lines), before) /\ SumUpTo(lines, i, line) \in Int
  BY <1>2, SomeLines DEF SumUpTo
<1>6. SumUpTo(lines, i, line + 1) = SumFunctionOnSet(QtyOf(lines), upTo)
  BY DEF SumUpTo
<1> HIDE DEF before, upTo
<1>7. IsFiniteSet(before) /\ \A k \in before \union {line} : QtyOf(lines)[k] \in Int
  <2>1. before \union {line} \subseteq DOMAIN lines
    BY <1>2
  <2> QED BY <1>2, <2>1, SomeLines
<1>8. CASE lines[line].item = i
  <2>1. SumFunctionOnSet(QtyOf(lines), before \union {line}) = SumFunctionOnSet(QtyOf(lines), before) + QtyOf(lines)[line]
    BY <1>2, <1>7, SumPut
  <2> QED BY <1>3, <1>4, <1>5, <1>6, <1>8, <2>1
<1>9. CASE lines[line].item # i
  BY <1>3, <1>5, <1>6, <1>9
<1> QED BY <1>8, <1>9

-----------------------------------------------------------------------------
(* Where a request stands that nobody interferes with *)

\* The handlers that take an order off hold.
Closing == {"ACTIVATE", "CANCEL"}
Holds(r) == call[r].kind \in Creating /\ call[r].status = "ONHOLD"
Loops == {"hold", "holdWrite", "retrieve", "retrieveWrite"}

\* A request is in a loop that its call has, at the first line before it, and has
\* found all lines after it; what it has read of the order and of the document it
\* is about to write still is so.
Place(r) ==
  /\ pc[r] \in {"hold", "holdWrite"} => Holds(r)
  /\ pc[r] \in {"retrieve", "retrieveWrite"} => call[r].kind \in Closing
  /\ pc[r] \in {"holdWrite", "retrieveWrite"} =>
       /\ local[r].doc \in Located(r) /\ \A m \in Located(r) : local[r].doc <= m
       /\ local[r].seen = qtyOnHold[local[r].doc]
  /\ pc[r] \notin Loops \union {"update"} \union Finished => local[r].line = 1
  /\ pc[r] = "update" =>
       IF call[r].kind \in Closing \/ Holds(r) THEN ~AtLine(r) ELSE local[r].line = 1
  /\ call[r].kind \in Closing /\ Working(r) /\ pc[r] # "find" =>
       local[r].found = orders[call[r].order]
  /\ call[r].kind \in Creating /\ pc[r] = "release" => call[r].status = "ACTIVE"

\* A step that writes no quantity keeps the line; one that does goes on to the next.
Quiet(r) ==
  /\ qtyOnHold' = qtyOnHold
  /\ local'[r].line = local[r].line /\ (local[r].line = 1 \/ Lines(r)' = Lines(r))
Counts(r) ==
  /\ qtyOnHold' = [qtyOnHold EXCEPT ![local[r].doc] =
       IF call[r].kind \in Creating THEN local[r].seen + ThisLine(r).qty
       ELSE local[r].seen - ThisLine(r).qty]
  /\ pc[r] \in {"holdWrite", "retrieveWrite"} /\ pc'[r] \notin Finished
  /\ orders' = orders /\ Lines(r)' = Lines(r) /\ local'[r].line = local[r].line + 1
Walks(r) ==
  /\ \A o \in Requests \ {r} : local'[o] = local[o]
  /\ pc'[r] \notin {"done", "failed"} => Place(r)'
  /\ Quiet(r) \/ Counts(r)

LEMMA SameLine ==
  ASSUME NEW r, call'[r] = call[r], local'[r].line = local[r].line,
         local'[r].found = local[r].found
  PROVE  /\ Lines(r)' = Lines(r) /\ AtLine(r)' = AtLine(r) /\ ThisLine(r)' = ThisLine(r)
         /\ Located(r)' = Located(r)
<1>1. Lines(r)' = Lines(r)
  BY DEF Lines
<1>2. AtLine(r)' = AtLine(r) /\ ThisLine(r)' = ThisLine(r)
  BY <1>1 DEF AtLine, ThisLine
<1>3. Places(r)' = Places(r)
  BY DEF Places
<1> QED BY <1>1, <1>2, <1>3 DEF Located

LEMMA FailWalks ==
  ASSUME TypeOK, NEW r \in Requests, Fail(r)
  PROVE  Walks(r)
<1>1. local' = local /\ qtyOnHold' = qtyOnHold /\ call' = call /\ pc'[r] = "failed"
  BY DEF Fail, Goto, stock, TypeOK
<1> QED BY <1>1, SameLine DEF Walks, Quiet

\* A step of control, or a call of a stock service.
LEMMA PlainWalks ==
  ASSUME TypeOK, NEW r \in Requests, UNCHANGED <<qtyOnHold, orders, call, local>>,
         NEW at \in Steps, Goto(r, at),
         at \in {"hold"} => Holds(r),
         at \in {"retrieve"} => call[r].kind \in Closing,
         at \notin {"holdWrite", "retrieveWrite"},
         at \notin Loops \union {"update"} \union Finished => local[r].line = 1,
         at = "update" =>
           IF call[r].kind \in Closing \/ Holds(r) THEN ~AtLine(r) ELSE local[r].line = 1,
         call[r].kind \in Closing => local[r].found = orders[call[r].order],
         call[r].kind \in Creating /\ at = "release" => call[r].status = "ACTIVE"
  PROVE  Walks(r)
<1>1. pc'[r] = at
  BY DEF Goto, TypeOK
<1>2. Lines(r)' = Lines(r) /\ AtLine(r)' = AtLine(r) /\ (Holds(r))' = Holds(r)
  BY SameLine DEF Holds
<1>3. Place(r)'
  BY <1>1, <1>2 DEF Place, Loops
<1> QED BY <1>2, <1>3 DEF Walks, Quiet

LEMMA UpdateWalks ==
  ASSUME TypeOK, NEW r \in Requests, NEW order, UpdateOrder(r, order)
  PROVE  Walks(r)
<1>1. local' = local /\ qtyOnHold' = qtyOnHold /\ call' = call /\ pc'[r] = "done"
  BY DEF UpdateOrder, Goto, stock, TypeOK
<1> QED BY <1>1, SameLine DEF Walks, Quiet

LEMMA FindWalks ==
  ASSUME HoldInv, NEW r \in Requests, pc[r] # "idle", Place(r), local[r].line = 1, NEW status,
         NEW at \in {"release", "retrieve", "void", "refund", "answer", "voidRefund"},
         FindOrder(r, status, at),
         at = "retrieve" => call[r].kind \in Closing,
         call[r].kind \notin Creating
  PROVE  Walks(r)
<1>1. CASE Fail(r)
  BY <1>1, FailWalks DEF HoldInv
<1>2. CASE ~Fail(r)
  <2> DEFINE order == orders[call[r].order]
  <2>1. /\ local' = [local EXCEPT ![r].found = order] /\ Goto(r, at)
        /\ UNCHANGED <<stock, orders, call>>
    BY <1>2 DEF FindOrder
  <2>2. pc'[r] = at /\ qtyOnHold' = qtyOnHold
    BY <2>1 DEF Goto, HoldInv, TypeOK, stock
  <2>3. orders'[call'[r].order] = order
    BY <2>1
  <2> HIDE DEF order
  <2>4. /\ \A o \in Requests \ {r} : local'[o] = local[o]
        /\ local'[r].line = 1 /\ local'[r].found = order
    BY <2>1 DEF HoldInv, TypeOK, Local
  <2>5. Place(r)'
    BY <2>1, <2>2, <2>3, <2>4 DEF Place, Loops
  <2> QED BY <2>2, <2>4, <2>5 DEF Walks, Quiet
<1> QED BY <1>1, <1>2

LEMMA ReadWalks ==
  ASSUME HoldInv, NEW r \in Requests, Place(r), NEW checked \in BOOLEAN,
         NEW at \in {"holdWrite", "retrieveWrite"}, ReadQtyOnHold(r, checked, at),
         at = "holdWrite" => Holds(r),
         at = "retrieveWrite" => call[r].kind \in Closing,
         pc[r] \in {"hold", "retrieve"}
  PROVE  Walks(r)
<1>1. CASE Fail(r)
  BY <1>1, FailWalks DEF HoldInv
<1>2. CASE ~Fail(r)
  <2>1. PICK n \in Located(r) :
          /\ \A m \in Located(r) : n <= m
          /\ local' = [local EXCEPT ![r] =
               [local[r] EXCEPT !.doc = n, !.seen = qtyOnHold[n]]]
          /\ Goto(r, at)
          /\ UNCHANGED <<stock, orders, call>>
    BY <1>2 DEF ReadQtyOnHold
  <2>2. pc'[r] = at /\ qtyOnHold' = qtyOnHold
    BY <2>1 DEF Goto, HoldInv, TypeOK, stock
  <2>3. /\ \A o \in Requests \ {r} : local'[o] = local[o]
        /\ local'[r].line = local[r].line /\ local'[r].found = local[r].found
        /\ local'[r].doc = n /\ local'[r].seen = qtyOnHold[n]
    BY <2>1 DEF HoldInv, TypeOK, Local
  <2>4. Lines(r)' = Lines(r) /\ Located(r)' = Located(r)
    BY <2>1, <2>3, SameLine
  <2>5. Holds(r)' = Holds(r) /\ Working(r)
    BY <2>1 DEF Holds, Working, Finished
  <2>6. call[r].kind \in Closing => local'[r].found = orders[call[r].order]
    BY <2>3, <2>5 DEF Place
  <2>7. Place(r)'
    BY <2>1, <2>2, <2>3, <2>4, <2>5, <2>6 DEF Place, Loops
  <2> QED BY <2>2, <2>3, <2>4, <2>7 DEF Walks, Quiet
<1> QED BY <1>1, <1>2

LEMMA WriteWalks ==
  ASSUME HoldInv, NEW r \in Requests, Place(r), NEW q, NEW at \in {"hold", "retrieve"},
         WriteQtyOnHold(r, q, at),
         q = (IF call[r].kind \in Creating THEN local[r].seen + ThisLine(r).qty
              ELSE local[r].seen - ThisLine(r).qty),
         at = "hold" => Holds(r),
         at = "retrieve" => call[r].kind \in Closing,
         pc[r] \in {"holdWrite", "retrieveWrite"}
  PROVE  Walks(r)
<1> DEFINE next == local[r].line + 1
<1>1. /\ qtyOnHold' = [qtyOnHold EXCEPT ![local[r].doc] = q] /\ Goto(r, at)
      /\ local' = [local EXCEPT ![r] = [local[r] EXCEPT !.line = next]]
      /\ UNCHANGED <<orders, call>>
  BY DEF WriteQtyOnHold
<1> HIDE DEF next
<1>2. /\ \A o \in Requests \ {r} : local'[o] = local[o]
      /\ local'[r].line = next /\ local'[r].found = local[r].found
  BY <1>1 DEF HoldInv, TypeOK, Local
<1>3. pc'[r] = at /\ Lines(r)' = Lines(r) /\ Holds(r)' = Holds(r) /\ Working(r)
  BY <1>1, <1>2 DEF Goto, HoldInv, TypeOK, Lines, Holds, Working, Finished
<1>4. call[r].kind \in Closing => local'[r].found = orders[call[r].order]
  BY <1>2, <1>3 DEF Place
<1>5. Place(r)'
  BY <1>1, <1>3, <1>4 DEF Place, Loops
<1>6. Counts(r)
  BY <1>1, <1>2, <1>3 DEF Counts, next, Finished
<1> QED BY <1>2, <1>5, <1>6 DEF Walks

LEMMA ServiceWalks ==
  ASSUME TypeOK, NEW r \in Requests, pc[r] \in {"release", "refund", "voidRefund"}, Place(r),
         NEW at \in {"retrieve", "refund", "release", "update", "void"},
         NEW lines, Release(r, lines, at) \/ Refund(r, lines, at),
         at = "retrieve" <=> call[r].kind \in Closing,
         call[r].kind \in Creating => pc[r] = "release" /\ at = "update"
  PROVE  Walks(r)
<1>1. CASE Fail(r)
  BY <1>1, FailWalks
<1>2. CASE ~Fail(r)
  <2>1. UNCHANGED <<qtyOnHold, orders, call, local>> /\ Goto(r, at)
    BY <1>2 DEF Release, Refund
  <2>2. /\ local[r].line = 1 /\ ~Holds(r)
        /\ call[r].kind \in Closing => local[r].found = orders[call[r].order]
    BY DEF Place, Loops, Working, Finished, Holds
  <2>3. at \in Steps /\ at \notin {"hold", "holdWrite", "retrieveWrite"}
    BY DEF Steps
  <2>4. \/ at = "retrieve" /\ call[r].kind \in Closing
        \/ at # "retrieve" /\ call[r].kind \notin Closing
    OBVIOUS
  <2>5. call[r].kind \in Creating => at = "update"
    OBVIOUS
  <2> QED BY <2>1, <2>2, <2>3, <2>4, <2>5, PlainWalks
<1> QED BY <1>1, <1>2

LEMMA HandlerWalks ==
  ASSUME HoldInv, NamedInv, NEW r \in Requests, Handler(r), Place(r)
  PROVE  Walks(r)
<1> USE DEF Serves
<1>1. TypeOK /\ call[r].kind \in AllKinds /\ pc[r] \notin {"idle"} \union Finished
  <2>1. Frame(r) /\ Named(r)
    BY HandlerFrame DEF NamedInv
  <2> QED BY <2>1 DEF HoldInv, Frame, Named
<1>2. Fail(r) => Walks(r)
  BY <1>1, FailWalks
<1>3. /\ pc[r] \notin Loops \union {"update"} => local[r].line = 1
      /\ call[r].kind \in Closing /\ pc[r] # "find" => local[r].found = orders[call[r].order]
  BY <1>1 DEF Place, Working
<1>4. CASE HoldRead(r) \/ RetrieveRead(r)
  <2>1. CASE HoldRead(r)
    BY <2>1, ReadWalks DEF HoldRead, Place
  <2>2. CASE RetrieveRead(r)
    BY <2>2, ReadWalks DEF RetrieveRead, Closing
  <2> QED BY <1>4, <2>1, <2>2
<1>5. CASE HoldWrite(r) \/ RetrieveWrite(r)
  <2>1. CASE HoldWrite(r)
    BY <2>1, WriteWalks DEF HoldWrite, Place
  <2>2. CASE RetrieveWrite(r)
    BY <2>2, WriteWalks DEF RetrieveWrite, Closing, Creating
  <2> QED BY <1>5, <2>1, <2>2
<1>6. CASE LoopEnds(r) /\ ~Fail(r)
  <2>1. /\ Goto(r, "update") /\ UNCHANGED <<qtyOnHold, orders, call, local>>
        /\ ~AtLine(r) /\ pc[r] \in {"hold", "retrieve"}
    BY <1>6 DEF LoopEnds, stock
  <2>2. call[r].kind \in Closing \/ Holds(r)
    BY <2>1 DEF Place
  <2>3. "update" \in Steps /\ "update" \notin Loops
    BY DEF Steps, Loops
  <2> QED BY <1>1, <1>3, <2>1, <2>2, <2>3, PlainWalks
<1>7. CASE CreateStart(r) \/ CustomerStart(r)
  <2>1. /\ UNCHANGED <<qtyOnHold, orders, call, local>>
        /\ pc[r] = "find" /\ call[r].kind \in Creating /\ call[r].kind \notin Closing
    BY <1>7 DEF CreateStart, CustomerStart, stock, Creating, Closing
  <2>2. PICK at \in {"release", "hold", "update"} :
          /\ Goto(r, at)
          /\ at = "hold" <=> call[r].status = "ONHOLD"
          /\ at = "release" => call[r].status = "ACTIVE"
    BY <1>7 DEF CreateStart, CustomerStart
  <2>3. at \in Steps /\ local[r].line = 1 /\ (at = "hold" <=> Holds(r))
    BY <1>3, <2>1, <2>2 DEF Steps, Loops, Holds
  <2> QED BY <1>1, <2>1, <2>2, <2>3, PlainWalks
<1>8. CASE CreateRelease(r) \/ ActivateRelease(r) \/ RefundRelease(r) \/ RefundFirst(r) \/ VoidRefund(r)
  <2>1. CASE CreateRelease(r)
    BY <1>1, <2>1, ServiceWalks DEF CreateRelease, Closing
  <2>2. CASE ActivateRelease(r)
    BY <1>1, <2>2, ServiceWalks DEF ActivateRelease, Closing, Creating
  <2>3. CASE RefundRelease(r)
    BY <1>1, <2>3, ServiceWalks DEF RefundRelease, Closing, Creating
  <2>4. CASE RefundFirst(r)
    BY <1>1, <2>4, ServiceWalks DEF RefundFirst, Closing, Creating
  <2>5. CASE VoidRefund(r)
    BY <1>1, <2>5, ServiceWalks DEF VoidRefund, Closing, Creating
  <2> QED BY <1>8, <2>1, <2>2, <2>3, <2>4, <2>5
<1>9. CASE ReturnRelease(r)
  <2>1. pc[r] = "release" /\ call[r].kind \notin Closing /\ call[r].kind \notin Creating
    BY <1>9 DEF ReturnRelease, Closing, Creating
  <2>2. Fail(r) \/ \E at \in {"update", "void"} : \E lines : Release(r, lines, at)
    BY <1>9 DEF ReturnRelease
  <2> QED BY <1>1, <1>2, <2>1, <2>2, ServiceWalks
<1>10. CASE CreateInsert(r) \/ ActivateUpdate(r) \/ CancelUpdate(r) \/ WithdrawUpdate(r)
  <2>1. Fail(r) \/ \E order : UpdateOrder(r, order)
    BY <1>10 DEF CreateInsert, ActivateUpdate, CancelUpdate, WithdrawUpdate
  <2> QED BY <1>1, <1>2, <2>1, UpdateWalks
<1>11. CASE ActivateFind(r)
  <2>1. /\ pc[r] # "idle" /\ local[r].line = 1 /\ call[r].kind \in Closing
        /\ call[r].kind \notin Creating /\ pc[r] = "find" /\ call[r].kind = "ACTIVATE"
    BY <1>1, <1>3, <1>11 DEF ActivateFind, Closing, Creating, Loops
  <2> QED BY <1>11, <2>1, FindWalks DEF ActivateFind
<1>12. CASE CancelFind(r)
  <2>1. /\ pc[r] # "idle" /\ local[r].line = 1 /\ call[r].kind \in Closing
        /\ call[r].kind \notin Creating /\ pc[r] = "find"
    BY <1>1, <1>3, <1>12 DEF CancelFind, Closing, Creating, Loops
  <2> QED BY <1>12, <2>1, FindWalks DEF CancelFind
<1>13. CASE RefundFind(r) \/ ReturnFind(r) \/ VoidFind(r)
  <2>1. /\ pc[r] # "idle" /\ local[r].line = 1 /\ call[r].kind \notin Creating
    BY <1>1, <1>3, <1>13 DEF RefundFind, ReturnFind, VoidFind, Creating, Loops
  <2>2. PICK at \in {"release", "void", "refund", "answer", "voidRefund"} : FindOrder(r, "ACTIVE", at)
    BY <1>13 DEF RefundFind, ReturnFind, VoidFind
  <2> QED BY <2>1, <2>2, FindWalks
<1>14. CASE WithdrawAnswer(r)
  BY <1>2, <1>14 DEF WithdrawAnswer
<1> QED
  BY <1>2, <1>4, <1>5, <1>6, <1>7, <1>8, <1>9, <1>10, <1>11, <1>12, <1>13, <1>14 DEF Handler

\* One request at a time, nobody interferes.
PlaceInv == load.atOnce = 1 => \A r \in Requests : Place(r)

LEMMA NextPlace ==
  ASSUME HoldInv, NamedInv, FoundInv, PlaceInv, [Next]_vars
  PROVE  PlaceInv'
<1> SUFFICES ASSUME load'.atOnce = 1, NEW o \in Requests PROVE Place(o)'
  BY DEF PlaceInv
<1>1. load' = load /\ load.atOnce = 1 /\ Place(o)
  BY StepFrames DEF ArriveFrame, Frame, ExitFrame, vars, PlaceInv
<1>2. ASSUME NEW r \in Requests, Arrive(r) PROVE Place(o)'
  <2>1. /\ pc[r] = "idle" /\ pc' = [pc EXCEPT ![r] = "find"] /\ \E c : call' = [call EXCEPT ![r] = c]
        /\ UNCHANGED <<qtyOnHold, orders, local>>
    BY <1>2 DEF Arrive, Goto, stock
  <2>2. CASE o = r
    BY <1>1, <2>1, <2>2 DEF Place, Loops, Finished, HoldInv, TypeOK
  <2>3. CASE o # r
    <3>1. pc'[o] = pc[o] /\ call'[o] = call[o] /\ local'[o] = local[o]
      BY <2>1, <2>3 DEF HoldInv, TypeOK
    <3>2. AtLine(o)' = AtLine(o) /\ Located(o)' = Located(o) /\ Holds(o)' = Holds(o) /\ Working(o)' = Working(o)
      BY <3>1, SameLine DEF Holds, Working
    <3> QED BY <1>1, <2>1, <3>1, <3>2 DEF Place
  <2> QED BY <2>2, <2>3
<1>3. ASSUME NEW r \in Requests, Handler(r) PROVE Place(o)'
  <2>1. Frame(r) /\ Walks(r)
    BY <1>1, <1>3, HandlerFrame, HandlerWalks DEF PlaceInv
  <2>2. CASE o = r
    BY <2>1, <2>2 DEF Walks, Place, Working, Finished, Loops
  <2>3. CASE o # r
    <3>1. ~Working(o) /\ pc'[o] = pc[o] /\ local'[o] = local[o]
      BY <1>1, <2>1, <2>3 DEF Frame, Walks, FoundInv, Working
    <3> QED BY <1>1, <3>1 DEF Place, Working, Loops, Finished
  <2> QED BY <2>2, <2>3
<1>4. CASE ProcessExit
  <2>1. /\ local' = local
        /\ pc'[o] \in Finished \/ (pc'[o] = "idle" /\ pc[o] = "idle")
    BY <1>4 DEF ProcessExit, stock, Working, Finished
  <2> QED BY <1>1, <2>1 DEF Place, Working, Loops, Finished
<1>5. CASE UNCHANGED vars
  <2>1. UNCHANGED <<pc, call, local, orders, qtyOnHold>>
    BY <1>5 DEF vars
  <2>2. AtLine(o)' = AtLine(o) /\ Located(o)' = Located(o) /\ Holds(o)' = Holds(o) /\ Working(o)' = Working(o)
    BY <2>1, SameLine DEF Holds, Working
  <2> QED BY <1>1, <2>1, <2>2 DEF Place
<1> QED BY <1>2, <1>3, <1>4, <1>5 DEF Next

-----------------------------------------------------------------------------
(* Everything happens in the warehouses that are in use *)

Housed(r) ==
  /\ pc[r] # "idle" => call[r].warehouse \in load.warehouses
  /\ orders[r].status # "none" => orders[r].warehouse \in load.warehouses
HousedInv == \A r \in Requests : Housed(r)

\* What the last call of a handler writes has a warehouse in use.
LEMMA HandlerHouses ==
  ASSUME HoldInv, NamedInv, HousedInv, NEW r \in Requests, Handler(r)
  PROVE  \/ orders' = orders
         \/ \E order \in Order : /\ orders' = [orders EXCEPT ![call[r].order] = order]
                                 /\ order.warehouse \in load.warehouses
<1> SUFFICES ASSUME orders' # orders
             PROVE  \E order \in Order : /\ orders' = [orders EXCEPT ![call[r].order] = order]
                                         /\ order.warehouse \in load.warehouses
  OBVIOUS
<1> DEFINE old == orders[call[r].order]
<1>1. /\ Named(r) /\ pc[r] # "idle" /\ call[r].order \in Requests /\ old \in Order
      /\ call[r].warehouse \in load.warehouses
  BY HandlerFrame DEF NamedInv, Frame, HoldInv, Ready, TypeOK, HousedInv, Housed
<1>2. Writes(r)
  BY HandlerFrame DEF Frame
<1>3. CreateInsert(r) \/ ActivateUpdate(r) \/ CancelUpdate(r) \/ WithdrawUpdate(r) \/ LoopEnds(r)
  BY <1>2 DEF Writes, Handler, Serves, HoldRead, HoldWrite, RetrieveRead, RetrieveWrite,
              CreateStart, CreateRelease, CustomerStart, ActivateFind, ActivateRelease,
              CancelFind, RefundFind, ReturnFind, RefundFirst, RefundRelease, ReturnRelease,
              VoidFind, VoidRefund, WithdrawAnswer
<1>4. ~Fail(r) /\ ~LoopEnds(r)
  BY DEF Fail, LoopEnds, stock
<1>5. CASE CreateInsert(r) \/ ActivateUpdate(r)
  <2> DEFINE order(status) == [status |-> status, items |-> call[r].items,
                               warehouse |-> call[r].warehouse]
  <2>1. PICK status \in {call[r].status, NewStatus(r)} : UpdateOrder(r, order(status))
    BY <1>4, <1>5 DEF CreateInsert, ActivateUpdate
  <2>2. order(status) \in Order /\ order(status).warehouse = call[r].warehouse
    BY CallType DEF HoldInv
  <2>3. orders' = [orders EXCEPT ![call[r].order] = order(status)]
    BY <2>1 DEF UpdateOrder
  <2> HIDE DEF order
  <2> QED BY <1>1, <2>2, <2>3
<1>6. CASE CancelUpdate(r) \/ WithdrawUpdate(r)
  <2>1. old.warehouse \in load.warehouses
    <3>1. call[r].kind \notin Creating
      BY <1>6 DEF CancelUpdate, WithdrawUpdate, Serves, Creating
    <3> QED BY <1>1, <3>1 DEF Named, HousedInv, Housed
  <2>2. \A status \in Statuses, items \in Seq(OrderLine) :
          /\ [old EXCEPT !.status = status, !.items = items] \in Order
          /\ [old EXCEPT !.status = status, !.items = items].warehouse = old.warehouse
          /\ [old EXCEPT !.items = items] \in Order
          /\ [old EXCEPT !.items = items].warehouse = old.warehouse
    <3> HIDE DEF old
    <3> QED BY <1>1, EditedOrder DEF Order
  <2>3. /\ call[r].items \in Seq(OrderLine) /\ <<>> \in Seq(OrderLine) /\ "VOID" \in Statuses
        /\ call[r].kind \in {"REFUND", "RETURN"} => call[r].kind \in Statuses
    BY CallType, NoLines DEF HoldInv, Statuses
  <2> HIDE DEF old
  <2>4. CASE CancelUpdate(r)
    <3>1. orders' = [orders EXCEPT ![call[r].order] = [old EXCEPT !.status = "VOID", !.items = <<>>]]
      BY <2>4 DEF CancelUpdate, UpdateOrder, old
    <3> QED BY <2>1, <2>2, <2>3, <3>1
  <2>5. CASE WithdrawUpdate(r)
    <3> DEFINE rest == IF call[r].kind = "REFUND" THEN <<>> ELSE call[r].items
    <3>1. /\ call[r].kind \in Statuses /\ rest \in Seq(OrderLine)
          /\ orders' = [orders EXCEPT ![call[r].order] =
               IF call[r].method = "PARTIALLY" THEN [old EXCEPT !.items = call[r].items]
               ELSE [old EXCEPT !.status = call[r].kind, !.items = rest]]
      BY <2>3, <2>5 DEF WithdrawUpdate, Serves, UpdateOrder, old
    <3> HIDE DEF rest
    <3> QED BY <2>1, <2>2, <2>3, <3>1
  <2> QED BY <1>6, <2>4, <2>5
<1> QED BY <1>3, <1>4, <1>5, <1>6

LEMMA NextHoused ==
  ASSUME HoldInv, NamedInv, HousedInv, [Next]_vars
  PROVE  HousedInv'
<1> SUFFICES ASSUME NEW o \in Requests PROVE Housed(o)'
  BY DEF HousedInv
<1>1. Housed(o)
  BY DEF HousedInv
<1>2. ASSUME NEW r \in Requests, Arrive(r) PROVE Housed(o)'
  <2>1. PICK c \in Creations(r) \union Activations \union Cancellations \union Withdrawals :
          call' = [call EXCEPT ![r] = c]
    BY <1>2 DEF Arrive
  <2>2. c.warehouse \in load.warehouses
    BY <2>1 DEF Creations, Activations, Cancellations, Withdrawals
  <2>3. load' = load /\ orders' = orders /\ pc' = [pc EXCEPT ![r] = "find"]
    BY <1>2 DEF Arrive, stock, Goto
  <2> QED BY <1>1, <2>1, <2>2, <2>3 DEF Housed, HoldInv, TypeOK
<1>3. ASSUME NEW r \in Requests, Handler(r) PROVE Housed(o)'
  <2>1. /\ load' = load /\ call' = call /\ (pc'[o] = "idle" <=> pc[o] = "idle")
    BY <1>3, HandlerFrame DEF Frame
  <2>2. orders'[o] = orders[o] \/ orders'[o].warehouse \in load.warehouses
    BY <1>3, HandlerHouses DEF HoldInv, TypeOK
  <2> QED BY <1>1, <2>1, <2>2 DEF Housed
<1>4. CASE ProcessExit
  <2>1. UNCHANGED <<load, orders, call>> /\ (pc'[o] # "idle" => pc[o] # "idle")
    BY <1>4 DEF ProcessExit, stock, Working
  <2> QED BY <1>1, <2>1 DEF Housed
<1>5. CASE UNCHANGED vars
  BY <1>1, <1>5 DEF vars, Housed
<1> QED BY <1>2, <1>3, <1>4, <1>5 DEF Next

\* There are never more than finitely many requests, though there is no end of them.
Started == {r \in Requests : pc[r] # "idle"}
StartedInv == IsFiniteSet(Started)

LEMMA NextStarted ==
  ASSUME HoldInv, StartedInv, [Next]_vars
  PROVE  StartedInv'
<1>1. ASSUME NEW r \in Requests, ArriveFrame(r) PROVE Started' = Started \union {r}
  BY <1>1 DEF ArriveFrame, Started, HoldInv, TypeOK
<1>2. ASSUME NEW r \in Requests, Frame(r) PROVE Started' = Started
  BY <1>2 DEF Frame, Started
<1>3. ASSUME ExitFrame PROVE Started' = Started
  BY <1>3 DEF ExitFrame, Started, Working
<1>4. UNCHANGED vars => Started' = Started
  BY DEF vars, Started
<1>5. \A r \in Requests : IsFiniteSet(Started \union {r})
  BY FS_AddElement DEF StartedInv
<1> QED BY <1>1, <1>2, <1>3, <1>4, <1>5, StepFrames DEF StartedInv

-----------------------------------------------------------------------------
(* What is on hold for an item *)

\* An order's part of it, and that of a request whose order came without.
Owes(order, i) == IF order.status = "ONHOLD" THEN SumOver(order.items, i) ELSE 0
Skipped(r) == call[r].kind = "CUSTOMER" /\ pc[r] = "done" /\ call[r].status # "ONHOLD"
Skips(r, i) == IF Skipped(r) THEN SumOver(call[r].items, i) ELSE 0

Counted == HoldInv /\ NamedInv /\ StartedInv

Holding == {o \in Requests : orders[o].status = "ONHOLD"}
OrdersOf(i) == [o \in Requests |-> SumOver(orders[o].items, i)]

LEMMA HoldingType ==
  ASSUME Counted, NEW i
  PROVE  /\ IsFiniteSet(Holding) /\ \A o \in Requests : OrdersOf(i)[o] \in Int
         /\ OnHoldFor(i) = SumFunctionOnSet(OrdersOf(i), Holding) /\ OnHoldFor(i) \in Int
<1>1. Holding \subseteq Started
  BY DEF Holding, Started, Counted, NamedInv, Named, NoOrder
<1>2. IsFiniteSet(Holding)
  BY <1>1, FS_Subset DEF Counted, StartedInv
<1>3. \A o \in Requests : OrdersOf(i)[o] \in Int
  <2> TAKE o \in Requests
  <2>1. orders[o].items \in Seq(OrderLine)
    BY DEF Counted, HoldInv, TypeOK, Order
  <2>2. SumOver(orders[o].items, i) \in Int
    BY <2>1, SumsAreNumbers
  <2> QED BY <2>2 DEF OrdersOf
<1>4. OnHoldFor(i) = SumFunctionOnSet(OrdersOf(i), Holding)
  BY DEF OnHoldFor, OrdersOf, Holding
<1>5. \A o \in Holding : OrdersOf(i)[o] \in Int
  BY <1>3 DEF Holding
<1>6. SumFunctionOnSet(OrdersOf(i), Holding) \in Int
  BY <1>2, <1>5, SumType
<1> QED BY <1>2, <1>3, <1>4, <1>6

\* One order changes.
LEMMA OnHoldNext ==
  ASSUME Counted, Counted', NEW x \in Requests, NEW i,
         \A o \in Requests \ {x} : orders'[o] = orders[o]
  PROVE  OnHoldFor(i)' = OnHoldFor(i) + (Owes(orders'[x], i) - Owes(orders[x], i))
<1> DEFINE S == Holding  T == Holding'
           f == OrdersOf(i)  g == OrdersOf(i)'
           a == Owes(orders[x], i)  b == Owes(orders'[x], i)
<1>1. IsFiniteSet(S) /\ IsFiniteSet(T) /\ S \subseteq Requests /\ T \subseteq Requests
  <2>1. IsFiniteSet(T)
    <3>1. Holding' \subseteq Started'
      BY DEF Holding, Started, Counted, NamedInv, Named, NoOrder
    <3> QED BY <3>1, FS_Subset DEF Counted, StartedInv
  <2> QED BY <2>1, HoldingType DEF Holding
<1>2. S \ {x} = T \ {x}
  BY DEF Holding
<1>3. \A o \in Requests : f[o] \in Int /\ g[o] \in Int
  <2>1. ASSUME NEW o \in Requests PROVE g[o] \in Int
    <3>1. orders'[o].items \in Seq(OrderLine)
      BY DEF Counted, HoldInv, TypeOK, Order
    <3>2. SumOver(orders'[o].items, i) \in Int
      BY <3>1, SumsAreNumbers
    <3> QED BY <3>2 DEF OrdersOf
  <2> QED BY <2>1, HoldingType
<1>4. \A o \in S \ {x} : f[o] = g[o]
  BY DEF OrdersOf, Holding
<1>5. a = (IF x \in S THEN f[x] ELSE 0) /\ b = (IF x \in T THEN g[x] ELSE 0)
  BY DEF Owes, Holding, OrdersOf
<1>6. OnHoldFor(i) = SumFunctionOnSet(f, S)
  BY HoldingType
<1>7. OnHoldFor(i)' = SumFunctionOnSet(g, T)
  BY DEF OnHoldFor, OrdersOf, Holding
<1> HIDE DEF S, T, f, g, a, b
<1>8. (\A o \in S : f[o] \in Int) /\ (\A o \in T : g[o] \in Int)
  BY <1>1, <1>3
<1>9. SumFunctionOnSet(g, T) = SumFunctionOnSet(f, S) + (b - a)
  BY <1>1, <1>2, <1>4, <1>5, <1>8, SumTrades
<1> QED BY <1>6, <1>7, <1>9 DEF a, b

Skipping == {r \in Requests : Skipped(r)}
CallsFor(i) == [r \in Requests |-> SumOver(call[r].items, i)]

LEMMA SkippingType ==
  ASSUME Counted, NEW i
  PROVE  /\ IsFiniteSet(Skipping) /\ \A o \in Requests : CallsFor(i)[o] \in Int
         /\ NeverHeld(i) = SumFunctionOnSet(CallsFor(i), Skipping) /\ NeverHeld(i) \in Int
<1>1. Skipping \subseteq Started
  BY DEF Skipping, Skipped, Started
<1>2. IsFiniteSet(Skipping)
  BY <1>1, FS_Subset DEF Counted, StartedInv
<1>3. \A o \in Requests : CallsFor(i)[o] \in Int
  <2> TAKE o \in Requests
  <2>1. SumOver(call[o].items, i) \in Int
    BY CallType, SumsAreNumbers DEF Counted, HoldInv
  <2> QED BY <2>1 DEF CallsFor
<1>4. NeverHeld(i) = SumFunctionOnSet(CallsFor(i), Skipping)
  BY DEF NeverHeld, CallsFor, Skipping, Skipped
<1>5. \A o \in Skipping : CallsFor(i)[o] \in Int
  BY <1>3 DEF Skipping
<1>6. SumFunctionOnSet(CallsFor(i), Skipping) \in Int
  BY <1>2, <1>5, SumType
<1> QED BY <1>2, <1>3, <1>4, <1>6

\* One request goes on.
LEMMA NeverHeldNext ==
  ASSUME Counted, Counted', NEW x \in Requests, NEW i,
         \A o \in Requests \ {x} : call'[o] = call[o] /\ Skipped(o)' = Skipped(o)
  PROVE  NeverHeld(i)' = NeverHeld(i) + (Skips(x, i)' - Skips(x, i))
<1> DEFINE S == Skipping  T == Skipping'
           f == CallsFor(i)  g == CallsFor(i)'
           a == Skips(x, i)  b == Skips(x, i)'
<1>1. IsFiniteSet(S) /\ IsFiniteSet(T) /\ S \subseteq Requests /\ T \subseteq Requests
  <2>1. IsFiniteSet(T)
    <3>1. Skipping' \subseteq Started'
      BY DEF Skipping, Skipped, Started
    <3> QED BY <3>1, FS_Subset DEF Counted, StartedInv
  <2> QED BY <2>1, SkippingType DEF Skipping
<1>2. S \ {x} = T \ {x}
  BY DEF Skipping
<1>3. \A o \in Requests : f[o] \in Int /\ g[o] \in Int
  <2>1. ASSUME NEW o \in Requests PROVE g[o] \in Int
    <3>1. call'[o].items \in Seq(OrderLine)
      BY DEF Counted, HoldInv, TypeOK, Call
    <3>2. SumOver(call'[o].items, i) \in Int
      BY <3>1, SumsAreNumbers
    <3> QED BY <3>2 DEF CallsFor
  <2> QED BY <2>1, SkippingType
<1>4. \A o \in S \ {x} : f[o] = g[o]
  BY DEF CallsFor, Skipping
<1>5. a = (IF x \in S THEN f[x] ELSE 0) /\ b = (IF x \in T THEN g[x] ELSE 0)
  BY DEF Skips, Skipping, CallsFor
<1>6. NeverHeld(i) = SumFunctionOnSet(f, S)
  BY SkippingType
<1>7. NeverHeld(i)' = SumFunctionOnSet(g, T)
  BY DEF NeverHeld, CallsFor, Skipping, Skipped
<1> HIDE DEF S, T, f, g, a, b
<1>8. (\A o \in S : f[o] \in Int) /\ (\A o \in T : g[o] \in Int)
  BY <1>1, <1>3
<1>9. SumFunctionOnSet(g, T) = SumFunctionOnSet(f, S) + (b - a)
  BY <1>1, <1>2, <1>4, <1>5, <1>8, SumTrades
<1> QED BY <1>6, <1>7, <1>9 DEF a, b

-----------------------------------------------------------------------------
(* Quantities and orders match, but for what a request has moved so far *)

\* What a request at work has put on hold, or taken off.
Moved(r, i) ==
  IF call[r].kind \in Creating THEN SumUpTo(Lines(r), i, local[r].line)
  ELSE 0 - SumUpTo(Lines(r), i, local[r].line)

OneHouse ==
  load.atOnce = 1 /\ (\E w \in Warehouses : load.warehouses = {w}) /\ CancellationsFindIt

Balance(n, moved) ==
  qtyOnHold[n] = OnHoldFor(Documents[n].item) - NeverHeld(Documents[n].item) + moved

BalanceInv ==
  OneHouse /\ (\A r \in Requests : ~Working(r) => Regular(r)) =>
    \A n \in DOMAIN Documents : InUse(n) =>
      /\ \A r \in Requests : Working(r) => Balance(n, Moved(r, Documents[n].item))
      /\ (\A r \in Requests : ~Working(r)) => Balance(n, 0)

LEMMA MovedIs ==
  ASSUME TypeOK, NEW r \in Requests, NEW i
  PROVE  /\ Moved(r, i) \in Int /\ SumOver(Lines(r), i) \in Int
         /\ local[r].line = 1 => Moved(r, i) = 0
         /\ ~AtLine(r) => Moved(r, i) = IF call[r].kind \in Creating THEN SumOver(Lines(r), i)
                                        ELSE 0 - SumOver(Lines(r), i)
<1>1. Lines(r) \in Seq(OrderLine) /\ Len(Lines(r)) \in Nat /\ local[r].line \in Nat
  BY LinesType DEF TypeOK, Local
<1>2. /\ SumUpTo(Lines(r), i, local[r].line) \in Int /\ SumOver(Lines(r), i) \in Int
      /\ SumUpTo(Lines(r), i, 1) = 0
  BY <1>1, SumsAreNumbers, SumUpToEnds
<1>3. ~AtLine(r) => SumUpTo(Lines(r), i, local[r].line) = SumOver(Lines(r), i)
  <2>1. ~AtLine(r) => local[r].line > Len(Lines(r))
    BY <1>1 DEF AtLine
  <2> QED BY <1>1, <2>1, SumUpToEnds
<1>4. local[r].line = 1 => SumUpTo(Lines(r), i, local[r].line) = 0
  BY <1>2
<1> HIDE DEF AtLine
<1> QED BY <1>2, <1>3, <1>4 DEF Moved

LEMMA QuietMoves ==
  ASSUME TypeOK, TypeOK', NEW r \in Requests, Quiet(r), call' = call, NEW i
  PROVE  Moved(r, i)' = Moved(r, i)
<1>1. CASE Lines(r)' = Lines(r)
  BY <1>1 DEF Moved, Quiet
<1>2. CASE local[r].line = 1
  <2>1. Moved(r, i) = 0
    BY <1>2, MovedIs
  <2>2. Lines(r)' \in Seq(OrderLine) /\ local'[r].line = 1
    BY <1>2 DEF Lines, TypeOK, Call, Local, Order, Quiet
  <2>3. SumUpTo(Lines(r)', i, local'[r].line) = 0
    BY <2>2, SumUpToEnds
  <2> QED BY <2>1, <2>3 DEF Moved
<1> QED BY <1>1, <1>2 DEF Quiet

\* The document of a line is the one in use.
LEMMA TheDocument ==
  ASSUME HoldInv, HousedInv, OneHouse, NEW r \in Requests, Place(r), Working(r),
         pc[r] \in {"holdWrite", "retrieveWrite"},
         call[r].kind \in Closing => orders[call[r].order].status # "none",
         NEW n \in DOMAIN Documents, InUse(n)
  PROVE  n = local[r].doc <=> Documents[n].item = ThisLine(r).item
<1>1. /\ local[r].doc \in Located(r) /\ \A m \in Located(r) : local[r].doc <= m
      /\ local[r].doc \in DOMAIN Documents /\ Documents[local[r].doc].item = ThisLine(r).item
  BY DEF Place, Located
<1>2. ASSUME Documents[n].item = ThisLine(r).item, n # local[r].doc PROVE FALSE
  <2>1. n < local[r].doc
    BY <1>1, <1>2 DEF OneHouse, CancellationsFindIt
  <2>2. PICK w \in Warehouses : load.warehouses = {w}
    BY DEF OneHouse
  <2>3. Documents[n].warehouse = w
    BY <2>2 DEF InUse
  <2>4. w \in Places(r)
    <3>1. /\ call[r].order \in Requests /\ call[r].warehouse \in load.warehouses
          /\ call[r].kind = "ACTIVATE" => orders[call[r].order].warehouse \in load.warehouses
      BY DEF HousedInv, Housed, HoldInv, Ready, Closing
    <3>2. call[r].kind = "ACTIVATE" => local[r].found = orders[call[r].order]
      BY DEF Place, Closing
    <3> QED BY <2>2, <3>1, <3>2 DEF Places
  <2>5. n \in Located(r)
    BY <1>2, <2>3, <2>4 DEF Located
  <2> QED BY <1>1, <2>1, <2>5, DocumentsAssumption
<1> QED BY <1>1, <1>2

LEMMA CountsMoves ==
  ASSUME HoldInv, HousedInv, OneHouse, NEW r \in Requests, Place(r), Working(r), Counts(r),
         call' = call, call[r].kind \in Closing => orders[call[r].order].status # "none",
         NEW n \in DOMAIN Documents, InUse(n)
  PROVE  qtyOnHold'[n] = qtyOnHold[n] + (Moved(r, Documents[n].item)' - Moved(r, Documents[n].item))
<1> DEFINE i == Documents[n].item
           qty == ThisLine(r).qty
           part == IF ThisLine(r).item = i THEN qty ELSE 0
           sofar == SumUpTo(Lines(r), i, local[r].line)
<1>1. AtLine(r) /\ pc[r] \in {"holdWrite", "retrieveWrite"}
  BY DEF Counts, HoldInv, Ready
<1>2. ThisLine(r) \in OrderLine /\ Lines(r) \in Seq(OrderLine) /\ Len(Lines(r)) \in Nat
  BY <1>1, LinesType DEF HoldInv
<1>3. local[r].line \in DOMAIN Lines(r)
  BY <1>1, <1>2 DEF AtLine, HoldInv, TypeOK, Local
<1>4. qty \in Nat /\ part \in Nat
  BY <1>2 DEF OrderLine
<1>5. sofar \in Int /\ SumUpTo(Lines(r), i, local[r].line + 1) = sofar + part
  BY <1>2, <1>3, SumsAreNumbers, SumUpToNext DEF ThisLine
<1>6. /\ Lines(r)' = Lines(r) /\ local'[r].line = local[r].line + 1
      /\ qtyOnHold' = [qtyOnHold EXCEPT ![local[r].doc] =
           IF call[r].kind \in Creating THEN local[r].seen + qty ELSE local[r].seen - qty]
  BY DEF Counts
<1>7. /\ n = local[r].doc <=> i = ThisLine(r).item
      /\ local[r].seen = qtyOnHold[local[r].doc]
  BY <1>1, TheDocument DEF Place
<1>8. qtyOnHold \in [DOMAIN Documents -> Int]
  BY DEF HoldInv, TypeOK
<1>9. call[r].kind \in Creating => Moved(r, i) = sofar /\ Moved(r, i)' = sofar + part
  BY <1>5, <1>6 DEF Moved
<1>10. call[r].kind \notin Creating => Moved(r, i) = 0 - sofar /\ Moved(r, i)' = 0 - (sofar + part)
  BY <1>5, <1>6 DEF Moved
<1>11. qtyOnHold[n] \in Int
  BY <1>8
<1>12. qtyOnHold'[n] = IF call[r].kind \in Creating THEN qtyOnHold[n] + part ELSE qtyOnHold[n] - part
  <2>1. CASE n = local[r].doc
    <3>1. part = qty
      BY <1>7, <2>1
    <3> QED BY <1>6, <1>7, <1>8, <2>1, <3>1
  <2>2. CASE n # local[r].doc
    <3>1. part = 0
      BY <1>7, <2>2
    <3> HIDE DEF part
    <3> QED BY <1>6, <1>8, <1>11, <2>2, <3>1
  <2> QED BY <2>1, <2>2
<1> HIDE DEF i, qty, part, sofar
<1>13. qtyOnHold'[n] = qtyOnHold[n] + (Moved(r, i)' - Moved(r, i))
  BY <1>4, <1>5, <1>9, <1>10, <1>11, <1>12
<1> QED BY <1>13 DEF i

\* The last call of a request settles what it has moved with its order.
LEMMA WritesSettle ==
  ASSUME Counted, FoundInv, load.atOnce = 1, NEW r \in Requests, Place(r), Frame(r),
         Writes(r), Regular(r)', local' = local, NEW i
  PROVE  Owes(orders'[call[r].order], i) - Owes(orders[call[r].order], i)
           = Skips(r, i)' + Moved(r, i)
<1> DEFINE o == call[r].order
<1>1. PICK order \in Order : /\ orders' = [orders EXCEPT ![o] = order]
                             /\ Wrote(r, order) /\ pc'[r] = "done" /\ pc[r] = "update"
  BY DEF Writes
<1>2. /\ TypeOK /\ Named(r) /\ o \in Requests /\ orders'[o] = order /\ orders[o] \in Order
      /\ Working(r) /\ Expected(r) /\ call'[r] = call[r]
  BY <1>1 DEF Counted, HoldInv, Ready, NamedInv, FoundInv, Working, Finished, TypeOK, Frame
<1>3. /\ Moved(r, i) \in Int /\ SumOver(Lines(r), i) \in Int
      /\ SumOver(call[r].items, i) \in Int /\ SumOver(orders[o].items, i) \in Int
  BY <1>2, MovedIs, CallType, SumsAreNumbers DEF Order
<1>4. CASE call[r].kind \in Creating
  <2>1. /\ Lines(r) = call[r].items /\ orders[o] = NoOrder
        /\ order.status = NewStatus(r) /\ order.items = call[r].items
    BY <1>1, <1>2, <1>4 DEF Lines, Creating, Named, Wrote, Working
  <2>2. Owes(orders[o], i) = 0
    BY <2>1 DEF Owes, NoOrder
  <2>3. CASE call[r].status = "ONHOLD"
    <3>1. ~AtLine(r) /\ ~Skipped(r)' /\ order.status = "ONHOLD"
      BY <1>1, <1>2, <1>4, <2>1, <2>3 DEF Place, Holds, Skipped, NewStatus
    <3>2. Moved(r, i) = SumOver(call[r].items, i)
      BY <1>2, <1>4, <2>1, <3>1, MovedIs
    <3> QED BY <1>2, <1>3, <2>1, <2>2, <3>1, <3>2 DEF Owes, Skips
  <2>4. CASE call[r].status # "ONHOLD"
    <3>1. local[r].line = 1
      BY <1>1, <1>4, <2>4 DEF Place, Holds, Closing, Creating
    <3>2. Moved(r, i) = 0
      BY <1>2, <3>1, MovedIs
    <3>3. Skipped(r)' <=> call[r].kind = "CUSTOMER"
      BY <1>1, <1>2, <2>4 DEF Skipped
    <3>4. order.status = "ONHOLD" <=> call[r].kind = "CUSTOMER"
      BY <2>1, <2>4 DEF NewStatus
    <3> QED BY <1>2, <1>3, <2>1, <2>2, <3>2, <3>3, <3>4 DEF Owes, Skips
  <2> QED BY <2>3, <2>4
<1>5. CASE call[r].kind \in Closing
  <2>1. /\ local[r].found = orders[o] /\ orders[o].status = "ONHOLD" /\ ~AtLine(r)
        /\ call[r].kind \notin Creating
    BY <1>1, <1>2, <1>5 DEF Place, Expected, Closing, Creating
  <2>2. Lines(r) = orders[o].items /\ order.status # "ONHOLD"
    BY <1>1, <1>2, <1>5, <2>1 DEF Lines, Wrote, Closing, Creating, Regular
  <2>3. Moved(r, i) = 0 - SumOver(orders[o].items, i)
    BY <1>2, <2>1, <2>2, MovedIs
  <2>4. ~Skipped(r)'
    BY <1>2, <2>1 DEF Skipped, Creating
  <2> QED BY <1>2, <1>3, <2>1, <2>2, <2>3, <2>4 DEF Owes, Skips
<1>6. CASE call[r].kind \notin Creating \union Closing
  <2>1. call[r].kind \in {"REFUND", "RETURN"}
    BY <1>2, <1>6 DEF Named, Working, AllKinds, Creating, Closing
  <2>2. orders[o].status = "ACTIVE" /\ order.status # "ONHOLD" /\ local[r].line = 1
    BY <1>1, <1>2, <1>6, <2>1 DEF Expected, Wrote, Place, Creating, Holds
  <2>3. Moved(r, i) = 0
    BY <1>2, <2>2, MovedIs
  <2>4. ~Skipped(r)'
    BY <1>2, <2>1 DEF Skipped
  <2> QED BY <1>2, <2>2, <2>3, <2>4 DEF Owes, Skips
<1> QED BY <1>4, <1>5, <1>6

BaseInv == Counted /\ FoundInv /\ PlaceInv /\ HousedInv

\* The sums, when no order is written and no customer order ends.
LEMMA SumsStay ==
  ASSUME orders' = orders, \A r \in Requests : Skipped(r)' = Skipped(r),
         \A r \in Requests : Skipped(r) => call'[r] = call[r], Counted, Counted', NEW i
  PROVE  OnHoldFor(i)' = OnHoldFor(i) /\ NeverHeld(i)' = NeverHeld(i)
<1>1. OnHoldFor(i)' = OnHoldFor(i)
  BY DEF OnHoldFor
<1>2. Skipping' = Skipping
  BY DEF Skipping
<1>3. SumFunctionOnSet(CallsFor(i)', Skipping) = SumFunctionOnSet(CallsFor(i), Skipping)
  <2> DEFINE f == CallsFor(i)  g == CallsFor(i)'
  <2>1. IsFiniteSet(Skipping) /\ \A o \in Skipping : f[o] \in Int
    BY SkippingType DEF Skipping
  <2>2. \A o \in Skipping : f[o] = g[o]
    BY DEF Skipping, CallsFor
  <2> HIDE DEF f, g
  <2>3. SumFunctionOnSet(f, Skipping) = SumFunctionOnSet(g, Skipping)
    BY <2>1, <2>2, SumSame
  <2> QED BY <2>3 DEF f, g
<1>4. /\ NeverHeld(i) = SumFunctionOnSet(CallsFor(i), Skipping)
      /\ NeverHeld(i)' = SumFunctionOnSet(CallsFor(i)', Skipping')
  BY DEF NeverHeld, CallsFor, Skipping, Skipped
<1> QED BY <1>1, <1>2, <1>3, <1>4

LEMMA ArriveBalances ==
  ASSUME BaseInv, BaseInv', BalanceInv, OneHouse, NEW r \in Requests, Arrive(r),
         \A o \in Requests : ~Working(o)' => Regular(o)',
         NEW n \in DOMAIN Documents, InUse(n)
  PROVE  \A o \in Requests : Working(o)' => Balance(n, Moved(o, Documents[n].item))'
<1> DEFINE i == Documents[n].item
<1>1. /\ pc[r] = "idle" /\ pc' = [pc EXCEPT ![r] = "find"]
      /\ \E c : call' = [call EXCEPT ![r] = c]
      /\ UNCHANGED <<load, qtyOnHold, orders, local>> /\ ArriveFrame(r)
  BY ArriveHasFrame DEF Arrive, Goto, stock, BaseInv, Counted
<1>2. /\ pc'[r] = "find"
      /\ \A o \in Requests \ {r} : pc'[o] = pc[o] /\ call'[o] = call[o] /\ local'[o] = local[o]
  BY <1>1 DEF BaseInv, Counted, HoldInv, TypeOK
<1>3. Working(r)' /\ ~Working(r)
  BY <1>1, <1>2 DEF Working, Finished
<1>4. \A o \in Requests \ {r} : ~Working(o)' /\ ~Working(o)
  BY <1>1, <1>2, <1>3 DEF BaseInv, FoundInv, OneHouse, Working
<1>5. \A o \in Requests : Regular(o)
  BY <1>1, <1>2, <1>4 DEF Regular
<1>6. Balance(n, 0)
  BY <1>3, <1>4, <1>5 DEF BalanceInv
<1>7. \A o \in Requests : Skipped(o)' = Skipped(o) /\ (Skipped(o) => call'[o] = call[o])
  BY <1>1, <1>2 DEF Skipped
<1>8. OnHoldFor(i)' = OnHoldFor(i) /\ NeverHeld(i)' = NeverHeld(i)
  BY <1>1, <1>7, SumsStay DEF BaseInv
<1>9. Moved(r, i)' = 0
  <2>1. local'[r].line = 1
    BY <1>1, <1>2 DEF BaseInv, PlaceInv, OneHouse, Place, Loops, Finished
  <2>2. Lines(r)' \in Seq(OrderLine)
    BY DEF Lines, BaseInv, Counted, HoldInv, TypeOK, Call, Local, Order
  <2>3. SumUpTo(Lines(r)', i, 1) = 0
    BY <2>2, SumUpToEnds
  <2> QED BY <2>1, <2>3 DEF Moved
<1> HIDE DEF i
<1>10. (qtyOnHold[n] = OnHoldFor(i) - NeverHeld(i) + 0)'
  BY <1>1, <1>6, <1>8 DEF Balance, i
<1> QED BY <1>4, <1>9, <1>10 DEF Balance, i

LEMMA HandlerBalances ==
  ASSUME BaseInv, BaseInv', BalanceInv, OneHouse, NEW r \in Requests, Handler(r),
         \A o \in Requests : ~Working(o)' => Regular(o)',
         NEW n \in DOMAIN Documents, InUse(n)
  PROVE  /\ \A o \in Requests : Working(o)' => Balance(n, Moved(o, Documents[n].item))'
         /\ (\A o \in Requests : ~Working(o)') => Balance(n, 0)'
<1> DEFINE i == Documents[n].item
<1>1. Frame(r) /\ Walks(r) /\ Place(r) /\ Working(r)
  BY HandlerFrame, HandlerWalks DEF BaseInv, Counted, PlaceInv, OneHouse, Frame, Working
<1>2. \A o \in Requests \ {r} :
        /\ ~Working(o) /\ ~Working(o)'
        /\ pc'[o] = pc[o] /\ call'[o] = call[o] /\ local'[o] = local[o]
  BY <1>1 DEF BaseInv, FoundInv, OneHouse, Frame, Walks, Working
<1>3. \A o \in Requests : ~Working(o) => Regular(o)
  BY <1>1, <1>2 DEF Regular
<1>4. Balance(n, Moved(r, i))
  BY <1>1, <1>3 DEF BalanceInv
<1>5. /\ HoldInv /\ HoldInv' /\ TypeOK /\ TypeOK' /\ load.atOnce = 1 /\ HousedInv /\ FoundInv
      /\ Counted /\ Counted' /\ call' = call /\ Named(r)
  BY <1>1 DEF BaseInv, Counted, HoldInv, OneHouse, Frame, NamedInv
<1>6. Moved(r, i) \in Int /\ OnHoldFor(i) \in Int /\ NeverHeld(i) \in Int /\ qtyOnHold[n] \in Int
  BY <1>5, MovedIs, HoldingType, SkippingType DEF TypeOK
<1>7. qtyOnHold[n] = OnHoldFor(i) - NeverHeld(i) + Moved(r, i)
  BY <1>4 DEF Balance
<1>8. \A o \in Requests \ {r} : call'[o] = call[o] /\ Skipped(o)' = Skipped(o)
  BY <1>2 DEF Skipped
<1>9. ~Skipped(r)
  BY <1>1 DEF Skipped, Working, Finished
<1> SUFFICES IF Working(r)'
             THEN (qtyOnHold[n] = OnHoldFor(i) - NeverHeld(i) + Moved(r, i))'
             ELSE (qtyOnHold[n] = OnHoldFor(i) - NeverHeld(i) + 0)'
  BY <1>2 DEF Balance
<1> HIDE DEF i
<1>10. CASE pc'[r] # "done"
  <2>1. orders' = orders /\ ~Skipped(r)'
    BY <1>1, <1>10 DEF Frame, Writes, Skipped
  <2>2. OnHoldFor(i)' = OnHoldFor(i) /\ NeverHeld(i)' = NeverHeld(i)
    <3>1. \A o \in Requests : Skipped(o)' = Skipped(o) /\ (Skipped(o) => call'[o] = call[o])
      BY <1>5, <1>8, <1>9, <2>1 DEF Skipped
    <3> QED BY <1>5, <2>1, <3>1, SumsStay
  <2>3. Working(r)' <=> pc'[r] # "failed"
    BY <1>1, <1>10 DEF Frame, Working, Finished
  <2>4. CASE pc'[r] # "failed" /\ Quiet(r)
    <3>1. Moved(r, i)' = Moved(r, i) /\ qtyOnHold' = qtyOnHold
      BY <1>5, <2>4, QuietMoves DEF Quiet
    <3> QED BY <1>7, <2>2, <2>3, <2>4, <3>1
  <2>5. CASE pc'[r] # "failed" /\ Counts(r)
    <3>1. call[r].kind \in Closing => orders[call[r].order].status # "none"
      BY <1>1, <1>5 DEF Named, Closing, Creating, Working
    <3>2. qtyOnHold'[n] = qtyOnHold[n] + (Moved(r, i)' - Moved(r, i))
      BY <1>1, <1>5, <2>5, <3>1, CountsMoves DEF i
    <3>3. Moved(r, i)' \in Int
      <4>1. Lines(r)' \in Seq(OrderLine)
        BY <1>5 DEF Lines, TypeOK, Call, Local, Order
      <4>2. SumUpTo(Lines(r)', i, local'[r].line) \in Int
        BY <4>1, SumsAreNumbers
      <4> QED BY <4>2 DEF Moved
    <3> QED BY <1>6, <1>7, <2>2, <2>3, <2>5, <3>2, <3>3
  <2>6. CASE pc'[r] = "failed"
    <3>1. Quiet(r) /\ ~Working(r)'
      BY <1>1, <2>3, <2>6 DEF Walks, Counts, Finished
    <3>2. local'[r].line = 1
      BY <2>6, <3>1 DEF Regular
    <3>3. Moved(r, i) = 0 /\ qtyOnHold' = qtyOnHold
      BY <1>5, <3>1, <3>2, MovedIs DEF Quiet
    <3> QED BY <1>7, <2>2, <3>1, <3>3
  <2> QED BY <1>1, <2>4, <2>5, <2>6 DEF Walks
<1>11. CASE pc'[r] = "done"
  <2>1. ~Working(r)' /\ Regular(r)' /\ Writes(r)
    BY <1>1, <1>11 DEF Working, Finished, Frame
  <2>2. UNCHANGED <<qtyOnHold, local>>
    <3>1. /\ ~Fail(r) /\ pc[r] = "update"
      BY <1>11, <2>1 DEF Fail, Goto, TypeOK, Writes, HoldInv, Counted, BaseInv
    <3>2. CreateInsert(r) \/ ActivateUpdate(r) \/ CancelUpdate(r) \/ WithdrawUpdate(r)
      BY <3>1 DEF Handler, Serves, HoldRead, HoldWrite, RetrieveRead, RetrieveWrite, LoopEnds,
              CreateStart, CreateRelease, CustomerStart, ActivateFind, ActivateRelease,
              CancelFind, RefundFind, ReturnFind, RefundFirst, RefundRelease, ReturnRelease,
              VoidFind, VoidRefund, WithdrawAnswer
    <3>3. \E order : UpdateOrder(r, order)
      BY <3>1, <3>2 DEF CreateInsert, ActivateUpdate, CancelUpdate, WithdrawUpdate
    <3> QED BY <3>3 DEF UpdateOrder, stock
  <2> DEFINE o == call[r].order
             a == Owes(orders[o], i)
             b == Owes(orders'[o], i)
             c == Skips(r, i)'
  <2>3. o \in Requests /\ \A x \in Requests \ {o} : orders'[x] = orders[x]
    BY <1>1, <1>5, <2>1 DEF Writes, HoldInv, Ready, Working, TypeOK
  <2>4. OnHoldFor(i)' = OnHoldFor(i) + (b - a)
    BY <1>5, <2>3, OnHoldNext
  <2>5. NeverHeld(i)' = NeverHeld(i) + (c - 0)
    <3>1. Skips(r, i) = 0
      BY <1>9 DEF Skips
    <3>2. NeverHeld(i)' = NeverHeld(i) + (Skips(r, i)' - Skips(r, i))
      BY <1>5, <1>8, NeverHeldNext
    <3> QED BY <3>1, <3>2
  <2>6. b - a = c + Moved(r, i)
    BY <1>1, <1>5, <2>1, <2>2, WritesSettle
  <2>7. a \in Int /\ b \in Int /\ c \in Int
    <3>1. /\ orders[o].items \in Seq(OrderLine) /\ orders'[o].items \in Seq(OrderLine)
          /\ call'[r].items \in Seq(OrderLine)
      BY <1>5, <2>3 DEF TypeOK, Order, Call
    <3>2. /\ SumOver(orders[o].items, i) \in Int /\ SumOver(orders'[o].items, i) \in Int
          /\ SumOver(call'[r].items, i) \in Int
      BY <3>1, SumsAreNumbers
    <3> QED BY <3>2 DEF Owes, Skips
  <2> HIDE DEF a, b, c
  <2>8. OnHoldFor(i)' - NeverHeld(i)' + 0 = qtyOnHold[n]
    BY <1>6, <1>7, <2>4, <2>5, <2>6, <2>7
  <2> QED BY <2>1, <2>2, <2>8
<1> QED BY <1>10, <1>11

LEMMA NextBalance ==
  ASSUME BaseInv, BaseInv', BalanceInv, [Next]_vars
  PROVE  BalanceInv'
<1> SUFFICES ASSUME OneHouse', \A o \in Requests : ~Working(o)' => Regular(o)',
                    NEW n \in DOMAIN Documents, InUse(n)'
             PROVE  /\ \A o \in Requests : Working(o)' => Balance(n, Moved(o, Documents[n].item))'
                    /\ (\A o \in Requests : ~Working(o)') => Balance(n, 0)'
  BY DEF BalanceInv
<1>1. load' = load
  BY StepFrames DEF ArriveFrame, Frame, ExitFrame, vars, BaseInv, Counted
<1>2. OneHouse /\ InUse(n)
  BY <1>1 DEF OneHouse, InUse, CancellationsFindIt
<1>3. ASSUME NEW r \in Requests, Arrive(r)
      PROVE  /\ \A o \in Requests : Working(o)' => Balance(n, Moved(o, Documents[n].item))'
             /\ ~\A o \in Requests : ~Working(o)'
  <2>1. Working(r)'
    <3>1. pc' = [pc EXCEPT ![r] = "find"] /\ pc \in [Requests -> Steps]
      BY <1>3 DEF Arrive, Goto, BaseInv, Counted, HoldInv, TypeOK
    <3>2. pc'[r] = "find"
      BY <3>1
    <3> QED BY <3>2 DEF Working, Finished
  <2> QED BY <1>2, <1>3, <2>1, ArriveBalances
<1>4. ASSUME NEW r \in Requests, Handler(r)
      PROVE  /\ \A o \in Requests : Working(o)' => Balance(n, Moved(o, Documents[n].item))'
             /\ (\A o \in Requests : ~Working(o)') => Balance(n, 0)'
  BY <1>2, <1>4, HandlerBalances
<1>5. ~ProcessExit
  BY DEF ProcessExit, Working, Finished, Regular
<1>6. CASE UNCHANGED vars
  <2>1. \A o \in Requests : Working(o)' = Working(o) /\ Regular(o)' = Regular(o)
    BY <1>6 DEF vars, Working, Regular
  <2>2. \A m : Balance(n, m)' = Balance(n, m)
    BY <1>6 DEF vars, Balance, OnHoldFor, NeverHeld
  <2>3. \A o \in Requests : Moved(o, Documents[n].item)' = Moved(o, Documents[n].item)
    BY <1>6 DEF vars, Moved, Lines
  <2> QED BY <1>2, <2>1, <2>2, <2>3 DEF BalanceInv
<1> QED BY <1>3, <1>4, <1>5, <1>6 DEF Next

LEMMA BalanceInvariant == Spec => [](BaseInv /\ BalanceInv)
<1>1. Init => BaseInv /\ BalanceInv
  <2> HAVE Init
  <2>1. \A r \in Requests : /\ ~Working(r) /\ pc[r] = "idle" /\ orders[r].status = "none"
                            /\ local[r].line = 1
    BY DEF Init, Working, NoOrder, NewLocal
  <2>2. NamedInv /\ FoundInv /\ PlaceInv /\ HousedInv
    BY <2>1 DEF Init, NamedInv, Named, FoundInv, PlaceInv, Place, Loops, Finished, HousedInv, Housed
  <2>3. StartedInv
    <3>1. Started = {}
      BY <2>1 DEF Started
    <3> QED BY <3>1, FS_EmptySet DEF StartedInv
  <2>4. ASSUME NEW n \in DOMAIN Documents PROVE Balance(n, 0)
    <3>1. OnHoldFor(Documents[n].item) = 0
      <4>1. {o \in Requests : orders[o].status = "ONHOLD"} = {}
        BY <2>1
      <4> QED BY <4>1, SumOfNone DEF OnHoldFor
    <3>2. NeverHeld(Documents[n].item) = 0
      <4>1. {r \in Requests : /\ call[r].kind = "CUSTOMER" /\ pc[r] = "done"
                              /\ call[r].status # "ONHOLD"} = {}
        BY <2>1
      <4> QED BY <4>1, SumOfNone DEF NeverHeld
    <3>3. qtyOnHold[n] = 0
      BY DEF Init
    <3> QED BY <3>1, <3>2, <3>3 DEF Balance
  <2> QED BY <2>1, <2>2, <2>3, <2>4, InitHold DEF BaseInv, Counted, BalanceInv
<1>2. BaseInv /\ [Next]_vars => BaseInv'
  BY NextHold, NextNamed, NextStarted, NextFound, NextPlace, NextHoused DEF BaseInv, Counted
<1>3. BaseInv /\ BalanceInv /\ [Next]_vars => (BaseInv /\ BalanceInv)'
  BY <1>2, NextBalance
<1> QED BY <1>1, <1>3, PTL DEF Spec

\* One request at a time, with one warehouse in use, what is on hold of an item is
\* what the on-hold orders ask for, whatever requests were refused on the way.
THEOREM HoldsMatchOrders == Spec => []HoldsMatchOrdersWhenSerial
<1>1. BaseInv /\ BalanceInv => HoldsMatchOrdersWhenSerial
  <2> SUFFICES ASSUME BaseInv, BalanceInv, OneHouse, \A r \in Requests : Regular(r),
                      NEW n \in DOMAIN Documents, InUse(n)
               PROVE  qtyOnHold[n] = OnHoldFor(Documents[n].item) - NeverHeld(Documents[n].item)
    BY DEF HoldsMatchOrdersWhenSerial, OneHouse
  <2>1. \A r \in Requests : ~Working(r)
    BY DEF Regular, Working, Finished
  <2>2. Balance(n, 0)
    BY <2>1 DEF BalanceInv
  <2>3. OnHoldFor(Documents[n].item) \in Int /\ NeverHeld(Documents[n].item) \in Int
    BY HoldingType, SkippingType DEF BaseInv
  <2> QED BY <2>2, <2>3 DEF Balance
<1> QED BY <1>1, BalanceInvariant, PTL
=============================================================================
