----------------------- MODULE MCStockTransactions -----------------------
(* Small instances of StockTransactions for TLC. *)
EXTENDS StockTransactions, TLC

CONSTANTS r1, r2, r3, milk, rice, ghost

MCPricing == (milk :> "FIFO") @@ (rice :> "LIFO")
OnlyMilkPricing == milk :> "FIFO"

\* Two entries of milk, so that a release may span them.
MCOpeningQty == (milk :> 3) @@ (rice :> 1)
MCOpeningLines == <<[item |-> milk, qty |-> 2], [item |-> rice, qty |-> 1],
                    [item |-> milk, qty |-> 1]>>
OnlyMilkQty == milk :> 3
OnlyMilkLines == <<[item |-> milk, qty |-> 2], [item |-> milk, qty |-> 1]>>

Of(i, q) == [item |-> i, qty |-> q]
TwoLines == {<<Of(milk, 2), Of(rice, 1)>>, <<Of(milk, 1), Of(ghost, 1)>>, <<Of(rice, 2)>>,
              <<Of(rice, -1)>>}
SameItemTwice == {<<Of(milk, 1), Of(milk, 2)>>, <<Of(milk, 3)>>, <<Of(milk, -1)>>}
SignedLines == {<<Of(milk, 3), Of(rice, 1)>>, <<Of(rice, -1)>>}

Checked == {"ADD", "REFUND", "WASTE", "SHRINKAGE", "AUDIT"}
Balanced == {"ADD", "REFUND", "RELEASE", "SHRINKAGE", "AUDIT"}

Symmetric == Permutations(Requests)
=============================================================================
