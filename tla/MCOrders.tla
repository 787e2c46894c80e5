------------------------------ MODULE MCOrders ------------------------------
(* Small instances of Orders for TLC. *)
EXTENDS Orders, TLC

CONSTANTS r1, r2, r3, milk, rice, here, there

\* Milk is kept in both warehouses, rice in one.
Both == <<[warehouse |-> there, item |-> milk], [warehouse |-> here, item |-> milk],
          [warehouse |-> there, item |-> rice]>>

Of(i, q) == [item |-> i, qty |-> q]
OneOrTwo == {<<Of(milk, 1)>>, <<Of(milk, 2), Of(rice, 1)>>}
OneLine == {<<Of(milk, 1)>>, <<Of(milk, 2)>>}

\* Requests of four kinds that overlap, in two warehouses; and, for the warehouse
\* whose documents come first, one at a time: all that open an order or close one
\* on hold, and all that follow up an order, also without lines.
OverlapAndSerial == {
  [kinds |-> {"CREATE", "ACTIVATE", "CANCEL", "REFUND"}, methods |-> {"FULLY"},
   lists |-> OneOrTwo, statuses |-> {"ONHOLD", "ACTIVE"},
   warehouses |-> {here, there}, atOnce |-> 2],
  [kinds |-> {"CREATE", "CUSTOMER", "ACTIVATE", "CANCEL"}, methods |-> {}, lists |-> OneOrTwo,
   statuses |-> {"ONHOLD", "ACTIVE", "RETURN"}, warehouses |-> {there}, atOnce |-> 1],
  [kinds |-> AllKinds \ {"CUSTOMER"}, methods |-> AllMethods, lists |-> OneOrTwo \union {<<>>},
   statuses |-> {"ONHOLD", "ACTIVE"}, warehouses |-> {there}, atOnce |-> 1]}

OnHoldOrders == {
  [kinds |-> {"CREATE", "ACTIVATE", "CANCEL"}, methods |-> {}, lists |-> OneLine,
   statuses |-> {"ONHOLD", "ACTIVE"}, warehouses |-> {there}, atOnce |-> 2]}

Symmetric == Permutations(Requests)
=============================================================================
