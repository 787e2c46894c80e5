------------------------------- MODULE MCCart -------------------------------
(* Small instances of Cart for TLC. *)
EXTENDS Cart, TLC

CONSTANTS r1, r2, r3, r4, milk, lamp, grocer, bazaar

MCEntityOf == [i \in StockItems |-> IF i = lamp THEN bazaar ELSE grocer]

\* A unit is of two parts: 3 parts are one unit and a half.
MCLoads == {
  [kinds |-> {"ADD", "INCREASE", "DECREASE"}, atOnce |-> 2, prices |-> {3}, qtys |-> {0}],
  [kinds |-> AllKinds, atOnce |-> 2, prices |-> {3}, qtys |-> {3}],
  [kinds |-> AllKinds, atOnce |-> 1, prices |-> {3}, qtys |-> {2, 4}],
  [kinds |-> {"ADD", "DELETE", "INCREASE"}, atOnce |-> 1, prices |-> {1, 3}, qtys |-> {0, 3}]}

Symmetric == Permutations(Requests)
=============================================================================
