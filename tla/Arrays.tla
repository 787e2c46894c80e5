------------------------------- MODULE Arrays -------------------------------
(***************************************************************************)
(* $pull of an array of a document: a sequence without some of its         *)
(* elements.  It is said by the places that stay, and not by recursion as  *)
(* SelectSeq is, so that it can be reasoned about.                         *)
(***************************************************************************)
EXTENDS Integers, Sequences, FiniteSets

\* The k-th of a set of places, and the elements of s at those places, in order.
Nth(places, k) == CHOOSE n \in places : Cardinality({m \in places : m <= n}) = k
At(s, places) == [k \in 1 .. Cardinality(places) |-> s[Nth(places, k)]]

\* What is left of s without the elements in a set.
Pull(s, leaving) == At(s, {n \in DOMAIN s : s[n] \notin leaving})
=============================================================================
