------------------------------ MODULE MCCoupons ------------------------------
(* Small instances of Coupons for TLC. *)
EXTENDS Coupons

CONSTANTS ten, half, ann, bob, shop, s1

OneOrTwoCodes == {<<half, ten>>, <<ten>>}
PutOff == [status |-> TRUE, expireOn |-> 1]
LiftLimit == [status |-> TRUE, limit |-> 2, used |-> FALSE]
EitherEdit == {PutOff, LiftLimit}

\* Redemptions and the switch of the owner, two at a time; an owner who reopens
\* coupons and lifts their limits, one request after another; and three redemptions
\* or edits at once.
MCLoads == {
  [kinds |-> {"REDEEM", "SINGLE", "ACTIVATE"}, atOnce |-> 2, inAll |-> 3, codes |-> {ten},
   customers |-> {ann, bob}, limits |-> {0, 1}, dates |-> {0, 1},
   ranges |-> {}, edits |-> {}],
  [kinds |-> {"REDEEM", "MULTI", "UPDATE"}, atOnce |-> 1, inAll |-> 4, codes |-> {ten},
   customers |-> {ann, bob}, limits |-> {1}, dates |-> {1},
   ranges |-> {<<ten>>}, edits |-> {LiftLimit}],
  [kinds |-> {"REDEEM", "MULTI", "UPDATE"}, atOnce |-> 3, inAll |-> 3, codes |-> {ten},
   customers |-> {ann}, limits |-> {1}, dates |-> {0, 1},
   ranges |-> {<<half, ten>>}, edits |-> {PutOff}]}
=============================================================================
