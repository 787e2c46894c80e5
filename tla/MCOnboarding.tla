---------------------------- MODULE MCOnboarding ----------------------------
(* Small instances of Onboarding for TLC. *)
EXTENDS Onboarding, TLC

CONSTANTS r1, r2, ann, bob, c1, c2, cafe, shop

Mailing == {"SIGNUP", "REVERIFY", "FORGOT", "VERIFY", "RESET"}

MCLoads == {
  [kinds |-> Mailing, atOnce |-> 2, types |-> {"CUSTOMER"}],
  [kinds |-> {"SIGNUP", "VERIFY", "PACKAGE", "ENTITY"}, atOnce |-> 2, types |-> {"BUSINESS"}],
  [kinds |-> AllKinds \ {"REVERIFY", "FORGOT"}, atOnce |-> 1, types |-> Types],
  [kinds |-> AllKinds, atOnce |-> 1, types |-> Types]}

Symmetric ==
  Permutations(Requests) \union Permutations(Emails)
    \union Permutations(Codes) \union Permutations(Names)
=============================================================================
