-------------------------- MODULE MCSubscriptions --------------------------
(* Small instances of Subscriptions for TLC. *)
EXTENDS Subscriptions, TLC

CONSTANTS r1, r2, eve, joe, sam, cashier, pro

\* The two smaller plans of packages.ts, their prices in hundreds.
MCPlanLimit == [p \in Plans |-> IF p = pro THEN 2 ELSE 1]
MCPlanPrice == [p \in Plans |-> IF p = pro THEN 6 ELSE 3]
MCExtraPrice == [p \in Plans |-> 1]

OneUser == {<<u>> : u \in Staff}

\* Two at a time; and one at a time, without those that leave inactive members,
\* and without those that leave active staff outside.
MCLoads == {
  [kinds |-> AllKinds \ {"UPGRADE", "EXTRA", "ACTIVATE"}, atOnce |-> 2, plans |-> {cashier},
   limits |-> {1}],
  [kinds |-> AllKinds \ {"DEACTIVATE"}, atOnce |-> 1, plans |-> Plans,
   limits |-> ExtraLimits],
  [kinds |-> AllKinds \ {"RENEW", "ACTIVATE"}, atOnce |-> 1, plans |-> Plans,
   limits |-> ExtraLimits]}

Symmetric == Permutations(Requests) \union Permutations(Staff)
=============================================================================
