-------------------------- MODULE MCPremiumLedger --------------------------
(***************************************************************************)
(* PremiumLedger with an inviter, who pays twice, and two friends, who may *)
(* be activated at the same time.                                          *)
(***************************************************************************)
EXTENDS PremiumLedger, TLC

CONSTANTS ann, bob, cat, c1, c2, w1, w2

MCUsers == {ann, bob, cat}
MCCharges == {c1, c2}
MCPayer == (c1 :> ann) @@ (c2 :> ann)
MCPaidDays == [c \in MCCharges |-> 2]
MCInviter == (bob :> ann) @@ (cat :> ann)
MCLevels == {"start", "friends"}
MCLevelCount == [l \in MCLevels |-> IF l = "start" THEN 1 ELSE 2]
MCLevelDays == [levels \in SUBSET MCLevels |-> Cardinality(levels)]
MCWorkers == {w1, w2}

\* Handlers, charges and the two friends are interchangeable.
MCSymmetry == Permutations(MCWorkers) \cup Permutations(MCCharges) \cup Permutations({bob, cat})
=============================================================================
