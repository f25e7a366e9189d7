---------------------------- MODULE MCPlanDrafts ----------------------------
(* One part that is always found, and one that a sync brings: it is new, ambiguous and not *)
(* included by the kit.                                                                     *)
EXTENDS PlanDrafts, TLC

CONSTANTS a, b, k1, k2, q1, q2, r1, w1

FoundIn == (1 :> {a}) @@ (2 :> {a, b})
OneAttachment == [i \in Inputs |-> "attached"]
OneB == {<<b, "override", 4>>}
\* The first draft may come back once; the process may stop after a second one, of the second Plan.
FirstOnce == {<<1, 1>>}
SecondOnce == {<<2, 2>>}
Alike == Permutations(DraftKeys) \cup Permutations(AskKeys)
=============================================================================
