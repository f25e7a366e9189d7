-------------------------- MODULE MCPlanProduction --------------------------
(* One Build with a part that drafts grow, shrink, replace, rename, exclude *)
(* and continue on its printed units, one send and one or two links.        *)
EXTENDS PlanProduction, TLC

CONSTANTS a, b, l1, s1, f1

Absent == [count |-> 0, included |-> FALSE, from |-> None, accept |-> FALSE]
Target(n, q) == [count |-> n, included |-> TRUE, from |-> q, accept |-> FALSE]
Only(p, t) == [q \in Parts |-> IF q = p THEN t ELSE Absent]

TwoOfA == (a :> 2) @@ (b :> 0)

\* Shrink; continue on the printed units; exclude; give the key to a new unit and
\* carry an old one on under another key.
SomeEdits == {
    Only(a, Target(1, a)),
    Only(a, [Target(2, a) EXCEPT !.accept = TRUE]),
    Only(a, [Target(2, a) EXCEPT !.included = FALSE]),
    (a :> Target(1, None)) @@ (b :> Target(1, a)) }

OneFile == [x \in Links \cup Sends |-> f1]
LinkOfTwo == [x \in Links \cup Sends |-> IF x \in Links THEN 2 ELSE 1]
=============================================================================
