---------------------------- MODULE MCNodeSends ----------------------------
(* Instances of NodeSendQueue: one or two rows and a one-shot upload for one  *)
(* printer, and one or two handlers at a time.                              *)
EXTENDS NodeSendQueue, TLC

CONSTANTS p1, f1, r1, r2

Handlers == Permutations(Reqs)

OnePrinter == [f \in Files |-> p1]
=============================================================================
