---------------------------- MODULE MCSendQueue ----------------------------
(* Small instances of SendQueue: one or two items for one printer and a few  *)
(* fresh upload jobs for them.                                               *)
EXTENDS SendQueue, TLC

CONSTANTS p1

Upload == [kind |-> "upload", target |-> p1, start |-> FALSE, parent |-> NoJob]
PlainUploads == [j \in Job |-> Upload]

ToPrinter == [i \in Item |-> p1]
NoStart   == [i \in Item |-> FALSE]

Fresh == {[state |-> "queued", job |-> NoJob, text |-> "other"]}

\* What Node may have left: unsent, or interrupted by its restart.
FromNode == Fresh \cup {[state |-> "error", job |-> NoJob, text |-> "interrupted"]}

Capacity == [k \in Kinds |-> 2]

QueueSymmetry == Permutations(SendKey) \cup Permutations(Worker)
=============================================================================
