--------------------------- MODULE MCDurableJobs ---------------------------
(* Small instances of DurableJobs: two or three jobs that compete for one    *)
(* printer or overlap on sources, one or two worker tasks.                   *)
EXTENDS DurableJobs, TLC

CONSTANTS j1, j2, j3, p1, s1, s2, sp1, a1

Upload(p, start) == [kind |-> "upload", target |-> p, start |-> start, parent |-> NoJob]
Start(p, parent) == [kind |-> "start", target |-> p, start |-> TRUE, parent |-> parent]
Scan(s)          == [kind |-> "scan", target |-> s, start |-> FALSE, parent |-> NoJob]
Import(s)        == [kind |-> "import", target |-> s, start |-> FALSE, parent |-> NoJob]
Check            == [kind |-> "check", target |-> NoTarget, start |-> FALSE, parent |-> NoJob]

\* One send that asks for the print to start.
OnePrint == j1 :> Upload(p1, TRUE)

\* One send and two later requests to start what it uploaded.
Starts == (j1 :> Upload(p1, TRUE)) @@ (j2 :> Start(p1, j1)) @@ (j3 :> Start(p1, j1))

\* An import of one source and a check of all of them.
SourceWork == (j1 :> Import(s1)) @@ (j2 :> Check)

Capacity == [k \in Kinds |-> 2]

WorkerSymmetry == Permutations(Worker)

\* The two starts ask for the same thing.
StartSymmetry == Permutations({j2, j3})
=============================================================================
