---------------------------- MODULE PlanHistory ----------------------------
(***************************************************************************)
(* What the drafts of a Build promise to whoever asks for a Plan: the      *)
(* accepted Plans form one line of history; a request adds to it only what *)
(* its author was shown and asked for, only on the Plan they saw, and only *)
(* once, however often and however late it is delivered; and no draft is   *)
(* published twice.                                                        *)
(***************************************************************************)
EXTENDS Naturals, Sequences

CONSTANTS NoKey, NoDraft

VARIABLES
    asked,      \* the requests that may still be delivered
    history     \* the accepted Plans, in order

\* A Plan is the set of its choices.  A request names some of them (wants), or all (whole),
\* and may name the draft that is to be published.
HistoryInit ==
    /\ Len(history) = 1
    /\ history[1].key = NoKey /\ history[1].draft = NoDraft

\* The clients may ask for anything.
Ask == history' = history

Publish(q, entry) ==
    /\ q.base = Len(history)
    /\ entry.key = q.key
    /\ q.draft # NoDraft => entry.draft = q.draft
    /\ \A v \in 1 .. Len(history) :
            history[v].key # entry.key /\ history[v].draft # entry.draft
    /\ q.wants \subseteq entry.choices
    /\ q.whole => entry.choices = q.wants
    /\ history' = Append(history, entry)

HistoryNext == Ask \/ \E q \in asked : Publish(q, history'[Len(history')])

HistorySpec == HistoryInit /\ [][HistoryNext]_<<asked, history>>
=============================================================================
