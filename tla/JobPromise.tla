----------------------------- MODULE JobPromise -----------------------------
(* What the job engine promises about effects on the outside world, without  *)
(* workers, leases, attempts or restarts.  A job is granted effects while it *)
(* is open, and each granted effect may happen once, even after the job was  *)
(* judged: nothing can stop a task that was told to go ahead.  The verdict   *)
(* is all a user can read off a job, and it never changes silently.          *)
EXTENDS Naturals

CONSTANTS
    Job,
    Effect,         \* effects a job may ask for
    Exclusive       \* sets of effects of which a job is granted one at most

VARIABLES
    granted,        \* effects each job has been told it may perform
    done,           \* how often each effect happened
    verdict

vars == <<granted, done, verdict>>

\* open: still at work.  untouched: ended, and nothing happened nor will.
\* proven: ended, and all it was granted happened.  unknown: granted effects
\* may or may not have happened.  decided: a user settled an unknown job.
Verdict == {"open", "untouched", "proven", "unknown", "decided"}

Happened(j) == {i \in Effect : done[j][i] > 0}

Grant(j, i) ==
    /\ verdict[j] = "open"
    /\ i \notin granted[j]
    /\ \A X \in Exclusive : i \in X => X \cap granted[j] = {}
    /\ granted' = [granted EXCEPT ![j] = @ \cup {i}]
    /\ UNCHANGED <<done, verdict>>

Act(j, i) ==
    /\ i \in granted[j] /\ done[j][i] = 0
    /\ done' = [done EXCEPT ![j][i] = 1]
    /\ UNCHANGED <<granted, verdict>>

MayBecome(j, v) ==
    \/ verdict[j] = "open" /\ v = "untouched" /\ granted[j] = {}
    \/ verdict[j] = "open" /\ v = "proven" /\ granted[j] = Happened(j)
    \/ verdict[j] = "open" /\ v = "unknown"
    \/ verdict[j] = "unknown" /\ v = "decided"

\* One transaction may judge several jobs.
Judge ==
    /\ verdict' \in [Job -> Verdict]
    /\ \A j \in Job : verdict'[j] = verdict[j] \/ MayBecome(j, verdict'[j])
    /\ UNCHANGED <<granted, done>>

Init ==
    /\ granted = [j \in Job |-> {}]
    /\ done = [j \in Job |-> [i \in Effect |-> 0]]
    /\ verdict = [j \in Job |-> "open"]

Next ==
    \/ \E j \in Job, i \in Effect : Grant(j, i) \/ Act(j, i)
    \/ Judge

Spec == Init /\ [][Next]_vars

-----------------------------------------------------------------------------

\* A verdict can be relied on for ever: an untouched job never touches
\* anything and a proven one has done all it was granted, once; nothing that
\* was not granted happens, and exclusive effects never happen both.
VerdictsHold ==
    \A j \in Job :
        /\ \A i \in Effect : done[j][i] \in {0, 1}
        /\ Happened(j) \subseteq granted[j]
        /\ verdict[j] = "untouched" => Happened(j) = {}
        /\ verdict[j] = "proven" => Happened(j) = granted[j]
        /\ \A X \in Exclusive : \A a, b \in X :
              {a, b} \subseteq Happened(j) => a = b

=============================================================================
