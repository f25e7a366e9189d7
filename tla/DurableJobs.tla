---------------------------- MODULE DurableJobs ----------------------------
(* The durable job engine of pp-storage (jobs.rs, desktop_rebuild build):    *)
(* one writer thread runs each command as one immediate transaction, workers *)
(* hold leases on attempts, and the effects they admit happen in the outside *)
(* world, where no transaction can undo or fence them.                       *)
EXTENDS JobRecord

CONSTANTS
    Total,          \* WorkerAdmission.total
    PerKind,        \* WorkerAdmission.kinds: capacity of each job kind
    PerResource,    \* WorkerAdmission.per_resource
    MaxActive,      \* 1024 unfinished jobs in the code
    MaxVersion      \* bounds the saves that may repeat for ever: heartbeats,
                    \* Abandon and cleanup claims; the code has no such bound

ASSUME AdmissionAssumption ==
    /\ Total \in Nat \ {0}
    /\ PerKind \in [Kinds -> Nat]
    /\ PerResource \in Nat \ {0}
    /\ MaxActive \in Nat
    /\ MaxVersion \in Nat

VARIABLES
    rows,           \* durable_jobs, and archived documents of pruned rows
    archived,       \* jobs whose row was pruned into durable_job_keys
    reconciled,     \* jobs with a row in durable_job_reconciliations
    expired,        \* leased jobs whose lease_until has passed
    held,           \* the AttemptLease each worker task holds, and its errand
    performed       \* history: how often each effect happened outside

dbvars == <<rows, archived, reconciled, expired>>
vars == <<rows, archived, reconciled, expired, held, performed>>

-----------------------------------------------------------------------------
(* Worker tasks.  A task performs an effect only after the writer confirmed  *)
(* that its admission committed.                                             *)

NoLease == [job |-> NoJob, generation |-> 0, version |-> 0,
            todo |-> NoIntent, receipt |-> NoIntent]

Lease == {NoLease} \cup
    [job : Job, generation : Nat, version : Nat,
     todo : Intent \cup {NoIntent}, receipt : Intent \cup {NoIntent}]

LeaseOn(j, r) == [job |-> j, generation |-> r.generation, version |-> r.version,
                  todo |-> NoIntent, receipt |-> NoIntent]

\* claimed_job: the stored attempt is exactly the one this lease was cut for.
\* A fence is drawn per claim, so worker and generation stand for it.
HoldsClaim(w) ==
    LET l == held[w] IN
    /\ l.job # NoJob
    /\ LET r == rows[l.job] IN
       /\ r.worker = w /\ r.lease = "granted" /\ l.job \notin expired
       /\ r.generation = l.generation /\ r.version = l.version
       /\ r.state \in InProgress

-----------------------------------------------------------------------------
(* Reading the table.                                                        *)

Rows(db, states) == {j \in Job : db[j].state \in states}
Active(db) == Rows(db, InProgress)

\* Mutant: an unresolved outcome frees its printer.
ReservingInProgressOnly == InProgress \cup {"quarantined"}

\* reserved_resources: an unresolved or quarantined job keeps its resource.
Reserving == InProgress \cup {"reconciliation_required", "quarantined"}
Overlapping(db, j, states) ==
    {h \in Rows(db, states) : Resource(h) \cap Resource(j) # {}}

Claimable(db, j) ==
    /\ db[j].state = "queued"
    /\ Cardinality({a \in Active(db) : JobKind(a) = JobKind(j)})
          < PerKind[JobKind(j)]
    /\ Resource(j) # {} =>
          Cardinality(Overlapping(db, j, Reserving)) < PerResource

\* The check inside claim whose failure aborts the whole transaction.
AttemptAllowed(j, r) == r.attempt < MaxAttempts \/ AwaitsOwnerCleanup(j, r)

\* Mutant: starts whose row was pruned are not looked up.
LiveRowStarts(db, p) ==
    {s \in Job \ archived : /\ Request[s].kind = "start" /\ Request[s].parent = p
                            /\ db[s].state \notin {"absent", "failed", "cancelled"}}

\* Starts of parent p that were requested and neither failed nor cancelled.
LiveStarts(db, p) ==
    {s \in Job : /\ Request[s].kind = "start" /\ Request[s].parent = p
                 /\ db[s].state \notin {"absent", "failed", "cancelled"}}

-----------------------------------------------------------------------------
(* Writing the table.                                                        *)

\* Mutant: the expired lease outlives the attempt it belonged to.
PutKeepingExpiry(j, r) ==
    ValidState(j, r) /\ rows' = [rows EXCEPT ![j] = r] /\ UNCHANGED expired

Put(j, r) ==
    /\ ValidState(j, r)
    /\ rows' = [rows EXCEPT ![j] = r]
    /\ expired' = expired \ {j}

\* One document that save refuses aborts the whole transaction.
SavesValid ==
    \A j \in Job : rows'[j] # rows[j] /\ rows'[j].state # "quarantined"
                    => ValidState(j, rows'[j])

\* prune: which finished rows are over age or rank is left open.
Prune == \E old \in SUBSET (Rows(rows', Terminal) \ archived) :
            archived' = archived \cup old

PruneIfEnded(r) ==
    IF r.state \in Terminal THEN Prune ELSE UNCHANGED archived

-----------------------------------------------------------------------------
(* User commands.                                                            *)

\* A repeat of a bound key returns the retained job and changes nothing.
Enqueue(j) ==
    /\ rows[j].state = "absent"
    /\ Request[j].kind = "start" =>
          LET p == Request[j].parent IN
          /\ rows[p].state = "uploaded_only" /\ UploadedOnlyProof(p, rows[p])
          /\ LiveStarts(rows, p) = {}
    /\ Cardinality(Rows(rows, State \ (Terminal \cup {"absent"}))) < MaxActive
    /\ Put(j, Enqueued(rows[j]))
    /\ UNCHANGED <<archived, reconciled, held, performed>>

Cancel(j) ==
    /\ rows[j].state \notin Terminal \cup {"absent", "quarantined"}
    /\ rows[j].cancel = "none"
    /\ LET r == CancelRequested(j, rows[j]) IN Put(j, r) /\ PruneIfEnded(r)
    /\ UNCHANGED <<reconciled, held, performed>>

\* The request names the version it was decided on, so it applies to the
\* document it saw or not at all.
Reconcile(j) ==
    /\ rows[j].state = "reconciliation_required"
    /\ \E r \in {ConfirmSucceeded(j, rows[j]), ConfirmNoEffect(j, rows[j])} :
          /\ \/ CanConfirmSucceeded(j, rows[j]) /\ r = ConfirmSucceeded(j, rows[j])
             \/ CanConfirmNoEffect(rows[j]) /\ r = ConfirmNoEffect(j, rows[j])
          /\ Put(j, r) /\ PruneIfEnded(r)
    /\ reconciled' = reconciled \cup {j}
    /\ UNCHANGED <<held, performed>>

\* Decision::Abandon records that the user looked and left it unresolved.
Abandon(j) ==
    /\ rows[j].state = "reconciliation_required" /\ rows[j].last # NoIntent
    /\ rows[j].version < MaxVersion
    /\ Put(j, Saved(rows[j]))
    /\ reconciled' = reconciled \cup {j}
    /\ UNCHANGED <<archived, held, performed>>

Retain ==
    /\ UNCHANGED <<rows, reconciled, expired, held, performed>>
    /\ Prune

-----------------------------------------------------------------------------
(* Claiming.  Every claim first recovers the attempts whose lease ran out.   *)

\* recover_in: a recovered document over the size limit is quarantined.
Recover(db, lost, oversized) ==
    [j \in Job |-> IF j \in lost \cap oversized THEN Quarantined(db[j])
                   ELSE IF j \in lost THEN Recovered(j, db[j])
                   ELSE db[j]]

\* Mutant: the sweep forgets attempts with an admitted effect.
RunningLeaseLost == {j \in expired : rows[j].state = "running"}

LeaseLost == {j \in Active(rows) : j \in expired}

\* Queued jobs that a claim passes over and fails on its way: their enqueuer's
\* authority is gone, or their Source is.
Dropped(db, refused, gone) ==
    [j \in Job |-> IF j \in refused THEN Refused(db[j], FALSE)
                   ELSE IF j \in gone THEN Saved([db[j] EXCEPT !.state = "failed"])
                   ELSE db[j]]

\* The candidate a targeted or kind-filtered claim asks for; NoJob for none.
Claim(w, c) ==
    /\ held[w] = NoLease
    /\ \E oversized \in SUBSET LeaseLost :
       LET swept == Recover(rows, LeaseLost, oversized)
           open  == {j \in Job : Claimable(swept, j)}
       IN
       \E refused \in SUBSET (open \ {c}) :
       \E gone \in SUBSET {j \in open \ ({c} \cup refused) :
                              Request[j].kind \in {"scan", "import"}} :
       LET passed == Dropped(swept, refused, gone) IN
       /\ Cardinality(Active(swept)) < Total \/ refused \cup gone \cup {c} = {NoJob}
       /\ \A j \in refused \cup gone : AttemptAllowed(j, swept[j])
       /\ IF c = NoJob
          THEN rows' = passed /\ UNCHANGED held
          ELSE /\ c \in open /\ AttemptAllowed(c, swept[c])
               /\ AwaitsOwnerCleanup(c, swept[c]) => swept[c].version < MaxVersion
               /\ rows' = [passed EXCEPT ![c] = Claimed(@, w)]
               /\ \E reply \in {LeaseOn(c, rows'[c]), NoLease} :
                     held' = [held EXCEPT ![w] = reply]
       /\ SavesValid
       /\ IF refused # {} THEN Prune ELSE UNCHANGED archived
       /\ expired' = expired \ LeaseLost
    /\ UNCHANGED <<reconciled, performed>>

-----------------------------------------------------------------------------
(* Worker commands.  The reply to a committed command may be lost; the task  *)
(* then holds a lease on a version that no longer exists and drops it.       *)

\* Keeps the lease when the attempt goes on and the reply arrived.
Reply(w, r, todo) ==
    IF r.state \in InProgress
    THEN \E l \in {[LeaseOn(held[w].job, r) EXCEPT !.todo = todo], NoLease} :
            held' = [held EXCEPT ![w] = l]
    ELSE held' = [held EXCEPT ![w] = NoLease]

Advance(w, r, todo) ==
    /\ Put(held[w].job, r) /\ PruneIfEnded(r)
    /\ Reply(w, r, todo)
    /\ UNCHANGED <<reconciled, performed>>

\* Heartbeat and Progress renew the lease and keep the task's errand.
Heartbeat(w) ==
    /\ HoldsClaim(w)
    /\ LET j == held[w].job
           l == [held[w] EXCEPT !.version = rows[j].version + 1] IN
       /\ rows[j].version < MaxVersion
       /\ Put(j, Saved(rows[j]))
       /\ held' \in {held, [held EXCEPT ![w] = l]}
    /\ UNCHANGED <<archived, reconciled, performed>>

\* Which effect may follow what the document already records.
OperationAllowed(j, r, i) ==
    LET p == Request[j].target IN
    CASE Request[j].kind = "start" -> i = StartOn(p)
      [] Request[j].kind = "upload" ->
            \/ i.op = "spoolman_deduction"
            \/ i = UploadTo(p) /\ UploadAndStartOn(p) \notin Admitted(r)
            \/ /\ i = UploadAndStartOn(p) /\ Request[j].start
               /\ Admitted(r) \cap {UploadTo(p), StartOn(p)} = {}
            \/ /\ i = StartOn(p) /\ Request[j].start
               /\ UploadAndStartOn(p) \notin Admitted(r)
               /\ Is(r, UploadTo(p), "confirmed")
      [] Request[j].kind \in {"scan", "check"} ->
            i.op \in {"source_refresh", "local_artifact"}
      [] Request[j].kind = "export" -> i.op = "local_artifact"
      [] OTHER -> FALSE

\* Mutant: the same effect may be admitted again.
CanAdmitAgain(j, r, i) ==
    r.cancel = "none" /\ r.state = "running" /\ OperationAllowed(j, r, i)

CanAdmit(j, r, i) ==
    /\ r.cancel = "none" /\ r.state = "running"
    /\ Cardinality(Admitted(r)) < MaxEffects
    /\ i \notin Admitted(r)
    /\ OperationAllowed(j, r, i)

BeginEffect(w, i) ==
    /\ HoldsClaim(w)
    /\ LET j == held[w].job IN
       /\ CanAdmit(j, rows[j], i)
       /\ Advance(w, EffectBegun(rows[j], i), i)

\* The effect itself, in the outside world: no lease is checked there, and its
\* answer may never come back.
Perform(w) ==
    /\ held[w].todo # NoIntent
    /\ performed' = [performed EXCEPT ![held[w].job][held[w].todo] = @ + 1]
    /\ \E receipt \in {held[w].todo, NoIntent} :
          held' = [held EXCEPT ![w].todo = NoIntent, ![w].receipt = receipt]
    /\ UNCHANGED dbvars

HasReceipt(w) ==
    LET r == rows[held[w].job] IN
    /\ r.state = "effect_admitted"
    /\ held[w].receipt = r.last /\ Is(r, r.last, "unresolved")

ConfirmEffect(w) ==
    /\ HoldsClaim(w) /\ HasReceipt(w)
    /\ Advance(w, EffectConfirmed(rows[held[w].job]), NoIntent)

Finish(w) ==
    /\ HoldsClaim(w)
    /\ LET j == held[w].job
           r == rows[j] IN
       /\ r.state = "running" /\ r.cancel = "none" /\ Request[j].kind # "import"
       /\ \E named \in Intent \cup {NoIntent} :
          LET result == IF named # NoIntent THEN named ELSE PrimaryReceipt(j, r) IN
          /\ result # NoIntent => Is(r, result, "confirmed")
          /\ CompletionProven(j, r, result)
          /\ Advance(w, Finished(r, result), NoIntent)

Fail(w) ==
    /\ HoldsClaim(w)
    /\ Request[held[w].job].kind # "import"
    /\ Advance(w, Failed(rows[held[w].job]), NoIntent)

\* refuse_advance: any command, once the enqueuer's authority is gone.
RefuseAdvance(w) ==
    /\ HoldsClaim(w)
    /\ \E receipt \in BOOLEAN :
          /\ receipt => HasReceipt(w)
          /\ Advance(w, Refused(rows[held[w].job], receipt), NoIntent)

\* A task dies, or learns that its lease is stale.
Drop(w) ==
    /\ held[w] # NoLease
    /\ held' = [held EXCEPT ![w] = NoLease]
    /\ UNCHANGED <<dbvars, performed>>

-----------------------------------------------------------------------------

Expire(j) ==
    /\ rows[j].lease = "granted" /\ j \notin expired
    /\ expired' = expired \cup {j}
    /\ UNCHANGED <<rows, archived, reconciled, held, performed>>

\* The process stops at any point and opens the database again: every attempt
\* in progress is recovered, whatever its lease says.
Restart ==
    /\ \E oversized \in SUBSET Active(rows) :
          rows' = Recover(rows, Active(rows), oversized)
    /\ SavesValid
    /\ held' = [w \in Worker |-> NoLease]
    /\ expired' = {}
    /\ UNCHANGED <<archived, reconciled, performed>>

Init ==
    /\ rows = [j \in Job |-> NoRow]
    /\ archived = {} /\ reconciled = {} /\ expired = {}
    /\ held = [w \in Worker |-> NoLease]
    /\ performed = [j \in Job |-> [i \in Intent |-> 0]]

User == \E j \in Job : Enqueue(j) \/ Cancel(j) \/ Reconcile(j) \/ Abandon(j)

WorkerStep(w) ==
    \/ \E c \in Job \cup {NoJob} : Claim(w, c)
    \/ \E i \in Intent : BeginEffect(w, i)
    \/ Heartbeat(w) \/ Perform(w) \/ ConfirmEffect(w) \/ Finish(w)
    \/ Fail(w) \/ RefuseAdvance(w) \/ Drop(w)

Next ==
    \/ User \/ Retain \/ Restart
    \/ \E j \in Job : Expire(j)
    \/ \E w \in Worker : WorkerStep(w)

Spec == Init /\ [][Next]_vars

\* Leases run out, idle workers keep polling, and no task lasts for ever.
Fairness ==
    /\ \A j \in Job : WF_vars(Expire(j))
    /\ \A w \in Worker : WF_vars(Drop(w))
    /\ WF_vars(\E w \in Worker : Claim(w, NoJob))

FairSpec == Spec /\ Fairness

-----------------------------------------------------------------------------
(* Properties.                                                               *)

TypeOK ==
    /\ rows \in [Job -> Record]
    /\ archived \in SUBSET Job /\ reconciled \in SUBSET Job
    /\ expired \in SUBSET {j \in Job : rows[j].lease = "granted"}
    /\ held \in [Worker -> Lease]
    /\ performed \in [Job -> [Intent -> Nat]]

\* Every row passes the checks validate_schema makes when the database is
\* opened; a row that fails them would keep the process from starting again.
StoredRowsReopen ==
    \A j \in Job : LET r == rows[j] IN
        r.state \notin {"absent", "quarantined"} =>
            /\ r.version > 0 /\ r.generation >= r.attempt
            /\ (r.state \in InProgress) = (r.worker # NoWorker)
            /\ (r.state \in InProgress) = (r.lease = "granted")
            /\ Cardinality(Admitted(r)) <= MaxEffects

\* No effect of a job happens twice, whatever attempts were lost, recovered,
\* refused or answered late, and one job starts at most one print.
NeverResent ==
    \A j \in Job :
        /\ \A i \in Intent : performed[j][i] <= 1
        /\ \A p \in Printer :
              performed[j][UploadAndStartOn(p)] + performed[j][StartOn(p)] <= 1

\* A job that is queued, was cancelled, or failed without an effect has
\* touched nothing outside and no task is about to: it is safe to send again.
SafeToResend ==
    \A j \in Job : LET r == rows[j] IN
        \/ r.state \in {"queued", "cancelled"}
        \/ r.state = "failed" /\ Admitted(r) = {}
        => /\ \A i \in Intent : performed[j][i] = 0
           /\ \A w \in Worker : held[w].job = j => held[w].todo = NoIntent

\* An effect that happened is on record, and a job that ended with an effect
\* nobody confirmed ended by a decision a user recorded.
NothingForgotten ==
    \A j \in Job : LET r == rows[j] IN
        /\ \A i \in Intent : performed[j][i] > 0 => i \in Admitted(r)
        /\ r.state \in Terminal /\ j \notin reconciled =>
              \A i \in Admitted(r) : r.effects[i] = "confirmed"

\* A print job that succeeded without a user's word really happened: a send
\* that asked for the print to start has started it, once.
SuccessIsReal ==
    \A j \in Job :
        /\ rows[j].state = "succeeded" /\ j \notin reconciled
        /\ JobKind(j) = "upload"
        => LET p == Request[j].target IN
           IF Request[j].start
           THEN performed[j][UploadAndStartOn(p)] + performed[j][StartOn(p)] = 1
           ELSE performed[j][UploadTo(p)] = 1

\* At most one start of an uploaded file is requested, running, unresolved or
\* done, counting the ones whose row was pruned.
OneLiveStart ==
    \A s, t \in Job :
        /\ Request[s].kind = "start" /\ Request[t].kind = "start"
        /\ Request[s].parent = Request[t].parent
        /\ {rows[s].state, rows[t].state} \cap {"absent", "failed", "cancelled"} = {}
        => s = t

\* No printer or source is reserved by more attempts, unresolved outcomes and
\* quarantined rows than the admission allows.
ResourceLimit ==
    \A x \in Printer \cup Source :
        Cardinality({j \in Job : /\ rows[j].state \notin {"absent", "queued"} \cup Terminal
                                 /\ x \in Resource(j)}) <= PerResource

\* No stored row can make every later claim, or the next start, abort: the
\* attempt limit never meets a queued job, and recovery never saves a document
\* that validation refuses.
ClaimNeverPoisoned ==
    \A j \in Job :
        /\ rows[j].state = "queued" => AttemptAllowed(j, rows[j])
        /\ rows[j].state \in InProgress => ValidState(j, Recovered(j, rows[j]))

\* Whatever left a job unresolved, its user has an answer the engine accepts,
\* so no printer stays reserved for good by a job that can be read.
Reconcilable ==
    \A j \in Job : LET r == rows[j] IN
        r.state = "reconciliation_required" =>
            \/ CanConfirmSucceeded(j, r) /\ ValidState(j, ConfirmSucceeded(j, r))
            \/ CanConfirmNoEffect(r) /\ ValidState(j, ConfirmNoEffect(j, r))

\* A change of a document retires every lease and answer cut for the version
\* before it, and a finished document never changes again.
EveryChangeIsNewVersion ==
    [][\A j \in Job : rows'[j] # rows[j] =>
          /\ rows'[j].version > rows[j].version
          /\ rows[j].state \notin Terminal \cup {"quarantined"}]_vars

\* What a user can read off a job: whether it is at work, and if it ended,
\* whether its receipts or a recorded decision ended it.
Verdict(j) ==
    CASE rows[j].state \in {"absent", "queued"} \cup InProgress -> "open"
      [] rows[j].state \in {"reconciliation_required", "quarantined"} -> "unknown"
      [] rows[j].state \in Terminal /\ j \in reconciled -> "decided"
      [] rows[j].state \in Terminal /\ j \notin reconciled ->
            IF Admitted(rows[j]) = {} THEN "untouched" ELSE "proven"

Promise == INSTANCE JobPromise WITH
    Effect    <- Intent,
    Exclusive <- {{UploadAndStartOn(p), StartOn(p)} : p \in Printer},
    granted   <- [j \in Job |-> Admitted(rows[j])],
    done      <- performed,
    verdict   <- [j \in Job |-> Verdict(j)]

\* The engine with its leases, sweeps, refusals and restarts implements the
\* promise: effects are granted only to an open job, happen at most once, and
\* a job is judged only as far as its receipts or its user's word reach.
KeepsPromise == Promise!Spec

\* An attempt whose task is gone does not stay in progress for ever.
AbandonedAttemptRecovered ==
    \A j \in Job :
        (/\ rows[j].state \in InProgress
         /\ \A w \in Worker : held[w].job # j)
            ~> rows[j].state \notin InProgress

=============================================================================
