# Print Partner: verification of its background work, send queues and Plan

Print Partner turns customer orders into printable work and sends files to 3D
printers. A print cannot be undone: a file sent twice wastes a machine for a
day, a send that is forgotten leaves a printer running a job nobody tracks, and
a print checked off on the wrong unit is a part nobody makes. Two programs do
this. The Node server (`src/web/apps/server`) is the running product: a queue
of sends in a settings row, jobs in memory, the Plan of a Build with its
drafts, revisions and Progress in SQLite, and the Sources it is made from as
snapshot directories. The Rust runtime (`src/rust`) replaces
it: every piece of background work is a durable job that admits each effect
before it happens and never repeats one whose outcome it does not know.

This directory models the core of both in TLA+, checks it with TLC on small
instances, and proves with TLAPS most of what it checks for instances of any
size.

## The system

**Rust runtime.** One process owns a data directory. A single writer thread
runs every command as one immediate SQLite transaction; readers, HTTP routes and
worker tasks send it commands over channels. Worker tasks claim jobs, talk to
printers, Spoolman, sources and the file system, and report back with the lease
they were given.

**Node server.** One process, one event loop. A handler keeps the loop until it
awaits a host or a file; SQLite is used synchronously, so a transaction is one
step, and what lies between two transactions of a handler is open to every other
handler. Jobs are in memory and die with the process; the queue, links, drafts
and revisions survive it.

| Component | Source | State | Operations | Correct when |
| --- | --- | --- | --- | --- |
| Durable job records | `pp-storage/src/jobs/model.rs` | one JSON document per job | validity, proofs of completion, outcomes of effects | a document never claims more than its receipts show |
| Durable job engine | `pp-storage/src/jobs.rs` | `durable_jobs`, `durable_job_keys`, `durable_job_reconciliations` | enqueue, claim, heartbeat, begin and confirm effect, finish, fail, cancel, reconcile, retain, recover | no effect is repeated or forgotten; resources are not over-committed; every attempt ends; the database opens again |
| Printer send queue (Rust) | `pp-storage/src/send_queue.rs`, `send_queue/writes.rs` | `printer_send_queue` | Send now, remove, missing, answer, settle, trim, recover | an item says what happened to its send; one send per printer |
| Printer send queue (Node) | `services/printer-send-queue*.ts`, `printer-upload-job.ts`, their routes | `printer.send_queue`, staged files, jobs in memory | enqueue, dispatch, drain, cancel, upload, reconcile, interrupt, restart | one send and one transfer per printer; done means accepted; a send that is under way is resolved |
| Accepted Plan and Progress | `db/repository.ts`, `accepted-plan-progress.ts`, `required-unit-reconciliation.ts` | parts, Required units with tokens and marks | mark, clear, count, assemble, decide, archive, reconcile, publish | units keep their identity and Progress across publications |
| Printer Checkoff | `services/printer-checkoff*.ts`, `plan-apply-model.ts` | `printer.checkoff_links` | attribute, poll, verify, dismiss, remap | a print is checked off on the units the operator meant |
| Source revisions | `services/local-source-*.ts`, `source-docs-index.ts`, `routes/sources.ts`, `db/repository.ts` | snapshot directories, their holds, `projects`, `source_revisions`, `source_docs` | upload, sync, edit a manifest, activate, roll back, index, extract, edit the identity or `local_path`, delete | a recorded snapshot is on disk; what is active is the Source's own; index and text belong to it |
| Plan drafts | `db/repository.ts`, `services/plan-drafts.ts`, `plan-draft-workspace.ts` | drafts, reconciliations, revisions, receipts | recompute, rebase, edit, abandon, resume, reconcile, apply, save a choice | what is published is what its author was shown, on the Plan they saw, once |

`PROJECT.json` lists these and the components without a model, with reasons.

How they interact. Rust: the queue enqueues a job in its own transaction; every
save of an upload job settles its item in the job's transaction (`jobs.rs:1674`,
`send_queue.rs:179`); an open recovers jobs and then the queue in two
transactions (`lib.rs:620`); pruning moves finished jobs to the key table, where
starts still look for them and items no longer do. Node: a dispatch claims a row,
starts a job and stores its id; the job uploads, creates a Checkoff link and
settles the row; a restart settles what no job will. A draft is made and
reconciled in one request and published in a later one; publication gives every
part a new id and remaps the links and rows that name the old ones. Verification
marks units of the accepted Plan. A publication of a Source works on files over
many awaits and ends in one transaction, which compares the Source with what it
saw at first; publications of the same content share a directory.

What is hard: a worker that outlives its lease, a lost commit reply, a late
answer of a printer, cancellation between the admission of an effect and the
effect, crashes at every point, two recoveries that are not one transaction; two
handlers that come back from one host's status, a shutdown under a running
transfer, a publication under it; an edit during a recompute, two rebases of one
draft, a request delivered again after its draft is gone; two publications of one
tree, of which one is rolled back, and text that arrives for documents of a
superseded revision; and answers of users about something that has changed since
they looked. `PROJECT.json` lists these
hazards with their lines.

## Modules

`JobRecord` has no variables. It translates the job document and the successor
documents that the commands save. A job is named by its idempotency key; the key
binds its payload for good, so the payload is the constant `Request[j]`. The
effect list is a function from intents (an operation on a target) to outcomes,
because the code refuses to admit the same pair twice; `last` is the last one.
Options are two-valued: `lease` is `lease_until` with its fence, `cancel` is
`cancel_requested`, `refusal` is `authority_refusal`.

`DurableJobs` is the engine. `rows` is the table together with the archived
documents of pruned rows (`archived` tells which), `reconciled` the history of
user decisions, `expired` the leases whose time has passed. `held` is what each
worker task has in its hands: the lease it was given, the effect it may now
perform (`todo`), and the receipt it got. `performed` is a history variable that
counts what happened outside. Every action is one transaction of the writer
thread with all its saves, the settling and the pruning; a save that validation
refuses disables the action, as it rolls the transaction back. `Perform` is the
only step in the outside world: it checks no lease, and its answer may be lost.
A committed command whose reply is lost leaves the task without a lease.

`JobPromise` is the abstract specification of the engine: no workers, leases,
attempts or restarts, only what each job was granted, what happened, and the
verdict a user can read off it (`open`, `untouched`, `proven`, `unknown`,
`decided`). `Promise` in `DurableJobs` reads these three off the engine's state,
and `KeepsPromise` says the engine implements it: effects are granted to an
open job only, a granted effect happens at most once (perhaps after the job was
judged, since nothing stops a task that was told to go ahead), and a job is
judged only as far as its receipts reach, unless its user decides.

`SendQueue` extends it with the queue. Each job step takes its item along
(`Settled`), the user's commands may close the job of an item, and `RecoverJobs`
and `RecoverQueue` are the two transactions of an open, with a crash possible
between them. `owner` and `denied` are history variables: the item each job was
made for, and the jobs of which a user said that they did not print.

`NodeSendQueue` is the live queue of the Node server. `queue` is the settings
row, `staged` the files on disk, `jobs` the runner's memory, `reqs` the handlers
in flight with what they have read so far, `links` the stored Checkoff links.
`turn` is the handler that has the event loop: between two real awaits no other
callback runs, but printers do, and the process may die. A host status is awaited
before the claim (`DispatchNext`, `ProbeReturns`, `StartClaimed`), so it may be
stale. A job whose file was accepted stores its Checkoff link, removes the file
and writes its row in three steps (`UploadReturns`, `CleanUp`, `FinishJob`): it
keeps the loop between them, but the process may die there or a write fail, and
`cut` remembers such jobs. `Shutdown` halts uploads, `Exit` ends the process,
`Crash` may come between any two steps, `Restart` reconciles what the first
request of the default tenant finds. `MaxFaults` counts failed writes and refused
jobs; `answer` is what the host did, read or not.

`AcceptedPlan` is the accepted Plan of one Build: the units of each part with
token, printed and assembled marks, every Progress command, and the two requests
of a publication, `SaveReconciliation` (which picks the units to keep by the
Progress it sees) and `Publish`. `PlanProduction` extends it with links and
sends. A part id is the pair of version and key; beside each stored coordinate
the model keeps the token that was meant (`meant`), which the code does not have,
so that "names the right unit" can be said. `PublishRemapped` is the publication
that carries coordinates along, `PublishIdle` the one without unfinished
production.

`PlanHistory` is the abstract specification of publishing: one line of Plans, to
which a request adds what its author asked for, on the Plan they saw, once.
`PlanDrafts` is the detailed one. Drafts and revisions are sequences, a digest is
the record of what it digests, `saved` the keys of reconciliations. `asks` are
requests that may be delivered at any time and repeatedly. A recompute and a
rebase are two actions each, because their preparation runs before the
transaction that writes; `work` is what was prepared. Every command that leaves
an open draft ends in `Leave`, the automatic reconciliation, which is another
transaction: `LeaveUnreconciled` is a stop between the two. A draft that was
abandoned, by its author or by a recompute, may be opened again while its base is
the accepted Plan (`Resume`), at a higher generation.

`SourceRevisions` is one Source on the Node server. A revision key is a digest of
its content, so a key is a tree, with its manifest replaced or not. `pub` are the
handlers and jobs that publish or extract, each with what it observed, its
directory and where it is between two awaits; `holders` is the count of holds
(`sharedSnapshotHolds`), kept as the set of who holds. `disk` tells of each
directory whether it is absent, whole, or what an interrupted removal left.
`row` is the `projects` row with its revisions: `active` is the current revision
with its commit, `path` is `local_path`, which an activation sets to the
revision's directory and a PATCH may point at a folder of the user's. Uploads go
by the first, extractions, document requests and the sync of a Source without a
remote by the second. A row of `source_docs` is known by its
generation: replacing the index gives all documents new ids, and an extraction
records its text only for the ids it listed. `Refuse` rolls back and removes
what only this publisher made; `CrashInRemoval` dies in the middle of that.
`origin` is a history variable, the url, branch and kind that the active content
was published for, and `since` remembers the rows that were listed when an
extraction chose its directory.

The `MC` modules give the constants their values. `DurableJobsProofs`,
`KeepsPromiseProofs`, `JobPromiseProofs`, `SendQueueProofs`,
`NodeSendQueueProofs`, `PlanProductionProofs`, `PlanDraftsProofs` and
`SourceRevisionsProofs` hold the theorems. A definition whose comment begins with
`Mutant:` is a plausible slip in the code, used only to see that a property
notices it.

## Checks

| Run | Instance | Shows |
| --- | --- | --- |
| `one_print` | one send with start, two workers, two attempts, one spool | `TypeOK`, `StoredRowsReopen`, `NeverResent`, `NothingForgotten`, `SuccessIsReal`, `Reconcilable`, `EveryChangeIsNewVersion` |
| `starts` | an upload and two starts of it, with pruning | `SafeToResend`, `OneLiveStart`, `KeepsPromise` (the engine implements `JobPromise`) |
| `work` | an import and a check of all sources, two workers, fairness | `ClaimNeverPoisoned`, `ResourceLimit`, `AbandonedAttemptRecovered` |
| `queue` | two items, two jobs, one worker, trimming at size one, items new or interrupted by Node | `SendingUntilSettled`, `OneSendPerPrinter`, `UnresolvedIsShown`, `NotStartedIsTrue`, `DoneIsJustified`, `SentOnce` |
| `quarantine` | the same with two workers | `SendingHasJob` fails |
| `node_sends` | two rows, one printer, two handlers, one stop, fairness | `OneTransferPerPrinter`, `FileKept`, `SendingIsWorkedOn`, `HaltRefusesSuccess`, `SendResolves` |
| `node_faults` | one row and one one-shot upload, one handler, one fault and one stop | `DoneIffLinked`, `DoneIsTrue`, `NotRepeatedOnItsOwn` |
| `node_overlap` | one row, two handlers, no fault | `NotRepeatedOnItsOwn` fails |
| `production` | two parts, one link, one send, two versions | `PrintedIsPrefix`, `UnitsFollow`, `OnlyUploadsAreLeftBehind`, `PublicationKeepsProgress`, `OneOutcome` |
| `late_upload` | the same | `KeptUnitsFollow` fails |
| `plan_drafts` | two parts, one found later, two publishing keys, two draft keys, one worker, one draft that may be resumed | `KeepsHistory` (the drafts implement `PlanHistory`), `RetryIsAnswered`, `OneSuccessor`, `EditsSurvive` |
| `sources` | two publishers, an upload, watcher syncs and extractions, a small and a large document, a remote and a local kind, one folder of the user's | `RecordedIsOnDisk`, `FlagTellsOrigin`, `TextOfItsRow`, `IndexFollowsActive` |

Bounds of the Rust runs. `MaxAttempts` stands for 100 and is small, so that the
limit is reached; `MaxVersion` bounds only the saves that could repeat for ever
(heartbeats, abandoned decisions, cleanup claims), every other command is bounded
by the document itself. Two workers are enough for a stale one beside a live one,
two jobs for a competition, three for a start that was pruned beside a second
one. `MaxItems` is 50 in the code; one is enough to make every queue write trim.
`SendKey` are the random keys that Send now draws; the queue runs have no jobs
under other keys, so a direct upload beside a queued one is left to the engine's
own runs. One worker is enough for the queue, because a late effect reads and writes
no table: what a stale worker does after a sweep it could have done before it. Deadlock checking is off: a user need not ask for anything more, and
the bounds stop the rest.

Bounds of the Node runs. Two handlers are what an overlap needs, two rows what a
competition for a printer needs, and one stop what an interruption with a late
answer needs. Overlap and faults are separate runs, because `node_overlap` shows
that the property of the second fails under the first, and a crash is in both.
`DrainCap` is 8 in the
code and never binds with two rows; `node_faults` has it at 1. `production` lets
one draft shrink a part, continue it on its printed units, exclude it, or give
its key to a new unit and carry the old one under another key; two versions let
every link meet one publication. `MaxVersion` is also where longer histories
stop; the theorems have no such bound. `plan_drafts` decides one override of the
part that a sync brings, which is new and ambiguous, so that a reconciliation can
be unresolved; three drafts are a source, its successor and one that replaces
it, three revisions a publication that supersedes another. `Resumable` lets the
first draft come back once, which is what a second rebase of it takes;
`Interrupted` is a draft after whose creation the process may stop before the
automatic reconciliation, here a second one on the second Plan. In this instance the
clash of a rebase with another decision cannot happen, because the one decision
has one value; `Clashes` is there for the theorems and for larger instances.

In `sources` one upload and one commit are enough for two publishers of the same
content and for one that supersedes another; a watcher's sync stands for every
sync, since it is the same handler with the listing of large documents at its
end. `Folders` are the folders that users may point `local_path` at, none where the
server is hosted; `Leaves` bounds when they do, here while an uploaded tree is the
only revision and its documents are not listed yet. Manifest edits are left to the theorems: with them the instance is too large
for a run. A deleted Source has no
revision, so it is not created again: its id is not used again. `Rows` are the
generations of index rows that somebody may still remember, with one to spare;
`RowsAssumption` says so.

Symmetry is used only for sets of model values that the instance treats alike,
and not with liveness.

Fairness. `DurableJobs!FairSpec`: a lease passes its time (`Expire`), because the
clock advances; a task dies or notices that its lease is stale (`Drop`), because
every command it sends after the expiry is refused; some idle worker polls
(`Claim(w, NoJob)`), because the worker loops poll and every claim begins with
the sweep of expired leases. `NodeSendQueue!FairSpec`: the event loop serves
every callback that is due (strong fairness, since each waits for the loop and
is enabled only when it is free), hosts answer or time out (the adapters set
timeouts), and a server that is halting exits and is started again. No fairness
of users or of printing is assumed.

Each property of a passing run has a mutant under which it fails.

## Findings

`quarantine`: a job whose document the next claim or open cannot read is
quarantined by an update of its own (`jobs.rs:1895`), which does not settle its
item. `send_queue/writes.rs:4-6` says that an item is never `sending` without the
job that settles it; this one is, until the next open. `SendingUntilSettled`
shows that no other job leaves its item so.

`node_overlap`: two drains may wait for the same row's host status. When the
first one's send fails, its row is `error`; the second still holds the row as one
to send, and its claim accepts `error`. The file is sent again without anyone
asking, which `docs/architecture/background-work-guarantees.md:29` excludes.

`late_upload`: an upload creates its Checkoff link from the units its job was
started with. A publication in the meantime does not reach them, so the link
names part ids that are gone although the units are still in the Plan, which
`docs/desktop-rebuild.md:2261` excludes.

Seen while modelling, stated by no run:

- With 50 or more other live items, which only adoption of Node's queue can leave,
  and a receipt of the printer on record, the answer "It printed" is rolled back:
  saving the job settles the item to `done`, trims it away, and the handler fails
  to read it back (`send_queue/writes.rs:503`, `ReadBack`).
- A watcher's sync extracts the small documents, then lists the large ones again,
  but reads them from the directory it knew before (`routes/sources.ts:899`). If a
  newer revision is active by then, its rows are marked ready with the page count
  and hash of the old file, and are not extracted again. `TextOfItsRow` leaves
  these documents out (`ListedLate`).
- A process that dies after a sent file was removed and before its row is `done`
  leaves an `error` row without a file, with a stored Checkoff link. Restart tells
  its user that "The staged file remains for an explicit retry"
  (`background-work-guarantees.md:27`). `FileKept` speaks of files that have not
  reached the host, and `DoneIffLinked` excepts the jobs that were `cut`.
- After a PATCH of `local_path` the documents come from that folder while the
  revision stays active, until an activation sets the path back; the indexing of
  an upload that is still under way lists the revision all the same.
- A queue row whose job id could not be stored (`printer-send-queue.ts:156`) has
  a job that does not know the row and removes its file on failure.
- A publication without unfinished production leaves ended links and rows at old
  part ids; a later remap finds them and is refused though nothing unfinished
  would be dropped. Archiving leaves links that can no longer be verified.
- A new link on a file that was printed before may wait for verification at once,
  because the host still reports the earlier completion.
- A draft that is edited back to an earlier content (A, B, A, B) repeats a digest
  whose automatic key is used up, and stays unreconciled until another edit or an
  explicit reconciliation.
- A removal of a snapshot that stops halfway leaves a directory that has the name
  and not the content; publishing that content is refused from then on. Two
  identical publications that both fail leave an unreferenced directory behind.
- A sync that dies between activation and indexing leaves the rows of the previous
  revision listed, until something rewrites them; a job that starts then extracts
  from the new directory for the old rows.
- An update check that started before a sync writes the status of the superseded
  commit after it.
- A recompute carries an override of the open drafts but not its removal, and
  with several open drafts the last one wins.

## Proofs

For any values of the constants that satisfy the named assumptions:

| Module | Theorems of properties |
| --- | --- |
| `DurableJobsProofs` | `TypeOK`, `NeverResent` |
| `KeepsPromiseProofs` | `NothingForgotten`, `SafeToResend`, `SuccessIsReal`, `EveryChangeIsNewVersion`, `StoredRowsReopen`, `KeepsPromise`, `ResourceLimit`, `OneLiveStart`, `ClaimNeverPoisoned`, `Reconcilable` |
| `JobPromiseProofs` | `VerdictsHold`, of `JobPromise` itself |
| `SendQueueProofs` | `SendingUntilSettled`, `UnresolvedIsShown`, `NotStartedIsTrue`, `DoneIsJustified`, `OneSendPerPrinter`, `SentOnce` |
| `NodeSendQueueProofs` | `OneSendPerPrinter`, `DoneIsTrue`, `HaltRefusesSuccess`, `DoneIffLinked`; with `MaxFaults = 0`: `OneTransferPerPrinter`, `FileKept`; with `DefaultTenant` as well: `SendingIsWorkedOn`; with one handler or `Waits = {}`: `NotRepeatedOnItsOwn` |
| `PlanProductionProofs` | of `AcceptedPlan`: `PrintedIsPrefix`, `AssembledIsPrinted`, `TokensUnique`, `PublicationKeepsProgress`; of `PlanProduction`: `Spec => PlanSpec`, `TypeOK`, `PrintedIsPrefix`, `TokensUnique`, `UnitsFollow`, `OnlyUploadsAreLeftBehind`, `PublicationKeepsProgress`, `OneOutcome` |
| `PlanDraftsProofs` | `KeepsHistory`, `RetryIsAnswered`, `OneSuccessor`, `ReceiptsMatchDrafts`, `EditsSurvive` |
| `SourceRevisionsProofs` | `RecordedIsOnDisk`, `HoldsAreOpen`, `FlagTellsOrigin`, `IndexFollowsActive`, `TextOfItsRow` |

### The durable jobs

The invariant has three layers, none inductive without the ones before it.

`Typed` is the type invariant with `Documents`: a stored document has a lease
and a worker's name exactly while an attempt is in progress, its generation has
counted every attempt, and its version is positive. A recovery or an answer
reads fields whose type depends on that shape.

`Once` says why a second performance is impossible although a worker may hold
an errand after its lease is gone: an effect that was performed or is some
task's errand is admitted on the record (`EffectsOnRecord`); an errand has not
been performed (`ErrandsAreNew`); at most one task holds it
(`ErrandsAreExclusive`); a document admits one way to start a print
(`OneWayToStart`). Admission then adds an errand only for an intent that is new
on the record, and a performance uses its errand up.

`Accounted` says what a document may claim: a queued or cancelled one admits no
effect, a running one has every effect confirmed, one with an admitted effect
all but the last (`RegularDocuments`); a confirmed effect of a job no user
decided happened, and so did the one a receipt in a worker's hands names
(`ReceiptsHappened`); a job that ended without a user's word has every effect
confirmed, and the receipt that proves the print if it succeeded
(`UndecidedProven`); a job with a user's decision is ended or still unresolved,
never at work again (`DecisionsStand`). `Once` tells that what the receipts
name happened once and is on record; the states then tell which verdict the
document deserves.

Successor lemmas (`...Follows`, `...Honest`) show once for each document
operator what it keeps, a lemma per action lifts them to the table, and the
step lemmas follow from these whatever the action was. The step simulation of
`PromiseKept` needs only three cases: `BeginEffect` is `Grant`, `Perform` is
`Act`, and every other action leaves grants and happenings alone and is a
`Judge` by honesty or by its reconciliation.

Admission needs less. Only a claim makes a row reserve something, and it counts
the table it has just swept, so `ResourceLimit` holds by induction once the rows
that reserve are known to be finitely many (`WithinLimit`); a row leaves `absent`
by its enqueue alone and an ended one never changes, so `OneLiveStart` is
inductive. `Legible` says what the next claim and the user can rely on: effects
were admitted in an order the job's kind allows (`InOrder`), only the last of a
job that can still change is undecided (`LastOpen`), the stored document
validates, and a queued one has attempts left. With its last effect taken as
confirmed, such a document proves a success, an upload without a start, or a
failure, so an answer always exists (`AnswerExists`).

### The Rust queue

The queue runs the engine's transactions and two of its own that write jobs
(`close` of a queued job when its item is removed, and the recovery of the jobs
at open). `JobsSound` carries the engine's invariants (`Sound`) over to them, so
what was proved of a document holds here as well.

`QueueInv` ties both tables together in both directions. `Fits` says what an item
may tell of its job: a `sending` one names a row that is kept and not ended, one
whose text says "not started" an ended job that admitted nothing, a `done` one a job that
succeeded or that a user decided. `ShownBy` says of each job that Send now drew
that it is the upload of its item, and that the item shows it while it is open or
unresolved. Four of the properties follow from it. A save of a job settles the
item that shows it in the same transaction, so each step either carries an item
along (`Carried`; `CarriedFits` and `CarriedShows` say once for all steps what
that keeps) or is about one item and refits just that (`Refits`). Quarantine
alone bypasses the save and leaves its item `sending`, which is why `Fits` allows
a `quarantined` row there until the next open.

`OneSendPerPrinter` adds `SendsApart`, over the live sends and the items that Node
left unresolved: only Send now makes a send live, and it looks at both in its own
transaction. `SentOnce` adds `OthersDead`: of the jobs drawn for an item all but
the latest are ended, have performed nothing and are in no task's hands. This
needs what an engine step may do to a job that fails without a user's word: it
had admitted nothing (`FailsUntouched`). That is shown of each command, and an
ended job that admitted nothing stays so (`DeadStays`). Only a user who says that
a send did not print can be wrong about that, so the denied jobs are counted out.

### The Node queue

`OneSendPerPrinter` is not inductive: what keeps a second claim away is that the
claim looks at all rows in the stretch of the loop in which it writes, so the
invariant needs to know who holds the loop. `ClaimHolds` says that a handler that
has claimed a row holds the loop and its row is `sending`; `AtWork` ties what a
handler does to its kind; `JobRows` and `LinksAnswered` tie jobs to the files and
hosts they have; `StoppedIsEmpty` says that a stopped process holds nothing.
They hold whatever writes fail, and so do `OneSendPerPrinter`, `DoneIsTrue` and
`HaltRefusesSuccess`.

`DoneIffLinked` takes two more: a job between its link and the write of its row
holds the loop (`ClosingHolds`), and a row that names a running job is
`sending` and not claimed by a handler (`RowSends`, `ClaimedNamesNone`). So the
row a link belongs to is not claimed, cancelled or answered between the two, and
what comes between is a crash or a failed write, which mark the job `cut`.

The other properties relate rows to jobs, and a failed write breaks exactly that
relation: a row whose id was not stored has a job that does not know it. They are
proved for `MaxFaults = 0`, with the further invariants `RowsHoldJobs` (a job
that took a row knows it by its id) and `ClaimedIsFree` (while a row is claimed,
no transfer to its printer is under way, so that a row interrupted under its
transfer cannot be claimed again by the handler that was waiting).
`SendingIsWorkedOn` needs `DefaultTenant` too, because `Restart` reconciles no
other tenant.

`NotRepeatedOnItsOwn` says that a job which a drain starts is the first of its
row. A row never returns to `queued`, so one that is still queued has had no job
(`QueuedIsNew`), and what a drain holds is such a row (`DrainIsNew`). A drain
that waits for a printer's status has let go of the loop, and a row it has seen
may be sent meanwhile: the theorem therefore assumes that there is only one
handler, or that no row waits, in which case a drain always holds the loop
(`DrainHasLoop`). Without either it is false, as `node_overlap` shows.

### The Plan and its production

Printed units are the first ones only because publication seats the units it
keeps in an order, so the invariant says of the saved reconciliation that it
seats units of the accepted Plan (`DraftOK`); tokens are unique because a
publication mints tokens of its own version and seats an old one once
(`TokensPast`, `Distinct`, `ClaimedOnce`). A saved selection either still has the
Progress it looked at or seats every unit of its part (`SelectionInv`), because
the publication refuses one that is stale, so no printed unit is dropped where an
unprinted one stays. `RefinesPlan` then carries both to
`PlanProduction`: each of its steps is a step of the Plan or leaves it alone.
`UnitsFollow` and `OnlyUploadsAreLeftBehind` need what they do not mention, the
payload of a running upload and links that were made from it: `LinkOK` and
`SendOK` say for each stored unit that its part id is not of a later version and
that, if it is a current one, it names the unit that was meant.

### The drafts

The documents are kept abstract: `IInv` only says that drafts, revisions,
requests and prepared work are records with the fields the steps read and name
drafts that exist. On it rest three arguments. A receipt's key is looked up in
the transaction that writes it, so keys are unique (`KeysUnique`) and a repeated
request finds its own. The rebase that uses a generation of a draft closes it or
finds it abandoned, and generations only grow, a resumed draft's too (`MovesOn`).
So a draft never comes back to a generation it has left (`StaysLeft`), and a
second successor would have to rebase it there. A draft is consumed only by the
revision that holds its content, and consumed drafts never change
(`ReceiptsInv`). `KeepsHistory` follows: a publication checks base, digest and
state of its draft, and a save builds its own draft from what it was shown.
`EditsSurvive` holds because a prepared rebase keeps every decision of the draft
it was shown (`RebasesKeep`), whose digest the second half compares in the
transaction that replaces it, and revisions only grow; a recompute reads the open
drafts in its own transaction and takes the override of the highest.

### The Source's revisions

`RecordedIsOnDisk` is not inductive: a revision is recorded by whoever holds its
directory, and the one who removes it looks only at the holds and at what is
recorded now. The invariant says that whoever has found a directory whole, has
just named it or holds it can rely on it while the Source exists (`Reliable`).
This is kept because a directory has one creator at a time who may still remove
it (`OneMaker`), holds are exactly those of the publishers that need one
(`HoldsAreOpen`), and a hold is taken before one looks: a publisher that relies
on the directory is counted, or has just named it and is then its creator itself.
A Source is deleted only when no revision is recorded (`GoneIsEmpty`), and one
that edits a manifest on the active revision needs no hold, because that
revision is recorded (`SeenRecorded`).

`FlagTellsOrigin` follows step by step, since an edit asks for a sync in the
statement that changes the identity, and a publication that answers the request
compares the identity it was made for in the statement that activates.
`IndexFollowsActive` is about single steps: whoever lists reads the row again in
the step that replaces the index, and the publication that activates lists what
it has just made active.
`TextOfItsRow` needs that an extraction lists once, when it chooses its directory
(`ListsOnce`); a watcher's sync lists the large documents twice, and it alone does.

### Only model-checked

Liveness, which with fairness is out of the prover's reach:
`AbandonedAttemptRecovered` and `SendResolves`. What the findings' runs refute
cannot be proved.
No module uses a RECURSIVE operator.

## Not modelled

In the modelled components: matching of draft parts to accepted ones other than
by key (an input of `AcceptedPlan`, by key in `PlanDrafts`), filament, notes and
layout, several actors on one Build, imported and
unattributed prints, remote file drift, the trim of ended rows and links, feature
access, and the checks that throw on a damaged database. Inputs of a Build are
numbered forward only: a sync never restores earlier inputs exactly. The key of an
explicit reconciliation is fresh for the whole Build. Of a Source: the first
manifest that is saved on a working tree without a revision, a PATCH of the
metadata, which could set or clear `sync_required` by itself
(`repository.ts:3722-3730`), quotas and ownership admission, import rules, covers,
update checks, and how a candidate directory is filled. `PlanDrafts` explores a
stop before the automatic reconciliation where a draft is created; an edit that
stops there leaves a draft like the one `Init` starts with.

Not modelled as components, with reasons in `PROJECT.json`: Source reservations,
Sync batches, imports, scans and job subscriptions of the Rust runtime; its ports
of drafts and checkoff, which are modelled from the Node source; data directory,
writer thread and authority, which the models take as given; backup and restore;
on the Node side the fetching of Sources, plates and exports, the assistant, migrations,
PostgreSQL mode and the web client.

Left out for good: wire protocols of printers, HTTP and rendering, passwords and
keys, parsing of settings, file-system procedures, and documents damaged outside
the program.
