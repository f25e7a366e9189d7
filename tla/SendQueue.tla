----------------------------- MODULE SendQueue -----------------------------
(* The printer send queue (pp-storage/src/send_queue.rs and                  *)
(* send_queue/writes.rs) on top of the durable jobs: Send now gives an item  *)
(* a fresh upload job in one transaction, every save of that job settles the *)
(* item in the same transaction, and a restart recovers the two tables in    *)
(* two transactions, jobs first.                                             *)
EXTENDS DurableJobs

CONSTANTS
    Item,           \* queue items, named by their position in the table
    ItemPrinter,    \* printer_id of an item
    ItemStart,      \* whether its print is to start
    Adopted,        \* the items that adoption of Node's queue may leave
    SendKey,        \* the random keys that Send now enqueues under
    MaxItems,       \* 50 in the code
    NoItem

VARIABLES
    items,          \* printer_send_queue
    phase,          \* "recovered" between the two transactions of an open
    owner,          \* history: the item a job was dispatched for
    denied          \* history: the jobs of which a user said that they did not print

sqvars == <<vars, items, phase, owner, denied>>

\* text is the item's error column.  not_started is NOT_STARTED_ERROR; the
\* code itself only compares against interrupted, INTERRUPTED_ERROR.
ItemRecord ==
    [state : {"absent", "queued", "sending", "done", "error", "cancelled"},
     job : Job \cup {NoJob}, text : {"interrupted", "not_started", "other"}]

NoItemRow == [state |-> "absent", job |-> NoJob, text |-> "other"]

ASSUME QueueAssumption ==
    /\ Item \subseteq Nat /\ IsFiniteSet(Item)
    /\ ItemPrinter \in [Item -> Printer] /\ ItemStart \in [Item -> BOOLEAN]
    /\ Adopted \subseteq {r \in ItemRecord : r.state # "sending" /\ r.job = NoJob}
    /\ SendKey \subseteq Job
    /\ MaxItems \in Nat
    /\ NoItem \notin Item

\* The upload job that Send now enqueues for an item.
SendOf(i) == [kind |-> "upload", target |-> ItemPrinter[i],
              start |-> ItemStart[i], parent |-> NoJob]

-----------------------------------------------------------------------------
(* Settling items in the transaction that saves their jobs.                  *)

\* trim: queued, sending and error items all stay, and only the newest of the
\* others that fit beside them.
Live(its) == {i \in Item : its[i].state \in {"queued", "sending", "error"}}
Ended(its) == {i \in Item : its[i].state \in {"done", "cancelled"}}

Trimmed(its) ==
    [i \in Item |->
        IF /\ i \in Ended(its)
           /\ Cardinality({k \in Ended(its) : k > i}) + Cardinality(Live(its)) >= MaxItems
        THEN NoItemRow ELSE its[i]]

\* Mutant: an uncertain upload leaves its item alone.
SettlesFinished(r) == IF r.state \in Terminal THEN {"sending", "error"} ELSE {}

\* The item states that a saved job settles.
Settles(r) == IF r.state \in Terminal THEN {"sending", "error"}
              ELSE IF r.state = "reconciliation_required" THEN {"sending"}
              ELSE {}

\* Items whose job the table db has saved in a state that settles them.
ToSettle(db) ==
    {i \in Item : \E j \in Job : /\ items[i].job = j /\ db[j] # rows[j]
                                /\ items[i].state \in Settles(db[j])}

\* Mutant: an upload that ended is taken for one that was sent.
SettledStateAtEnd(r) == IF r.state \in Terminal THEN "done" ELSE "error"

SettledState(r) ==
    IF r.state \in {"succeeded", "uploaded_only"} THEN "done" ELSE "error"

SettledBy(db) ==
    LET its == [i \in Item |->
                  IF i \notin ToSettle(db) THEN items[i]
                  ELSE [items[i] EXCEPT !.text = "other",
                          !.state = SettledState(db[items[i].job])]]
    IN IF ToSettle(db) = {} THEN items ELSE Trimmed(its)

Settled == SettledBy(rows')

-----------------------------------------------------------------------------
(* What the queue reads of its jobs.                                         *)

\* printer_upload_state is None: no row has the job's id.
NodeSent(i) == items[i].job = NoJob \/ items[i].job \in archived

UploadState(i) == IF NodeSent(i) THEN "none" ELSE rows[items[i].job].state

\* owned refuses to read a quarantined row, and so does the whole request.
Readable(i) == UploadState(i) # "quarantined"

Resendable(i) == items[i].state \in {"queued", "error"}

\* Mutant: only the restart's text marks an unknown outcome.
OutcomeUnknownByText(i) == items[i].state = "error" /\ items[i].text = "interrupted"

OutcomeUnknown(i) ==
    /\ items[i].state = "error"
    /\ \/ UploadState(i) = "reconciliation_required"
       \/ UploadState(i) = "none" /\ items[i].text = "interrupted"

\* Mutant: an unresolved upload does not hold its printer.
PrinterBusy(p) ==
    \E j \in Rows(rows, InProgress \cup {"queued"}) : p \in Resource(j)

PrinterReserved(p) ==
    \E j \in Rows(rows, Reserving \cup {"queued"}) : p \in Resource(j)

NodeSendUnresolved(p) ==
    \E i \in Item : /\ ItemPrinter[i] = p /\ NodeSent(i)
                    /\ items[i].state = "error" /\ items[i].text = "interrupted"

\* close_unresolved_upload: a success needs the printer's receipt, and a
\* finished document keeps no unconfirmed one.
ClosedUpload(j, r, printed) ==
    LET told == IF printed THEN "confirmed" ELSE "unresolved"
        d == [r EXCEPT !.effects =
                [i \in Intent |-> IF @[i] = "observed" THEN told ELSE @[i]]]
    IN Saved(IF printed /\ PrimaryReceipt(j, d) # NoIntent THEN Succeeded(j, d)
             ELSE [d EXCEPT !.state = "failed"])

\* release_printer_upload acts on queued and unresolved jobs only.
Releasable(i) == UploadState(i) \in {"queued", "reconciliation_required"}

Close(j, printed) ==
    /\ Put(j, ClosedUpload(j, rows[j], printed))
    /\ reconciled' = IF rows[j].state = "reconciliation_required"
                     THEN reconciled \cup {j} ELSE reconciled
    /\ UNCHANGED <<archived, held, performed>>

-----------------------------------------------------------------------------
(* The user's actions, each one writer transaction.                          *)

Open == phase = "open" /\ UNCHANGED phase

Dispatched(i, j) ==
    [items EXCEPT ![i] = [state |-> "sending", job |-> j, text |-> "other"]]

\* Send now.  The reply to the user carries the fresh job j.
Dispatch(i, j) ==
    /\ Open
    /\ Resendable(i) /\ Readable(i) /\ ~OutcomeUnknown(i)
    /\ \A k \in Item : ItemPrinter[k] = ItemPrinter[i] => items[k].state # "sending"
    /\ ~PrinterReserved(ItemPrinter[i]) /\ ~NodeSendUnresolved(ItemPrinter[i])
    /\ j \in SendKey /\ Request[j] = SendOf(i) /\ Enqueue(j)
    /\ items' = Trimmed(Dispatched(i, j))
    /\ owner' = [owner EXCEPT ![j] = i]
    /\ UNCHANGED denied

Remove(i) ==
    /\ Open
    /\ Resendable(i)
    /\ IF Releasable(i) THEN Close(items[i].job, FALSE) ELSE UNCHANGED vars
    /\ items' = Trimmed([Settled EXCEPT ![i].state = "cancelled", ![i].text = "other"])
    /\ UNCHANGED <<owner, denied>>

Missing(i) ==
    /\ Open
    /\ Resendable(i) /\ Readable(i) /\ ~OutcomeUnknown(i)
    /\ items' = Trimmed([items EXCEPT ![i].state = "error", ![i].text = "other"])
    /\ UNCHANGED <<vars, owner, denied>>

\* The reply reads the item back after the job's save has settled and trimmed.
ReadBack(i, printed) ==
    LET db == [j \in Job |-> IF j = items[i].job
                             THEN ClosedUpload(j, rows[j], printed) ELSE rows[j]]
    IN ~NodeSent(i) => SettledBy(db)[i].state # "absent"

\* Mutant: the answer is taken for whatever send the item has now.
AnswerLatest(i, s, printed) ==
    /\ Open
    /\ Resendable(i) /\ OutcomeUnknown(i)
    /\ IF NodeSent(i) THEN UNCHANGED vars ELSE Close(items[i].job, printed)
    /\ ReadBack(i, printed)
    /\ items' = Trimmed([Settled EXCEPT ![i].text = "other",
                           ![i].state = IF printed THEN "done" ELSE "error"])
    /\ denied' = IF printed THEN denied ELSE denied \cup ({s} \cap Job)
    /\ UNCHANGED owner

\* The user's answer about the send they saw, whose job is s.
Answer(i, s, printed) ==
    /\ Open
    /\ Resendable(i) /\ OutcomeUnknown(i)
    /\ items[i].job = s
    /\ IF NodeSent(i) THEN UNCHANGED vars ELSE Close(items[i].job, printed)
    /\ ReadBack(i, printed)
    /\ items' = Trimmed([Settled EXCEPT ![i].text = "other",
                           ![i].state = IF printed THEN "done" ELSE "error"])
    /\ denied' = IF printed THEN denied ELSE denied \cup ({s} \cap Job)
    /\ UNCHANGED owner

-----------------------------------------------------------------------------
(* The jobs run on their own; each save takes its item along.                *)

\* The unresolved jobs that a generic reconciliation now closes as not printed.
DeniedNow == {j \in Job : rows[j].state = "reconciliation_required" /\ rows'[j].state = "failed"}

\* Nobody else enqueues under a key that Send now draws.
JobStep ==
    /\ Open
    /\ User \/ Retain \/ (\E j \in Job : Expire(j)) \/ (\E w \in Worker : WorkerStep(w))
    /\ \A j \in SendKey : rows[j].state = "absent" => rows'[j].state = "absent"
    /\ items' = Settled
    /\ denied' = denied \cup DeniedNow
    /\ UNCHANGED owner

\* Mutant: job recovery does not settle the items.
RecoverJobsAlone ==
    Restart /\ phase' = "recovered" /\ UNCHANGED <<items, owner, denied>>

\* The first transaction of an open: jobs::recover.  An item whose job comes
\* out unresolved says that the restart interrupted it.
RecoverJobs ==
    /\ Restart
    /\ items' = [i \in Item |->
                   IF i \in ToSettle(rows') /\ rows'[items[i].job].state = "reconciliation_required"
                   THEN [Settled[i] EXCEPT !.text = "interrupted"] ELSE Settled[i]]
    /\ phase' = "recovered"
    /\ UNCHANGED <<owner, denied>>

\* The second: send_queue::recover.  Every sending item was interrupted; an
\* upload that is queued again never starts on its own.
RecoverQueue ==
    /\ phase = "recovered" /\ phase' = "open"
    /\ LET sending  == {i \in Item : items[i].state = "sending"}
           released == {i \in sending : Releasable(i)}
           its == [i \in Item |->
                     IF i \in released
                     THEN [items[i] EXCEPT !.state = "error", !.text = "not_started"]
                     ELSE IF i \in sending
                     THEN [items[i] EXCEPT !.state = "error", !.text = "interrupted"]
                     ELSE items[i]]
       IN /\ rows' = [j \in Job |-> IF \E i \in released : items[i].job = j
                                    THEN ClosedUpload(j, rows[j], FALSE) ELSE rows[j]]
          /\ SavesValid
          /\ items' = IF released = {} THEN its ELSE Trimmed(its)
    /\ UNCHANGED <<archived, reconciled, expired, held, performed, owner, denied>>

QueueInit ==
    /\ Init
    /\ items \in [Item -> Adopted]
    /\ phase = "open"
    /\ owner = [j \in Job |-> NoItem]
    /\ denied = {}

ItemStep(i) ==
    \/ \E j \in Job : Dispatch(i, j)
    \/ Remove(i) \/ Missing(i)
    \/ \E s \in Job \cup {NoJob}, printed \in BOOLEAN : Answer(i, s, printed)

QueueNext ==
    \/ \E i \in Item : ItemStep(i)
    \/ JobStep \/ RecoverJobs \/ RecoverQueue

QueueSpec == QueueInit /\ [][QueueNext]_sqvars

-----------------------------------------------------------------------------
(* Properties.                                                               *)

\* In an open queue an item is never sending without the job that settles it
\* (writes.rs:5-6): the job is in the table and the engine will still end it or find its
\* outcome unknown.
SendingHasJob ==
    \A i \in Item : phase = "open" /\ items[i].state = "sending" =>
        /\ items[i].job \in Job \ archived
        /\ rows[items[i].job].state \in {"queued"} \cup InProgress

\* An item is sending exactly as long as its job may still run, also between the two
\* transactions of an open.  Only a quarantined job leaves its item sending behind it,
\* until the next open.
SendingUntilSettled ==
    /\ \A i \in Item : items[i].state = "sending" =>
          /\ items[i].job \in Job \ archived
          /\ rows[items[i].job].state \in {"queued", "quarantined"} \cup InProgress
    /\ \A j \in Job :
          owner[j] # NoItem /\ rows[j].state \in {"queued"} \cup InProgress =>
              items[owner[j]].job = j /\ items[owner[j]].state = "sending"

\* The queue has at most one send to a printer that is waiting, running or
\* unresolved, counting the ones Node left unresolved.
OneSendPerPrinter ==
    \A p \in Printer :
        Cardinality({j \in Job : /\ rows[j].state \notin {"absent"} \cup Terminal
                                 /\ owner[j] # NoItem /\ Request[j].target = p})
            + (IF NodeSendUnresolved(p) THEN 1 ELSE 0) <= 1

\* A dispatched upload with an unknown outcome is always shown as such by its
\* item, whichever of the engine's paths it took there.
UnresolvedIsShown ==
    \A j \in Job :
        rows[j].state = "reconciliation_required" /\ owner[j] # NoItem =>
            items[owner[j]].job = j /\ OutcomeUnknown(owner[j])

\* Send s did not reach its printer and will not.
Unsent(s) ==
    s # NoJob => /\ \A x \in Intent : performed[s][x] = 0
                 /\ \A w \in Worker : held[w].job = s => held[w].todo = NoIntent

\* An item says "nothing was sent" only if nothing was and nothing will be.
NotStartedIsTrue ==
    \A i \in Item : items[i].text = "not_started" => Unsent(items[i].job)

\* A dispatched item is done only if its upload proved it or a user said so.
DoneIsJustified ==
    \A i \in Item : items[i].state = "done" /\ items[i].job \in Job =>
        \/ rows[items[i].job].state \in {"succeeded", "uploaded_only"}
        \/ items[i].job \in reconciled

\* An item's file reaches its printer at most once, however many jobs were dispatched
\* for it and whatever became of them, except by sends of which a user, asked about
\* exactly that send, said that it did not print.
SentOnce ==
    \A i \in Item :
        Cardinality({j \in Job \ denied : owner[j] = i /\
                        \E x \in Intent : performed[j][x] > 0}) <= 1

=============================================================================
