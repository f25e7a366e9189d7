---------------------------- MODULE NodeSendQueue ----------------------------
(***************************************************************************)
(* The printer send queue of the Node server: the durable rows of the      *)
(* printer.send_queue setting, the in-memory printer-upload jobs that work *)
(* on them, the HTTP handlers that dispatch, drain, cancel and read, the   *)
(* printers, and the server process, which may be shut down or die.        *)
(*                                                                         *)
(* Node runs one callback at a time, so a handler that has started keeps   *)
(* the event loop until it awaits real I/O: a host status, a file          *)
(* transfer.  The variable turn names the handler, or the job, that is in  *)
(* the middle of such a stretch; every other callback of the process waits *)
(* for it, while printers and a crash do not.  Awaits that only wait for a *)
(* settled promise (startJob, jobIsLive, the job's own return) do not give *)
(* the loop away.                                                          *)
(***************************************************************************)
EXTENDS Integers, FiniteSets

CONSTANTS
    Items,          \* the sends that may be queued, numbered in queue order
    Directs,        \* the files of one-shot uploads, which have no queue row
    Printers,
    PrinterOf,      \* the printer of each file
    Waits,          \* the items with wait_for_idle
    Starts,         \* the files whose print is to be started after the upload
    Jobs,           \* the jobs that may be started, in the order of their start
    Reqs,           \* the requests that may be in flight together
    DrainCap,       \* DRAIN_ITEM_CAP
    DefaultTenant,  \* whether the routes register under this queue's tenant
    MaxStops,       \* bound on shutdowns and crashes
    MaxFaults,      \* bound on failed writes and refused jobs
    None

Files == Items \cup Directs

ASSUME SendQueueAssumption ==
    /\ Items \subseteq Nat /\ IsFiniteSet(Items)
    /\ Jobs \subseteq Nat /\ IsFiniteSet(Jobs)
    /\ Items \cap Directs = {}
    /\ PrinterOf \in [Files -> Printers]
    /\ Waits \subseteq Items /\ Starts \subseteq Files
    /\ DrainCap \in Nat /\ MaxStops \in Nat /\ MaxFaults \in Nat
    /\ DefaultTenant \in BOOLEAN
    /\ None \notin Jobs \cup Reqs \cup Files
    /\ Jobs \cap Reqs = {}

VARIABLES
    queue,      \* printer.send_queue: the state and upload_job_id of each row
    staged,     \* the files that are on disk under printer-uploads
    jobs,       \* the runner's printer-upload jobs
    reqs,       \* the dispatch, drain and one-shot handlers in flight
    turn,       \* the handler or job that has the event loop, or None
    up,         \* the server process: "up", "halting" or "down"
    host,       \* what each printer does
    links,      \* the jobs for which a Checkoff link was created
    stops, faults

vars == <<queue, staged, jobs, reqs, turn, up, host, links, stops, faults>>

Active == {"queued", "sending", "error"}
Rows == [state : Active \cup {"absent", "done", "cancelled"}, job : Jobs \cup {None}]

\* phase: "linked" and "cleaned" are a job whose Checkoff link is stored and whose row is
\* not done yet, before and after its file is removed; "gone" is a job the process no
\* longer holds.  by: the kind of handler that started it.  owned: a sending row named the
\* job when it began to run.  answer: what the host has replied, which the process may not
\* have read yet.  cut, a history: the job failed or died after its link was stored.
Answers == {"none", "stored", "started", "refused", "failed"}
Closing == {"linked", "cleaned"}
Busy == {"pending", "uploading"} \cup Closing
JobRecords == [phase : {"unused", "done", "error", "gone"} \cup Busy,
               file : Files \cup {None},
               by : {"none", "dispatch", "drain", "direct"},
               forced : BOOLEAN, owned : BOOLEAN, answer : Answers, cut : BOOLEAN]
UnusedJob == [phase |-> "unused", file |-> None, by |-> "none",
              forced |-> FALSE, owned |-> FALSE, answer |-> "none", cut |-> FALSE]

Requests == [pc : {"idle", "loop", "probing", "probed", "claimed"},
             kind : {"none", "dispatch", "drain", "direct"},
             force : BOOLEAN, todo : SUBSET Files, used : SUBSET Printers,
             seen : {"none", "idle", "printing", "offline"}]
IdleReq == [pc |-> "idle", kind |-> "none", force |-> FALSE,
            todo |-> {}, used |-> {}, seen |-> "none"]

Init ==
    /\ queue = [i \in Items |-> [state |-> "absent", job |-> None]]
    /\ staged = {}
    /\ jobs = [j \in Jobs |-> UnusedJob]
    /\ reqs = [r \in Reqs |-> IdleReq]
    /\ turn = None
    /\ up = "up"
    /\ host = [p \in Printers |-> "idle"]
    /\ links = {}
    /\ stops = 0
    /\ faults = 0

-----------------------------------------------------------------------------
(* Rows and jobs.                                                          *)

\* Mutant: a job counts as live only while it waits to run.
InMemoryPending(j) == jobs[j].phase \in {"pending", "done", "error"}

InMemory(j) == jobs[j].phase \in Busy \cup {"done", "error"}

\* The next job id: ids are fresh, and their order is the order of the starts.
Fresh(j) == /\ jobs[j].phase = "unused"
            /\ \A k \in Jobs : k < j => jobs[k].phase # "unused"

\* Mutant: a job the process does not hold is taken to have ended well.
ReconcileLiveDone(q) ==
    [i \in Items |->
        IF q[i].state = "sending" /\ q[i].job # None /\ ~InMemory(q[i].job)
        THEN [q[i] EXCEPT !.state = "done"] ELSE q[i]]

\* Every sending row whose job the process does not hold becomes an error.  A row
\* without a job id is skipped.
ReconcileLive(q) ==
    [i \in Items |->
        IF q[i].state = "sending" /\ q[i].job # None /\ ~InMemory(q[i].job)
        THEN [q[i] EXCEPT !.state = "error"] ELSE q[i]]

\* At shutdown and start every sending row becomes an error.
InterruptInFlight(q) ==
    [i \in Items |-> IF q[i].state = "sending" THEN [q[i] EXCEPT !.state = "error"] ELSE q[i]]

\* Mutant: the row is not required to be sending.
ReconcileResultAny(q, j, state) ==
    [i \in Items |-> IF q[i].job = j THEN [q[i] EXCEPT !.state = state] ELSE q[i]]

\* The outcome of job j reaches the sending row that names it.
ReconcileResult(q, j, state) ==
    [i \in Items |-> IF q[i].state = "sending" /\ q[i].job = j
                     THEN [q[i] EXCEPT !.state = state] ELSE q[i]]

NoOtherSending(q, i) ==
    \A k \in Items \ {i} : ~(q[k].state = "sending" /\ PrinterOf[k] = PrinterOf[i])

\* The item the handler is working on: the first of those it has left.
Current(r) == CHOOSE i \in reqs[r].todo : \A k \in reqs[r].todo \cap Items : i <= k

\* Bound: a handler is admitted only while there are jobs left for all that is in flight.
JobsLeft(n) ==
    Cardinality({j \in Jobs : jobs[j].phase = "unused"})
        >= n + Cardinality(UNION {{r} \X reqs[r].todo : r \in Reqs})

Serving == up # "down"
LoopFree == Serving /\ turn = None

-----------------------------------------------------------------------------
(* The queue's routes.                                                     *)

\* POST /printer-send-queue.
Enqueue(i) ==
    /\ up = "up" /\ turn = None
    /\ queue[i].state = "absent"
    /\ \A k \in Items : k < i => queue[k].state # "absent"
    /\ queue' = [queue EXCEPT ![i].state = "queued"]
    /\ staged' = staged \cup {i}
    /\ UNCHANGED <<jobs, reqs, turn, up, host, links, stops, faults>>

\* DELETE /printer-send-queue/:id.
Cancel(i) ==
    /\ up = "up" /\ turn = None
    /\ queue[i].state \in {"queued", "error"}
    /\ queue' = [queue EXCEPT ![i].state = "cancelled"]
    /\ staged' = staged \ {i}
    /\ UNCHANGED <<jobs, reqs, turn, up, host, links, stops, faults>>

\* GET /printer-send-queue.
ReadQueue ==
    /\ up = "up" /\ turn = None
    /\ queue' = ReconcileLive(queue)
    /\ UNCHANGED <<staged, jobs, reqs, turn, up, host, links, stops, faults>>

\* GET /jobs/:id of a job this process does not hold.
ReadMissingJob(j) ==
    /\ up = "up" /\ turn = None
    /\ jobs[j].phase = "gone"
    /\ queue' = ReconcileResult(queue, j, "error")
    /\ UNCHANGED <<staged, jobs, reqs, turn, up, host, links, stops, faults>>

\* POST /printer-send-queue/:id/dispatch.
BeginDispatch(r, i, force) ==
    /\ up = "up" /\ turn = None
    /\ reqs[r].pc = "idle" /\ JobsLeft(1)
    /\ queue[i].state # "absent"
    /\ queue' = ReconcileLive(queue)
    /\ reqs' = [reqs EXCEPT ![r] = [IdleReq EXCEPT !.pc = "loop", !.kind = "dispatch",
                                                   !.force = force, !.todo = {i}]]
    /\ turn' = r
    /\ UNCHANGED <<staged, jobs, up, host, links, stops, faults>>

\* Mutant: a drain picks failed rows as well.
DrainActive(q) ==
    LET waiting == {i \in Items : q[i].state \in {"queued", "error"}}
    IN  {i \in waiting : Cardinality({k \in waiting : k < i}) < DrainCap}

\* The queued rows a drain will try, in queue order, at most DrainCap of them.
DrainItems(q) ==
    LET waiting == {i \in Items : q[i].state = "queued"}
    IN  {i \in waiting : Cardinality({k \in waiting : k < i}) < DrainCap}

\* POST /printer-send-queue/drain.
BeginDrain(r) ==
    /\ up = "up" /\ turn = None
    /\ reqs[r].pc = "idle"
    /\ queue' = ReconcileLive(queue)
    /\ DrainItems(queue') # {} /\ JobsLeft(Cardinality(DrainItems(queue')))
    /\ reqs' = [reqs EXCEPT ![r] = [IdleReq EXCEPT !.pc = "loop", !.kind = "drain",
                                                   !.todo = DrainItems(queue')]]
    /\ turn' = r
    /\ UNCHANGED <<staged, jobs, up, host, links, stops, faults>>

\* The claim: sending, if the row is still queued or an error and no other row is being
\* sent to its printer.  The old job id stays on the row until the new one is stored.
Claim(r, i) ==
    IF queue[i].state \in {"queued", "error"} /\ NoOtherSending(queue, i)
    THEN /\ queue' = [queue EXCEPT ![i].state = "sending"]
         /\ reqs' = [reqs EXCEPT ![r].pc = "claimed"]
         /\ turn' = r
    ELSE /\ reqs' = [reqs EXCEPT ![r].pc = "loop", ![r].todo = @ \ {i}]
         /\ turn' = r
         /\ UNCHANGED queue

\* Whether a host status is awaited first: a drain forces the items that do not wait.
Probes(r, i) == i \in Waits /\ ~reqs[r].force

\* dispatchPrinterSendQueueItem up to its first await, for the next item of the handler.
DispatchNext(r) ==
    /\ Serving /\ turn = r
    /\ reqs[r].pc = "loop" /\ reqs[r].todo # {}
    /\ LET i == Current(r)
           next == [reqs EXCEPT ![r].todo = @ \ {i}]
       IN  \/ /\ queue[i].state \notin {"queued", "error"}
              /\ reqs' = next
              /\ UNCHANGED <<queue, turn>>
           \/ /\ queue[i].state \in {"queued", "error"} /\ i \notin staged
              /\ queue' = [queue EXCEPT ![i].state = "error"]
              /\ reqs' = next
              /\ UNCHANGED turn
           \/ /\ queue[i].state \in {"queued", "error"} /\ i \in staged
              /\ PrinterOf[i] \in reqs[r].used
              /\ reqs' = next
              /\ UNCHANGED <<queue, turn>>
           \/ /\ queue[i].state \in {"queued", "error"} /\ i \in staged
              /\ PrinterOf[i] \notin reqs[r].used
              /\ IF Probes(r, i)
                 THEN /\ reqs' = [reqs EXCEPT ![r].pc = "probing"]
                      /\ turn' = None
                      /\ UNCHANGED queue
                 ELSE Claim(r, i)
    /\ UNCHANGED <<staged, jobs, up, host, links, stops, faults>>

\* The handler has nothing left to do and answers.
Finish(r) ==
    /\ Serving /\ turn = r
    /\ reqs[r].pc = "loop" /\ reqs[r].todo = {}
    /\ reqs' = [reqs EXCEPT ![r] = IdleReq]
    /\ turn' = None
    /\ UNCHANGED <<queue, staged, jobs, up, host, links, stops, faults>>

\* The host answers a status request, or cannot be reached.
HostStatus(r) ==
    /\ reqs[r].pc = "probing"
    /\ \E seen \in {host[PrinterOf[Current(r)]], "offline"} :
           reqs' = [reqs EXCEPT ![r].pc = "probed", ![r].seen = seen]
    /\ UNCHANGED <<queue, staged, jobs, turn, up, host, links, stops, faults>>

\* dispatchPrinterSendQueueItem after the status has arrived.
ProbeReturns(r) ==
    /\ LoopFree
    /\ reqs[r].pc = "probed" /\ reqs[r].kind # "direct"
    /\ LET i == Current(r)
       IN  IF reqs[r].seen = "idle"
           THEN Claim(r, i)
           ELSE /\ reqs' = [reqs EXCEPT ![r].pc = "loop", ![r].todo = @ \ {i}]
                /\ turn' = r
                /\ UNCHANGED queue
    /\ UNCHANGED <<staged, jobs, up, host, links, stops, faults>>

NewJob(r, f) == [UnusedJob EXCEPT !.phase = "pending", !.file = f,
                                  !.by = reqs[r].kind, !.forced = reqs[r].force]

\* The claimed row's job is started and its id stored.
StartClaimed(r) ==
    /\ Serving /\ turn = r
    /\ reqs[r].pc = "claimed"
    /\ LET i == Current(r)
       IN  /\ \E j \in Jobs : /\ Fresh(j)
                              /\ jobs' = [jobs EXCEPT ![j] = NewJob(r, i)]
                              /\ queue' = [queue EXCEPT ![i].job = j]
           /\ reqs' = [reqs EXCEPT ![r].pc = "loop", ![r].todo = @ \ {i},
                                   ![r].used = @ \cup {PrinterOf[i]}]
    /\ UNCHANGED <<staged, turn, up, host, links, stops, faults>>

\* The job is refused, or it is started and its id cannot be stored: the row is an error.
StartClaimedFails(r) ==
    /\ Serving /\ turn = r
    /\ reqs[r].pc = "claimed"
    /\ faults < MaxFaults
    /\ faults' = faults + 1
    /\ LET i == Current(r)
       IN  /\ \/ UNCHANGED jobs
              \/ \E j \in Jobs : Fresh(j) /\ jobs' = [jobs EXCEPT ![j] = NewJob(r, i)]
           /\ queue' = [queue EXCEPT ![i].state = "error"]
           /\ reqs' = [reqs EXCEPT ![r].pc = "loop", ![r].todo = @ \ {i}]
    /\ UNCHANGED <<staged, turn, up, host, links, stops>>

-----------------------------------------------------------------------------
(* POST /jobs/printer-upload: a one-shot upload that has no row.           *)

BeginDirect(r, f) ==
    /\ up = "up" /\ turn = None
    /\ reqs[r].pc = "idle" /\ JobsLeft(1)
    /\ \A j \in Jobs : jobs[j].file # f
    /\ \A s \in Reqs : f \notin reqs[s].todo
    /\ staged' = staged \cup {f}
    /\ reqs' = [reqs EXCEPT ![r] = [IdleReq EXCEPT !.kind = "direct", !.todo = {f},
                   !.pc = IF f \in Starts THEN "probing" ELSE "probed",
                   !.seen = IF f \in Starts THEN "none" ELSE "idle"]]
    /\ UNCHANGED <<queue, jobs, turn, up, host, links, stops, faults>>

\* The upload is started when the printer was idle, and its file removed otherwise.
DirectProceeds(r) ==
    /\ LoopFree
    /\ reqs[r].pc = "probed" /\ reqs[r].kind = "direct"
    /\ \E f \in reqs[r].todo :
           IF reqs[r].seen = "idle"
           THEN /\ \E j \in Jobs : Fresh(j) /\ jobs' = [jobs EXCEPT ![j] = NewJob(r, f)]
                /\ UNCHANGED staged
           ELSE /\ staged' = staged \ {f}
                /\ UNCHANGED jobs
    /\ reqs' = [reqs EXCEPT ![r] = IdleReq]
    /\ UNCHANGED <<queue, turn, up, host, links, stops, faults>>

-----------------------------------------------------------------------------
(* The printer-upload job: runJob, runPrinterUpload, runPrinterUploadJob.  *)

\* queueSendRow: the active row that names the job.
Named(j) == {i \in Items : queue[i].job = j /\ queue[i].state \in Active}
NamedSending(j) == {i \in Named(j) : queue[i].state = "sending"}

\* Mutant: shutdown does not halt uploads.
NeverHalted == FALSE

\* printerUploadsAreHalted.
Halted == up = "halting"

\* Mutant: a failed upload always removes its file.
FailsAndCleans(j, owned, began) ==
    /\ jobs' = [jobs EXCEPT ![j].phase = "error", ![j].owned = owned]
    /\ queue' = ReconcileResult(queue, j, "error")
    /\ staged' = IF began /\ ~Halted THEN staged \ {jobs[j].file} ELSE staged
    /\ UNCHANGED links

\* The job throws: its error is published and the sending row that names it becomes an
\* error.  An upload without a row removes its file, unless the process is stopping or
\* the job was refused before it began.
Fails(j, owned, began) ==
    /\ jobs' = [jobs EXCEPT ![j].phase = "error", ![j].owned = owned]
    /\ queue' = ReconcileResult(queue, j, "error")
    /\ staged' = IF began /\ ~owned /\ ~Halted THEN staged \ {jobs[j].file} ELSE staged
    /\ UNCHANGED links

\* setImmediate(runJob): everything before the transfer is awaited.  The printer, the
\* host or the feature may have been taken away, and then the job fails.
RunJob(j) ==
    /\ LoopFree
    /\ jobs[j].phase = "pending"
    /\ LET owned == NamedSending(j) # {}
       IN  \/ /\ Named(j) # {} /\ ~owned
              /\ Fails(j, FALSE, FALSE)
           \/ /\ Named(j) = {} \/ owned
              /\ Fails(j, owned, TRUE)
           \/ /\ Named(j) = {} \/ owned
              /\ ~Halted
              /\ jobs' = [jobs EXCEPT ![j].phase = "uploading", ![j].owned = owned]
              /\ UNCHANGED <<queue, staged, links>>
    /\ UNCHANGED <<reqs, turn, up, host, stops, faults>>

\* The host receives the file and, when asked, starts the print; a printer that is
\* printing refuses the start, which is still a successful upload.  The reply may be
\* lost after the effect.  Without the file, or without the host, there is no effect.
HostUpload(j) ==
    /\ jobs[j].phase = "uploading" /\ jobs[j].answer = "none"
    /\ LET f == jobs[j].file
           p == PrinterOf[f]
           effect == IF f \notin Starts THEN "stored"
                     ELSE IF host[p] = "idle" THEN "started" ELSE "refused"
       IN  \/ /\ f \in staged
              /\ \E answer \in {effect, "failed"} :
                     jobs' = [jobs EXCEPT ![j].answer = answer]
              /\ host' = IF effect = "started" THEN [host EXCEPT ![p] = "printing"] ELSE host
           \/ /\ jobs' = [jobs EXCEPT ![j].answer = "failed"]
              /\ UNCHANGED host
    /\ UNCHANGED <<queue, staged, reqs, turn, up, links, stops, faults>>

\* The send was lost while the file travelled: its row is no longer the sending row it was.
LostSend(j) == IF jobs[j].owned THEN NamedSending(j) = {} ELSE Named(j) # NamedSending(j)

\* One write fails, and the job with it.  Its row becomes an error if that write works.
WriteFails(j, cut) ==
    /\ faults < MaxFaults
    /\ faults' = faults + 1
    /\ jobs' = [jobs EXCEPT ![j].phase = "error", ![j].cut = cut]
    /\ queue' \in {queue, ReconcileResult(queue, j, "error")}

\* The transfer's reply is read.  On success the link is stored, in a transaction of its
\* own, and the job keeps the event loop until its row is written.
UploadReturns(j) ==
    /\ LoopFree
    /\ jobs[j].phase = "uploading" /\ jobs[j].answer # "none"
    /\ \/ /\ jobs[j].answer = "failed" \/ Halted \/ LostSend(j)
          /\ Fails(j, jobs[j].owned, TRUE)
          /\ UNCHANGED <<turn, faults>>
       \/ /\ jobs[j].answer # "failed" /\ ~Halted /\ ~LostSend(j)
          /\ jobs' = [jobs EXCEPT ![j].phase = "linked"]
          /\ links' = links \cup {j}
          /\ turn' = j
          /\ UNCHANGED <<queue, staged, faults>>
       \/ /\ jobs[j].answer # "failed" /\ ~Halted /\ ~LostSend(j)
          /\ WriteFails(j, FALSE)
          /\ staged' = IF jobs[j].owned THEN staged ELSE staged \ {jobs[j].file}
          /\ UNCHANGED <<links, turn>>
    /\ UNCHANGED <<reqs, up, host, stops>>

\* The sent file is removed.
CleanUp(j) ==
    /\ Serving /\ turn = j
    /\ jobs[j].phase = "linked"
    /\ jobs' = [jobs EXCEPT ![j].phase = "cleaned"]
    /\ staged' = staged \ {jobs[j].file}
    /\ UNCHANGED <<queue, reqs, turn, up, host, links, stops, faults>>

\* The job is done, and in a later transaction the row that names it.
FinishJob(j) ==
    /\ Serving /\ turn = j
    /\ jobs[j].phase = "cleaned"
    /\ turn' = None
    /\ \/ /\ jobs' = [jobs EXCEPT ![j].phase = "done"]
          /\ queue' = ReconcileResult(queue, j, "done")
          /\ UNCHANGED faults
       \/ WriteFails(j, TRUE)
    /\ UNCHANGED <<staged, reqs, up, host, links, stops>>

\* A finished job is pruned from memory.
Prune(j) ==
    /\ LoopFree
    /\ jobs[j].phase \in {"done", "error"}
    /\ jobs' = [jobs EXCEPT ![j].phase = "gone"]
    /\ UNCHANGED <<queue, staged, reqs, turn, up, host, links, stops, faults>>

\* A print ends.
PrintEnds(p) ==
    /\ host[p] = "printing"
    /\ host' = [host EXCEPT ![p] = "idle"]
    /\ UNCHANGED <<queue, staged, jobs, reqs, turn, up, links, stops, faults>>

-----------------------------------------------------------------------------
(* The process.                                                            *)

\* SIGTERM: uploads are halted and every sending row is marked interrupted, then the
\* server drains the requests it still has.
Shutdown ==
    /\ up = "up" /\ turn = None
    /\ stops < MaxStops
    /\ stops' = stops + 1
    /\ up' = "halting"
    /\ queue' = InterruptInFlight(queue)
    /\ UNCHANGED <<staged, jobs, reqs, turn, host, links, faults>>

Stopped ==
    /\ up' = "down"
    /\ turn' = None
    /\ jobs' = [j \in Jobs |->
                   IF InMemory(j)
                   THEN [jobs[j] EXCEPT !.phase = "gone", !.cut = @ \/ jobs[j].phase \in Closing]
                   ELSE jobs[j]]
    /\ reqs' = [r \in Reqs |-> IdleReq]

Exit ==
    /\ up = "halting"
    /\ Stopped
    /\ UNCHANGED <<queue, staged, host, links, stops, faults>>

\* The process dies, also between two writes of one handler.
Crash ==
    /\ up = "up"
    /\ stops < MaxStops
    /\ stops' = stops + 1
    /\ Stopped
    /\ UNCHANGED <<queue, staged, host, links, faults>>

\* Mutant: a new process does not look at the queue.
RestartForgets ==
    /\ up = "down"
    /\ up' = "up"
    /\ UNCHANGED <<queue, staged, jobs, reqs, turn, host, links, stops, faults>>

\* A new process registers its routes and reconciles the queue of the tenant it runs as.
Restart ==
    /\ up = "down"
    /\ up' = "up"
    /\ queue' = IF DefaultTenant THEN InterruptInFlight(queue) ELSE queue
    /\ UNCHANGED <<staged, jobs, reqs, turn, host, links, stops, faults>>

-----------------------------------------------------------------------------
HandlerStep(r) == DispatchNext(r) \/ Finish(r) \/ HostStatus(r) \/ ProbeReturns(r)
                  \/ StartClaimed(r) \/ StartClaimedFails(r) \/ DirectProceeds(r)
JobStep(j) == RunJob(j) \/ HostUpload(j) \/ UploadReturns(j) \/ CleanUp(j) \/ FinishJob(j)

Next ==
    \/ \E i \in Items : Enqueue(i) \/ Cancel(i)
    \/ ReadQueue
    \/ \E r \in Reqs : \/ \E i \in Items, force \in BOOLEAN : BeginDispatch(r, i, force)
                       \/ BeginDrain(r)
                       \/ \E f \in Directs : BeginDirect(r, f)
                       \/ HandlerStep(r)
    \/ \E j \in Jobs : JobStep(j) \/ Prune(j) \/ ReadMissingJob(j)
    \/ \E p \in Printers : PrintEnds(p)
    \/ Shutdown \/ Exit \/ Crash \/ Restart

Spec == Init /\ [][Next]_vars

\* The event loop serves every callback that is due, hosts answer or time out, and the
\* server is started again.
Fairness ==
    /\ \A r \in Reqs : SF_vars(HandlerStep(r))
    /\ \A j \in Jobs : SF_vars(JobStep(j))
    /\ WF_vars(Exit) /\ WF_vars(Restart)

FairSpec == Spec /\ Fairness
-----------------------------------------------------------------------------
(* Properties.                                                             *)

\* The rows, the jobs and the handlers hold only what the process may write.
TypeOK ==
    /\ queue \in [Items -> Rows]
    /\ staged \subseteq Files
    /\ jobs \in [Jobs -> JobRecords]
    /\ reqs \in [Reqs -> Requests]
    /\ turn \in Reqs \cup Jobs \cup {None}
    /\ up \in {"up", "halting", "down"}
    /\ host \in [Printers -> {"idle", "printing"}]
    /\ links \subseteq Jobs
    /\ stops \in 0 .. MaxStops /\ faults \in 0 .. MaxFaults

\* At most one row is being sent to a printer (requireNoSendingForPrinter), whatever
\* dispatches and drains overlap and whatever status each of them has waited for.
OneSendPerPrinter ==
    \A i, k \in Items : /\ queue[i].state = "sending" /\ queue[k].state = "sending"
                        /\ PrinterOf[i] = PrinterOf[k]
                        => i = k

\* At most one queued file is being transferred to a printer: the row that let the
\* transfer begin may be interrupted under it by a shutdown and claimed again by a
\* dispatch that was waiting for a status, and still no second transfer begins.
OneTransferPerPrinter ==
    \A j, k \in Jobs : /\ jobs[j].phase = "uploading" /\ jobs[k].phase = "uploading"
                       /\ jobs[j].owned /\ jobs[k].owned
                       /\ PrinterOf[jobs[j].file] = PrinterOf[jobs[k].file]
                       => j = k

\* The jobs whose link is stored and that went on to their end.
Completed == {j \in links : ~jobs[j].cut /\ jobs[j].phase \notin Closing}

\* What the queue says was sent and what Progress will ask the user to verify are the same
\* sends: a row is done exactly when its last job stored a Checkoff link, except that the
\* process may die, or a write fail, between the link's transaction and the row's.
DoneIffLinked ==
    \A i \in Items : queue[i].state = "done" <=> queue[i].job \in Completed

\* No send is marked successful unless the host accepted its file.
DoneIsTrue ==
    \A i \in Items : queue[i].state = "done" =>
        /\ queue[i].job \in links
        /\ jobs[queue[i].job].answer \in {"stored", "started", "refused"}

\* A queued or failed send keeps its staged file, so that it can be sent again, unless
\* the file has reached the host (background-work-guarantees.md:31).
FileKept ==
    \A i \in Items : queue[i].state \in {"queued", "sending", "error"} /\ i \notin staged
        => \E j \in links : jobs[j].file = i

\* In a running process a row is sending only while a handler is about to start its job
\* or the job is in memory and has not ended: a row never waits for an answer that will
\* not come.
SendingIsWorkedOn ==
    \A i \in Items : up # "down" /\ queue[i].state = "sending" =>
        \/ \E r \in Reqs : reqs[r].pc = "claimed" /\ Current(r) = i
        \/ /\ queue[i].job # None
           /\ jobs[queue[i].job].phase \in Busy

\* A print is not repeated on its own (background-work-guarantees.md:29): a job a drain
\* starts is the first job of its row.
NotRepeatedOnItsOwn ==
    \A j, k \in Jobs : /\ jobs[j].file = jobs[k].file /\ jobs[j].file # None
                       /\ jobs[k].by = "drain"
                       => k <= j

\* Once shutdown has halted uploads nothing more becomes done and no link is created.
HaltRefusesSuccess ==
    [][up = "halting" =>
           /\ links' = links
           /\ \A i \in Items : queue'[i].state = "done" => queue[i].state = "done"]_vars

\* Every send is resolved: the row stops being sending, across shutdowns and crashes.
SendResolves == \A i \in Items : queue[i].state = "sending" ~> queue[i].state # "sending"
=============================================================================
