------------------------ MODULE NodeSendQueueProofs ------------------------
(***************************************************************************)
(* What holds of the Node server's send queue for any files, printers,     *)
(* jobs, requests in flight, shutdowns, crashes and failed writes.         *)
(***************************************************************************)
EXTENDS NodeSendQueue, WellFoundedInduction, TLAPS

\* A handler that waits or has claimed has an item to work on, and only a one-shot
\* upload works on a file without a row.
AtWork ==
    \A r \in Reqs :
        /\ reqs[r].pc \in {"probing", "probed", "claimed"} => reqs[r].todo # {}
        /\ reqs[r].pc \in {"loop", "claimed"} => reqs[r].kind # "direct"
        /\ reqs[r].kind # "direct" => reqs[r].todo \subseteq Items
        /\ reqs[r].kind = "direct" => reqs[r].todo \subseteq Directs

\* A handler keeps the event loop between its claim and the start of its job, so the row
\* it claimed is still sending.
ClaimHolds ==
    \A r \in Reqs : reqs[r].pc = "claimed" => turn = r /\ queue[Current(r)].state = "sending"

\* A job that made its link has only its row left to write, or has ended, and the host
\* answered it.
Linked == Closing \cup {"done", "error", "gone"}
LinksAnswered ==
    \A j \in links : /\ jobs[j].phase \in Linked
                     /\ jobs[j].answer \in {"stored", "started", "refused"}

\* A job keeps the event loop between its link and the write of its row, and only a job
\* that has ended was cut short there.
ClosingHolds ==
    \A j \in Jobs :
        /\ jobs[j].phase \in Closing => turn = j /\ up = "up" /\ j \in links
        /\ jobs[j].cut => jobs[j].phase \in {"error", "gone"}

\* A row names a job of its own, and a job that a row let begin has that row's file.
JobRows ==
    /\ \A i \in Items : queue[i].job # None =>
           jobs[queue[i].job].file = i /\ jobs[queue[i].job].phase # "unused"
    /\ \A j \in Jobs : jobs[j].owned => jobs[j].file \in Items
    /\ \A j \in Jobs : jobs[j].phase # "unused" => jobs[j].file \in Files

\* A process that is down runs no handler and holds no job.
StoppedIsEmpty ==
    up = "down" => /\ turn = None
                   /\ \A r \in Reqs : reqs[r] = IdleReq
                   /\ \A j \in Jobs : ~InMemory(j)

IInv == /\ TypeOK /\ AtWork /\ ClaimHolds /\ LinksAnswered /\ ClosingHolds /\ JobRows
        /\ StoppedIsEmpty /\ OneSendPerPrinter /\ DoneIsTrue

-----------------------------------------------------------------------------
(* The item of a handler.                                                  *)

LEMMA FirstOf ==
    ASSUME NEW S, S \subseteq Nat, S # {}
    PROVE  \E x \in S : \A y \in S : x <= y
  <1> DEFINE Less == {ss \in Nat \X Nat : ss[1] < ss[2]}
  <1>1. IsWellFoundedOn(Less, Nat)
    BY NatLessThanWellFounded DEF OpToRel
  <1>2. PICK x \in S : \A y \in S : ~(<<y, x>> \in Less)
    <2> HIDE DEF Less
    <2> QED BY <1>1, WFMin
  <1>3. ASSUME NEW y \in S PROVE x <= y
    <2>1. ~(<<y, x>> \in Less)
      BY <1>2
    <2>2. <<y, x>> \in Nat \X Nat /\ <<y, x>>[1] = y /\ <<y, x>>[2] = x
      OBVIOUS
    <2>3. ~(y < x)
      BY <2>1, <2>2
    <2> QED BY <2>3
  <1> QED BY <1>3

LEMMA CurrentIsFirst ==
    ASSUME NEW r \in Reqs, reqs[r].todo # {}
    PROVE  Current(r) \in reqs[r].todo
  <1>1. \E i \in reqs[r].todo : \A k \in reqs[r].todo \cap Items : i <= k
    <2>1. CASE reqs[r].todo \cap Items = {}
      BY <2>1
    <2>2. CASE reqs[r].todo \cap Items # {}
      BY <2>2, FirstOf, SendQueueAssumption
    <2> QED BY <2>1, <2>2
  <1> QED BY <1>1 DEF Current

\* A handler whose list is unchanged works on the same item.
LEMMA CurrentKept ==
    ASSUME NEW r \in Reqs, reqs'[r].todo = reqs[r].todo
    PROVE  Current(r)' = Current(r)
  BY DEF Current

-----------------------------------------------------------------------------
(* What a reconciliation does to the rows.                                 *)

LEMMA Reconciled ==
    ASSUME queue \in [Items -> Rows], NEW j \in Jobs, NEW state \in {"done", "error"}
    PROVE  /\ ReconcileLive(queue) \in [Items -> Rows]
           /\ InterruptInFlight(queue) \in [Items -> Rows]
           /\ ReconcileResult(queue, j, state) \in [Items -> Rows]
  BY DEF ReconcileLive, InterruptInFlight, ReconcileResult, Rows, Active

LEMMA NewJobTyped ==
    ASSUME TypeOK, NEW r \in Reqs, NEW f \in Files
    PROVE  /\ NewJob(r, f) \in JobRecords
           /\ NewJob(r, f).phase = "pending" /\ NewJob(r, f).file = f
           /\ ~NewJob(r, f).owned /\ ~NewJob(r, f).cut
  <1>1. reqs[r] \in Requests
    BY DEF TypeOK
  <1> QED BY <1>1 DEF NewJob, UnusedJob, JobRecords, Requests, Answers, Busy

-----------------------------------------------------------------------------
(* Steps that at most release rows, advance jobs and move handlers.        *)

\* Rows may stop being sending, and nothing else of them changes to done or to sending.
Released(q) ==
    /\ q \in [Items -> Rows]
    /\ \A i \in Items : /\ q[i].job = queue[i].job
                        /\ q[i].state = "sending" => queue[i].state = "sending"
                        /\ q[i].state = "done" => queue[i].state = "done"

LEMMA ReleasedByReconcile ==
    ASSUME queue \in [Items -> Rows], NEW j \in Jobs
    PROVE  /\ Released(queue)
           /\ Released(ReconcileLive(queue)) /\ Released(InterruptInFlight(queue))
           /\ Released(ReconcileResult(queue, j, "error"))
  <1>1. Released(queue)
    BY DEF Released
  <1>2. Released(ReconcileLive(queue))
    BY Reconciled DEF Released, ReconcileLive, Rows
  <1>3. Released(InterruptInFlight(queue))
    BY Reconciled DEF Released, InterruptInFlight, Rows
  <1>4. Released(ReconcileResult(queue, j, "error"))
    BY Reconciled DEF Released, ReconcileResult, Rows
  <1> QED BY <1>1, <1>2, <1>3, <1>4

\* Jobs keep their file, stay started, and keep the host's answer once they have ended.
JobsProceed ==
    /\ jobs' \in [Jobs -> JobRecords]
    /\ \A j \in Jobs :
           /\ jobs[j].phase # "unused" =>
                  jobs'[j].file = jobs[j].file /\ jobs'[j].phase # "unused"
           /\ jobs[j].phase \in Linked =>
                  jobs'[j].phase \in Linked /\ jobs'[j].answer = jobs[j].answer
           /\ jobs'[j].phase \in Closing => jobs[j].phase \in Closing
           /\ jobs'[j].cut => jobs'[j].phase \in {"error", "gone"}
           /\ jobs'[j].owned => jobs'[j].file \in Items
           /\ jobs'[j].phase # "unused" => jobs'[j].file \in Files

\* The handlers are well formed and none holds a claim.
HandlersFit ==
    /\ reqs' \in [Reqs -> Requests] /\ turn' \in Reqs \cup {None}
    /\ AtWork'
    /\ \A r \in Reqs : reqs'[r].pc # "claimed"

LEMMA JobsStay == ASSUME IInv, UNCHANGED jobs PROVE JobsProceed
  BY DEF IInv, TypeOK, JobRows, ClosingHolds, JobsProceed

LEMMA HandlersStay ==
    ASSUME IInv, turn = None, UNCHANGED <<reqs, turn>> PROVE HandlersFit
  BY SendQueueAssumption DEF IInv, TypeOK, AtWork, ClaimHolds, HandlersFit

LEMMA OrdinaryStep ==
    ASSUME IInv, Released(queue'), JobsProceed, HandlersFit, StoppedIsEmpty',
           \A j \in Jobs : jobs'[j].phase \notin Closing,
           UNCHANGED links, staged' \subseteq Files, up' \in {"up", "halting", "down"},
           host' \in [Printers -> {"idle", "printing"}],
           stops' \in 0 .. MaxStops, faults' \in 0 .. MaxFaults
    PROVE  IInv'
  <1>1. TypeOK'
    BY DEF IInv, TypeOK, Released, JobsProceed, HandlersFit
  <1>2. AtWork' /\ ClaimHolds'
    BY DEF ClaimHolds, HandlersFit
  <1>3. LinksAnswered'
    BY DEF IInv, TypeOK, LinksAnswered, JobsProceed
  <1>7. ClosingHolds'
    BY DEF ClosingHolds, JobsProceed
  <1>4. JobRows'
    <2>1. ASSUME NEW i \in Items, queue'[i].job # None
          PROVE  jobs'[queue'[i].job].file = i /\ jobs'[queue'[i].job].phase # "unused"
      <3>1. queue'[i].job = queue[i].job /\ queue[i].job \in Jobs
        BY <2>1 DEF Released, IInv, TypeOK, Rows
      <3> QED BY <2>1, <3>1 DEF IInv, JobRows, JobsProceed
    <2> QED BY <2>1 DEF JobRows, JobsProceed
  <1>5. OneSendPerPrinter'
    BY DEF IInv, OneSendPerPrinter, Released
  <1>6. DoneIsTrue'
    <2>1. ASSUME NEW i \in Items, queue'[i].state = "done"
          PROVE  /\ queue'[i].job \in links
                 /\ jobs'[queue'[i].job].answer \in {"stored", "started", "refused"}
      <3>1. queue[i].state = "done" /\ queue'[i].job = queue[i].job
        BY <2>1 DEF Released
      <3>2. queue[i].job \in links
        BY <3>1 DEF IInv, DoneIsTrue
      <3> QED BY <3>1, <3>2, <1>3 DEF LinksAnswered
    <2> QED BY <2>1 DEF DoneIsTrue
  <1> QED BY <1>1, <1>2, <1>3, <1>4, <1>5, <1>6, <1>7 DEF IInv

\* While no job has the event loop, none is between its link and its row.
LEMMA NoneCloses ==
    ASSUME IInv, turn \in Reqs \cup {None}
    PROVE  \A j \in Jobs : jobs[j].phase \notin Closing
  BY SendQueueAssumption DEF IInv, ClosingHolds

-----------------------------------------------------------------------------
(* The queue's own routes, the shutdown and the restart.                   *)

LEMMA RowStep ==
    ASSUME IInv, turn = None, Released(queue'), UNCHANGED <<jobs, reqs, turn, host, links, faults>>,
           staged' \subseteq Files, up' \in {"up", "halting"}, stops' \in 0 .. MaxStops
    PROVE  IInv'
  <1>1. StoppedIsEmpty'
    BY DEF StoppedIsEmpty
  <1> QED BY <1>1, NoneCloses, JobsStay, HandlersStay, OrdinaryStep DEF IInv, TypeOK

LEMMA RouteSteps ==
    ASSUME IInv,
           \/ \E i \in Items : Enqueue(i) \/ Cancel(i)
           \/ ReadQueue
           \/ \E j \in Jobs : ReadMissingJob(j)
           \/ Shutdown
           \/ Restart
    PROVE  IInv'
  <1> USE DEF IInv
  <1>0. queue \in [Items -> Rows] /\ staged \subseteq Files /\ stops \in 0 .. MaxStops
        /\ MaxStops \in Nat
    BY SendQueueAssumption DEF TypeOK
  <1>1. ASSUME NEW i \in Items, Enqueue(i) PROVE IInv'
    <2>1. Released(queue')
      BY <1>0, <1>1 DEF Enqueue, Released, Rows, Active
    <2> QED BY <1>0, <1>1, <2>1, RowStep DEF Enqueue, Files
  <1>2. ASSUME NEW i \in Items, Cancel(i) PROVE IInv'
    <2>1. Released(queue')
      BY <1>0, <1>2 DEF Cancel, Released, Rows, Active
    <2> QED BY <1>0, <1>2, <2>1, RowStep DEF Cancel
  <1>3. CASE ReadQueue
    <2>1. Released(queue')
      <3>1. CASE Jobs = {}
        BY <1>0, <1>3, <3>1 DEF ReadQueue, ReconcileLive, Released, Rows, Active
      <3>2. CASE Jobs # {}
        BY <1>0, <1>3, <3>2, ReleasedByReconcile DEF ReadQueue
      <3> QED BY <3>1, <3>2
    <2> QED BY <1>0, <1>3, <2>1, RowStep DEF ReadQueue
  <1>4. ASSUME NEW j \in Jobs, ReadMissingJob(j) PROVE IInv'
    BY <1>0, <1>4, ReleasedByReconcile, RowStep DEF ReadMissingJob
  <1>5. CASE Shutdown
    <2>1. Released(queue')
      BY <1>0, <1>5 DEF Shutdown, InterruptInFlight, Released, Rows, Active
    <2> QED BY <1>0, <1>5, <2>1, RowStep DEF Shutdown
  <1>6. CASE Restart
    <2>1. Released(queue')
      BY <1>0, <1>6 DEF Restart, InterruptInFlight, Released, Rows, Active
    <2>2. turn = None
      BY <1>6 DEF Restart, StoppedIsEmpty
    <2> QED BY <1>0, <1>6, <2>1, <2>2, RowStep DEF Restart
  <1> QED BY <1>1, <1>2, <1>3, <1>4, <1>5, <1>6

-----------------------------------------------------------------------------
(* The handlers.                                                           *)

\* A handler that moves on without a claim, while rows are at most released.
LEMMA HandlerMoves ==
    ASSUME IInv, Released(queue'), JobsProceed, UNCHANGED <<up, host, links, stops>>,
           staged' \subseteq Files, faults' \in 0 .. MaxFaults,
           up # "down", turn' \in Reqs \cup {None},
           NEW r \in Reqs, NEW new \in Requests, reqs' = [reqs EXCEPT ![r] = new],
           turn \in {None, r}, new.pc # "claimed",
           new.pc \in {"probing", "probed"} => new.todo # {},
           new.pc = "loop" => new.kind # "direct",
           new.todo \subseteq IF new.kind = "direct" THEN Directs ELSE Items
    PROVE  IInv'
  <1>1. reqs' \in [Reqs -> Requests] /\ \A s \in Reqs \ {r} : reqs'[s] = reqs[s]
    BY DEF IInv, TypeOK
  <1>2. reqs'[r] = new
    BY DEF IInv, TypeOK
  <1>3. AtWork'
    BY <1>1, <1>2 DEF IInv, AtWork
  <1>4. \A s \in Reqs : reqs'[s].pc # "claimed"
    BY <1>1, <1>2, SendQueueAssumption DEF IInv, ClaimHolds
  <1>5. HandlersFit
    BY <1>1, <1>3, <1>4 DEF HandlersFit
  <1>6. StoppedIsEmpty'
    BY DEF StoppedIsEmpty
  <1>7. \A j \in Jobs : jobs'[j].phase \notin Closing
    BY NoneCloses DEF JobsProceed
  <1> QED BY <1>5, <1>6, <1>7, OrdinaryStep DEF IInv, TypeOK

LEMMA BeginSteps ==
    ASSUME IInv, NEW r \in Reqs,
           \/ \E i \in Items, force \in BOOLEAN : BeginDispatch(r, i, force)
           \/ BeginDrain(r)
           \/ \E f \in Directs : BeginDirect(r, f)
    PROVE  IInv'
  <1>0. queue \in [Items -> Rows] /\ staged \subseteq Files /\ faults \in 0 .. MaxFaults
        /\ IdleReq \in Requests
    BY DEF IInv, TypeOK, IdleReq, Requests
  <1>1. ASSUME NEW i \in Items, NEW force \in BOOLEAN, BeginDispatch(r, i, force) PROVE IInv'
    <2> DEFINE new == [IdleReq EXCEPT !.pc = "loop", !.kind = "dispatch", !.force = force,
                                      !.todo = {i}]
    <2>1. /\ new \in Requests /\ new.pc = "loop" /\ new.kind = "dispatch"
          /\ new.todo \subseteq Items
      BY DEF IdleReq, Requests, Files
    <2>2. reqs' = [reqs EXCEPT ![r] = new]
      BY <1>1 DEF BeginDispatch
    <2>3. Released(queue')
      BY <1>0, <1>1 DEF BeginDispatch, ReconcileLive, Released, Rows, Active
    <2> HIDE DEF new
    <2> QED BY <1>0, <1>1, <2>1, <2>2, <2>3, JobsStay, HandlerMoves DEF BeginDispatch
  <1>2. CASE BeginDrain(r)
    <2> DEFINE new == [IdleReq EXCEPT !.pc = "loop", !.kind = "drain",
                                      !.todo = DrainItems(queue')]
    <2>1. /\ new \in Requests /\ new.pc = "loop" /\ new.kind = "drain"
          /\ new.todo \subseteq Items
      BY DEF IdleReq, Requests, Files, DrainItems
    <2>2. reqs' = [reqs EXCEPT ![r] = new]
      BY <1>2 DEF BeginDrain
    <2>3. Released(queue')
      BY <1>0, <1>2 DEF BeginDrain, ReconcileLive, Released, Rows, Active
    <2> HIDE DEF new
    <2> QED BY <1>0, <1>2, <2>1, <2>2, <2>3, JobsStay, HandlerMoves DEF BeginDrain
  <1>3. ASSUME NEW f \in Directs, BeginDirect(r, f) PROVE IInv'
    <2> DEFINE new == [IdleReq EXCEPT !.kind = "direct", !.todo = {f},
                          !.pc = IF f \in Starts THEN "probing" ELSE "probed",
                          !.seen = IF f \in Starts THEN "none" ELSE "idle"]
    <2>1. /\ new \in Requests /\ new.pc \in {"probing", "probed"} /\ new.kind = "direct"
          /\ new.todo \subseteq Directs /\ new.todo # {}
      BY DEF IdleReq, Requests, Files
    <2>2. reqs' = [reqs EXCEPT ![r] = new]
      BY <1>3 DEF BeginDirect
    <2>3. Released(queue')
      BY <1>0, <1>3 DEF BeginDirect, Released
    <2> HIDE DEF new
    <2> QED BY <1>0, <1>3, <2>1, <2>2, <2>3, JobsStay, HandlerMoves DEF BeginDirect, Files
  <1> QED BY <1>1, <1>2, <1>3

\* The claim of the item a handler works on.
LEMMA ClaimStep ==
    ASSUME IInv, NEW r \in Reqs, turn \in {None, r}, up # "down",
           reqs[r].todo # {}, reqs[r].kind # "direct", Claim(r, Current(r)),
           UNCHANGED <<staged, jobs, up, host, links, stops, faults>>
    PROVE  IInv'
  <1> DEFINE i == Current(r)
  <1>0. reqs[r] \in Requests /\ reqs[r].todo \subseteq Items /\ i \in Items
    BY CurrentIsFirst DEF IInv, TypeOK, AtWork
  <1>1. CASE queue[i].state \in {"queued", "error"} /\ NoOtherSending(queue, i)
    <2>1. /\ queue' = [queue EXCEPT ![i].state = "sending"]
          /\ reqs' = [reqs EXCEPT ![r].pc = "claimed"]
          /\ turn' = r
      BY <1>1 DEF Claim
    <2> HIDE DEF i
    <2>2. TypeOK'
      <3>1. queue' \in [Items -> Rows]
        BY <1>0, <2>1 DEF IInv, TypeOK, Rows, Active
      <3>2. reqs' \in [Reqs -> Requests]
        BY <1>0, <2>1 DEF IInv, TypeOK, Requests
      <3> QED BY <2>1, <3>1, <3>2 DEF IInv, TypeOK
    <2>3. AtWork'
      BY <1>0, <2>1 DEF IInv, AtWork, TypeOK, Requests
    <2>4. ClaimHolds'
      <3>1. \A s \in Reqs : reqs'[s].pc = "claimed" => s = r
        BY <2>1, SendQueueAssumption DEF IInv, TypeOK, ClaimHolds
      <3>2. Current(r)' = Current(r)
        BY <1>0, <2>1, CurrentKept DEF IInv, TypeOK, Requests
      <3>3. queue'[Current(r)].state = "sending"
        BY <1>0, <2>1 DEF i, IInv, TypeOK, Rows
      <3> QED BY <2>1, <3>1, <3>2, <3>3 DEF ClaimHolds
    <2>5. LinksAnswered' /\ ClosingHolds' /\ StoppedIsEmpty'
      BY NoneCloses DEF IInv, LinksAnswered, ClosingHolds, StoppedIsEmpty
    <2>6. JobRows'
      BY <1>0, <2>1 DEF IInv, TypeOK, Rows, JobRows
    <2>7. OneSendPerPrinter'
      BY <1>0, <1>1, <2>1 DEF IInv, TypeOK, Rows, OneSendPerPrinter, NoOtherSending
    <2>8. DoneIsTrue'
      BY <1>0, <2>1 DEF IInv, TypeOK, Rows, DoneIsTrue
    <2> QED BY <2>2, <2>3, <2>4, <2>5, <2>6, <2>7, <2>8 DEF IInv
  <1>2. CASE ~(queue[i].state \in {"queued", "error"} /\ NoOtherSending(queue, i))
    <2> DEFINE new == [reqs[r] EXCEPT !.pc = "loop", !.todo = @ \ {i}]
    <2>1. /\ UNCHANGED queue /\ turn' = r
          /\ reqs' = [reqs EXCEPT ![r].pc = "loop", ![r].todo = @ \ {i}]
      BY <1>2 DEF Claim
    <2>2. reqs' = [reqs EXCEPT ![r] = new]
      BY <1>0, <2>1 DEF IInv, TypeOK, Requests
    <2>3. /\ new \in Requests /\ new.pc = "loop" /\ new.kind # "direct"
          /\ new.todo \subseteq Items
      BY <1>0 DEF Requests
    <2>4. Released(queue')
      BY <2>1 DEF IInv, TypeOK, Released
    <2> HIDE DEF new
    <2> QED BY <2>1, <2>2, <2>3, <2>4, JobsStay, HandlerMoves DEF IInv, TypeOK
  <1> QED BY <1>1, <1>2
\* DispatchNext passes over the item or waits for its printer, or claims it.
LEMMA DispatchStep ==
    ASSUME IInv, NEW r \in Reqs, DispatchNext(r) PROVE IInv'
  <1> DEFINE i == Current(r)
  <1>0. /\ reqs[r] \in Requests /\ reqs[r].todo # {} /\ reqs[r].pc = "loop"
        /\ reqs[r].kind # "direct" /\ reqs[r].todo \subseteq Items /\ i \in Items
    BY CurrentIsFirst DEF DispatchNext, IInv, TypeOK, AtWork
  <1>1. CASE /\ Released(queue') /\ reqs' = [reqs EXCEPT ![r].todo = @ \ {i}]
             /\ UNCHANGED turn
    <2> DEFINE new == [reqs[r] EXCEPT !.todo = @ \ {i}]
    <2>1. /\ new \in Requests /\ new.pc = "loop" /\ new.kind # "direct"
          /\ new.todo \subseteq Items
      BY <1>0 DEF Requests
    <2>2. reqs' = [reqs EXCEPT ![r] = new]
      BY <1>0, <1>1 DEF IInv, TypeOK, Requests
    <2> HIDE DEF new, i
    <2> QED BY <1>1, <2>1, <2>2, JobsStay, HandlerMoves DEF DispatchNext, Serving, IInv, TypeOK
  <1>2. CASE /\ UNCHANGED queue /\ reqs' = [reqs EXCEPT ![r].pc = "probing"] /\ turn' = None
    <2> DEFINE new == [reqs[r] EXCEPT !.pc = "probing"]
    <2>1. /\ new \in Requests /\ new.pc = "probing" /\ new.kind # "direct"
          /\ new.todo \subseteq Items /\ new.todo # {}
      BY <1>0 DEF Requests
    <2>2. reqs' = [reqs EXCEPT ![r] = new]
      BY <1>0, <1>2 DEF IInv, TypeOK, Requests
    <2>3. Released(queue')
      BY <1>2 DEF IInv, TypeOK, Released
    <2> HIDE DEF new, i
    <2> QED BY <1>2, <2>1, <2>2, <2>3, JobsStay, HandlerMoves DEF DispatchNext, Serving, IInv, TypeOK
  <1>3. CASE Claim(r, i)
    BY <1>0, <1>3, ClaimStep DEF DispatchNext, Serving
  <1>4. \/ /\ UNCHANGED queue /\ reqs' = [reqs EXCEPT ![r].todo = @ \ {i}] /\ UNCHANGED turn
        \/ /\ queue' = [queue EXCEPT ![i].state = "error"]
           /\ reqs' = [reqs EXCEPT ![r].todo = @ \ {i}] /\ UNCHANGED turn
        \/ UNCHANGED queue /\ reqs' = [reqs EXCEPT ![r].pc = "probing"] /\ turn' = None
        \/ Claim(r, i)
    BY DEF DispatchNext
  <1>5. queue' = queue \/ queue' = [queue EXCEPT ![i].state = "error"] => Released(queue')
    BY <1>0 DEF IInv, TypeOK, Released, Rows, Active
  <1> HIDE DEF i
  <1> QED BY <1>1, <1>2, <1>3, <1>4, <1>5

LEMMA WaitSteps ==
    ASSUME IInv, NEW r \in Reqs, Finish(r) \/ HostStatus(r) \/ ProbeReturns(r) PROVE IInv'
  <1>0. reqs[r] \in Requests /\ queue \in [Items -> Rows] /\ faults \in 0 .. MaxFaults
        /\ staged \subseteq Files /\ reqs \in [Reqs -> Requests]
    BY DEF IInv, TypeOK
  <1>1. CASE Finish(r)
    <2>1. IdleReq \in Requests /\ IdleReq.pc = "idle" /\ IdleReq.todo = {}
      BY DEF IdleReq, Requests
    <2>2. Released(queue')
      BY <1>0, <1>1 DEF Finish, Released
    <2> QED BY <1>0, <1>1, <2>1, <2>2, JobsStay, HandlerMoves DEF Finish, Serving
  <1>2. CASE HostStatus(r)
    <2>1. PICK seen \in {host[PrinterOf[Current(r)]], "offline"} :
              reqs' = [reqs EXCEPT ![r].pc = "probed", ![r].seen = seen]
      BY <1>2 DEF HostStatus
    <2>2. seen \in {"idle", "printing", "offline"}
      <3>1. reqs[r].todo # {} /\ reqs[r].todo \subseteq Files
        BY <1>2 DEF HostStatus, IInv, AtWork, Files
      <3>2. PrinterOf[Current(r)] \in Printers
        BY <3>1, CurrentIsFirst, SendQueueAssumption
      <3> QED BY <2>1, <3>2 DEF IInv, TypeOK
    <2> DEFINE new == [reqs[r] EXCEPT !.pc = "probed", !.seen = seen]
    <2>3. /\ new \in Requests /\ new.pc = "probed" /\ new.kind = reqs[r].kind
          /\ new.todo = reqs[r].todo
      BY <1>0, <2>2 DEF Requests
    <2>4. reqs' = [reqs EXCEPT ![r] = new]
      BY <1>0, <2>1 DEF Requests
    <2>5. /\ UNCHANGED <<jobs, up, host, links, stops, queue, staged, faults, turn>>
          /\ reqs[r].pc = "probing"
      BY <1>2 DEF HostStatus
    <2> HIDE DEF new
    <2>6. reqs'[r] = new /\ reqs' \in [Reqs -> Requests]
          /\ \A s \in Reqs \ {r} : reqs'[s] = reqs[s]
      BY <1>0, <2>3, <2>4
    <2>7. TypeOK'
      BY <2>5, <2>6 DEF IInv, TypeOK
    <2>8. AtWork'
      BY <2>3, <2>5, <2>6 DEF IInv, AtWork
    <2>9. ClaimHolds'
      <3>1. ASSUME NEW s \in Reqs, reqs'[s].pc = "claimed"
            PROVE  turn' = s /\ queue'[Current(s)'].state = "sending"
        <4>1. s # r /\ reqs'[s] = reqs[s]
          BY <2>3, <2>6, <3>1
        <4>2. Current(s)' = Current(s)
          BY <4>1, CurrentKept
        <4> QED BY <2>5, <3>1, <4>1, <4>2 DEF IInv, ClaimHolds
      <3> QED BY <3>1 DEF ClaimHolds
    <2>10. LinksAnswered' /\ ClosingHolds' /\ JobRows' /\ OneSendPerPrinter' /\ DoneIsTrue'
      BY <2>5 DEF IInv, LinksAnswered, ClosingHolds, JobRows, OneSendPerPrinter, DoneIsTrue
    <2>11. StoppedIsEmpty'
      <3>1. up # "down"
        BY <2>5 DEF IInv, StoppedIsEmpty, IdleReq
      <3> QED BY <2>5, <3>1 DEF StoppedIsEmpty
    <2> QED BY <2>7, <2>8, <2>9, <2>10, <2>11 DEF IInv
  <1>3. CASE ProbeReturns(r)
    <2> DEFINE i == Current(r)
    <2>1. /\ reqs[r].pc = "probed" /\ reqs[r].kind # "direct" /\ reqs[r].todo # {}
          /\ reqs[r].todo \subseteq Items /\ turn = None /\ up # "down"
          /\ UNCHANGED <<staged, jobs, up, host, links, stops, faults>>
      BY <1>3 DEF ProbeReturns, LoopFree, Serving, IInv, AtWork
    <2>2. CASE Claim(r, i)
      BY <2>1, <2>2, ClaimStep
    <2>3. CASE /\ reqs' = [reqs EXCEPT ![r].pc = "loop", ![r].todo = @ \ {i}]
               /\ turn' = r /\ UNCHANGED queue
      <3> DEFINE new == [reqs[r] EXCEPT !.pc = "loop", !.todo = @ \ {i}]
      <3>1. /\ new \in Requests /\ new.pc = "loop" /\ new.kind # "direct"
            /\ new.todo \subseteq Items
        BY <1>0, <2>1 DEF Requests
      <3>2. reqs' = [reqs EXCEPT ![r] = new]
        BY <1>0, <2>3 DEF Requests
      <3>3. Released(queue')
        BY <1>0, <2>3 DEF Released
      <3> HIDE DEF new, i
      <3> QED BY <1>0, <2>1, <2>3, <3>1, <3>2, <3>3, JobsStay, HandlerMoves
    <2> QED BY <1>3, <2>2, <2>3 DEF ProbeReturns
  <1> QED BY <1>1, <1>2, <1>3
\* A fresh job leaves the others as they are.
LEMMA FreshProceeds ==
    ASSUME IInv, NEW r \in Reqs, NEW f \in Files, NEW j \in Jobs, Fresh(j),
           jobs' = [jobs EXCEPT ![j] = NewJob(r, f)]
    PROVE  /\ JobsProceed
           /\ jobs'[j] = NewJob(r, f) /\ \A k \in Jobs \ {j} : jobs'[k] = jobs[k]
  <1>1. jobs \in [Jobs -> JobRecords] /\ jobs[j].phase = "unused"
    BY DEF IInv, TypeOK, Fresh
  <1>2. NewJob(r, f) \in JobRecords /\ NewJob(r, f).phase = "pending"
        /\ NewJob(r, f).file = f /\ ~NewJob(r, f).owned /\ ~NewJob(r, f).cut
    BY NewJobTyped DEF IInv
  <1> QED BY <1>1, <1>2 DEF JobsProceed, IInv, JobRows, ClosingHolds, Linked, Closing

LEMMA StartStep ==
    ASSUME IInv, NEW r \in Reqs, StartClaimed(r) PROVE IInv'
  <1> DEFINE i == Current(r)
  <1>1. PICK j \in Jobs : /\ Fresh(j)
                          /\ jobs' = [jobs EXCEPT ![j] = NewJob(r, i)]
                          /\ queue' = [queue EXCEPT ![i].job = j]
    BY DEF StartClaimed
  <1>2. /\ reqs' = [reqs EXCEPT ![r].pc = "loop", ![r].todo = @ \ {i},
                                ![r].used = @ \cup {PrinterOf[i]}]
        /\ reqs[r].pc = "claimed" /\ turn = r /\ up # "down"
        /\ UNCHANGED <<staged, turn, up, host, links, stops, faults>>
    BY DEF StartClaimed, Serving
  <1>3. /\ reqs[r] \in Requests /\ reqs[r].todo \subseteq Items /\ reqs[r].kind # "direct"
        /\ i \in Items /\ PrinterOf[i] \in Printers
    BY <1>2, CurrentIsFirst, SendQueueAssumption DEF IInv, TypeOK, AtWork, Files
  <1>4. queue[i].state = "sending"
    BY <1>2 DEF IInv, ClaimHolds
  <1>5. /\ JobsProceed /\ jobs'[j] = NewJob(r, i)
        /\ \A k \in Jobs \ {j} : jobs'[k] = jobs[k]
    BY <1>1, <1>3, FreshProceeds DEF Files
  <1>6. jobs[j].phase = "unused" /\ j \notin links
    BY <1>1 DEF Fresh, IInv, LinksAnswered, Linked, Closing
  <1>7. /\ NewJob(r, i).phase = "pending" /\ NewJob(r, i).file = i
    BY <1>3, NewJobTyped DEF IInv, Files
  <1> HIDE DEF i
  <1>8. /\ queue' \in [Items -> Rows] /\ queue'[i] = [queue[i] EXCEPT !.job = j]
        /\ \A k \in Items \ {i} : queue'[k] = queue[k]
    BY <1>1, <1>3 DEF IInv, TypeOK, Rows, Active
  <1>9. /\ reqs' \in [Reqs -> Requests] /\ reqs'[r].pc = "loop"
        /\ reqs'[r].kind = reqs[r].kind /\ reqs'[r].todo \subseteq Items
        /\ \A s \in Reqs \ {r} : reqs'[s] = reqs[s]
    BY <1>2, <1>3 DEF IInv, TypeOK, Requests
  <1>10. TypeOK'
    BY <1>2, <1>5, <1>8, <1>9 DEF IInv, TypeOK, JobsProceed
  <1>11. AtWork'
    BY <1>3, <1>9 DEF IInv, AtWork
  <1>12. ClaimHolds'
    BY <1>2, <1>9 DEF IInv, ClaimHolds
  <1>13. LinksAnswered'
    BY <1>2, <1>5, <1>6 DEF IInv, LinksAnswered, TypeOK
  <1>14. JobRows'
    <2>1. ASSUME NEW k \in Items, queue'[k].job # None
          PROVE  jobs'[queue'[k].job].file = k /\ jobs'[queue'[k].job].phase # "unused"
      <3>1. CASE k = i
        BY <1>5, <1>7, <1>8, <3>1 DEF IInv, TypeOK, Rows
      <3>2. CASE k # i
        <4>1. queue'[k] = queue[k] /\ queue[k].job \in Jobs
          BY <1>8, <2>1, <3>2 DEF IInv, TypeOK, Rows
        <4>2. jobs[queue[k].job].file = k /\ jobs[queue[k].job].phase # "unused"
          BY <2>1, <4>1 DEF IInv, JobRows
        <4> QED BY <1>5, <1>6, <4>1, <4>2
      <3> QED BY <3>1, <3>2
    <2> QED BY <1>5, <2>1 DEF JobRows, JobsProceed
  <1>15. OneSendPerPrinter'
    BY <1>8 DEF IInv, TypeOK, Rows, OneSendPerPrinter
  <1>16. DoneIsTrue'
    <2>1. ASSUME NEW k \in Items, queue'[k].state = "done"
          PROVE  /\ queue'[k].job \in links'
                 /\ jobs'[queue'[k].job].answer \in {"stored", "started", "refused"}
      <3>1. k # i
        BY <1>4, <1>8, <2>1 DEF IInv, TypeOK, Rows
      <3>2. queue'[k] = queue[k]
        BY <1>8, <3>1
      <3>3. queue[k].job \in links
        BY <2>1, <3>2 DEF IInv, DoneIsTrue
      <3> QED BY <1>2, <1>13, <3>2, <3>3 DEF LinksAnswered
    <2> QED BY <2>1 DEF DoneIsTrue
  <1>17. StoppedIsEmpty'
    BY <1>2 DEF StoppedIsEmpty
  <1>18. ClosingHolds'
    BY <1>2, <1>5, NoneCloses DEF ClosingHolds, JobsProceed
  <1> QED BY <1>10, <1>11, <1>12, <1>13, <1>14, <1>15, <1>16, <1>17, <1>18 DEF IInv

LEMMA StartFails ==
    ASSUME IInv, NEW r \in Reqs, StartClaimedFails(r) PROVE IInv'
  <1> DEFINE i == Current(r)
             new == [reqs[r] EXCEPT !.pc = "loop", !.todo = @ \ {i}]
  <1>1. /\ reqs[r].pc = "claimed" /\ turn = r /\ up # "down"
        /\ faults < MaxFaults /\ faults' = faults + 1
        /\ UNCHANGED <<staged, turn, up, host, links, stops>>
        /\ queue' = [queue EXCEPT ![i].state = "error"]
        /\ reqs' = [reqs EXCEPT ![r].pc = "loop", ![r].todo = @ \ {i}]
    BY DEF StartClaimedFails, Serving
  <1>2. /\ reqs[r] \in Requests /\ reqs[r].todo \subseteq Items /\ reqs[r].kind # "direct"
        /\ i \in Items
    BY <1>1, CurrentIsFirst DEF IInv, TypeOK, AtWork
  <1>3. JobsProceed
    BY <1>2, JobsStay, FreshProceeds DEF StartClaimedFails, Files
  <1>4. Released(queue')
    BY <1>1, <1>2 DEF IInv, TypeOK, Released, Rows, Active
  <1>5. /\ new \in Requests /\ new.pc = "loop" /\ new.kind # "direct"
        /\ new.todo \subseteq Items
    BY <1>2 DEF Requests
  <1>6. reqs' = [reqs EXCEPT ![r] = new]
    BY <1>1, <1>2 DEF IInv, TypeOK, Requests
  <1>7. faults' \in 0 .. MaxFaults
    BY <1>1, SendQueueAssumption DEF IInv, TypeOK
  <1> HIDE DEF new, i
  <1> QED BY <1>1, <1>3, <1>4, <1>5, <1>6, <1>7, HandlerMoves DEF IInv, TypeOK

LEMMA DirectStep ==
    ASSUME IInv, NEW r \in Reqs, DirectProceeds(r) PROVE IInv'
  <1>1. /\ UNCHANGED <<queue, turn, up, host, links, stops, faults>>
        /\ reqs' = [reqs EXCEPT ![r] = IdleReq] /\ turn = None /\ up # "down"
        /\ reqs[r].pc = "probed" /\ reqs[r].kind = "direct"
    BY DEF DirectProceeds, LoopFree, Serving
  <1>2. PICK f \in reqs[r].todo :
            IF reqs[r].seen = "idle"
            THEN /\ \E j \in Jobs : Fresh(j) /\ jobs' = [jobs EXCEPT ![j] = NewJob(r, f)]
                 /\ UNCHANGED staged
            ELSE /\ staged' = staged \ {f}
                 /\ UNCHANGED jobs
    BY DEF DirectProceeds
  <1>3. f \in Files
    BY <1>1 DEF IInv, AtWork, Files
  <1>4. JobsProceed /\ staged' \subseteq Files
    BY <1>2, <1>3, JobsStay, FreshProceeds DEF IInv, TypeOK
  <1>5. IdleReq \in Requests /\ IdleReq.pc = "idle" /\ IdleReq.todo = {}
    BY DEF IdleReq, Requests
  <1>6. Released(queue')
    BY <1>1 DEF IInv, TypeOK, Released
  <1> QED BY <1>1, <1>4, <1>5, <1>6, HandlerMoves DEF IInv, TypeOK
-----------------------------------------------------------------------------
(* The job, the printer and the process.                                   *)

\* A step of a job that makes no link.
LEMMA JobMoves ==
    ASSUME IInv, NEW j \in Jobs, NEW new \in JobRecords, jobs' = [jobs EXCEPT ![j] = new],
           jobs[j].phase \in {"pending", "uploading", "done", "error"},
           new.file = jobs[j].file, new.answer = jobs[j].answer, new.cut => jobs[j].cut,
           new.phase \in IF jobs[j].phase \in {"done", "error"} THEN {"gone"}
                         ELSE {"uploading", "error"},
           new.owned => jobs[j].owned \/ NamedSending(j) # {},
           Released(queue'), staged' \subseteq Files, LoopFree, faults' \in 0 .. MaxFaults,
           UNCHANGED <<reqs, turn, up, host, links, stops>>
    PROVE  IInv'
  <1>1. new.owned => new.file \in Items
    <2>1. jobs[j].owned => jobs[j].file \in Items
      BY DEF IInv, JobRows
    <2>2. ASSUME NEW i \in NamedSending(j) PROVE jobs[j].file \in Items
      <3>1. i \in Items /\ queue[i].job = j /\ j # None
        BY SendQueueAssumption DEF NamedSending, Named
      <3> QED BY <3>1 DEF IInv, JobRows
    <2> QED BY <2>1, <2>2
  <1>2. JobsProceed
    BY <1>1 DEF JobsProceed, IInv, TypeOK, JobRows, ClosingHolds, Linked, Closing
  <1>3. StoppedIsEmpty'
    BY DEF LoopFree, Serving, StoppedIsEmpty
  <1>4. \A k \in Jobs : jobs'[k].phase \notin Closing
    BY <1>2, NoneCloses DEF JobsProceed, LoopFree
  <1> QED BY <1>2, <1>3, <1>4, HandlersStay, OrdinaryStep DEF LoopFree, IInv, TypeOK

LEMMA FailMoves ==
    ASSUME IInv, NEW j \in Jobs, NEW owned \in BOOLEAN, NEW began \in BOOLEAN,
           Fails(j, owned, began), jobs[j].phase \in {"pending", "uploading"},
           owned => jobs[j].owned \/ NamedSending(j) # {}, LoopFree,
           UNCHANGED <<reqs, turn, up, host, stops, faults>>
    PROVE  IInv'
  <1> DEFINE new == [jobs[j] EXCEPT !.phase = "error", !.owned = owned]
  <1>1. jobs[j] \in JobRecords
    BY DEF IInv, TypeOK
  <1>2. /\ new \in JobRecords /\ new.phase = "error" /\ new.owned = owned
        /\ new.file = jobs[j].file /\ new.answer = jobs[j].answer /\ new.cut = jobs[j].cut
    BY <1>1 DEF JobRecords
  <1>3. jobs' = [jobs EXCEPT ![j] = new]
    BY <1>1 DEF Fails, IInv, TypeOK, JobRecords
  <1>4. Released(queue')
    BY ReleasedByReconcile DEF Fails, IInv, TypeOK
  <1>5. staged' \subseteq Files /\ UNCHANGED links /\ faults' \in 0 .. MaxFaults
    BY DEF Fails, IInv, TypeOK
  <1> HIDE DEF new
  <1> QED BY <1>2, <1>3, <1>4, <1>5, JobMoves

LEMMA RunStep ==
    ASSUME IInv, NEW j \in Jobs, RunJob(j) PROVE IInv'
  <1> DEFINE owned == NamedSending(j) # {}
             new == [jobs[j] EXCEPT !.phase = "uploading", !.owned = owned]
  <1>1. LoopFree /\ jobs[j].phase = "pending" /\ UNCHANGED <<reqs, turn, up, host, stops, faults>>
    BY DEF RunJob
  <1>2. CASE Fails(j, FALSE, FALSE)
    BY <1>1, <1>2, FailMoves
  <1>3. CASE Fails(j, owned, TRUE)
    BY <1>1, <1>3, FailMoves
  <1>4. CASE /\ jobs' = [jobs EXCEPT ![j].phase = "uploading", ![j].owned = owned]
             /\ UNCHANGED <<queue, staged, links>>
    <2>1. jobs[j] \in JobRecords
      BY DEF IInv, TypeOK
    <2>2. /\ new \in JobRecords /\ new.phase = "uploading" /\ new.owned = owned
          /\ new.file = jobs[j].file /\ new.answer = jobs[j].answer /\ new.cut = jobs[j].cut
      BY <2>1 DEF JobRecords, Busy
    <2>3. jobs' = [jobs EXCEPT ![j] = new]
      BY <1>4, <2>1 DEF IInv, TypeOK, JobRecords
    <2>4. Released(queue') /\ staged' \subseteq Files /\ faults' \in 0 .. MaxFaults
      BY <1>1, <1>4 DEF IInv, TypeOK, Released
    <2>5. new.owned => NamedSending(j) # {}
      BY <2>2
    <2> HIDE DEF new, owned
    <2> QED BY <1>1, <1>4, <2>2, <2>3, <2>4, <2>5, JobMoves
  <1> QED BY <1>2, <1>3, <1>4 DEF RunJob

\* The host answered and the link is stored: the job takes the event loop.
LEMMA LinkStep ==
    ASSUME IInv, NEW j \in Jobs, LoopFree, ~Halted,
           jobs[j].phase = "uploading", jobs[j].answer \in {"stored", "started", "refused"},
           jobs' = [jobs EXCEPT ![j].phase = "linked"], links' = links \cup {j}, turn' = j,
           UNCHANGED <<queue, staged, reqs, up, host, stops, faults>>
    PROVE  IInv'
  <1>1. /\ jobs' \in [Jobs -> JobRecords] /\ jobs'[j].phase = "linked"
        /\ \A k \in Jobs : /\ jobs'[k].file = jobs[k].file /\ jobs'[k].owned = jobs[k].owned
                           /\ jobs'[k].answer = jobs[k].answer /\ jobs'[k].cut = jobs[k].cut
                           /\ k # j => jobs'[k] = jobs[k]
    BY DEF IInv, TypeOK, JobRecords, Busy, Closing
  <1>2. turn = None /\ up = "up"
    BY DEF LoopFree, Serving, Halted, IInv, TypeOK
  <1>3. TypeOK' /\ AtWork' /\ OneSendPerPrinter'
    BY <1>1 DEF IInv, TypeOK, AtWork, OneSendPerPrinter
  <1>4. ClaimHolds' /\ StoppedIsEmpty'
    BY <1>2, SendQueueAssumption DEF IInv, ClaimHolds, StoppedIsEmpty
  <1>5. LinksAnswered'
    BY <1>1 DEF IInv, LinksAnswered, TypeOK, Linked, Closing
  <1>6. ClosingHolds'
    BY <1>1, <1>2, NoneCloses DEF IInv, ClosingHolds
  <1>7. JobRows'
    BY <1>1 DEF IInv, JobRows, TypeOK, Rows
  <1>8. DoneIsTrue'
    BY <1>5 DEF IInv, DoneIsTrue, LinksAnswered
  <1> QED BY <1>3, <1>4, <1>5, <1>6, <1>7, <1>8 DEF IInv

LEMMA UploadStep ==
    ASSUME IInv, NEW j \in Jobs, UploadReturns(j) PROVE IInv'
  <1>1. /\ LoopFree /\ jobs[j].phase = "uploading" /\ jobs[j].answer # "none"
        /\ UNCHANGED <<reqs, up, host, stops>>
        /\ jobs[j] \in JobRecords /\ staged \subseteq Files
    BY DEF UploadReturns, IInv, TypeOK
  <1>2. CASE Fails(j, jobs[j].owned, TRUE) /\ UNCHANGED <<turn, faults>>
    BY <1>1, <1>2, FailMoves DEF JobRecords
  <1>3. CASE /\ jobs[j].answer # "failed" /\ ~Halted
             /\ jobs' = [jobs EXCEPT ![j].phase = "linked"] /\ links' = links \cup {j}
             /\ turn' = j /\ UNCHANGED <<queue, staged, faults>>
    <2>1. jobs[j].answer \in {"stored", "started", "refused"}
      BY <1>1, <1>3 DEF JobRecords, Answers
    <2> QED BY <1>1, <1>3, <2>1, LinkStep
  <1>4. CASE WriteFails(j, FALSE) /\ UNCHANGED <<links, turn>> /\ staged' \subseteq staged
    <2> DEFINE new == [jobs[j] EXCEPT !.phase = "error", !.cut = FALSE]
    <2>1. /\ new \in JobRecords /\ new.phase = "error" /\ ~new.cut /\ new.owned = jobs[j].owned
          /\ new.file = jobs[j].file /\ new.answer = jobs[j].answer
      BY <1>1 DEF JobRecords
    <2>2. jobs' = [jobs EXCEPT ![j] = new]
      BY <1>1, <1>4 DEF WriteFails, IInv, TypeOK
    <2>3. Released(queue')
      BY <1>4, ReleasedByReconcile DEF WriteFails, IInv, TypeOK
    <2>4. faults' \in 0 .. MaxFaults
      BY <1>4, SendQueueAssumption DEF WriteFails, IInv, TypeOK
    <2> HIDE DEF new
    <2> QED BY <1>1, <1>4, <2>1, <2>2, <2>3, <2>4, JobMoves
  <1> QED BY <1>2, <1>3, <1>4 DEF UploadReturns

LEMMA CleanStep ==
    ASSUME IInv, NEW j \in Jobs, CleanUp(j) PROVE IInv'
  <1>1. /\ jobs' \in [Jobs -> JobRecords] /\ jobs[j].phase = "linked" /\ jobs'[j].phase = "cleaned"
        /\ \A k \in Jobs : /\ jobs'[k].file = jobs[k].file /\ jobs'[k].owned = jobs[k].owned
                           /\ jobs'[k].answer = jobs[k].answer /\ jobs'[k].cut = jobs[k].cut
                           /\ k # j => jobs'[k] = jobs[k]
    BY DEF CleanUp, IInv, TypeOK, JobRecords, Busy, Closing
  <1>2. /\ UNCHANGED <<queue, reqs, turn, up, host, links, stops, faults>>
        /\ staged' \subseteq staged /\ turn = j /\ up # "down"
    BY DEF CleanUp, Serving
  <1>3. TypeOK' /\ AtWork' /\ OneSendPerPrinter'
    BY <1>1, <1>2 DEF IInv, TypeOK, AtWork, OneSendPerPrinter
  <1>4. ClaimHolds' /\ StoppedIsEmpty'
    BY <1>2, SendQueueAssumption DEF IInv, ClaimHolds, StoppedIsEmpty
  <1>5. LinksAnswered'
    BY <1>1, <1>2 DEF IInv, LinksAnswered, TypeOK, Linked, Closing
  <1>6. ClosingHolds'
    BY <1>1, <1>2 DEF IInv, ClosingHolds, Closing
  <1>7. JobRows'
    <2>1. \A k \in Jobs : jobs'[k].phase # "unused" <=> jobs[k].phase # "unused"
      BY <1>1
    <2> QED BY <1>1, <1>2, <2>1 DEF IInv, JobRows, TypeOK, Rows
  <1>8. DoneIsTrue'
    BY <1>2, <1>5 DEF IInv, DoneIsTrue, LinksAnswered
  <1> QED BY <1>3, <1>4, <1>5, <1>6, <1>7, <1>8 DEF IInv

\* What the end of a linked job changes.
LEMMA Finished ==
    ASSUME IInv, NEW j \in Jobs, FinishJob(j)
    PROVE  /\ jobs[j].phase \in Closing /\ j \in links /\ turn = j /\ up = "up" /\ turn' = None
           /\ jobs' \in [Jobs -> JobRecords]
           /\ \A k \in Jobs : /\ jobs'[k].file = jobs[k].file /\ jobs'[k].owned = jobs[k].owned
                              /\ jobs'[k].answer = jobs[k].answer
                              /\ k # j => jobs'[k] = jobs[k] /\ jobs[k].phase \notin Closing
           /\ \/ /\ jobs'[j].phase = "done" /\ ~jobs'[j].cut
                 /\ queue' = ReconcileResult(queue, j, "done") /\ UNCHANGED faults
              \/ /\ jobs'[j].phase = "error" /\ jobs'[j].cut
                 /\ queue' \in {queue, ReconcileResult(queue, j, "error")}
                 /\ faults < MaxFaults /\ faults' = faults + 1
           /\ UNCHANGED <<staged, reqs, up, host, links, stops>>
  <1>1. /\ jobs[j].phase \in Closing /\ turn = j /\ turn' = None
        /\ jobs \in [Jobs -> JobRecords]
        /\ UNCHANGED <<staged, reqs, up, host, links, stops>>
    BY DEF FinishJob, Closing, IInv, TypeOK
  <1>2. /\ j \in links /\ up = "up" /\ ~jobs[j].cut
        /\ \A k \in Jobs : k # j => jobs[k].phase \notin Closing
    BY <1>1 DEF IInv, ClosingHolds, Closing
  <1>3. CASE /\ jobs' = [jobs EXCEPT ![j].phase = "done"]
             /\ queue' = ReconcileResult(queue, j, "done") /\ UNCHANGED faults
    BY <1>1, <1>2, <1>3 DEF JobRecords
  <1>4. CASE WriteFails(j, TRUE)
    BY <1>1, <1>2, <1>4 DEF JobRecords, WriteFails
  <1> QED BY <1>3, <1>4 DEF FinishJob

LEMMA FinishStep ==
    ASSUME IInv, NEW j \in Jobs, FinishJob(j) PROVE IInv'
  <1>1. /\ jobs[j].phase \in Closing /\ j \in links /\ turn = j /\ up = "up" /\ turn' = None
        /\ jobs' \in [Jobs -> JobRecords] /\ jobs'[j].phase \in {"done", "error"}
        /\ jobs'[j].cut => jobs'[j].phase = "error"
        /\ \A k \in Jobs : /\ jobs'[k].file = jobs[k].file /\ jobs'[k].owned = jobs[k].owned
                           /\ jobs'[k].answer = jobs[k].answer
                           /\ k # j => jobs'[k] = jobs[k] /\ jobs[k].phase \notin Closing
        /\ UNCHANGED <<staged, reqs, up, host, links, stops>>
        /\ \/ queue' \in {queue, ReconcileResult(queue, j, "error")}
           \/ queue' = ReconcileResult(queue, j, "done")
        /\ faults' = faults \/ (faults < MaxFaults /\ faults' = faults + 1)
    BY Finished
  <1>2. /\ queue' \in [Items -> Rows]
        /\ \A i \in Items : /\ queue'[i].job = queue[i].job
                            /\ queue'[i].state = "sending" => queue[i].state = "sending"
                            /\ queue'[i].state = "done" =>
                                   queue[i].state = "done" \/ queue[i].job = j
    <2>1. queue \in [Items -> Rows]
      BY DEF IInv, TypeOK
    <2>2. CASE queue' = queue
      BY <2>1, <2>2
    <2>3. CASE queue' = ReconcileResult(queue, j, "error")
      BY <2>1, <2>3, Reconciled DEF ReconcileResult, Rows
    <2>4. CASE queue' = ReconcileResult(queue, j, "done")
      BY <2>1, <2>4, Reconciled DEF ReconcileResult, Rows
    <2> QED BY <1>1, <2>2, <2>3, <2>4
  <1>3. faults' \in 0 .. MaxFaults
    BY <1>1, SendQueueAssumption DEF IInv, TypeOK
  <1>4. TypeOK' /\ AtWork'
    BY <1>1, <1>2, <1>3 DEF IInv, TypeOK, AtWork
  <1>5. ClaimHolds' /\ StoppedIsEmpty'
    BY <1>1, SendQueueAssumption DEF IInv, ClaimHolds, StoppedIsEmpty
  <1>6. LinksAnswered'
    BY <1>1 DEF IInv, LinksAnswered, TypeOK, Linked
  <1>7. ClosingHolds'
    BY <1>1 DEF IInv, ClosingHolds, Closing
  <1>8. JobRows'
    <2>1. ASSUME NEW i \in Items, queue'[i].job # None
          PROVE  jobs'[queue'[i].job].file = i /\ jobs'[queue'[i].job].phase # "unused"
      <3>1. queue'[i].job = queue[i].job /\ queue[i].job \in Jobs
        BY <1>2, <2>1 DEF IInv, TypeOK, Rows
      <3> QED BY <1>1, <2>1, <3>1 DEF IInv, JobRows
    <2> QED BY <1>1, <2>1 DEF IInv, JobRows, Closing
  <1>9. OneSendPerPrinter'
    BY <1>2 DEF IInv, OneSendPerPrinter
  <1>10. DoneIsTrue'
    BY <1>1, <1>2, <1>6 DEF IInv, DoneIsTrue, LinksAnswered
  <1> QED BY <1>4, <1>5, <1>6, <1>7, <1>8, <1>9, <1>10 DEF IInv

LEMMA PruneStep ==
    ASSUME IInv, NEW j \in Jobs, Prune(j) PROVE IInv'
  <1> DEFINE new == [jobs[j] EXCEPT !.phase = "gone"]
  <1>1. /\ LoopFree /\ jobs[j].phase \in {"done", "error"}
        /\ UNCHANGED <<queue, staged, reqs, turn, up, host, links, stops, faults>>
        /\ jobs[j] \in JobRecords
    BY DEF Prune, IInv, TypeOK
  <1>2. /\ new \in JobRecords /\ new.phase = "gone" /\ new.owned = jobs[j].owned
        /\ new.file = jobs[j].file /\ new.answer = jobs[j].answer /\ new.cut = jobs[j].cut
    BY <1>1 DEF JobRecords
  <1>3. jobs' = [jobs EXCEPT ![j] = new]
    BY <1>1 DEF Prune, IInv, TypeOK, JobRecords
  <1>4. Released(queue') /\ staged' \subseteq Files /\ faults' \in 0 .. MaxFaults
    BY <1>1 DEF Released, IInv, TypeOK
  <1> HIDE DEF new
  <1> QED BY <1>1, <1>2, <1>3, <1>4, JobMoves

\* A printer answers a transfer, or a print of it ends.
LEMMA PrinterStep ==
    ASSUME IInv, \/ \E j \in Jobs : HostUpload(j)
                 \/ \E p \in Printers : PrintEnds(p)
    PROVE  IInv'
  <1>1. UNCHANGED <<queue, staged, reqs, turn, up, links, stops, faults>>
    BY DEF HostUpload, PrintEnds
  <1>2. host' \in [Printers -> {"idle", "printing"}]
    BY DEF HostUpload, PrintEnds, IInv, TypeOK
  <1>3. \/ UNCHANGED jobs
        \/ \E j \in Jobs, answer \in Answers :
               jobs[j].phase = "uploading" /\ jobs' = [jobs EXCEPT ![j].answer = answer]
    BY DEF HostUpload, PrintEnds, Answers
  <1>4. /\ jobs' \in [Jobs -> JobRecords]
        /\ \A k \in Jobs : /\ jobs'[k].phase = jobs[k].phase /\ jobs'[k].file = jobs[k].file
                           /\ jobs'[k].owned = jobs[k].owned /\ jobs'[k].cut = jobs[k].cut
                           /\ jobs[k].phase # "uploading" => jobs'[k] = jobs[k]
    BY <1>3 DEF IInv, TypeOK, JobRecords
  <1>5. TypeOK' /\ AtWork' /\ OneSendPerPrinter'
    BY <1>1, <1>2, <1>4 DEF IInv, TypeOK, AtWork, OneSendPerPrinter
  <1>6. ClaimHolds'
    <2>1. ASSUME NEW r \in Reqs PROVE Current(r)' = Current(r)
      BY <1>1, CurrentKept
    <2> QED BY <1>1, <2>1 DEF IInv, ClaimHolds
  <1>7. LinksAnswered' /\ ClosingHolds'
    BY <1>1, <1>4 DEF IInv, LinksAnswered, ClosingHolds, TypeOK, Linked, Closing
  <1>8. JobRows'
    BY <1>1, <1>4 DEF IInv, JobRows, TypeOK, Rows
  <1>9. DoneIsTrue'
    BY <1>1, <1>7 DEF IInv, DoneIsTrue, LinksAnswered
  <1>10. StoppedIsEmpty'
    BY <1>1, <1>4 DEF IInv, StoppedIsEmpty, InMemory
  <1> QED BY <1>5, <1>6, <1>7, <1>8, <1>9, <1>10 DEF IInv

LEMMA StopStep ==
    ASSUME IInv, Exit \/ Crash PROVE IInv'
  <1>1. /\ Stopped /\ UNCHANGED <<queue, staged, host, links, faults>>
        /\ stops' \in 0 .. MaxStops
    BY SendQueueAssumption DEF Exit, Crash, IInv, TypeOK
  <1>2. JobsProceed /\ \A j \in Jobs : jobs'[j].phase \notin Closing
    <2>1. /\ jobs \in [Jobs -> JobRecords]
          /\ jobs' = [j \in Jobs |->
                       IF InMemory(j)
                       THEN [jobs[j] EXCEPT !.phase = "gone",
                                            !.cut = @ \/ jobs[j].phase \in Closing]
                       ELSE jobs[j]]
      BY <1>1 DEF Stopped, IInv, TypeOK
    <2>2. ASSUME NEW j \in Jobs
          PROVE  /\ jobs'[j] \in JobRecords
                 /\ jobs'[j].file = jobs[j].file /\ jobs'[j].answer = jobs[j].answer
                 /\ jobs'[j].owned = jobs[j].owned
                 /\ jobs'[j].phase = IF InMemory(j) THEN "gone" ELSE jobs[j].phase
                 /\ jobs'[j].cut => jobs[j].cut \/ InMemory(j)
      BY <2>1 DEF JobRecords
    <2>3. jobs' \in [Jobs -> JobRecords]
      BY <2>1, <2>2
    <2> QED BY <2>2, <2>3 DEF JobsProceed, IInv, JobRows, ClosingHolds, InMemory, Busy,
                              Closing, Linked
  <1>3. HandlersFit
    BY <1>1 DEF Stopped, HandlersFit, AtWork, IdleReq, Requests
  <1>4. StoppedIsEmpty'
    BY <1>1 DEF Stopped, StoppedIsEmpty, InMemory, IInv, TypeOK, JobRecords, Busy, Closing
  <1>5. Released(queue')
    BY <1>1 DEF Released, IInv, TypeOK
  <1> QED BY <1>1, <1>2, <1>3, <1>4, <1>5, OrdinaryStep DEF Stopped, IInv, TypeOK
LEMMA InitInv == Init => IInv
  <1> SUFFICES ASSUME Init PROVE IInv
    OBVIOUS
  <1>1. TypeOK
    BY SendQueueAssumption
       DEF Init, TypeOK, Rows, JobRecords, UnusedJob, Requests, IdleReq, Answers, Busy
  <1>2. AtWork /\ ClaimHolds
    BY DEF Init, AtWork, ClaimHolds, IdleReq
  <1>3. /\ LinksAnswered /\ ClosingHolds /\ JobRows /\ StoppedIsEmpty
        /\ OneSendPerPrinter /\ DoneIsTrue
    BY DEF Init, LinksAnswered, ClosingHolds, Closing, JobRows, StoppedIsEmpty, OneSendPerPrinter, DoneIsTrue, UnusedJob
  <1> QED BY <1>1, <1>2, <1>3 DEF IInv

LEMMA NextInv == IInv /\ [Next]_vars => IInv'
  <1> SUFFICES ASSUME IInv, [Next]_vars PROVE IInv'
    OBVIOUS
  <1>1. CASE UNCHANGED vars
    <2>1. \A r \in Reqs : Current(r)' = Current(r)
      BY <1>1, CurrentKept DEF vars
    <2> QED BY <1>1, <2>1 DEF vars, IInv, TypeOK, AtWork, ClaimHolds, LinksAnswered,
                              ClosingHolds, JobRows, StoppedIsEmpty, OneSendPerPrinter,
                              DoneIsTrue, InMemory
  <1>2. CASE \/ \E i \in Items : Enqueue(i) \/ Cancel(i)
             \/ ReadQueue
             \/ \E j \in Jobs : ReadMissingJob(j)
             \/ Shutdown
             \/ Restart
    BY <1>2, RouteSteps
  <1>3. ASSUME NEW r \in Reqs,
               \/ \E i \in Items, force \in BOOLEAN : BeginDispatch(r, i, force)
               \/ BeginDrain(r)
               \/ \E f \in Directs : BeginDirect(r, f)
        PROVE  IInv'
    BY <1>3, BeginSteps
  <1>4. ASSUME NEW r \in Reqs, HandlerStep(r) PROVE IInv'
    BY <1>4, DispatchStep, WaitSteps, StartStep, StartFails, DirectStep DEF HandlerStep
  <1>5. ASSUME NEW j \in Jobs, JobStep(j) \/ Prune(j) PROVE IInv'
    BY <1>5, RunStep, UploadStep, CleanStep, FinishStep, PrinterStep, PruneStep DEF JobStep
  <1>6. CASE \E p \in Printers : PrintEnds(p)
    BY <1>6, PrinterStep
  <1>7. CASE Exit \/ Crash
    BY <1>7, StopStep
  <1> QED BY <1>1, <1>2, <1>3, <1>4, <1>5, <1>6, <1>7 DEF Next

\* The rows, jobs and handlers of the queue stay well formed: a claim holds the event loop
\* and its row, so does a job between its link and its row, a link belongs to a job the host answered, a row names a job of its own.
THEOREM QueueInvariant == Spec => []IInv
  BY InitInv, NextInv, PTL DEF Spec

\* The rows, the jobs and the handlers hold only what the process may write.
THEOREM TypeCorrect == Spec => []TypeOK
  <1>1. IInv => TypeOK
    BY DEF IInv
  <1> QED BY <1>1, QueueInvariant, PTL

\* At most one row is being sent to a printer, whatever dispatches and drains overlap,
\* whatever writes fail, and whenever the process stops.
THEOREM OneAtATime == Spec => []OneSendPerPrinter
  <1>1. IInv => OneSendPerPrinter
    BY DEF IInv
  <1> QED BY <1>1, QueueInvariant, PTL

\* No send is marked done unless the host accepted its file and its link was made.
THEOREM DoneIsEarned == Spec => []DoneIsTrue
  <1>1. IInv => DoneIsTrue
    BY DEF IInv
  <1> QED BY <1>1, QueueInvariant, PTL

\* Once shutdown has halted uploads nothing more becomes done and no link is made.
THEOREM HaltIsFinal == Spec => HaltRefusesSuccess
  <1> DEFINE Kept == up = "halting" =>
                 /\ links' = links
                 /\ \A i \in Items : queue'[i].state = "done" => queue[i].state = "done"
  <1>1. ASSUME IInv, [Next]_vars PROVE [Kept]_vars
    <2> SUFFICES ASSUME up = "halting" PROVE Kept
      OBVIOUS
    <2>0. queue \in [Items -> Rows]
      BY <1>1 DEF IInv, TypeOK
    <2>1. CASE UNCHANGED <<queue, links>>
      BY <2>1
    <2>2. CASE Released(queue') /\ UNCHANGED links
      BY <2>2 DEF Released
    <2>3. ASSUME NEW r \in Reqs, HandlerStep(r) PROVE Kept
      <3>1. UNCHANGED links
        BY <2>3 DEF HandlerStep, DispatchNext, Finish, HostStatus, ProbeReturns,
                    StartClaimed, StartClaimedFails, DirectProceeds
      <3>2. \/ UNCHANGED queue
            \/ \E state \in {"sending", "error"} :
                   queue' = [queue EXCEPT ![Current(r)].state = state]
            \/ \E j \in Jobs : queue' = [queue EXCEPT ![Current(r)].job = j]
        BY <2>3 DEF HandlerStep, DispatchNext, Finish, HostStatus, ProbeReturns, Claim,
                    StartClaimed, StartClaimedFails, DirectProceeds
      <3> QED BY <2>0, <3>1, <3>2 DEF Rows, Active
    <2>4. ASSUME NEW j \in Jobs, JobStep(j) PROVE Kept
      <3>1. ~FinishJob(j)
        BY <1>1, Finished
      <3>2. \/ UNCHANGED <<queue, links>>
            \/ queue' = ReconcileResult(queue, j, "error") /\ UNCHANGED links
        BY <2>4, <3>1 DEF JobStep, RunJob, HostUpload, UploadReturns, CleanUp, Fails, Halted
      <3> QED BY <2>0, <2>1, <2>2, <3>2, ReleasedByReconcile
    <2>5. ASSUME NEW j \in Jobs, ReadMissingJob(j) PROVE Kept
      BY <2>5 DEF ReadMissingJob
    <2>6. CASE UNCHANGED vars
      BY <2>6 DEF vars
    <2>7. CASE Exit \/ \E p \in Printers : PrintEnds(p)
      BY <2>7 DEF Exit, PrintEnds
    <2>8. ASSUME NEW j \in Jobs, Prune(j) PROVE Kept
      BY <2>8 DEF Prune
    <2> QED BY <1>1, <2>3, <2>4, <2>5, <2>6, <2>7, <2>8
            DEF Next, Enqueue, Cancel, ReadQueue, BeginDispatch, BeginDrain, BeginDirect,
                Shutdown, Crash, Restart
  <1> QED BY <1>1, QueueInvariant, PTL DEF Spec, HaltRefusesSuccess
-----------------------------------------------------------------------------
(* Quiet steps: no claim, no start, no end of a linked job.                 *)

Running == {"pending", "uploading"}

\* Running jobs keep their rows, done rows stay done, no job becomes complete, and a row
\* that may be sent keeps its file unless a link was stored for it.
Quiet ==
    /\ links \subseteq links' /\ Completed' = Completed
    /\ Released(queue')
    /\ \A i \in Items : queue[i].state = "done" => queue'[i].state = "done"
    /\ \A j \in Jobs :
           /\ jobs'[j].phase \in Running => /\ jobs'[j].phase = jobs[j].phase
                                           /\ jobs'[j].owned = jobs[j].owned
           /\ jobs[j].phase # "unused" => jobs'[j].file = jobs[j].file
           /\ jobs'[j].phase \in Busy => jobs[j].phase \in Busy
           /\ jobs'[j].phase \in Busy /\ up' = "up" =>
                  /\ up = "up"
                  /\ \A i \in Items : queue[i].state = "sending" /\ queue[i].job = j
                                         => queue'[i] = queue[i]
    /\ \A r \in Reqs : reqs'[r].pc = "claimed" =>
           reqs[r].pc = "claimed" /\ reqs'[r].todo = reqs[r].todo
    /\ \A i \in Items : queue'[i].state \in Active /\ i \notin staged' =>
           \/ queue[i].state \in Active /\ i \notin staged
           \/ \E j \in links' : jobs'[j].file = i

\* The handler claims the row it works on.
Takes(r) ==
    /\ queue[Current(r)].state \in {"queued", "error"} /\ NoOtherSending(queue, Current(r))
    /\ queue' = [queue EXCEPT ![Current(r)].state = "sending"]
    /\ reqs' = [reqs EXCEPT ![r].pc = "claimed"]
    /\ turn \in {None, r} /\ reqs[r].todo # {} /\ reqs[r].kind # "direct"
    /\ reqs[r].pc # "claimed"
    /\ UNCHANGED <<staged, jobs, up, host, links, stops, faults>>

\* What the routes do to rows leaves those of running jobs alone.
LEMMA RouteQuiet ==
    ASSUME IInv,
           \/ \E i \in Items : Enqueue(i) \/ Cancel(i)
           \/ ReadQueue
           \/ \E j \in Jobs : ReadMissingJob(j)
           \/ \E r \in Reqs : \/ \E i \in Items, force \in BOOLEAN : BeginDispatch(r, i, force)
                              \/ BeginDrain(r)
                              \/ \E f \in Directs : BeginDirect(r, f)
           \/ Shutdown
           \/ Restart
    PROVE  Quiet
  <1>0. queue \in [Items -> Rows] /\ jobs \in [Jobs -> JobRecords] /\ reqs \in [Reqs -> Requests]
    BY DEF IInv, TypeOK
  <1>c. Completed' = Completed
    BY DEF Completed, Enqueue, Cancel, ReadQueue, ReadMissingJob, BeginDispatch, BeginDrain,
           BeginDirect, Shutdown, Restart
  <1>b. Running \subseteq Busy /\ "gone" \notin Busy
    BY DEF Running, Busy, Closing
  <1>1. ASSUME NEW i \in Items, Enqueue(i) PROVE Quiet
    BY <1>0, <1>c, <1>1 DEF Enqueue, Quiet, Released, Rows, Active
  <1>2. ASSUME NEW i \in Items, Cancel(i) PROVE Quiet
    BY <1>0, <1>c, <1>2 DEF Cancel, Quiet, Released, Rows, Active
  <1>3. ASSUME ReadQueue PROVE Quiet
    BY <1>0, <1>c, <1>3 DEF ReadQueue, ReconcileLive, Quiet, Released, Rows, Active, InMemory
  <1>4. ASSUME NEW j \in Jobs, ReadMissingJob(j) PROVE Quiet
    BY <1>0, <1>b, <1>c, <1>4 DEF ReadMissingJob, ReconcileResult, Quiet, Released, Rows, Active
  <1>5. ASSUME NEW r \in Reqs, NEW i \in Items, NEW force \in BOOLEAN, BeginDispatch(r, i, force)
        PROVE  Quiet
    <2>1. \A s \in Reqs : reqs'[s].pc = "claimed" => s # r /\ reqs'[s] = reqs[s]
      BY <1>0, <1>5 DEF BeginDispatch, IdleReq
    <2>2. queue' = ReconcileLive(queue) /\ UNCHANGED <<staged, jobs, up, links>>
      BY <1>5, Zenon DEF BeginDispatch
    <2> QED BY <1>0, <1>c, <2>1, <2>2 DEF ReconcileLive, Quiet, Released, Rows, Active, InMemory
  <1>6. ASSUME NEW r \in Reqs, BeginDrain(r) PROVE Quiet
    <2>1. \A s \in Reqs : reqs'[s].pc = "claimed" => s # r /\ reqs'[s] = reqs[s]
      BY <1>0, <1>6 DEF BeginDrain, IdleReq
    <2>2. queue' = ReconcileLive(queue) /\ UNCHANGED <<staged, jobs, up, links>>
      BY <1>6, Zenon DEF BeginDrain
    <2> QED BY <1>0, <1>c, <2>1, <2>2 DEF ReconcileLive, Quiet, Released, Rows, Active, InMemory
  <1>7. ASSUME NEW r \in Reqs, NEW f \in Directs, BeginDirect(r, f) PROVE Quiet
    <2>1. \A s \in Reqs : reqs'[s].pc = "claimed" => s # r /\ reqs'[s] = reqs[s]
      BY <1>0, <1>7 DEF BeginDirect, IdleReq
    <2> QED BY <1>0, <1>c, <1>7, <2>1 DEF BeginDirect, Quiet, Released
  <1>8. CASE Shutdown
    BY <1>0, <1>c, <1>8 DEF Shutdown, InterruptInFlight, Quiet, Released, Rows, Active
  <1>9. CASE Restart
    <2>1. \A j \in Jobs : jobs[j].phase \notin Busy
      BY <1>9 DEF Restart, IInv, StoppedIsEmpty, InMemory
    <2> QED BY <1>0, <1>b, <1>c, <1>9, <2>1
            DEF Restart, InterruptInFlight, Quiet, Released, Rows, Active
  <1> QED BY <1>1, <1>2, <1>3, <1>4, <1>5, <1>6, <1>7, <1>8, <1>9

\* A handler that has not claimed its row yet claims it, or moves on quietly.
LEMMA HandlerQuiet ==
    ASSUME IInv, NEW r \in Reqs,
           DispatchNext(r) \/ Finish(r) \/ HostStatus(r) \/ ProbeReturns(r)
    PROVE  Quiet \/ Takes(r)
  <1>0. /\ queue \in [Items -> Rows] /\ reqs \in [Reqs -> Requests] /\ reqs[r] \in Requests
    BY DEF IInv, TypeOK
  <1>1. UNCHANGED <<staged, jobs, up, links>> /\ Completed' = Completed
    BY DEF DispatchNext, Finish, HostStatus, ProbeReturns, Completed
  <1>2. ASSUME \A s \in Reqs : reqs'[s].pc = "claimed" => reqs'[s] = reqs[s],
               UNCHANGED queue
        PROVE  Quiet
    BY <1>0, <1>1, <1>2 DEF Quiet, Released
  <1>3. ASSUME Claim(r, Current(r)), turn \in {None, r}, reqs[r].todo # {},
               reqs[r].kind # "direct", reqs[r].pc # "claimed",
               UNCHANGED <<host, stops, faults>>
        PROVE  Quiet \/ Takes(r)
    <2> DEFINE i == Current(r)
    <2>1. CASE queue[i].state \in {"queued", "error"} /\ NoOtherSending(queue, i)
      BY <1>1, <1>3, <2>1 DEF Claim, Takes
    <2>2. CASE ~(queue[i].state \in {"queued", "error"} /\ NoOtherSending(queue, i))
      <3>1. UNCHANGED queue /\ reqs' = [reqs EXCEPT ![r].pc = "loop", ![r].todo = @ \ {i}]
        BY <1>3, <2>2 DEF Claim
      <3>2. \A s \in Reqs : reqs'[s].pc = "claimed" => reqs'[s] = reqs[s]
        BY <1>0, <3>1 DEF Requests
      <3> QED BY <1>2, <3>1, <3>2
    <2> QED BY <2>1, <2>2
  <1>4. CASE DispatchNext(r)
    <2> DEFINE i == Current(r)
    <2>1. /\ reqs[r].todo # {} /\ reqs[r].pc = "loop" /\ turn = r
          /\ reqs[r].kind # "direct" /\ i \in Items /\ UNCHANGED <<host, stops, faults>>
      BY <1>4, CurrentIsFirst DEF DispatchNext, IInv, AtWork
    <2>2. CASE Claim(r, i)
      BY <1>3, <2>1, <2>2
    <2>3. CASE /\ \/ UNCHANGED queue
                  \/ /\ queue[i].state \in {"queued", "error"}
                     /\ queue' = [queue EXCEPT ![i].state = "error"]
               /\ \/ reqs' = [reqs EXCEPT ![r].todo = @ \ {i}]
                  \/ reqs' = [reqs EXCEPT ![r].pc = "probing"]
      <3> HIDE DEF i
      <3>1. \A s \in Reqs : reqs'[s].pc = "claimed" => reqs'[s] = reqs[s]
        BY <1>0, <2>1, <2>3 DEF Requests
      <3> QED BY <1>0, <1>1, <2>1, <2>3, <3>1 DEF Quiet, Released, Rows, Active
    <2> QED BY <1>4, <2>2, <2>3 DEF DispatchNext
  <1>5. CASE Finish(r)
    <2>1. \A s \in Reqs : reqs'[s].pc = "claimed" => reqs'[s] = reqs[s]
      BY <1>0, <1>5 DEF Finish, IdleReq
    <2> QED BY <1>2, <1>5, <2>1 DEF Finish
  <1>6. CASE HostStatus(r)
    <2>1. \A s \in Reqs : reqs'[s].pc = "claimed" => reqs'[s] = reqs[s]
      BY <1>0, <1>6 DEF HostStatus, Requests
    <2> QED BY <1>2, <1>6, <2>1 DEF HostStatus
  <1>7. CASE ProbeReturns(r)
    <2>1. /\ reqs[r].pc = "probed" /\ reqs[r].kind # "direct" /\ reqs[r].todo # {}
          /\ turn = None /\ UNCHANGED <<host, stops, faults>>
      BY <1>7 DEF ProbeReturns, LoopFree, IInv, AtWork
    <2>2. CASE Claim(r, Current(r))
      BY <1>3, <2>1, <2>2
    <2>3. CASE /\ reqs' = [reqs EXCEPT ![r].pc = "loop", ![r].todo = @ \ {Current(r)}]
               /\ UNCHANGED queue
      <3>1. \A s \in Reqs : reqs'[s].pc = "claimed" => reqs'[s] = reqs[s]
        BY <1>0, <2>3 DEF Requests
      <3> QED BY <1>2, <2>3, <3>1
    <2> QED BY <1>7, <2>2, <2>3 DEF ProbeReturns
  <1> QED BY <1>4, <1>5, <1>6, <1>7

\* Printers, the pruning of jobs and the end of the process are quiet.
LEMMA OtherQuiet ==
    ASSUME IInv, \/ \E j \in Jobs : HostUpload(j) \/ Prune(j)
                 \/ \E p \in Printers : PrintEnds(p)
                 \/ Exit \/ Crash
                 \/ UNCHANGED vars
    PROVE  Quiet
  <1>0. queue \in [Items -> Rows] /\ jobs \in [Jobs -> JobRecords] /\ reqs \in [Reqs -> Requests]
        /\ links \subseteq Jobs
    BY DEF IInv, TypeOK
  <1>1. UNCHANGED <<queue, staged, links>>
    BY DEF HostUpload, Prune, PrintEnds, Exit, Crash, vars
  <1>2. Released(queue')
    BY <1>0, <1>1 DEF Released
  <1>b. Running \subseteq Busy /\ {"done", "error", "gone"} \cap Busy = {}
    BY DEF Running, Busy, Closing
  <1>3. ASSUME NEW j \in Jobs, HostUpload(j) PROVE Quiet
    <2>1. \A k \in Jobs : /\ jobs'[k].phase = jobs[k].phase /\ jobs'[k].file = jobs[k].file
                         /\ jobs'[k].owned = jobs[k].owned /\ jobs'[k].cut = jobs[k].cut
      BY <1>0, <1>3 DEF HostUpload, JobRecords
    <2>2. Completed' = Completed
      BY <1>0, <1>1, <2>1 DEF Completed
    <2> QED BY <1>1, <1>2, <1>3, <2>1, <2>2 DEF HostUpload, Quiet
  <1>4. ASSUME NEW j \in Jobs, Prune(j) PROVE Quiet
    <2>1. \A k \in Jobs : /\ jobs'[k].phase = IF k = j THEN "gone" ELSE jobs[k].phase
                         /\ jobs'[k].file = jobs[k].file
                         /\ jobs'[k].owned = jobs[k].owned /\ jobs'[k].cut = jobs[k].cut
      BY <1>0, <1>4 DEF Prune, JobRecords
    <2>2. Completed' = Completed
      BY <1>0, <1>1, <1>4, <2>1 DEF Completed, Closing, Prune
    <2> QED BY <1>1, <1>2, <1>4, <1>b, <2>1, <2>2 DEF Prune, Quiet
  <1>5. CASE Exit \/ Crash
    <2>0. Stopped
      BY <1>5 DEF Exit, Crash
    <2>1. \A k \in Jobs :
             /\ jobs'[k].phase = IF InMemory(k) THEN "gone" ELSE jobs[k].phase
             /\ jobs'[k].cut <=> jobs[k].cut \/ (InMemory(k) /\ jobs[k].phase \in Closing)
             /\ jobs'[k].file = jobs[k].file
      BY <1>0, <2>0 DEF Stopped, JobRecords
    <2>2. \A r \in Reqs : reqs'[r].pc # "claimed"
      BY <2>0 DEF Stopped, IdleReq
    <2>3. \A k \in Jobs : jobs'[k].phase \notin Busy
      BY <1>b, <2>1 DEF InMemory
    <2>4. Completed' = Completed
      <3>1. ASSUME NEW k \in Jobs
            PROVE  /\ jobs'[k].phase \notin Closing
                   /\ ~jobs'[k].cut <=> ~jobs[k].cut /\ jobs[k].phase \notin Closing
        BY <2>1, <2>3 DEF Busy, InMemory
      <3> QED BY <1>0, <1>1, <3>1 DEF Completed
    <2> QED BY <1>1, <1>2, <1>b, <2>1, <2>2, <2>3, <2>4 DEF Quiet
  <1>6. CASE (\E p \in Printers : PrintEnds(p)) \/ UNCHANGED vars
    <2>1. Completed' = Completed
      BY <1>6 DEF PrintEnds, vars, Completed
    <2> QED BY <1>1, <1>2, <1>6, <2>1 DEF Quiet, PrintEnds, vars
  <1> QED BY <1>3, <1>4, <1>5, <1>6
-----------------------------------------------------------------------------
(* Whatever writes fail and whenever the process dies, the done rows are   *)
(* those of the jobs that stored their link and were not cut short.         *)

\* The job a row names is in memory and has not ended.
NamesBusy(i) == queue[i].job # None /\ jobs[queue[i].job].phase \in Busy

\* Until a shutdown, the row that names such a job is sending.
RowSends == up = "up" => \A i \in Items : NamesBusy(i) => queue[i].state = "sending"

\* A row that is claimed names none.
ClaimedNamesNone ==
    up = "up" => \A r \in Reqs : reqs[r].pc = "claimed" => ~NamesBusy(Current(r))

FInv == RowSends /\ ClaimedNamesNone /\ DoneIffLinked

\* A step that completes no job and takes no row that names a running one out of its send.
Calm ==
    /\ Completed' = Completed
    /\ \A i \in Items :
           /\ queue'[i].job = queue[i].job
           /\ queue'[i].state = "done" <=> queue[i].state = "done"
           /\ up' = "up" /\ NamesBusy(i)' =>
                  /\ up = "up" /\ NamesBusy(i)
                  /\ queue[i].state = "sending" => queue'[i].state = "sending"
    /\ \A r \in Reqs : reqs'[r].pc = "claimed" =>
           reqs[r].pc = "claimed" /\ reqs'[r].todo = reqs[r].todo

LEMMA CalmStep == ASSUME IInv, FInv, Calm PROVE FInv'
  <1>1. RowSends'
    BY DEF FInv, RowSends, Calm
  <1>2. ClaimedNamesNone'
    <2> SUFFICES ASSUME NEW r \in Reqs, up' = "up", reqs'[r].pc = "claimed",
                        NamesBusy(Current(r))'
                 PROVE  FALSE
      BY DEF ClaimedNamesNone
    <2>1. reqs[r].pc = "claimed" /\ Current(r)' = Current(r)
      BY CurrentKept DEF Calm
    <2>2. Current(r) \in Items
      BY <2>1, CurrentIsFirst DEF IInv, AtWork
    <2>3. up = "up" /\ NamesBusy(Current(r))
      BY <2>1, <2>2 DEF Calm, NamesBusy
    <2> QED BY <2>1, <2>3 DEF FInv, ClaimedNamesNone
  <1>3. DoneIffLinked'
    BY DEF FInv, DoneIffLinked, Calm
  <1> QED BY <1>1, <1>2, <1>3 DEF FInv

LEMMA QuietCalm == ASSUME IInv, Quiet PROVE Calm
  <1>1. ASSUME NEW i \in Items
        PROVE  /\ queue'[i].job = queue[i].job
               /\ queue'[i].state = "done" <=> queue[i].state = "done"
               /\ up' = "up" /\ NamesBusy(i)' =>
                      /\ up = "up" /\ NamesBusy(i)
                      /\ queue[i].state = "sending" => queue'[i].state = "sending"
    <2>1. /\ queue'[i].job = queue[i].job /\ queue[i].job \in Jobs \cup {None}
          /\ queue'[i].state = "done" <=> queue[i].state = "done"
      BY DEF Quiet, Released, IInv, TypeOK, Rows
    <2> QED BY <2>1 DEF Quiet, NamesBusy
  <1> QED BY <1>1 DEF Calm, Quiet

\* A step of a busy job, when it completes nothing: if the job stops being busy, its rows
\* may become errors.
LEMMA JobCalm ==
    ASSUME IInv, NEW j \in Jobs, jobs[j].phase \in Busy, UNCHANGED <<reqs, up>>,
           \A k \in Jobs \ {j} : jobs'[k] = jobs[k],
           \/ UNCHANGED queue
           \/ queue' = ReconcileResult(queue, j, "error") /\ jobs'[j].phase \notin Busy,
           links' \in {links, links \cup {j}},
           j \notin Completed, j \notin Completed'
    PROVE  Calm
  <1>0. queue \in [Items -> Rows] /\ links \subseteq Jobs
    BY DEF IInv, TypeOK
  <1>1. Completed' = Completed
    BY <1>0 DEF Completed
  <1>2. ASSUME NEW i \in Items
        PROVE  /\ queue'[i].job = queue[i].job
               /\ queue'[i].state = "done" <=> queue[i].state = "done"
               /\ NamesBusy(i)' => NamesBusy(i) /\ queue'[i] = queue[i]
    <2>1. /\ queue'[i].job = queue[i].job /\ queue[i].job \in Jobs \cup {None}
          /\ queue'[i].state = "done" <=> queue[i].state = "done"
          /\ queue[i].job # j => queue'[i] = queue[i]
      BY <1>0 DEF ReconcileResult, Rows
    <2>2. NamesBusy(i)' => NamesBusy(i)
      BY <2>1 DEF NamesBusy
    <2>3. NamesBusy(i)' => queue'[i] = queue[i]
      BY <2>1 DEF NamesBusy
    <2> QED BY <2>1, <2>2, <2>3
  <1> QED BY <1>1, <1>2 DEF Calm

LEMMA JobsFair ==
    ASSUME IInv, FInv, NEW j \in Jobs, RunJob(j) \/ UploadReturns(j) \/ CleanUp(j)
    PROVE  FInv'
  <1> SUFFICES Calm
    BY CalmStep
  <1>0. /\ jobs \in [Jobs -> JobRecords] /\ jobs[j].phase \in Busy /\ UNCHANGED <<reqs, up>>
    BY DEF RunJob, UploadReturns, CleanUp, Busy, Closing, IInv, TypeOK
  <1>1. jobs[j].phase \in {"pending", "uploading"} => j \notin links
    BY DEF IInv, LinksAnswered, Linked, Closing
  <1>2. {"error", "uploading", "linked", "cleaned"} \cap Closing = {"linked", "cleaned"}
        /\ "error" \notin Busy
    BY DEF Closing, Busy
  <1>3. ASSUME NEW owned \in BOOLEAN, NEW began \in BOOLEAN, Fails(j, owned, began),
               jobs[j].phase \in {"pending", "uploading"}
        PROVE  Calm
    <2>1. /\ jobs'[j].phase = "error" /\ \A k \in Jobs \ {j} : jobs'[k] = jobs[k]
          /\ UNCHANGED links /\ queue' = ReconcileResult(queue, j, "error")
      BY <1>0, <1>3 DEF Fails, JobRecords
    <2>2. j \notin Completed /\ j \notin Completed'
      BY <1>1, <1>3, <2>1 DEF Completed
    <2> QED BY <1>0, <1>2, <2>1, <2>2, JobCalm
  <1>4. CASE RunJob(j)
    <2>1. CASE \E owned, began \in BOOLEAN : Fails(j, owned, began)
      BY <1>3, <1>4, <2>1 DEF RunJob
    <2>2. CASE /\ \E owned \in BOOLEAN :
                     jobs' = [jobs EXCEPT ![j].phase = "uploading", ![j].owned = owned]
               /\ UNCHANGED <<queue, staged, links>>
      <3>1. \A k \in Jobs \ {j} : jobs'[k] = jobs[k]
        BY <1>0, <2>2
      <3>2. j \notin Completed /\ j \notin Completed'
        BY <1>1, <1>4, <2>2 DEF Completed, RunJob
      <3> QED BY <1>0, <2>2, <3>1, <3>2, JobCalm
    <2> QED BY <1>4, <2>1, <2>2 DEF RunJob
  <1>5. CASE UploadReturns(j)
    <2>0. jobs[j].phase = "uploading" /\ jobs[j].owned \in BOOLEAN
      BY <1>0, <1>5 DEF UploadReturns, JobRecords
    <2>1. CASE Fails(j, jobs[j].owned, TRUE)
      BY <1>3, <2>0, <2>1
    <2>2. CASE /\ jobs' = [jobs EXCEPT ![j].phase = "linked"] /\ links' = links \cup {j}
               /\ UNCHANGED queue
      <3>1. jobs'[j].phase = "linked" /\ \A k \in Jobs \ {j} : jobs'[k] = jobs[k]
        BY <1>0, <2>2 DEF JobRecords
      <3>2. j \notin Completed /\ j \notin Completed'
        BY <1>1, <1>2, <2>0, <3>1 DEF Completed
      <3> QED BY <1>0, <2>2, <3>1, <3>2, JobCalm
    <2>3. CASE WriteFails(j, FALSE) /\ UNCHANGED links
      <3>1. /\ jobs'[j].phase = "error" /\ \A k \in Jobs \ {j} : jobs'[k] = jobs[k]
            /\ queue' = queue \/ queue' = ReconcileResult(queue, j, "error")
        BY <1>0, <2>3 DEF WriteFails, JobRecords
      <3>2. j \notin Completed /\ j \notin Completed'
        BY <1>1, <2>0, <2>3 DEF Completed
      <3> QED BY <1>0, <1>2, <2>3, <3>1, <3>2, JobCalm
    <2> QED BY <1>5, <2>1, <2>2, <2>3 DEF UploadReturns
  <1>6. CASE CleanUp(j)
    <2>1. /\ jobs[j].phase = "linked" /\ jobs'[j].phase = "cleaned"
          /\ \A k \in Jobs \ {j} : jobs'[k] = jobs[k]
          /\ UNCHANGED <<queue, links>>
      BY <1>0, <1>6 DEF CleanUp, JobRecords
    <2>2. j \notin Completed /\ j \notin Completed'
      BY <1>2, <2>1 DEF Completed
    <2> QED BY <1>0, <2>1, <2>2, JobCalm
  <1> QED BY <1>4, <1>5, <1>6

\* A job that ends after its link completes, and with it the row that names it, or is cut.
LEMMA FinishFair ==
    ASSUME IInv, FInv, NEW j \in Jobs, FinishJob(j) PROVE FInv'
  <1>0. /\ queue \in [Items -> Rows] /\ links \subseteq Jobs
    BY DEF IInv, TypeOK
  <1>1. /\ jobs[j].phase \in Closing /\ j \in links /\ turn = j /\ up = "up"
        /\ \A k \in Jobs \ {j} : jobs'[k] = jobs[k]
        /\ \/ /\ jobs'[j].phase = "done" /\ ~jobs'[j].cut
              /\ queue' = ReconcileResult(queue, j, "done")
           \/ /\ jobs'[j].phase = "error" /\ jobs'[j].cut
              /\ queue' \in {queue, ReconcileResult(queue, j, "error")}
        /\ UNCHANGED <<reqs, up, links>>
    BY Finished
  <1>2. CASE /\ jobs'[j].phase = "error" /\ jobs'[j].cut
             /\ queue' \in {queue, ReconcileResult(queue, j, "error")}
    <2>1. jobs[j].phase \in Busy /\ jobs'[j].phase \notin Busy
      BY <1>1, <1>2 DEF Busy, Closing
    <2>2. j \notin Completed /\ j \notin Completed'
      BY <1>1, <1>2 DEF Completed
    <2>3. Calm
      BY <1>1, <1>2, <2>1, <2>2, JobCalm
    <2> QED BY <2>3, CalmStep
  <1>3. CASE /\ jobs'[j].phase = "done" /\ ~jobs'[j].cut
             /\ queue' = ReconcileResult(queue, j, "done")
    <2>1. Completed' = Completed \cup {j}
      <3>1. jobs'[j].phase \notin Closing
        BY <1>3 DEF Closing
      <3> QED BY <1>0, <1>1, <1>3, <3>1 DEF Completed
    <2>2. ASSUME NEW i \in Items
          PROVE  /\ queue'[i].job = queue[i].job
                 /\ queue[i].job # j => queue'[i] = queue[i]
                 /\ queue[i].job = j => queue'[i].state = "done"
      <3>1. queue[i].job = j => queue[i].state = "sending"
        BY <1>1, SendQueueAssumption DEF FInv, RowSends, NamesBusy, Busy
      <3> QED BY <1>0, <1>3, <3>1 DEF ReconcileResult, Rows
    <2>3. DoneIffLinked'
      BY <2>1, <2>2 DEF FInv, DoneIffLinked
    <2>4. RowSends'
      <3> SUFFICES ASSUME NEW i \in Items, NamesBusy(i)' PROVE queue'[i].state = "sending"
        BY DEF RowSends
      <3>1. queue'[i].job = queue[i].job /\ queue[i].job \in Jobs \cup {None}
        BY <1>0, <2>2 DEF Rows
      <3>2. queue[i].job # j
        BY <1>3, <3>1 DEF NamesBusy, Busy, Closing
      <3>3. NamesBusy(i) /\ queue'[i] = queue[i]
        BY <1>1, <2>2, <3>1, <3>2 DEF NamesBusy
      <3> QED BY <1>1, <3>3 DEF FInv, RowSends
    <2>5. ClaimedNamesNone'
      <3>1. \A r \in Reqs : reqs'[r].pc # "claimed"
        BY <1>1, SendQueueAssumption DEF IInv, ClaimHolds
      <3> QED BY <3>1 DEF ClaimedNamesNone
    <2> QED BY <2>3, <2>4, <2>5 DEF FInv
  <1> QED BY <1>1, <1>2, <1>3

\* The row that is claimed was not done and names no running job.
LEMMA ClaimFair ==
    ASSUME IInv, FInv, NEW r \in Reqs, Takes(r) PROVE FInv'
  <1>0. /\ reqs[r] \in Requests /\ Current(r) \in Items
        /\ queue \in [Items -> Rows] /\ reqs \in [Reqs -> Requests]
    BY CurrentIsFirst DEF Takes, IInv, TypeOK, AtWork
  <1>1. PICK i \in Items : i = Current(r)
    BY <1>0
  <1>2. Current(r)' = i
    BY <1>0, <1>1, CurrentKept DEF Takes, Requests
  <1>3. /\ queue[i].state \in {"queued", "error"} /\ UNCHANGED <<jobs, up, links>>
        /\ queue' = [queue EXCEPT ![i].state = "sending"]
    BY <1>1 DEF Takes
  <1>4. \A s \in Reqs : reqs'[s].pc = "claimed" => s = r
    BY <1>0, SendQueueAssumption DEF Takes, IInv, ClaimHolds
  <1>5. /\ \A k \in Items \ {i} : queue'[k] = queue[k]
        /\ queue'[i].job = queue[i].job /\ queue'[i].state = "sending"
    BY <1>0, <1>3 DEF Rows
  <1>6. \A k \in Items : NamesBusy(k)' => NamesBusy(k)
    BY <1>3, <1>5 DEF NamesBusy
  <1>7. up = "up" => ~NamesBusy(i)
    BY <1>3 DEF FInv, RowSends
  <1>8. RowSends'
    BY <1>3, <1>5, <1>6 DEF FInv, RowSends
  <1>9. ClaimedNamesNone'
    <2>1. up = "up" => ~NamesBusy(i)'
      BY <1>6, <1>7
    <2>2. \A s \in Reqs : reqs'[s].pc = "claimed" => Current(s)' = i
      BY <1>2, <1>4
    <2> QED BY <1>3, <2>1, <2>2 DEF ClaimedNamesNone, NamesBusy
  <1>10. DoneIffLinked'
    <2>1. Completed' = Completed
      BY <1>3 DEF Completed
    <2> QED BY <1>3, <1>5, <2>1 DEF FInv, DoneIffLinked
  <1> QED BY <1>8, <1>9, <1>10 DEF FInv

\* A job that starts is new to the links and to the rows.
LEMMA StartsFair ==
    ASSUME IInv, FInv, NEW r \in Reqs,
           StartClaimed(r) \/ StartClaimedFails(r) \/ DirectProceeds(r)
    PROVE  FInv'
  <1>0. /\ queue \in [Items -> Rows] /\ links \subseteq Jobs /\ UNCHANGED <<up, links>>
        /\ reqs \in [Reqs -> Requests] /\ reqs[r] \in Requests
        /\ \A k \in Items : queue[k].job \in Jobs \cup {None}
    BY DEF StartClaimed, StartClaimedFails, DirectProceeds, IInv, TypeOK, Rows
  <1>1. ASSUME NEW f \in Files, NEW j \in Jobs, Fresh(j),
               jobs' = [jobs EXCEPT ![j] = NewJob(r, f)]
        PROVE  /\ Completed' = Completed /\ j \notin Completed
               /\ \A k \in Jobs \ {j} : jobs'[k] = jobs[k]
               /\ \A i \in Items : queue[i].job # j
    <2>1. \A k \in Jobs \ {j} : jobs'[k] = jobs[k]
      BY <1>1, FreshProceeds
    <2>2. jobs[j].phase = "unused"
      BY <1>1 DEF Fresh
    <2>3. j \notin links
      BY <2>2 DEF IInv, LinksAnswered, Linked, Closing
    <2>4. \A i \in Items : queue[i].job # j
      BY <2>2, SendQueueAssumption DEF IInv, JobRows
    <2> QED BY <1>0, <2>1, <2>3, <2>4 DEF Completed
  <1>2. CASE DirectProceeds(r)
    <2>1. UNCHANGED queue /\ reqs' = [reqs EXCEPT ![r] = IdleReq]
          /\ reqs[r].pc = "probed" /\ reqs[r].kind = "direct"
      BY <1>2 DEF DirectProceeds
    <2>2. \A s \in Reqs : reqs'[s].pc = "claimed" => reqs'[s] = reqs[s]
      BY <1>0, <2>1 DEF IdleReq
    <2>3. /\ Completed' = Completed
          /\ \A i \in Items : NamesBusy(i)' => NamesBusy(i)
      <3>1. CASE UNCHANGED jobs
        BY <1>0, <2>1, <3>1 DEF Completed, NamesBusy
      <3>2. CASE ~UNCHANGED jobs
        <4>1. PICK f \in reqs[r].todo, j \in Jobs :
                  Fresh(j) /\ jobs' = [jobs EXCEPT ![j] = NewJob(r, f)]
          BY <1>2, <3>2, Zenon DEF DirectProceeds
        <4>2. f \in Files
          BY <1>0 DEF Requests
        <4> QED BY <1>0, <1>1, <2>1, <4>1, <4>2 DEF NamesBusy
      <3> QED BY <3>1, <3>2
    <2>4. Calm
      BY <1>0, <2>1, <2>2, <2>3 DEF Calm
    <2> QED BY <2>4, CalmStep
  <1>3. CASE StartClaimed(r) \/ StartClaimedFails(r)
    <2> DEFINE i == Current(r)
    <2>1. reqs[r].pc = "claimed" /\ turn = r
      BY <1>3 DEF StartClaimed, StartClaimedFails
    <2>2. i \in Items /\ i \in Files /\ queue[i].state = "sending"
      BY <2>1, CurrentIsFirst DEF IInv, AtWork, ClaimHolds, Files
    <2>3. \A s \in Reqs : reqs'[s].pc # "claimed"
      <3>1. \A s \in Reqs \ {r} : reqs[s].pc # "claimed" /\ reqs'[s] = reqs[s]
        BY <1>0, <1>3, <2>1 DEF StartClaimed, StartClaimedFails, IInv, ClaimHolds
      <3>2. reqs'[r].pc = "loop"
        BY <1>0, <1>3 DEF StartClaimed, StartClaimedFails, Requests
      <3> QED BY <3>1, <3>2
    <2>4. CASE StartClaimed(r)
      <3>1. PICK j \in Jobs : /\ Fresh(j)
                              /\ jobs' = [jobs EXCEPT ![j] = NewJob(r, i)]
                              /\ queue' = [queue EXCEPT ![i].job = j]
        BY <2>4 DEF StartClaimed
      <3> HIDE DEF i
      <3>2. /\ Completed' = Completed /\ j \notin Completed
            /\ \A k \in Jobs \ {j} : jobs'[k] = jobs[k]
            /\ \A k \in Items : queue[k].job # j
        BY <1>1, <2>2, <3>1
      <3>3. /\ queue'[i].job = j /\ queue'[i].state = "sending"
            /\ \A k \in Items \ {i} : queue'[k] = queue[k]
        BY <1>0, <2>2, <3>1 DEF Rows
      <3>4. RowSends'
        <4>1. \A k \in Items \ {i} : NamesBusy(k)' => NamesBusy(k)
          BY <1>0, <3>2, <3>3 DEF NamesBusy
        <4> QED BY <1>0, <3>3, <4>1 DEF FInv, RowSends
      <3>5. DoneIffLinked'
        BY <3>2, <3>3 DEF FInv, DoneIffLinked
      <3> QED BY <2>3, <3>4, <3>5 DEF FInv, ClaimedNamesNone
    <2>5. CASE StartClaimedFails(r)
      <3>1. queue' = [queue EXCEPT ![i].state = "error"]
        BY <2>5 DEF StartClaimedFails
      <3>2. /\ Completed' = Completed
            /\ \A k \in Items : queue[k].job # None =>
                   jobs'[queue[k].job] = jobs[queue[k].job]
        <4>1. CASE UNCHANGED jobs
          BY <1>0, <4>1 DEF Completed
        <4>2. CASE \E j \in Jobs : Fresh(j) /\ jobs' = [jobs EXCEPT ![j] = NewJob(r, i)]
          BY <1>0, <1>1, <2>2, <4>2
        <4> QED BY <2>5, <4>1, <4>2 DEF StartClaimedFails
      <3>3. up = "up" => ~NamesBusy(i)
        BY <2>1 DEF FInv, ClaimedNamesNone
      <3> HIDE DEF i
      <3>4. /\ queue'[i].job = queue[i].job /\ queue'[i].state = "error"
            /\ \A k \in Items \ {i} : queue'[k] = queue[k]
        BY <1>0, <2>2, <3>1 DEF Rows
      <3>5. \A k \in Items : NamesBusy(k)' => NamesBusy(k)
        BY <1>0, <3>2, <3>4 DEF NamesBusy
      <3>6. Calm
        BY <1>0, <2>2, <2>3, <3>2, <3>3, <3>4, <3>5 DEF Calm
      <3> QED BY <3>6, CalmStep
    <2> QED BY <1>3, <2>4, <2>5
  <1> QED BY <1>2, <1>3

LEMMA FairNext == IInv /\ FInv /\ [Next]_vars => FInv'
  <1> SUFFICES ASSUME IInv, FInv, [Next]_vars PROVE FInv'
    OBVIOUS
  <1>1. ASSUME Quiet PROVE FInv'
    BY <1>1, QuietCalm, CalmStep
  <1>2. ASSUME NEW r \in Reqs, HandlerStep(r) PROVE FInv'
    BY <1>1, <1>2, HandlerQuiet, ClaimFair, StartsFair DEF HandlerStep
  <1>3. ASSUME NEW j \in Jobs, JobStep(j) PROVE FInv'
    BY <1>1, <1>3, JobsFair, FinishFair, OtherQuiet DEF JobStep
  <1> QED BY <1>1, <1>2, <1>3, RouteQuiet, OtherQuiet DEF Next

\* Whatever writes fail and whenever the process dies, a row is done exactly when its last
\* job stored its Checkoff link and was not cut short between that and the row's write.
THEOREM DoneAndLinkedAgree == Spec => []DoneIffLinked
  <1>1. Init => FInv
    BY DEF Init, FInv, RowSends, ClaimedNamesNone, NamesBusy, DoneIffLinked, Completed, IdleReq
  <1>2. IInv /\ FInv /\ [Next]_vars => FInv'
    BY FairNext
  <1>3. FInv => DoneIffLinked
    BY DEF FInv
  <1> QED BY <1>1, <1>2, <1>3, QueueInvariant, PTL DEF Spec

-----------------------------------------------------------------------------
(* Without failed writes: each running job has its row, and the files on   *)
(* disk are those that may be sent.                                        *)

\* In a serving process the row of a running job is sending under that job's id, and
\* the job that transfers the file began under it.
RowsHoldJobs ==
    \A j \in Jobs : up = "up" /\ jobs[j].phase \in Running /\ jobs[j].file \in Items =>
        /\ queue[jobs[j].file].state = "sending" /\ queue[jobs[j].file].job = j
        /\ jobs[j].phase = "uploading" => jobs[j].owned

\* A row that is claimed and not yet started has no running job.
ClaimedIsFree ==
    \A r \in Reqs, j \in Jobs :
        reqs[r].pc = "claimed" /\ up = "up" /\ jobs[j].phase \in Running
            => jobs[j].file # Current(r)

SInv == RowsHoldJobs /\ ClaimedIsFree /\ OneTransferPerPrinter /\ FileKept

LEMMA QuietStep == ASSUME IInv, SInv, Quiet PROVE SInv'
  <1>0. \A j \in Jobs : jobs'[j].phase \in Running =>
            /\ jobs[j].phase = jobs'[j].phase /\ jobs'[j].file = jobs[j].file
            /\ jobs'[j].owned = jobs[j].owned /\ (up' = "up" => up = "up")
    BY DEF Quiet, Running, Busy
  <1>1. RowsHoldJobs'
    <2> SUFFICES ASSUME NEW j \in Jobs, up' = "up", jobs'[j].phase \in Running,
                        jobs'[j].file \in Items
                 PROVE  /\ queue'[jobs'[j].file].state = "sending"
                        /\ queue'[jobs'[j].file].job = j
                        /\ jobs'[j].phase = "uploading" => jobs'[j].owned
      BY DEF RowsHoldJobs
    <2>1. /\ queue[jobs[j].file].state = "sending" /\ queue[jobs[j].file].job = j
          /\ jobs[j].phase = "uploading" => jobs[j].owned
          /\ jobs[j].file \in Items
      BY <1>0 DEF SInv, RowsHoldJobs
    <2>2. queue'[jobs[j].file] = queue[jobs[j].file]
      BY <2>1 DEF Quiet, Running, Busy
    <2> QED BY <1>0, <2>1, <2>2
  <1>2. ClaimedIsFree'
    <2> SUFFICES ASSUME NEW r \in Reqs, NEW j \in Jobs, reqs'[r].pc = "claimed", up' = "up",
                        jobs'[j].phase \in Running
                 PROVE  jobs'[j].file # Current(r)'
      BY DEF ClaimedIsFree
    <2>1. reqs[r].pc = "claimed" /\ Current(r)' = Current(r)
      BY CurrentKept DEF Quiet
    <2> QED BY <1>0, <2>1 DEF SInv, ClaimedIsFree
  <1>3. OneTransferPerPrinter'
    BY <1>0 DEF SInv, OneTransferPerPrinter, Running
  <1>4. FileKept'
    <2> SUFFICES ASSUME NEW i \in Items, queue'[i].state \in Active, i \notin staged'
                 PROVE  \E j \in links' : jobs'[j].file = i
      BY DEF FileKept, Active
    <2>1. CASE queue[i].state \in Active /\ i \notin staged
      <3>1. PICK j \in links : jobs[j].file = i
        BY <2>1 DEF SInv, FileKept, Active
      <3>2. j \in Jobs /\ jobs[j].phase # "unused" /\ j \in links'
        BY DEF IInv, TypeOK, LinksAnswered, Linked, Closing, Quiet
      <3> QED BY <3>1, <3>2 DEF Quiet
    <2> QED BY <2>1 DEF Quiet
  <1> QED BY <1>1, <1>2, <1>3, <1>4 DEF SInv

LEMMA ClaimSound ==
    ASSUME IInv, SInv, NEW r \in Reqs, Takes(r) PROVE SInv'
  <1> DEFINE i == Current(r)
  <1>0. /\ reqs[r] \in Requests /\ i \in Items
        /\ queue \in [Items -> Rows] /\ reqs \in [Reqs -> Requests]
    BY CurrentIsFirst DEF Takes, IInv, TypeOK, AtWork
  <1>1. /\ queue[i].state \in {"queued", "error"}
        /\ queue' = [queue EXCEPT ![i].state = "sending"]
        /\ UNCHANGED <<staged, jobs, up, links>>
    BY DEF Takes
  <1>2. \A s \in Reqs : reqs'[s].pc = "claimed" => s = r
    BY <1>0, SendQueueAssumption DEF Takes, IInv, ClaimHolds
  <1>3. Current(r)' = i
    BY <1>0, CurrentKept DEF Takes, Requests
  <1> HIDE DEF i
  <1>4. /\ \A k \in Items \ {i} : queue'[k] = queue[k]
        /\ queue'[i].job = queue[i].job /\ queue'[i].state = "sending"
    BY <1>0, <1>1 DEF Rows
  <1>5. \A j \in Jobs : up = "up" /\ jobs[j].phase \in Running => jobs[j].file # i
    BY <1>0, <1>1 DEF SInv, RowsHoldJobs
  <1>6. RowsHoldJobs'
    BY <1>1, <1>4, <1>5 DEF SInv, RowsHoldJobs
  <1>7. ClaimedIsFree'
    BY <1>1, <1>2, <1>3, <1>5 DEF ClaimedIsFree
  <1>8. OneTransferPerPrinter'
    BY <1>1 DEF SInv, OneTransferPerPrinter
  <1>9. FileKept'
    BY <1>0, <1>1, <1>4 DEF SInv, FileKept
  <1> QED BY <1>6, <1>7, <1>8, <1>9 DEF SInv

\* The job that starts gets its row's name, and its row had no running job.
LEMMA StartSound ==
    ASSUME IInv, SInv, NEW r \in Reqs, StartClaimed(r) PROVE SInv'
  <1> DEFINE i == Current(r)
  <1>1. PICK j \in Jobs : /\ Fresh(j)
                          /\ jobs' = [jobs EXCEPT ![j] = NewJob(r, i)]
                          /\ queue' = [queue EXCEPT ![i].job = j]
    BY DEF StartClaimed
  <1>2. /\ reqs' = [reqs EXCEPT ![r].pc = "loop", ![r].todo = @ \ {i},
                                ![r].used = @ \cup {PrinterOf[i]}]
        /\ reqs[r].pc = "claimed" /\ turn = r
        /\ UNCHANGED <<staged, turn, up, host, links, stops, faults>>
    BY DEF StartClaimed
  <1>3. /\ i \in Items /\ queue \in [Items -> Rows] /\ queue[i].state = "sending"
    BY <1>2, CurrentIsFirst DEF IInv, TypeOK, AtWork, ClaimHolds
  <1>4. /\ JobsProceed /\ jobs'[j] = NewJob(r, i)
        /\ \A k \in Jobs \ {j} : jobs'[k] = jobs[k]
    BY <1>1, <1>3, FreshProceeds DEF Files
  <1>5. jobs[j].phase = "unused" /\ j \notin links /\ links \subseteq Jobs
    BY <1>1 DEF Fresh, IInv, LinksAnswered, Linked, Closing, TypeOK
  <1>6. /\ NewJob(r, i).phase = "pending" /\ NewJob(r, i).file = i
    BY <1>3, NewJobTyped DEF IInv, Files
  <1>7. \A k \in Jobs : up = "up" /\ jobs[k].phase \in Running => jobs[k].file # i
    BY <1>2 DEF SInv, ClaimedIsFree
  <1>8. \A s \in Reqs : reqs'[s].pc # "claimed"
    BY <1>2 DEF IInv, TypeOK, Requests, ClaimHolds
  <1> HIDE DEF i
  <1>9. /\ queue'[i].job = j /\ queue'[i].state = queue[i].state
        /\ \A k \in Items \ {i} : queue'[k] = queue[k]
    BY <1>1, <1>3 DEF Rows
  <1>10. RowsHoldJobs'
    <2> SUFFICES ASSUME NEW k \in Jobs, up = "up", jobs'[k].phase \in Running,
                        jobs'[k].file \in Items
                 PROVE  /\ queue'[jobs'[k].file].state = "sending"
                        /\ queue'[jobs'[k].file].job = k
                        /\ jobs'[k].phase = "uploading" => jobs'[k].owned
      BY <1>2 DEF RowsHoldJobs
    <2>1. CASE k = j
      BY <1>3, <1>4, <1>6, <1>9, <2>1
    <2>2. CASE k # j
      BY <1>4, <1>7, <1>9, <2>2 DEF SInv, RowsHoldJobs
    <2> QED BY <2>1, <2>2
  <1>11. ClaimedIsFree'
    BY <1>8 DEF ClaimedIsFree
  <1>12. OneTransferPerPrinter'
    BY <1>4, <1>6 DEF SInv, OneTransferPerPrinter
  <1>13. FileKept'
    <2> SUFFICES ASSUME NEW k \in Items, queue'[k].state \in {"queued", "sending", "error"},
                        k \notin staged
                 PROVE  \E n \in links : jobs'[n].file = k
      BY <1>2 DEF FileKept
    <2>1. PICK n \in links : jobs[n].file = k
      BY <1>9 DEF SInv, FileKept
    <2> QED BY <1>4, <1>5, <2>1
  <1> QED BY <1>10, <1>11, <1>12, <1>13 DEF SInv

LEMMA DirectSound ==
    ASSUME IInv, SInv, NEW r \in Reqs, DirectProceeds(r) PROVE SInv'
  <1>1. /\ UNCHANGED <<queue, turn, up, host, links, stops, faults>>
        /\ reqs' = [reqs EXCEPT ![r] = IdleReq]
        /\ reqs[r].pc = "probed" /\ reqs[r].kind = "direct"
        /\ queue \in [Items -> Rows]
    BY DEF DirectProceeds, IInv, TypeOK
  <1>2. PICK f \in reqs[r].todo :
            IF reqs[r].seen = "idle"
            THEN /\ \E j \in Jobs : Fresh(j) /\ jobs' = [jobs EXCEPT ![j] = NewJob(r, f)]
                 /\ UNCHANGED staged
            ELSE /\ staged' = staged \ {f}
                 /\ UNCHANGED jobs
    BY DEF DirectProceeds
  <1>3. f \in Files /\ f \notin Items
    BY <1>1, SendQueueAssumption DEF IInv, AtWork, Files
  <1>4. \A s \in Reqs : reqs'[s].pc = "claimed" => reqs'[s] = reqs[s]
    BY <1>1 DEF IInv, TypeOK, IdleReq
  <1>5. CASE staged' = staged \ {f} /\ UNCHANGED jobs
    <2>1. Completed' = Completed
      BY <1>1, <1>5 DEF Completed
    <2>2. Quiet
      BY <1>1, <1>3, <1>4, <1>5, <2>1 DEF Quiet, Released
    <2> QED BY <2>2, QuietStep
  <1>6. ASSUME NEW j \in Jobs, Fresh(j), jobs' = [jobs EXCEPT ![j] = NewJob(r, f)],
               UNCHANGED staged
        PROVE  SInv'
    <2>1. /\ jobs'[j] = NewJob(r, f) /\ \A k \in Jobs \ {j} : jobs'[k] = jobs[k]
      BY <1>3, <1>6, FreshProceeds
    <2>2. NewJob(r, f).phase = "pending" /\ NewJob(r, f).file = f
      BY <1>3, NewJobTyped DEF IInv
    <2>3. j \notin links /\ links \subseteq Jobs
      BY <1>6 DEF Fresh, IInv, LinksAnswered, Linked, Closing, TypeOK
    <2>4. RowsHoldJobs'
      BY <1>1, <1>3, <2>1, <2>2 DEF SInv, RowsHoldJobs
    <2>5. ClaimedIsFree'
      <3> SUFFICES ASSUME NEW s \in Reqs, NEW k \in Jobs, reqs'[s].pc = "claimed", up = "up",
                          jobs'[k].phase \in Running
                   PROVE  jobs'[k].file # Current(s)'
        BY <1>1 DEF ClaimedIsFree
      <3>1. reqs'[s] = reqs[s] /\ Current(s)' = Current(s)
        BY <1>4, CurrentKept
      <3>2. Current(s) \in Items
        BY <3>1, CurrentIsFirst DEF IInv, AtWork
      <3> QED BY <1>3, <2>1, <2>2, <3>1, <3>2 DEF SInv, ClaimedIsFree
    <2>6. OneTransferPerPrinter'
      BY <2>1, <2>2 DEF SInv, OneTransferPerPrinter
    <2>7. FileKept'
      BY <1>1, <1>6, <2>1, <2>3 DEF SInv, FileKept
    <2> QED BY <2>4, <2>5, <2>6, <2>7 DEF SInv
  <1> QED BY <1>2, <1>5, <1>6

LEMMA HandlerSound ==
    ASSUME MaxFaults = 0, IInv, SInv, NEW r \in Reqs, HandlerStep(r) PROVE SInv'
  <1>1. ~StartClaimedFails(r)
    BY DEF StartClaimedFails, IInv, TypeOK
  <1>2. CASE DispatchNext(r) \/ Finish(r) \/ HostStatus(r) \/ ProbeReturns(r)
    BY <1>2, HandlerQuiet, QuietStep, ClaimSound
  <1> QED BY <1>1, <1>2, StartSound, DirectSound DEF HandlerStep

\* A failed job of a row leaves the file alone, for its row was sending.
LEMMA FailQuiet ==
    ASSUME IInv, SInv, NEW j \in Jobs, NEW owned \in BOOLEAN, NEW began \in BOOLEAN,
           jobs[j].phase \in Running, Fails(j, owned, began), UNCHANGED <<reqs, up>>,
           began /\ ~owned /\ ~Halted => jobs[j].file \notin Items
    PROVE  SInv'
  <1>0. queue \in [Items -> Rows] /\ jobs \in [Jobs -> JobRecords] /\ links \subseteq Jobs
    BY DEF IInv, TypeOK
  <1>1. /\ jobs'[j].phase = "error" /\ jobs'[j].file = jobs[j].file
        /\ \A k \in Jobs \ {j} : jobs'[k] = jobs[k]
    BY <1>0 DEF Fails, JobRecords
  <1>2. /\ Released(queue')
        /\ \A i \in Items : /\ queue[i].state = "done" => queue'[i].state = "done"
                            /\ queue[i].job # j => queue'[i] = queue[i]
                            /\ queue'[i].state \in Active => queue[i].state \in Active
    BY <1>0, ReleasedByReconcile DEF Fails, ReconcileResult, Rows, Active
  <1>3. \A i \in Items : i \notin staged' => i \notin staged
    BY DEF Fails
  <1>4. Completed' = Completed
    <2>1. j \notin links /\ UNCHANGED links
      BY DEF IInv, LinksAnswered, Linked, Closing, Running, Fails
    <2> QED BY <1>0, <1>1, <2>1 DEF Completed
  <1>5. Quiet
    BY <1>1, <1>2, <1>3, <1>4 DEF Quiet, Fails, Running, Busy, Closing
  <1> QED BY <1>5, QuietStep

LEMMA RunSound ==
    ASSUME IInv, SInv, IInv', NEW j \in Jobs, RunJob(j) PROVE SInv'
  <1> DEFINE owned == NamedSending(j) # {}
  <1>0. /\ queue \in [Items -> Rows] /\ jobs \in [Jobs -> JobRecords]
        /\ LoopFree /\ jobs[j].phase = "pending"
        /\ UNCHANGED <<reqs, turn, up, host, stops>>
    BY DEF IInv, TypeOK, RunJob
  <1>1. ~Halted /\ jobs[j].file \in Items => owned
    <2> SUFFICES ASSUME ~Halted, jobs[j].file \in Items PROVE owned
      OBVIOUS
    <2>1. up = "up"
      BY <1>0 DEF LoopFree, Serving, Halted, IInv, TypeOK
    <2>2. jobs[j].file \in NamedSending(j)
      BY <1>0, <2>1 DEF SInv, RowsHoldJobs, Running, NamedSending, Named, Active
    <2> QED BY <2>2
  <1>2. CASE Fails(j, FALSE, FALSE)
    BY <1>0, <1>2, FailQuiet DEF Running
  <1>3. CASE Fails(j, owned, TRUE)
    BY <1>0, <1>1, <1>3, FailQuiet DEF Running
  <1>4. CASE /\ ~Halted /\ jobs' = [jobs EXCEPT ![j].phase = "uploading", ![j].owned = owned]
             /\ UNCHANGED <<queue, staged, links>>
    <2> HIDE DEF owned
    <2>1. /\ jobs'[j].phase = "uploading" /\ jobs'[j].owned = owned
          /\ jobs'[j].file = jobs[j].file /\ \A k \in Jobs \ {j} : jobs'[k] = jobs[k]
      BY <1>0, <1>4 DEF JobRecords
    <2>2. up = "up"
      BY <1>0, <1>4 DEF LoopFree, Serving, Halted, IInv, TypeOK
    <2>3. RowsHoldJobs'
      BY <1>0, <1>1, <1>4, <2>1 DEF SInv, RowsHoldJobs, Running
    <2>4. ClaimedIsFree'
      BY <1>0, SendQueueAssumption DEF LoopFree, IInv, ClaimHolds, ClaimedIsFree
    <2>5. OneTransferPerPrinter'
      <3> SUFFICES ASSUME NEW k \in Jobs, NEW m \in Jobs, jobs'[k].phase = "uploading",
                          jobs'[m].phase = "uploading", jobs'[k].owned, jobs'[m].owned,
                          PrinterOf[jobs'[k].file] = PrinterOf[jobs'[m].file]
                   PROVE  k = m
        BY DEF OneTransferPerPrinter
      <3>1. jobs'[k].file \in Items /\ jobs'[m].file \in Items
        BY DEF IInv, JobRows
      <3>2. /\ queue'[jobs'[k].file].state = "sending" /\ queue'[jobs'[k].file].job = k
            /\ queue'[jobs'[m].file].state = "sending" /\ queue'[jobs'[m].file].job = m
        BY <1>0, <2>2, <2>3, <3>1 DEF RowsHoldJobs, Running
      <3>3. jobs'[k].file = jobs'[m].file
        BY <3>1, <3>2 DEF IInv, OneSendPerPrinter
      <3> QED BY <3>2, <3>3
    <2>6. FileKept'
      BY <1>4, <2>1 DEF SInv, FileKept, IInv, TypeOK
    <2> QED BY <2>3, <2>4, <2>5, <2>6 DEF SInv
  <1> QED BY <1>2, <1>3, <1>4 DEF RunJob

LEMMA UploadSound ==
    ASSUME MaxFaults = 0, IInv, SInv, NEW j \in Jobs, UploadReturns(j) PROVE SInv'
  <1>0. /\ queue \in [Items -> Rows] /\ jobs \in [Jobs -> JobRecords] /\ links \subseteq Jobs
        /\ LoopFree /\ jobs[j].phase = "uploading"
        /\ UNCHANGED <<reqs, up, host, stops>>
    BY DEF IInv, TypeOK, UploadReturns
  <1>1. ~Halted => up = "up"
    BY <1>0 DEF LoopFree, Serving, Halted, IInv, TypeOK
  <1>2. CASE Fails(j, jobs[j].owned, TRUE)
    <2>1. ~jobs[j].owned /\ ~Halted => jobs[j].file \notin Items
      BY <1>0, <1>1 DEF SInv, RowsHoldJobs, Running
    <2>2. jobs[j].owned \in BOOLEAN
      BY <1>0 DEF JobRecords
    <2> QED BY <1>0, <1>2, <2>1, <2>2, FailQuiet DEF Running
  <1>3. CASE /\ links' = links \cup {j} /\ jobs' = [jobs EXCEPT ![j].phase = "linked"]
             /\ UNCHANGED <<queue, staged>>
    <2>1. /\ jobs'[j].phase = "linked" /\ jobs'[j].file = jobs[j].file
          /\ \A k \in Jobs \ {j} : jobs'[k] = jobs[k]
      BY <1>0, <1>3 DEF JobRecords
    <2>2. Completed' = Completed
      <3>1. j \notin links /\ jobs'[j].phase \in Closing
        BY <1>0, <2>1 DEF IInv, LinksAnswered, Linked, Closing
      <3> QED BY <1>0, <1>3, <2>1, <3>1 DEF Completed
    <2>3. jobs[j].phase \in Busy /\ "linked" \notin Running
      BY <1>0 DEF Busy, Running
    <2>4. Quiet
      BY <1>0, <1>3, <2>1, <2>2, <2>3 DEF Quiet, Released
    <2> QED BY <2>4, QuietStep
  <1>4. ~WriteFails(j, FALSE)
    BY DEF WriteFails, IInv, TypeOK
  <1> QED BY <1>2, <1>3, <1>4 DEF UploadReturns

\* The removal of the file of a linked job is covered by its link.
LEMMA CleanSound == ASSUME IInv, SInv, NEW j \in Jobs, CleanUp(j) PROVE SInv'
  <1>0. /\ queue \in [Items -> Rows] /\ jobs \in [Jobs -> JobRecords] /\ links \subseteq Jobs
        /\ jobs[j].phase = "linked" /\ staged' = staged \ {jobs[j].file}
        /\ UNCHANGED <<queue, reqs, up, links>>
    BY DEF IInv, TypeOK, CleanUp
  <1>1. j \in links
    BY <1>0 DEF IInv, ClosingHolds, Closing
  <1>2. /\ jobs'[j].phase = "cleaned" /\ jobs'[j].file = jobs[j].file
        /\ \A k \in Jobs \ {j} : jobs'[k] = jobs[k]
    BY <1>0 DEF CleanUp, JobRecords
  <1>3. Completed' = Completed
    BY <1>0, <1>2 DEF Completed, Closing
  <1>4. jobs[j].phase \in Busy /\ "cleaned" \notin Running
    BY <1>0 DEF Busy, Closing, Running
  <1>5. Quiet
    BY <1>0, <1>1, <1>2, <1>3, <1>4 DEF Quiet, Released
  <1> QED BY <1>5, QuietStep

LEMMA FinishSound ==
    ASSUME MaxFaults = 0, IInv, SInv, NEW j \in Jobs, FinishJob(j) PROVE SInv'
  <1>0. /\ queue \in [Items -> Rows] /\ links \subseteq Jobs /\ faults \in 0 .. 0
    BY DEF IInv, TypeOK
  <1>1. /\ jobs[j].phase \in Closing /\ turn = j
        /\ jobs'[j].phase = "done"
        /\ \A k \in Jobs : jobs'[k].file = jobs[k].file /\ (k # j => jobs'[k] = jobs[k])
        /\ queue' = ReconcileResult(queue, j, "done")
        /\ UNCHANGED <<staged, reqs, up, links>>
    BY <1>0, Finished
  <1>2. \A i \in Items : /\ queue[i].job # j => queue'[i] = queue[i]
                         /\ queue'[i].state \in Active => queue[i].state \in Active
    BY <1>0, <1>1 DEF ReconcileResult, Rows, Active
  <1>3. \A k \in Jobs : jobs'[k].phase \in Running => k # j /\ jobs'[k] = jobs[k]
    BY <1>1 DEF Running
  <1>4. RowsHoldJobs'
    BY <1>1, <1>2, <1>3 DEF SInv, RowsHoldJobs
  <1>5. ClaimedIsFree'
    BY <1>1, SendQueueAssumption DEF IInv, ClaimHolds, ClaimedIsFree
  <1>6. OneTransferPerPrinter'
    BY <1>3 DEF SInv, OneTransferPerPrinter, Running
  <1>7. FileKept'
    BY <1>0, <1>1, <1>2 DEF SInv, FileKept, Active
  <1> QED BY <1>4, <1>5, <1>6, <1>7 DEF SInv

LEMMA SoundNext == MaxFaults = 0 /\ IInv /\ SInv /\ [Next]_vars => SInv'
  <1> SUFFICES ASSUME MaxFaults = 0, IInv, SInv, [Next]_vars PROVE SInv'
    OBVIOUS
  <1>0. IInv'
    BY NextInv
  <1>1. ASSUME NEW r \in Reqs, HandlerStep(r) PROVE SInv'
    BY <1>1, HandlerSound
  <1>2. ASSUME NEW j \in Jobs, JobStep(j) PROVE SInv'
    BY <1>0, <1>2, RunSound, UploadSound, CleanSound, FinishSound, OtherQuiet, QuietStep
       DEF JobStep
  <1> QED BY <1>1, <1>2, RouteQuiet, OtherQuiet, QuietStep DEF Next

\* Without failed writes, running jobs keep their rows, and rows keep their files.
THEOREM SendsInvariant == ASSUME MaxFaults = 0 PROVE Spec => [](IInv /\ SInv)
  <1>1. Init => SInv
    BY DEF Init, SInv, RowsHoldJobs, ClaimedIsFree, OneTransferPerPrinter, FileKept,
           UnusedJob, IdleReq, Running
  <1>2. IInv /\ SInv /\ [Next]_vars => SInv'
    BY SoundNext
  <1> QED BY <1>1, <1>2, QueueInvariant, PTL DEF Spec

\* At most one queued file is being transferred to a printer, also when a shutdown
\* interrupts a row under its transfer and a waiting dispatch claims it again.
THEOREM OneTransfer == ASSUME MaxFaults = 0 PROVE Spec => []OneTransferPerPrinter
  <1>1. SInv => OneTransferPerPrinter
    BY DEF SInv
  <1> QED BY <1>1, SendsInvariant, PTL

\* A send that is queued, in progress or failed keeps its file until the host has it.
THEOREM FilesAreKept == ASSUME MaxFaults = 0 PROVE Spec => []FileKept
  <1>1. SInv => FileKept
    BY DEF SInv
  <1> QED BY <1>1, SendsInvariant, PTL

-----------------------------------------------------------------------------
(* No row waits for an answer that will not come.                          *)

\* A step that only takes rows and jobs out of the send, and leaves claims alone.
LEMMA StaysWorkedOn ==
    ASSUME SendingIsWorkedOn, up' # "down" => up # "down",
           \A i \in Items : queue'[i].state = "sending" =>
               /\ queue[i].state = "sending" /\ queue'[i].job = queue[i].job
               /\ queue[i].job # None /\ jobs[queue[i].job].phase \in Busy
                      => jobs'[queue[i].job].phase \in Busy,
           \A r \in Reqs : reqs[r].pc = "claimed" =>
               reqs'[r].pc = "claimed" /\ reqs'[r].todo = reqs[r].todo
    PROVE  SendingIsWorkedOn'
  <1> SUFFICES ASSUME NEW i \in Items, up' # "down", queue'[i].state = "sending"
               PROVE  \/ \E r \in Reqs : reqs'[r].pc = "claimed" /\ Current(r)' = i
                      \/ queue'[i].job # None /\ jobs'[queue'[i].job].phase \in Busy
    BY DEF SendingIsWorkedOn
  <1>1. CASE \E r \in Reqs : reqs[r].pc = "claimed" /\ Current(r) = i
    BY <1>1, CurrentKept
  <1>2. CASE queue[i].job # None /\ jobs[queue[i].job].phase \in Busy
    BY <1>2
  <1> QED BY <1>1, <1>2 DEF SendingIsWorkedOn

LEMMA WorkedByRoutes ==
    ASSUME IInv, SendingIsWorkedOn, DefaultTenant,
           \/ \E i \in Items : Enqueue(i) \/ Cancel(i)
           \/ ReadQueue
           \/ \E j \in Jobs : ReadMissingJob(j) \/ Prune(j)
           \/ \E r \in Reqs : \/ \E i \in Items, force \in BOOLEAN : BeginDispatch(r, i, force)
                              \/ BeginDrain(r)
                              \/ \E f \in Directs : BeginDirect(r, f)
           \/ Shutdown
           \/ Restart
    PROVE  SendingIsWorkedOn'
  <1>0. queue \in [Items -> Rows] /\ jobs \in [Jobs -> JobRecords]
    BY DEF IInv, TypeOK
  <1>1. CASE Restart
    BY <1>0, <1>1 DEF Restart, InterruptInFlight, Rows, Active, SendingIsWorkedOn
  <1>2. CASE ~Restart
    <2>1. turn = None /\ up # "down"
      BY <1>2 DEF Enqueue, Cancel, ReadQueue, ReadMissingJob, BeginDispatch, BeginDrain,
                  BeginDirect, Shutdown, Prune, LoopFree, Serving
    <2>2. \A r \in Reqs : reqs[r].pc # "claimed"
      BY <2>1, SendQueueAssumption DEF IInv, ClaimHolds
    <2>3. \A i \in Items : queue'[i].state = "sending" =>
             queue[i].state = "sending" /\ queue'[i].job = queue[i].job
      <3>1. \/ \E i \in Items : queue' = [queue EXCEPT ![i].state = "queued"]
                              \/ queue' = [queue EXCEPT ![i].state = "cancelled"]
            \/ queue' = queue \/ queue' = ReconcileLive(queue)
            \/ queue' = InterruptInFlight(queue)
            \/ \E j \in Jobs : queue' = ReconcileResult(queue, j, "error")
        BY <1>2 DEF Enqueue, Cancel, ReadQueue, ReadMissingJob, BeginDispatch, BeginDrain,
                    BeginDirect, Shutdown, Prune
      <3> QED BY <1>0, <3>1 DEF Rows, Active, ReconcileLive, InterruptInFlight, ReconcileResult
    <2>4. \A j \in Jobs : jobs[j].phase \in Busy => jobs'[j].phase \in Busy
      BY <1>0, <1>2 DEF Enqueue, Cancel, ReadQueue, ReadMissingJob, BeginDispatch, BeginDrain,
                        BeginDirect, Shutdown, Prune, Busy, Closing, JobRecords
    <2>5. \A i \in Items : queue[i].job \in Jobs \cup {None}
      BY <1>0 DEF Rows
    <2> QED BY <2>1, <2>2, <2>3, <2>4, <2>5, StaysWorkedOn, SMTT(60)
  <1> QED BY <1>1, <1>2

LEMMA WorkedByClaim ==
    ASSUME IInv, SendingIsWorkedOn, NEW r \in Reqs, Claim(r, Current(r)), reqs[r].todo # {},
           turn \in {None, r}, reqs[r].pc # "claimed", UNCHANGED <<jobs, up>>
    PROVE  SendingIsWorkedOn'
  <1> DEFINE i == Current(r)
  <1>0. /\ queue \in [Items -> Rows] /\ reqs \in [Reqs -> Requests]
        /\ reqs[r] \in Requests
        /\ \A s \in Reqs : reqs[s].pc # "claimed"
    BY SendQueueAssumption DEF IInv, TypeOK, ClaimHolds
  <1>1. CASE queue[i].state \in {"queued", "error"} /\ NoOtherSending(queue, i)
    <2>1. /\ queue' = [queue EXCEPT ![i].state = "sending"]
          /\ reqs' = [reqs EXCEPT ![r].pc = "claimed"]
      BY <1>1 DEF Claim
    <2>2. Current(r)' = i /\ reqs'[r].pc = "claimed"
      BY <1>0, <2>1, CurrentKept DEF Requests
    <2> HIDE DEF i
    <2>3. \A k \in Items \ {i} : queue'[k] = queue[k]
      BY <1>0, <2>1
    <2> QED BY <1>0, <2>2, <2>3 DEF SendingIsWorkedOn
  <1>2. CASE ~(queue[i].state \in {"queued", "error"} /\ NoOtherSending(queue, i))
    BY <1>0, <1>2, StaysWorkedOn DEF Claim
  <1> QED BY <1>1, <1>2

LEMMA WorkedByHandlers ==
    ASSUME MaxFaults = 0, IInv, SendingIsWorkedOn, NEW r \in Reqs, HandlerStep(r)
    PROVE  SendingIsWorkedOn'
  <1>0. /\ queue \in [Items -> Rows] /\ reqs \in [Reqs -> Requests] /\ faults \in 0 .. 0
        /\ jobs \in [Jobs -> JobRecords] /\ reqs[r] \in Requests
        /\ \A i \in Items : queue[i].job \in Jobs \cup {None}
    BY DEF IInv, TypeOK, Rows
  <1>1. CASE StartClaimed(r)
    <2> DEFINE i == Current(r)
    <2>1. PICK j \in Jobs : /\ Fresh(j)
                            /\ jobs' = [jobs EXCEPT ![j] = NewJob(r, i)]
                            /\ queue' = [queue EXCEPT ![i].job = j]
      BY <1>1 DEF StartClaimed
    <2>2. reqs[r].pc = "claimed" /\ turn = r /\ UNCHANGED up /\ i \in Items
      BY <1>1, CurrentIsFirst DEF StartClaimed, IInv, AtWork
    <2>3. jobs'[j].phase = "pending" /\ \A k \in Jobs \ {j} : jobs'[k] = jobs[k]
      <3>1. i \in Files
        BY <2>2 DEF Files
      <3>2. /\ jobs'[j] = NewJob(r, i) /\ \A k \in Jobs \ {j} : jobs'[k] = jobs[k]
        BY <2>1, <3>1, FreshProceeds
      <3>3. NewJob(r, i).phase = "pending"
        BY <3>1, NewJobTyped DEF IInv
      <3> QED BY <3>2, <3>3
    <2>4. jobs[j].phase = "unused" /\ j # None
      BY <2>1, SendQueueAssumption DEF Fresh
    <2>5. \A s \in Reqs : reqs[s].pc = "claimed" => s = r
      BY <2>2 DEF IInv, ClaimHolds
    <2>6. \A k \in Items : k # i /\ queue[k].state = "sending" /\ up # "down" =>
             queue[k].job # None /\ jobs[queue[k].job].phase \in Busy
      BY <2>5 DEF SendingIsWorkedOn
    <2> HIDE DEF i
    <2>7. queue'[i].job = j /\ \A k \in Items \ {i} : queue'[k] = queue[k]
      BY <1>0, <2>1, <2>2 DEF Rows
    <2>8. jobs'[j].phase \in Busy /\ jobs[j].phase \notin Busy
      BY <2>3, <2>4 DEF Busy, Closing
    <2> QED BY <1>0, <2>2, <2>3, <2>4, <2>6, <2>7, <2>8 DEF SendingIsWorkedOn
  <1>2. CASE HostStatus(r)
    <2>1. \A s \in Reqs : reqs[s].pc = "claimed" => reqs'[s] = reqs[s]
      BY <1>0, <1>2 DEF HostStatus
    <2>2. UNCHANGED <<queue, jobs, up>>
      BY <1>2 DEF HostStatus
    <2> QED BY <2>1, <2>2, StaysWorkedOn
  <1>3. CASE \/ DispatchNext(r) /\ ~Claim(r, Current(r))
             \/ Finish(r) \/ DirectProceeds(r)
             \/ ProbeReturns(r) /\ ~Claim(r, Current(r))
    <2>1. \A s \in Reqs : reqs[s].pc # "claimed"
      BY <1>0, <1>3, SendQueueAssumption
         DEF DispatchNext, Finish, DirectProceeds, ProbeReturns, LoopFree, IInv, ClaimHolds
    <2>2. \A i \in Items : queue'[i].state = "sending" =>
             queue[i].state = "sending" /\ queue'[i].job = queue[i].job
      <3>1. queue' = queue \/ queue' = [queue EXCEPT ![Current(r)].state = "error"]
        BY <1>3 DEF DispatchNext, Finish, DirectProceeds, ProbeReturns
      <3> QED BY <1>0, <3>1 DEF Rows, Active
    <2>3. \A j \in Jobs : jobs[j].phase \in Busy => jobs'[j].phase \in Busy
      BY <1>0, <1>3 DEF DispatchNext, Finish, DirectProceeds, ProbeReturns, Fresh, Busy, Closing
    <2>4. UNCHANGED up
      BY <1>3 DEF DispatchNext, Finish, DirectProceeds, ProbeReturns
    <2> QED BY <1>0, <2>1, <2>2, <2>3, <2>4, StaysWorkedOn
  <1>4. CASE (DispatchNext(r) \/ ProbeReturns(r)) /\ Claim(r, Current(r))
    <2>1. /\ reqs[r].todo # {} /\ turn \in {None, r} /\ reqs[r].pc # "claimed"
          /\ UNCHANGED <<jobs, up>>
      BY <1>4 DEF DispatchNext, ProbeReturns, LoopFree, IInv, AtWork
    <2> QED BY <1>4, <2>1, WorkedByClaim
  <1>5. ~StartClaimedFails(r)
    BY <1>0 DEF StartClaimedFails
  <1> QED BY <1>1, <1>2, <1>3, <1>4, <1>5 DEF HandlerStep

LEMMA WorkedByJobs ==
    ASSUME MaxFaults = 0, IInv, SendingIsWorkedOn, NEW j \in Jobs, JobStep(j)
    PROVE  SendingIsWorkedOn'
  <1>0. /\ queue \in [Items -> Rows] /\ jobs \in [Jobs -> JobRecords] /\ faults \in 0 .. 0
        /\ \A i \in Items : queue[i].job \in Jobs \cup {None}
    BY DEF IInv, TypeOK, Rows
  <1>1. UNCHANGED <<reqs, up>>
    BY DEF JobStep, RunJob, HostUpload, UploadReturns, CleanUp, FinishJob
  <1>2. CASE /\ UNCHANGED queue
             /\ \A k \in Jobs : jobs[k].phase \in Busy => jobs'[k].phase \in Busy
    BY <1>0, <1>1, <1>2, StaysWorkedOn
  <1>3. ASSUME NEW state \in {"done", "error"}, queue' = ReconcileResult(queue, j, state),
               \A k \in Jobs \ {j} : jobs'[k] = jobs[k]
        PROVE  SendingIsWorkedOn'
    <2>1. \A i \in Items : queue'[i].state = "sending" =>
             /\ queue[i].state = "sending" /\ queue'[i].job = queue[i].job
             /\ queue[i].job # j
      BY <1>0, <1>3 DEF ReconcileResult, Rows
    <2> QED BY <1>0, <1>1, <1>3, <2>1, StaysWorkedOn
  <1>4. CASE RunJob(j)
    <2>1. CASE \E owned, began \in BOOLEAN : Fails(j, owned, began)
      BY <1>0, <1>3, <2>1 DEF Fails
    <2>2. CASE /\ \E owned \in BOOLEAN :
                     jobs' = [jobs EXCEPT ![j].phase = "uploading", ![j].owned = owned]
               /\ UNCHANGED queue
      BY <1>0, <1>2, <2>2 DEF Busy, JobRecords
    <2> QED BY <1>4, <2>1, <2>2 DEF RunJob
  <1>5. CASE HostUpload(j)
    BY <1>0, <1>2, <1>5 DEF HostUpload, Busy, JobRecords
  <1>6. CASE UploadReturns(j)
    <2>1. ~WriteFails(j, FALSE)
      BY <1>0 DEF WriteFails
    <2>2. CASE Fails(j, jobs[j].owned, TRUE)
      BY <1>0, <1>3, <2>2 DEF Fails
    <2>3. CASE UNCHANGED queue /\ jobs' = [jobs EXCEPT ![j].phase = "linked"]
      BY <1>0, <1>2, <2>3 DEF Busy, Closing, JobRecords
    <2> QED BY <1>6, <2>1, <2>2, <2>3 DEF UploadReturns
  <1>7. CASE CleanUp(j)
    BY <1>0, <1>2, <1>7 DEF CleanUp, Busy, Closing, JobRecords
  <1>8. CASE FinishJob(j)
    BY <1>0, <1>3, <1>8, Finished
  <1> QED BY <1>4, <1>5, <1>6, <1>7, <1>8 DEF JobStep

\* In a process that serves the tenant it starts as, a row is sending only while its
\* handler is about to start the job or the job is in memory and has not ended.
THEOREM SendsAreWorkedOn ==
    ASSUME MaxFaults = 0, DefaultTenant PROVE Spec => []SendingIsWorkedOn
  <1>1. Init => SendingIsWorkedOn
    BY DEF Init, SendingIsWorkedOn
  <1>2. ASSUME IInv, SendingIsWorkedOn, [Next]_vars PROVE SendingIsWorkedOn'
    <2>1. CASE Exit \/ Crash
      BY <2>1 DEF Exit, Crash, Stopped, SendingIsWorkedOn
    <2>2. CASE (\E p \in Printers : PrintEnds(p)) \/ UNCHANGED vars
      <3>1. UNCHANGED <<queue, jobs, reqs, up>>
        BY <2>2 DEF PrintEnds, vars
      <3> QED BY <1>2, <3>1, StaysWorkedOn
    <2> QED BY <1>2, <2>1, <2>2, WorkedByRoutes, WorkedByHandlers, WorkedByJobs DEF Next
  <1> QED BY <1>1, <1>2, QueueInvariant, PTL DEF Spec

-----------------------------------------------------------------------------
(* What a drain sends has not been sent before, as long as nobody else works *)
(* on its items while it waits for a printer's status.                     *)

\* A job has a file once it is started, and jobs are started in their order.
FilesInOrder ==
    /\ \A j \in Jobs : jobs[j].file # None <=> jobs[j].phase # "unused"
    /\ \A j, k \in Jobs : k < j /\ jobs[j].file # None => jobs[k].file # None

New(i) == \A j \in Jobs : jobs[j].file # i

\* A queued row has never had a job: a row that leaves queued never comes back.
QueuedIsNew == \A i \in Items : queue[i].state \in {"absent", "queued"} => New(i)

\* Nor has a row that a drain is still to try.
DrainIsNew == \A r \in Reqs : reqs[r].kind = "drain" => \A i \in reqs[r].todo : New(i)

\* A drain that awaits no status keeps the event loop until it answers.
DrainHasLoop == Waits = {} => \A r \in Reqs : reqs[r].kind = "drain" => turn = r

NInv == FilesInOrder /\ QueuedIsNew /\ DrainIsNew /\ NotRepeatedOnItsOwn

\* A step that starts no job.
LEMMA StartsNone ==
    ASSUME NInv,
           \A j \in Jobs : /\ jobs'[j].file = jobs[j].file /\ jobs'[j].by = jobs[j].by
                           /\ jobs'[j].phase = "unused" <=> jobs[j].phase = "unused",
           \A i \in Items : queue'[i].state \in {"absent", "queued"} =>
                               queue[i].state \in {"absent", "queued"},
           \A r \in Reqs : reqs'[r].kind = "drain" =>
               \/ reqs[r].kind = "drain" /\ reqs'[r].todo \subseteq reqs[r].todo
               \/ \A i \in reqs'[r].todo : i \in Items /\ queue[i].state = "queued"
    PROVE  NInv'
BY DEF NInv, FilesInOrder, QueuedIsNew, DrainIsNew, New, NotRepeatedOnItsOwn

\* A handler only crosses off what it has tried.
LEMMA HandlerShrinks ==
    ASSUME IInv, NEW r \in Reqs, HandlerStep(r)
    PROVE  /\ \A s \in Reqs \ {r} : reqs'[s] = reqs[s]
           /\ reqs'[r].kind = "drain" => reqs[r].kind = "drain"
           /\ reqs'[r].todo \subseteq reqs[r].todo
  <1>1. reqs \in [Reqs -> Requests] /\ reqs[r] \in Requests
    BY DEF IInv, TypeOK
  <1> DEFINE Shrinks == /\ \A s \in Reqs \ {r} : reqs'[s] = reqs[s]
                        /\ reqs'[r].kind = "drain" => reqs[r].kind = "drain"
                        /\ reqs'[r].todo \subseteq reqs[r].todo
  <1>2. ASSUME Claim(r, Current(r)) PROVE Shrinks
    <2> DEFINE i == Current(r)
    <2>1. \/ reqs' = [reqs EXCEPT ![r].pc = "claimed"]
          \/ reqs' = [reqs EXCEPT ![r].pc = "loop", ![r].todo = @ \ {i}]
      BY <1>2 DEF Claim
    <2> HIDE DEF i
    <2> QED BY <1>1, <2>1 DEF Requests
  <1>3. CASE DispatchNext(r)
    <2> DEFINE i == Current(r)
    <2>1. \/ reqs' = [reqs EXCEPT ![r].todo = @ \ {i}]
          \/ reqs' = [reqs EXCEPT ![r].pc = "probing"]
          \/ Claim(r, Current(r))
      BY <1>3 DEF DispatchNext
    <2> HIDE DEF i
    <2> QED BY <1>1, <1>2, <2>1 DEF Requests
  <1>4. CASE ProbeReturns(r)
    <2> DEFINE i == Current(r)
    <2>1. \/ reqs' = [reqs EXCEPT ![r].pc = "loop", ![r].todo = @ \ {i}]
          \/ Claim(r, Current(r))
      BY <1>4 DEF ProbeReturns
    <2> HIDE DEF i
    <2> QED BY <1>1, <1>2, <2>1 DEF Requests
  <1>5. CASE StartClaimed(r) \/ StartClaimedFails(r)
    <2> DEFINE i == Current(r)
               used == reqs[r].used \cup {PrinterOf[i]}
    <2>1. \/ reqs' = [reqs EXCEPT ![r].pc = "loop", ![r].todo = @ \ {i}]
          \/ reqs' = [reqs EXCEPT ![r].pc = "loop", ![r].todo = @ \ {i}, ![r].used = used]
      BY <1>1, <1>5 DEF StartClaimed, StartClaimedFails
    <2> HIDE DEF i, used
    <2> QED BY <1>1, <2>1 DEF Requests
  <1>6. CASE HostStatus(r)
    BY <1>1, <1>6 DEF HostStatus, Requests
  <1>7. CASE Finish(r) \/ DirectProceeds(r)
    <2>1. IdleReq.kind = "none" /\ IdleReq.todo = {}
      BY DEF IdleReq
    <2> QED BY <1>1, <1>7, <2>1 DEF Finish, DirectProceeds
  <1> QED BY <1>3, <1>4, <1>5, <1>6, <1>7 DEF HandlerStep

LEMMA RoutesStartNone ==
    ASSUME IInv, NInv,
           \/ \E i \in Items : Enqueue(i) \/ Cancel(i)
           \/ ReadQueue
           \/ \E j \in Jobs : ReadMissingJob(j) \/ Prune(j)
           \/ \E p \in Printers : PrintEnds(p)
           \/ Shutdown \/ Restart \/ UNCHANGED vars
    PROVE  NInv'
  <1>1. queue \in [Items -> Rows] /\ jobs \in [Jobs -> JobRecords]
    BY DEF IInv, TypeOK
  <1>2. UNCHANGED reqs
    BY DEF Enqueue, Cancel, ReadQueue, ReadMissingJob, Prune, PrintEnds, Shutdown, Restart, vars
  <1>3. \A i \in Items : queue'[i].state \in {"absent", "queued"} =>
                            queue[i].state \in {"absent", "queued"}
    <2>1. \/ \E i \in Items : /\ queue[i].state = "absent"
                              /\ queue' = [queue EXCEPT ![i].state = "queued"]
          \/ \E i \in Items : queue' = [queue EXCEPT ![i].state = "cancelled"]
          \/ queue' = queue \/ queue' = ReconcileLive(queue)
          \/ queue' = InterruptInFlight(queue)
          \/ \E j \in Jobs : queue' = ReconcileResult(queue, j, "error")
      BY DEF Enqueue, Cancel, ReadQueue, ReadMissingJob, Prune, PrintEnds, Shutdown, Restart, vars
    <2> QED BY <1>1, <2>1 DEF Rows, Active, ReconcileLive, InterruptInFlight, ReconcileResult
  <1>4. \A j \in Jobs : /\ jobs'[j].file = jobs[j].file /\ jobs'[j].by = jobs[j].by
                        /\ jobs'[j].phase = "unused" <=> jobs[j].phase = "unused"
    <2>1. \/ UNCHANGED jobs
          \/ \E j \in Jobs : jobs[j].phase # "unused" /\ jobs' = [jobs EXCEPT ![j].phase = "gone"]
      BY DEF Enqueue, Cancel, ReadQueue, ReadMissingJob, Prune, PrintEnds, Shutdown, Restart, vars
    <2> QED BY <1>1, <2>1 DEF JobRecords
  <1> QED BY <1>2, <1>3, <1>4, StartsNone

LEMMA BeginsStartNone ==
    ASSUME IInv, NInv, NEW r \in Reqs,
           \/ \E i \in Items, force \in BOOLEAN : BeginDispatch(r, i, force)
           \/ BeginDrain(r)
           \/ \E f \in Directs : BeginDirect(r, f)
    PROVE  NInv'
  <1>1. /\ queue \in [Items -> Rows] /\ reqs \in [Reqs -> Requests]
        /\ UNCHANGED jobs /\ (queue' = queue \/ queue' = ReconcileLive(queue))
    <2>1. queue \in [Items -> Rows] /\ reqs \in [Reqs -> Requests]
      BY DEF IInv, TypeOK
    <2>2. UNCHANGED jobs /\ (queue' = queue \/ queue' = ReconcileLive(queue))
      BY Zenon DEF BeginDispatch, BeginDrain, BeginDirect
    <2> QED BY <2>1, <2>2
  <1>2. \A i \in Items : queue'[i].state \in {"absent", "queued"} => queue'[i] = queue[i]
    BY <1>1 DEF ReconcileLive, Rows
  <1>3. \A s \in Reqs \ {r} : reqs'[s] = reqs[s]
    <2>1. \E new : reqs' = [reqs EXCEPT ![r] = new]
      BY Zenon DEF BeginDispatch, BeginDrain, BeginDirect
    <2> QED BY <1>1, <2>1
  <1>4. reqs'[r].kind = "drain" => \A i \in reqs'[r].todo : i \in Items /\ queue[i].state = "queued"
    <2>1. CASE BeginDrain(r)
      <3>1. reqs'[r].todo = DrainItems(queue')
        BY <1>1, <2>1 DEF BeginDrain, IdleReq
      <3> QED BY <1>2, <3>1 DEF DrainItems
    <2>2. ASSUME NEW i \in Items, NEW force \in BOOLEAN, BeginDispatch(r, i, force)
          PROVE  reqs'[r].kind = "dispatch"
      <3>1. reqs' = [reqs EXCEPT ![r] = [IdleReq EXCEPT !.pc = "loop", !.kind = "dispatch",
                                                        !.force = force, !.todo = {i}]]
        BY <2>2, Zenon DEF BeginDispatch
      <3> QED BY <1>1, <3>1 DEF IdleReq
    <2>3. ASSUME NEW f \in Directs, BeginDirect(r, f) PROVE reqs'[r].kind = "direct"
      <3>1. \E pc, seen : reqs' = [reqs EXCEPT ![r] =
                 [IdleReq EXCEPT !.kind = "direct", !.todo = {f}, !.pc = pc, !.seen = seen]]
        BY <2>3, Zenon DEF BeginDirect
      <3> QED BY <1>1, <3>1 DEF IdleReq
    <2> QED BY <2>1, <2>2, <2>3
  <1> QED BY <1>1, <1>2, <1>3, <1>4, StartsNone

LEMMA StopsStartNone ==
    ASSUME IInv, NInv, Exit \/ Crash
    PROVE  NInv'
  <1>1. jobs \in [Jobs -> JobRecords] /\ IdleReq.kind = "none"
    BY DEF IInv, TypeOK, IdleReq
  <1>2. Stopped /\ UNCHANGED queue
    BY DEF Exit, Crash
  <1>3. \A j \in Jobs : /\ jobs'[j].file = jobs[j].file /\ jobs'[j].by = jobs[j].by
                        /\ jobs'[j].phase = "unused" <=> jobs[j].phase = "unused"
    <2>1. jobs' = [j \in Jobs |->
                    IF InMemory(j)
                    THEN [jobs[j] EXCEPT !.phase = "gone",
                                         !.cut = @ \/ jobs[j].phase \in Closing]
                    ELSE jobs[j]]
      BY <1>2 DEF Stopped
    <2> QED BY <1>1, <2>1 DEF InMemory, Busy, Closing, JobRecords
  <1> QED BY <1>1, <1>2, <1>3, StartsNone DEF Stopped

LEMMA JobsStartNone ==
    ASSUME IInv, NInv, NEW j \in Jobs, JobStep(j)
    PROVE  NInv'
  <1>1. /\ queue \in [Items -> Rows] /\ jobs \in [Jobs -> JobRecords]
        /\ jobs[j].phase # "unused" /\ UNCHANGED reqs
    BY DEF IInv, TypeOK, JobStep, RunJob, HostUpload, UploadReturns, CleanUp, FinishJob
  <1>2. \/ \E owned, began \in BOOLEAN : Fails(j, owned, began)
        \/ \E cut \in BOOLEAN : WriteFails(j, cut)
        \/ \E owned \in BOOLEAN : /\ UNCHANGED queue
               /\ jobs' = [jobs EXCEPT ![j].phase = "uploading", ![j].owned = owned]
        \/ \E answer \in Answers : UNCHANGED queue /\ jobs' = [jobs EXCEPT ![j].answer = answer]
        \/ \E phase \in {"linked", "cleaned"} :
               UNCHANGED queue /\ jobs' = [jobs EXCEPT ![j].phase = phase]
        \/ /\ jobs' = [jobs EXCEPT ![j].phase = "done"]
           /\ queue' = ReconcileResult(queue, j, "done")
    <2>1. CASE RunJob(j)
      BY <2>1 DEF RunJob
    <2>2. CASE HostUpload(j)
      BY <2>2 DEF HostUpload, Answers
    <2>3. CASE UploadReturns(j)
      BY <1>1, <2>3 DEF UploadReturns, JobRecords
    <2>4. CASE CleanUp(j)
      BY <2>4 DEF CleanUp
    <2>5. CASE FinishJob(j)
      BY <2>5 DEF FinishJob
    <2> QED BY <2>1, <2>2, <2>3, <2>4, <2>5 DEF JobStep
  <1>3. \A k \in Jobs : /\ jobs'[k].file = jobs[k].file /\ jobs'[k].by = jobs[k].by
                        /\ jobs'[k].phase = "unused" <=> jobs[k].phase = "unused"
    BY <1>1, <1>2 DEF Fails, WriteFails, JobRecords
  <1>4. queue' = queue \/ \E state \in {"done", "error"} : queue' = ReconcileResult(queue, j, state)
    BY <1>2 DEF Fails, WriteFails
  <1>5. \A i \in Items : queue'[i].state \in {"absent", "queued"} =>
                            queue[i].state \in {"absent", "queued"}
    BY <1>1, <1>4 DEF ReconcileResult, Rows
  <1> QED BY <1>1, <1>3, <1>5, StartsNone

LEMMA HandlersStartNone ==
    ASSUME IInv, NInv, NEW r \in Reqs, HandlerStep(r), UNCHANGED jobs
    PROVE  NInv'
  <1>1. queue \in [Items -> Rows]
    BY DEF IInv, TypeOK
  <1>2. \/ UNCHANGED queue
        \/ \E state \in {"sending", "error"} :
               queue' = [queue EXCEPT ![Current(r)].state = state]
        \/ StartClaimed(r)
    BY DEF HandlerStep, DispatchNext, Finish, HostStatus, ProbeReturns, Claim,
           StartClaimedFails, DirectProceeds
  <1>3. ~ StartClaimed(r)
    <2>1. ASSUME NEW j \in Jobs, Fresh(j), jobs = [jobs EXCEPT ![j] = NewJob(r, Current(r))]
          PROVE  FALSE
      <3>1. jobs[j].phase = "unused" /\ jobs[j] = NewJob(r, Current(r))
        BY <2>1 DEF Fresh, IInv, TypeOK
      <3> QED BY <3>1 DEF NewJob, UnusedJob
    <2> QED BY <2>1 DEF StartClaimed
  <1>4. \A i \in Items : queue'[i].state \in {"absent", "queued"} => queue'[i] = queue[i]
    BY <1>1, <1>2, <1>3 DEF Rows
  <1> QED BY <1>4, HandlerShrinks, StartsNone

\* The start of a job for a file that no drain but the handler's own is to try.
LEMMA FreshNew ==
    ASSUME IInv, NInv, NEW r \in Reqs, NEW f \in Files, NEW j \in Jobs, Fresh(j),
           jobs' = [jobs EXCEPT ![j] = NewJob(r, f)],
           \A i \in Items : queue'[i].state \in {"absent", "queued"} =>
                               i # f /\ queue[i].state \in {"absent", "queued"},
           \A s \in Reqs : reqs'[s].kind = "drain" =>
               reqs[s].kind = "drain" /\ reqs'[s].todo \subseteq reqs[s].todo \ {f},
           reqs[r].kind = "drain" => New(f)
    PROVE  NInv'
  <1>0. Jobs \subseteq Nat /\ None \notin Files
    BY SendQueueAssumption
  <1>1. /\ jobs'[j] = NewJob(r, f) /\ \A k \in Jobs \ {j} : jobs'[k] = jobs[k]
        /\ f # None /\ jobs[j].phase = "unused"
        /\ \A k \in Jobs : k < j => jobs[k].phase # "unused"
    <2>1. jobs'[j] = NewJob(r, f) /\ \A k \in Jobs \ {j} : jobs'[k] = jobs[k]
      BY FreshProceeds
    <2>2. f # None
      BY <1>0
    <2> QED BY <2>1, <2>2 DEF Fresh
  <1>2. /\ jobs'[j].file = f /\ jobs'[j].phase # "unused" /\ jobs'[j].by = reqs[r].kind
    <2>1. reqs[r] \in Requests
      BY DEF IInv, TypeOK
    <2>2. NewJob(r, f).by = reqs[r].kind
      BY <2>1 DEF NewJob, UnusedJob, Requests
    <2> QED BY <1>1, <2>2, NewJobTyped DEF IInv
  <1>3. \A k \in Jobs : jobs[k].file # None => k < j
    <2>1. \A k \in Jobs : k < j \/ k = j \/ j < k
      BY <1>0
    <2> QED BY <1>1, <2>1 DEF NInv, FilesInOrder
  <1>4. FilesInOrder'
    BY <1>0, <1>1, <1>2 DEF NInv, FilesInOrder
  <1>5. QueuedIsNew' /\ DrainIsNew'
    BY <1>1, <1>2 DEF NInv, QueuedIsNew, DrainIsNew, New
  <1>6. NotRepeatedOnItsOwn'
    <2> SUFFICES ASSUME NEW k \in Jobs, NEW l \in Jobs,
                        jobs'[k].file = jobs'[l].file, jobs'[k].file # None,
                        jobs'[l].by = "drain"
                 PROVE  l <= k
      BY DEF NotRepeatedOnItsOwn
    <2>1. CASE k = l
      <3>1. l \in Nat
        BY <1>0
      <3> QED BY <2>1, <3>1
    <2>2. CASE k = j /\ l # j
      BY <1>0, <1>1, <1>3, <2>2
    <2>3. CASE l = j /\ k # j
      BY <1>1, <1>2, <2>3 DEF New
    <2>4. CASE k # j /\ l # j
      BY <1>1, <2>4 DEF NInv, NotRepeatedOnItsOwn
    <2> QED BY <2>1, <2>2, <2>3, <2>4
  <1> QED BY <1>4, <1>5, <1>6 DEF NInv

\* Where a handler does start a job, it has crossed off the item, and no other
\* drain is in the middle of its list.
LEMMA HandlersStartNew ==
    ASSUME IInv, NInv, DrainHasLoop, (\A r, s \in Reqs : r = s) \/ Waits = {},
           NEW r \in Reqs, HandlerStep(r), ~ UNCHANGED jobs
    PROVE  NInv'
  <1>1. queue \in [Items -> Rows] /\ reqs \in [Reqs -> Requests] /\ reqs[r] \in Requests
    BY DEF IInv, TypeOK
  <1>2. \A s \in Reqs \ {r} : reqs'[s] = reqs[s]
    BY HandlerShrinks
  <1>3. CASE StartClaimed(r) \/ StartClaimedFails(r)
    <2> DEFINE i == Current(r)
    <2>1. PICK j \in Jobs : /\ Fresh(j) /\ jobs' = [jobs EXCEPT ![j] = NewJob(r, i)]
                            /\ \/ queue' = [queue EXCEPT ![i].job = j]
                               \/ queue' = [queue EXCEPT ![i].state = "error"]
      BY <1>3 DEF StartClaimed, StartClaimedFails
    <2>2. /\ reqs[r].pc = "claimed" /\ turn = r /\ queue[i].state = "sending"
          /\ i \in Items /\ i \in reqs[r].todo
      BY <1>3, CurrentIsFirst DEF StartClaimed, StartClaimedFails, IInv, AtWork, ClaimHolds
    <2>3. reqs'[r].todo = reqs[r].todo \ {i} /\ reqs'[r].kind = reqs[r].kind
      <3> DEFINE used == reqs[r].used \cup {PrinterOf[i]}
      <3>1. \/ reqs' = [reqs EXCEPT ![r].pc = "loop", ![r].todo = @ \ {i}]
            \/ reqs' = [reqs EXCEPT ![r].pc = "loop", ![r].todo = @ \ {i}, ![r].used = used]
        BY <1>1, <1>3 DEF StartClaimed, StartClaimedFails
      <3> HIDE DEF i, used
      <3> QED BY <1>1, <3>1 DEF Requests
    <2> HIDE DEF i
    <2>4. \A s \in Reqs : reqs'[s].kind = "drain" => s = r
      BY <1>2, <2>2 DEF DrainHasLoop
    <2>5. \A k \in Items : queue'[k].state \in {"absent", "queued"} =>
                              k # i /\ queue[k].state \in {"absent", "queued"}
      BY <1>1, <2>1, <2>2 DEF Rows
    <2>6. reqs[r].kind = "drain" => New(i)
      BY <2>2 DEF NInv, DrainIsNew
    <2> QED BY <2>1, <2>2, <2>3, <2>4, <2>5, <2>6, FreshNew DEF Files
  <1>4. CASE DirectProceeds(r)
    <2>1. /\ UNCHANGED queue /\ reqs[r].kind = "direct" /\ reqs' = [reqs EXCEPT ![r] = IdleReq]
      BY <1>4 DEF DirectProceeds
    <2>2. PICK f \in reqs[r].todo, j \in Jobs : Fresh(j) /\ jobs' = [jobs EXCEPT ![j] = NewJob(r, f)]
      BY <1>4, Zenon DEF DirectProceeds
    <2>3. f \in Directs /\ f \notin Items /\ IdleReq.kind = "none"
      BY <2>1, SendQueueAssumption DEF IInv, AtWork, IdleReq
    <2>4. \A s \in Reqs : reqs'[s].kind = "drain" =>
              reqs[s].kind = "drain" /\ reqs'[s].todo \subseteq reqs[s].todo \ {f}
      BY <1>1, <1>2, <2>1, <2>3 DEF IInv, AtWork
    <2> QED BY <2>1, <2>2, <2>3, <2>4, FreshNew DEF Files
  <1> QED BY <1>3, <1>4
          DEF HandlerStep, DispatchNext, Finish, HostStatus, ProbeReturns

LEMMA LoopKept ==
    ASSUME IInv, DrainHasLoop, [Next]_vars
    PROVE  DrainHasLoop'
  <1> SUFFICES ASSUME Waits = {}, NEW r \in Reqs, reqs'[r].kind = "drain" PROVE turn' = r
    BY DEF DrainHasLoop
  <1>1. reqs \in [Reqs -> Requests] /\ None \notin Reqs /\ IdleReq.kind = "none"
    BY SendQueueAssumption DEF IInv, TypeOK, IdleReq
  <1>2. reqs[r].kind = "drain" => turn = r
    BY DEF DrainHasLoop
  <1>3. CASE UNCHANGED <<reqs, turn>>
    BY <1>2, <1>3
  <1>4. CASE Stopped
    BY <1>1, <1>4 DEF Stopped
  <1>5. ASSUME NEW s \in Reqs,
               \/ \E i \in Items, force \in BOOLEAN : BeginDispatch(s, i, force)
               \/ BeginDrain(s)
        PROVE  turn' = r
    <2>1. turn = None /\ turn' = s /\ \E new : reqs' = [reqs EXCEPT ![s] = new]
      BY <1>5, Zenon DEF BeginDispatch, BeginDrain
    <2> QED BY <1>1, <1>2, <2>1
  <1>6. ASSUME NEW s \in Reqs, NEW f \in Directs, BeginDirect(s, f) PROVE turn' = r
    <2>1. /\ UNCHANGED turn
          /\ \E pc, seen : reqs' = [reqs EXCEPT ![s] =
                 [IdleReq EXCEPT !.kind = "direct", !.todo = {f}, !.pc = pc, !.seen = seen]]
      BY <1>6, Zenon DEF BeginDirect
    <2> QED BY <1>1, <1>2, <2>1 DEF IdleReq
  <1>7. ASSUME NEW s \in Reqs, HandlerStep(s) PROVE turn' = r
    <2>1. /\ reqs[r].kind = "drain" /\ turn = r
          /\ s # r => reqs'[r] = reqs[r]
      BY <1>2, <1>7, HandlerShrinks
    <2>2. CASE HostStatus(s) \/ StartClaimed(s) \/ StartClaimedFails(s) \/ DirectProceeds(s)
      BY <2>1, <2>2 DEF HostStatus, StartClaimed, StartClaimedFails, DirectProceeds
    <2>3. CASE Finish(s)
      BY <1>1, <2>1, <2>3 DEF Finish
    <2>4. CASE DispatchNext(s)
      BY <2>1, <2>4 DEF DispatchNext, Probes, Claim
    <2>5. ~ ProbeReturns(s)
      BY <1>1, <2>1 DEF ProbeReturns, LoopFree
    <2> QED BY <1>7, <2>2, <2>3, <2>4, <2>5 DEF HandlerStep
  <1>8. ASSUME NEW j \in Jobs, UploadReturns(j) \/ CleanUp(j) \/ FinishJob(j) PROVE turn' = r
    <2>1. UNCHANGED reqs /\ turn \in Jobs \cup {None}
      BY <1>8 DEF UploadReturns, CleanUp, FinishJob, LoopFree
    <2>2. turn = r
      BY <1>2, <2>1
    <2> QED BY <1>1, <2>1, <2>2, SendQueueAssumption
  <1> QED BY <1>3, <1>4, <1>5, <1>6, <1>7, <1>8
          DEF Next, Enqueue, Cancel, ReadQueue, JobStep, RunJob, HostUpload,
              Prune, ReadMissingJob, PrintEnds, Shutdown, Exit, Crash, Restart, vars

\* A print is not repeated on its own when one handler works at a time, or when
\* no item is to wait for its printer to be idle: a job that a drain starts is
\* the first of its row, whatever writes fail and whenever the process stops.
\* Neither can be left out: with both, a drain may claim an item that somebody
\* else has sent while the drain was waiting for the printer's status.
THEOREM DrainsSendNew ==
    ASSUME (\A r, s \in Reqs : r = s) \/ Waits = {}
    PROVE  Spec => []NotRepeatedOnItsOwn
  <1>1. ASSUME Init PROVE NInv /\ DrainHasLoop
    <2>1. /\ \A j \in Jobs : jobs[j].file = None /\ jobs[j].phase = "unused"
          /\ \A r \in Reqs : reqs[r].kind = "none"
          /\ None \notin Items
      BY <1>1, SendQueueAssumption DEF Init, UnusedJob, IdleReq, Files
    <2> QED BY <2>1 DEF NInv, FilesInOrder, QueuedIsNew, DrainIsNew, New,
                        NotRepeatedOnItsOwn, DrainHasLoop
  <1>2. ASSUME IInv, NInv, DrainHasLoop, [Next]_vars
        PROVE  NInv' /\ DrainHasLoop'
    <2>1. NInv'
      BY <1>2, RoutesStartNone, BeginsStartNone, StopsStartNone, JobsStartNone,
         HandlersStartNone, HandlersStartNew DEF Next
    <2> QED BY <1>2, <2>1, LoopKept
  <1>3. NInv => NotRepeatedOnItsOwn
    BY DEF NInv
  <1> QED BY <1>1, <1>2, <1>3, QueueInvariant, PTL DEF Spec
=============================================================================
