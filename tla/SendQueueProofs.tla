-------------------------- MODULE SendQueueProofs --------------------------
(* Theorems about SendQueue, for every set of items, printers, keys, jobs    *)
(* and workers and every size of the table.                                  *)
(*                                                                           *)
(* The queue adds two writers to the job table, the closing of an unresolved *)
(* upload and the recovery that closes what a restart queued again; the      *)
(* first part carries over to them what is proved of the engine's own steps. *)
(* The second part is about the two tables together: every save that ends or *)
(* unsettles a job takes its item along, so the items and the jobs that were *)
(* dispatched for them always fit each other.  The last part is about the    *)
(* sends of one item: all but one of them are dead, that is over without     *)
(* having sent anything or denied by a user.                                 *)
EXTENDS SendQueue, KeepsPromiseProofs

-----------------------------------------------------------------------------
(* The jobs.                                                                 *)

\* What the proofs of the engine say of the job tables, in one word.
Sound == Typed /\ Once /\ Accounted

\* What no transaction undoes in them.
TableMoves ==
    /\ \A j \in Job :
          /\ rows'[j] # rows[j] => rows[j].state \notin Terminal \cup {"quarantined"}
          /\ rows[j].state # "absent" => rows'[j].state # "absent"
          /\ rows[j].state = "reconciliation_required" =>
                rows'[j].state \in {"reconciliation_required"} \cup Terminal
    /\ archived' \subseteq archived \cup Rows(rows', Terminal)
    /\ archived \subseteq archived' /\ reconciled \subseteq reconciled'

\* Closing an upload ends it and leaves its effects on record.
LEMMA ClosedUploadEnds ==
    ASSUME NEW j \in Job, NEW r, WellFormed(r), NEW printed \in BOOLEAN
    PROVE  LET c == ClosedUpload(j, r, printed) IN
           /\ Follows(r, c) /\ Admitted(c) = Admitted(r)
           /\ c.state \in {"succeeded", "failed"}
           /\ ~ printed => c.state = "failed"
<1> DEFINE told == IF printed THEN "confirmed" ELSE "unresolved"
           e == [i \in Intent |-> IF r.effects[i] = "observed" THEN told
                                  ELSE r.effects[i]]
           d == [r EXCEPT !.effects = e]
<1>1. r \in Record /\ Counted(r) /\ r.effects \in [Intent -> Outcome]
  BY DEF WellFormed, Record
<1>2. e \in [Intent -> Outcome]
  BY <1>1 DEF Outcome
<1>3. Admitted(d) = Admitted(r)
  BY <1>1 DEF Admitted, Record
<1>4. ClosedUpload(j, r, printed) =
         Saved(IF printed /\ PrimaryReceipt(j, d) # NoIntent THEN Succeeded(j, d)
               ELSE [d EXCEPT !.state = "failed"])
  BY DEF ClosedUpload
<1> HIDE DEF e
<1>5. d \in Record /\ d.version = r.version /\ Counted(d)
  BY <1>1, <1>2 DEF Record, Counted
<1> HIDE DEF d
<1>6. /\ Follows(r, Saved(Succeeded(j, d)))
      /\ Follows(r, Saved([d EXCEPT !.state = "failed"]))
  BY <1>1, <1>3, <1>5, ReconciledFollows
<1>7. /\ Saved(Succeeded(j, d)).state = "succeeded"
      /\ Saved([d EXCEPT !.state = "failed"]).state = "failed"
  BY <1>5, EndedByUser
<1> QED BY <1>4, <1>6, <1>7, Zenon DEF Follows

LEMMA ClosedUploadRegular ==
    ASSUME NEW j \in Job, NEW r, WellFormed(r), Regular(j, r), NEW printed \in BOOLEAN
    PROVE  Regular(j, ClosedUpload(j, r, printed))
BY ClosedUploadEnds, SMT DEF Regular

\* An upload that was queued has nothing to settle.
LEMMA ClosedQueuedHonest ==
    ASSUME NEW j \in Job, NEW r, WellFormed(r), Regular(j, r), r.state = "queued"
    PROVE  Honest(j, r, ClosedUpload(j, r, FALSE))
<1> DEFINE c == ClosedUpload(j, r, FALSE)
<1>1. /\ Follows(r, c) /\ Admitted(c) = Admitted(r) /\ c.state = "failed"
      /\ Regular(j, c)
  BY ClosedUploadEnds, ClosedUploadRegular, Zenon
<1> HIDE DEF c
<1>2. Admitted(r) = {}
  BY DEF Regular
<1>3. \A i \in Intent : c.effects[i] = "absent"
  BY <1>1, <1>2 DEF Admitted
<1> QED BY <1>1, <1>2, <1>3 DEF Honest, AllConfirmed, Earned, Terminal, c

\* The row of a closed upload changes and nothing else in the outside world.
LEMMA CloseSound ==
    ASSUME Sound, NEW j \in Job, NEW printed \in BOOLEAN, Close(j, printed),
           \/ rows[j].state = "queued" /\ ~ printed
           \/ rows[j].state = "reconciliation_required"
    PROVE  /\ Sound' /\ TableMoves
           /\ rows'[j] = ClosedUpload(j, rows[j], printed)
           /\ rows'[j].state \in {"succeeded", "failed"}
           /\ \A k \in Job \ {j} : rows'[k] = rows[k]
<1> DEFINE c == ClosedUpload(j, rows[j], printed)
<1>1. Typed /\ Documents /\ WellFormed(rows[j]) /\ rows \in [Job -> Record]
  BY DEF Sound, Typed, Documents
<1>2. /\ Put(j, c) /\ UNCHANGED <<archived, held, performed>>
      /\ reconciled' = IF rows[j].state = "reconciliation_required"
                       THEN reconciled \cup {j} ELSE reconciled
  BY DEF Close
<1>3. /\ Follows(rows[j], c) /\ Admitted(c) = Admitted(rows[j])
      /\ c.state \in {"succeeded", "failed"}
  BY <1>1, ClosedUploadEnds, Zenon
<1>4. Regular(j, c)
  BY <1>1, ClosedUploadRegular, Zenon DEF Sound, Accounted, RegularDocuments
<1> HIDE DEF c
<1>5. Moved
  BY <1>1, <1>2, <1>3, PutMoves
<1>6. rows'[j] = c /\ \A k \in Job \ {j} : rows'[k] = rows[k]
  BY <1>1, <1>2, PutTouches
<1>7. Typed'
  <2>1. Documents'
    BY <1>1, <1>5, MovedDocuments
  <2>2. expired' \subseteq {k \in Job : rows'[k].lease = "granted"}
    BY <1>1, <1>2, <1>6 DEF Put, Typed, TypeOK
  <2> QED BY <1>1, <1>2, <2>1, <2>2 DEF Typed, TypeOK, Documents
<1>8. Once'
  BY <1>2, <1>5, <1>7, QuietKeepsOnce DEF Sound, Quiet
<1>9. Accounted'
  <2>1. CASE rows[j].state = "queued" /\ ~ printed
    <3>1. HonestTable
      <4>1. Honest(j, rows[j], c)
        BY <1>1, <2>1, ClosedQueuedHonest DEF Sound, Accounted, RegularDocuments, c
      <4> QED BY <1>1, <1>2, <4>1, PutHonest
    <3>2. Asked /\ KeepsReceipts
      BY <1>2, <2>1 DEF Asked, KeepsReceipts
    <3> QED BY <1>1, <1>2, <1>7, <3>1, <3>2, HonestAccounted DEF Sound
  <2>2. CASE rows[j].state = "reconciliation_required"
    <3>1. RegularDocuments'
      BY <1>4, <1>6 DEF Sound, Accounted, RegularDocuments
    <3>2. ReceiptsHappened'
      BY <1>2 DEF Sound, Accounted, ReceiptsHappened
    <3>3. UndecidedProven' /\ DecisionsStand'
      BY <1>2, <1>3, <1>6, <2>2
         DEF Sound, Typed, TypeOK, Accounted, UndecidedProven, DecisionsStand, Terminal
    <3> QED BY <3>1, <3>2, <3>3 DEF Accounted
  <2> QED BY <2>1, <2>2
<1>10. TableMoves
  BY <1>2, <1>3, <1>6 DEF TableMoves, Terminal
<1> QED BY <1>3, <1>6, <1>7, <1>8, <1>9, <1>10 DEF Sound, c

\* So does the transaction that closes all that were queued again.
LEMMA CloseQueuedSound ==
    ASSUME Sound, NEW S \in SUBSET Job, \A j \in S : rows[j].state = "queued",
           rows' = [j \in Job |-> IF j \in S THEN ClosedUpload(j, rows[j], FALSE)
                                  ELSE rows[j]],
           UNCHANGED <<archived, reconciled, expired, held, performed>>
    PROVE  /\ Sound' /\ TableMoves
           /\ \A j \in S : rows'[j].state = "failed" /\ Admitted(rows'[j]) = {}
           /\ \A j \in Job \ S : rows'[j] = rows[j]
<1>1. Typed /\ Documents /\ rows \in [Job -> Record]
  BY DEF Sound, Typed, Documents
<1>2. ASSUME NEW j \in S
      PROVE  /\ Follows(rows[j], rows'[j]) /\ rows'[j].state = "failed"
             /\ Honest(j, rows[j], rows'[j]) /\ Admitted(rows'[j]) = {}
  <2>1. j \in Job /\ WellFormed(rows[j]) /\ Regular(j, rows[j])
    BY <1>1 DEF Documents, Sound, Accounted, RegularDocuments
  <2>2. rows'[j] = ClosedUpload(j, rows[j], FALSE)
    BY <2>1
  <2>3. Admitted(rows[j]) = {}
    BY <1>2, <2>1 DEF Regular
  <2> QED BY <1>2, <2>1, <2>2, <2>3, ClosedUploadEnds, ClosedQueuedHonest, Zenon
<1>3. \A j \in Job \ S : rows'[j] = rows[j]
  OBVIOUS
<1>4. Moved
  <2>1. DOMAIN rows' = Job /\ rows' = [j \in Job |-> rows'[j]]
    OBVIOUS
  <2>2. \A j \in Job : Onward(rows[j], rows'[j]) /\ rows'[j] \in Record
    BY <1>1, <1>2, <1>3 DEF Onward, Follows, WellFormed
  <2> QED BY <2>1, <2>2 DEF Moved
<1>5. Typed'
  <2>1. Documents'
    BY <1>1, <1>4, MovedDocuments
  <2>2. expired' \subseteq {k \in Job : rows'[k].lease = "granted"}
    <3>1. \A k \in S : rows[k].lease # "granted"
      BY <1>1 DEF Documents, WellFormed, Attended, InProgress
    <3> QED BY <1>1, <1>3, <3>1 DEF Typed, TypeOK
  <2> QED BY <1>1, <2>1, <2>2 DEF Typed, TypeOK, Documents
<1>6. Once'
  BY <1>4, <1>5, QuietKeepsOnce DEF Sound, Quiet
<1>7. Accounted'
  <2>1. HonestTable
    BY <1>2, <1>3 DEF HonestTable, Honest
  <2>2. Asked /\ KeepsReceipts
    BY DEF Asked, KeepsReceipts
  <2> QED BY <1>1, <1>5, <2>1, <2>2, HonestAccounted DEF Sound
<1>8. TableMoves
  BY <1>2, <1>3 DEF TableMoves, Terminal
<1> QED BY <1>2, <1>3, <1>5, <1>6, <1>7, <1>8 DEF Sound

\* The engine's own steps.
LEMMA PruneMoves ==
    ASSUME Prune
    PROVE  archived' \subseteq archived \cup Rows(rows', Terminal)
           /\ archived \subseteq archived'
BY DEF Prune

LEMMA JobsSound ==
    ASSUME Sound, [Next]_vars
    PROVE  Sound' /\ TableMoves
<1>1. Typed' /\ Once' /\ Accounted'
  BY StepTyped, StepOnce, StepAccounted DEF Sound
<1>2. Typed /\ Accounted /\ Documents /\ HeldOK
  BY DEF Sound, Typed, TypeOK, HeldOK
<1>3. ASSUME NEW j \in Job, rows'[j] # rows[j]
      PROVE  rows[j].state \notin Terminal \cup {"quarantined"}
  BY <1>2, <1>3, StepVersions
<1>4. ASSUME NEW j \in Job, rows[j].state # "absent"
      PROVE  rows'[j].state # "absent"
  <2>1. rows'[j] # rows[j] => rows'[j].version > rows[j].version
    BY <1>2, StepVersions
  <2>2. Documents'
    BY <1>1 DEF Typed
  <2>3. CASE rows'[j] = rows[j]
    BY <1>4, <2>3
  <2>4. CASE \E w \in Worker, i \in Intent : BeginEffect(w, i)
    <3>1. PICK w \in Worker, i \in Intent : BeginEffect(w, i)
      BY <2>4
    <3>2. /\ held[w].job \in Job /\ \A k \in Job \ {held[w].job} : rows'[k] = rows[k]
          /\ Admitted(rows'[held[w].job]) # {}
      BY <1>2, <3>1, BeginEffectMoves DEF HeldOK
    <3>3. Regular(j, rows'[j])
      BY <1>1 DEF Accounted, RegularDocuments
    <3> QED BY <1>4, <3>2, <3>3 DEF Regular
  <2>5. CASE ~ \E w \in Worker, i \in Intent : BeginEffect(w, i)
    BY <1>2, <1>4, <2>5, StepMoves DEF Moved, Onward, Follows
  <2> QED BY <2>4, <2>5
<1>5. ASSUME NEW j \in Job, rows[j].state = "reconciliation_required"
      PROVE  rows'[j].state \in {"reconciliation_required"} \cup Terminal
  <2>1. CASE \E k \in Job : Reconcile(k)
    BY <1>2, <1>5, <2>1, ReconcileEnds
  <2>2. CASE \E w \in Worker, i \in Intent : BeginEffect(w, i)
    BY <1>2, <1>5, <2>2, BeginEffectMoves DEF HeldOK, InProgress
  <2>3. CASE /\ ~ \E k \in Job : Reconcile(k)
             /\ ~ \E w \in Worker, i \in Intent : BeginEffect(w, i)
    BY <1>2, <1>5, <2>3, StepHonest DEF HonestTable, Honest
  <2> QED BY <2>1, <2>2, <2>3
<1>6. /\ archived' \subseteq archived \cup Rows(rows', Terminal)
      /\ archived \subseteq archived' /\ reconciled \subseteq reconciled'
  <2>1. CASE UNCHANGED archived /\ UNCHANGED reconciled
    BY <2>1
  <2>2. CASE Prune /\ UNCHANGED reconciled
    BY <2>2, PruneMoves
  <2>3. ASSUME NEW k \in Job, Enqueue(k) \/ Cancel(k) \/ Reconcile(k) \/ Abandon(k)
        PROVE  /\ UNCHANGED archived \/ Prune
               /\ reconciled \subseteq reconciled'
    BY <2>3, Zenon DEF Enqueue, Cancel, Reconcile, Abandon, PruneIfEnded
  <2>4. CASE Retain \/ Restart \/ (\E k \in Job : Expire(k)) \/ UNCHANGED vars
    BY <2>1, <2>2, <2>4 DEF Retain, Restart, Expire, vars
  <2>5. ASSUME NEW w \in Worker, NEW c \in Job \cup {NoJob}, Claim(w, c)
        PROVE  (UNCHANGED archived \/ Prune) /\ UNCHANGED reconciled
    BY <2>5, Zenon DEF Claim
  <2>6. ASSUME NEW w \in Worker, NEW r, NEW todo, Advance(w, r, todo)
        PROVE  (UNCHANGED archived \/ Prune) /\ UNCHANGED reconciled
    BY <2>6 DEF Advance, PruneIfEnded
  <2>7. ASSUME NEW w \in Worker,
               \/ \E i \in Intent : BeginEffect(w, i)
               \/ ConfirmEffect(w) \/ Finish(w) \/ Fail(w) \/ RefuseAdvance(w)
        PROVE  (UNCHANGED archived \/ Prune) /\ UNCHANGED reconciled
    <3>1. \E r, todo : Advance(w, r, todo)
      BY <2>7, Zenon DEF BeginEffect, ConfirmEffect, Finish, Fail, RefuseAdvance
    <3> QED BY <2>6, <3>1
  <2>8. ASSUME NEW w \in Worker, Heartbeat(w) \/ Perform(w) \/ Drop(w)
        PROVE  UNCHANGED archived /\ UNCHANGED reconciled
    BY <2>8 DEF Heartbeat, Perform, Drop, dbvars
  <2> QED BY <2>1, <2>2, <2>3, <2>4, <2>5, <2>7, <2>8, PruneMoves
          DEF Next, User, WorkerStep
<1> QED BY <1>1, <1>3, <1>4, <1>5, <1>6 DEF Sound, TableMoves

-----------------------------------------------------------------------------
(* The items.                                                                *)

ItemsOK ==
    /\ items \in [Item -> ItemRecord]
    /\ phase \in {"open", "recovered"}
    /\ owner \in [Job -> Item \cup {NoItem}]

\* An item tells no more of its job than the job's row bears out.
Fits(i) ==
    LET it == items[i] IN
    it.job \in Job =>
        /\ owner[it.job] = i
        /\ it.state # "queued"
        /\ it.state = "error" => rows[it.job].state \notin {"succeeded", "uploaded_only"}
        /\ it.state = "sending" =>
              rows[it.job].state \in {"queued", "quarantined"} \cup InProgress
        /\ it.state = "error" /\ it.text = "interrupted" =>
              rows[it.job].state \in {"reconciliation_required", "quarantined"}
        /\ it.text = "not_started" =>
              rows[it.job].state \in Terminal /\ Admitted(rows[it.job]) = {}
        /\ it.state = "done" =>
              \/ rows[it.job].state \in {"succeeded", "uploaded_only"}
              \/ it.job \in reconciled

\* The other way round: the job that Send now drew for an item is that item's
\* upload, and while it is open or its outcome unknown the item says so.
ShownBy(j) ==
    owner[j] # NoItem =>
        LET it == items[owner[j]] IN
        /\ j \in SendKey /\ rows[j].state # "absent" /\ Request[j] = SendOf(owner[j])
        /\ rows[j].state \in {"queued"} \cup InProgress =>
              it.job = j /\ it.state = "sending"
        /\ rows[j].state = "reconciliation_required" =>
              it.job = j /\ it.state = "error"

TablesFit ==
    /\ \A i \in Item : Fits(i) /\ (items[i].state = "sending" => items[i].job \in Job)
    /\ \A j \in Job : ShownBy(j)
    /\ \A j \in SendKey : owner[j] = NoItem => rows[j].state = "absent"
    /\ archived \subseteq Rows(rows, Terminal)
    /\ phase = "recovered" => Active(rows) = {}

QueueInv == Sound /\ ItemsOK /\ TablesFit

-----------------------------------------------------------------------------
(* Settling and trimming.                                                    *)

LEMMA RowTypes == NoItemRow \in ItemRecord
BY DEF NoItemRow, ItemRecord

LEMMA TrimmedItems ==
    ASSUME NEW its \in [Item -> ItemRecord]
    PROVE  /\ Trimmed(its) \in [Item -> ItemRecord]
           /\ \A i \in Item :
                 \/ Trimmed(its)[i] = its[i]
                 \/ Trimmed(its)[i] = NoItemRow /\ its[i].state \in {"done", "cancelled"}
BY RowTypes DEF Trimmed, Ended

\* What the saves of a transaction make of item i before it is trimmed.
Judged(i) == [items[i] EXCEPT !.text = "other",
                              !.state = SettledState(rows'[items[i].job])]

MustSettle(i) ==
    /\ items[i].job \in Job /\ rows'[items[i].job] # rows[items[i].job]
    /\ items[i].state \in Settles(rows'[items[i].job])

LEMMA SettledItems ==
    ASSUME ItemsOK
    PROVE  /\ Settled \in [Item -> ItemRecord]
           /\ \A i \in Item : i \in ToSettle(rows') <=> MustSettle(i)
           /\ \A i \in Item :
                 LET it == IF MustSettle(i) THEN Judged(i) ELSE items[i] IN
                 \/ Settled[i] = it
                 \/ Settled[i] = NoItemRow /\ it.state \in {"done", "cancelled"}
<1> DEFINE its == [i \in Item |-> IF i \notin ToSettle(rows') THEN items[i] ELSE Judged(i)]
<1>1. \A i \in Item : i \in ToSettle(rows') <=> MustSettle(i)
  BY DEF ToSettle, MustSettle
<1>2. Settled = IF ToSettle(rows') = {} THEN items ELSE Trimmed(its)
  BY DEF Settled, SettledBy, Judged
<1>3. \A i \in Item : Judged(i) \in ItemRecord
  BY DEF Judged, ItemsOK, ItemRecord, SettledState
<1>4. its \in [Item -> ItemRecord]
  BY <1>3 DEF ItemsOK
<1>5. \A i \in Item : its[i] = IF MustSettle(i) THEN Judged(i) ELSE items[i]
  BY <1>1
<1> HIDE DEF its
<1> QED BY <1>1, <1>2, <1>4, <1>5, TrimmedItems DEF ItemsOK

\* What a transaction makes of an item that it is not about.
Carried(i) ==
    \/ ~ MustSettle(i) /\ items'[i] = items[i]
    \/ /\ MustSettle(i)
       /\ items'[i].job = items[i].job
       /\ items'[i].state = SettledState(rows'[items[i].job])
       /\ items'[i].text = "other" \/ /\ items'[i].text = "interrupted"
                                      /\ rows'[items[i].job].state = "reconciliation_required"
    \/ /\ items'[i] = NoItemRow
       /\ \/ items[i].state \in {"done", "cancelled"}
          \/ MustSettle(i) /\ SettledState(rows'[items[i].job]) = "done"

LEMMA SettledCarries ==
    ASSUME ItemsOK, NEW i \in Item,
           \/ items'[i] = Settled[i]
           \/ items'[i] = NoItemRow /\ Settled[i].state \in {"done", "cancelled"}
           \/ /\ MustSettle(i) /\ rows'[items[i].job].state = "reconciliation_required"
              /\ items'[i] = [Settled[i] EXCEPT !.text = "interrupted"]
    PROVE  Carried(i)
<1> DEFINE it == IF MustSettle(i) THEN Judged(i) ELSE items[i]
<1>1. \/ Settled[i] = it
      \/ Settled[i] = NoItemRow /\ it.state \in {"done", "cancelled"}
  BY SettledItems
<1>2. items[i] \in ItemRecord
  BY DEF ItemsOK
<1>3. MustSettle(i) =>
         /\ it.job = items[i].job /\ it.text = "other"
         /\ it.state = SettledState(rows'[items[i].job])
         /\ it.state # "cancelled"
  BY <1>2 DEF Judged, ItemRecord, SettledState
<1>4. it \in ItemRecord
  BY <1>2 DEF Judged, ItemRecord, SettledState
<1>5. ~ MustSettle(i) => it = items[i]
  OBVIOUS
<1>6. /\ MustSettle(i) /\ rows'[items[i].job].state = "reconciliation_required"
      => Settled[i] = it /\ it.state = "error"
  BY <1>1, <1>3 DEF SettledState
<1> HIDE DEF it
<1>7. MustSettle(i) /\ rows'[items[i].job].state = "reconciliation_required"
      => LET new == [it EXCEPT !.text = "interrupted"] IN
         new.job = it.job /\ new.state = it.state /\ new.text = "interrupted"
  BY <1>4 DEF ItemRecord
<1>8. NoItemRow.state = "absent"
  BY DEF NoItemRow
<1> QED BY <1>1, <1>3, <1>5, <1>6, <1>7, <1>8 DEF Carried

\* A carried item goes on to fit its job.
LEMMA CarriedFits ==
    ASSUME QueueInv, TableMoves, Sound', NEW i \in Item, Carried(i),
           items[i].job \in Job => owner'[items[i].job] = owner[items[i].job]
    PROVE  Fits(i)' /\ (items'[i].state = "sending" => items'[i].job \in Job)
<1> DEFINE j == items[i].job
<1>1. /\ Fits(i) /\ (items[i].state = "sending" => j \in Job)
      /\ NoJob \notin Job
  BY RecordAssumption DEF QueueInv, TablesFit
<1>2. CASE items'[i] = NoItemRow
  BY <1>1, <1>2 DEF Fits, NoItemRow
<1>3. CASE j \notin Job /\ items'[i] # NoItemRow
  BY <1>1, <1>3 DEF Fits, Carried, MustSettle
<1>4. ASSUME j \in Job
      PROVE  /\ rows'[j] # rows[j] => rows[j].state \notin Terminal \cup {"quarantined"}
             /\ rows[j].state # "absent" => rows'[j].state # "absent"
             /\ rows[j].state = "reconciliation_required" =>
                   rows'[j].state \in {"reconciliation_required"} \cup Terminal
             /\ rows[j].state \in State /\ rows'[j].state \in State
             /\ reconciled \subseteq reconciled'
  BY <1>4 DEF TableMoves, QueueInv, Sound, Typed, TypeOK, Record
<1>5. CASE j \in Job /\ ~ MustSettle(i) /\ items'[i] = items[i]
  <2>1. rows'[j] # rows[j] => items[i].state \notin Settles(rows'[j])
    BY <1>5 DEF MustSettle
  <2>2. items[i].state = "sending" =>
           rows'[j].state \in {"queued", "quarantined"} \cup InProgress
    BY <1>1, <1>4, <1>5, <2>1 DEF Fits, Settles, State, InProgress, Terminal
  <2>3. items[i].state = "error" /\ items[i].text = "interrupted" =>
           rows'[j].state \in {"reconciliation_required", "quarantined"}
    BY <1>1, <1>4, <1>5, <2>1 DEF Fits, Settles, Terminal
  <2>4. items[i].text = "not_started" =>
           rows'[j].state \in Terminal /\ Admitted(rows'[j]) = {}
    BY <1>1, <1>4, <1>5 DEF Fits
  <2>5. items[i].state = "done" =>
           rows'[j].state \in {"succeeded", "uploaded_only"} \/ j \in reconciled'
    BY <1>1, <1>4, <1>5 DEF Fits, Terminal
  <2>6. items[i].state # "queued"
    BY <1>1, <1>5 DEF Fits
  <2>7. items[i].state = "error" => rows'[j].state \notin {"succeeded", "uploaded_only"}
    BY <1>1, <1>5, <2>1 DEF Fits, Settles, Terminal
  <2> QED BY <1>1, <1>5, <2>2, <2>3, <2>4, <2>5, <2>6, <2>7 DEF Fits
<1>6. CASE MustSettle(i) /\ items'[i] # NoItemRow
  <2>1. /\ j \in Job /\ items'[i].job = j
        /\ items'[i].state = SettledState(rows'[j])
        /\ items'[i].text = "other" \/ /\ items'[i].text = "interrupted"
                                       /\ rows'[j].state = "reconciliation_required"
    BY <1>6 DEF Carried, MustSettle
  <2> QED BY <1>1, <2>1 DEF Fits, SettledState
<1> QED BY <1>2, <1>3, <1>5, <1>6 DEF Carried

\* And it shows its job as far as the job is still open.
LEMMA CarriedShows ==
    ASSUME QueueInv, TableMoves, Sound', NEW j \in Job, owner[j] # NoItem,
           owner'[j] = owner[j], Carried(owner[j])
    PROVE  ShownBy(j)'
<1> DEFINE i == owner[j]
<1>1. ShownBy(j) /\ i \in Item
  BY DEF QueueInv, TablesFit, ItemsOK
<1>2. /\ rows'[j] # rows[j] => rows[j].state \notin Terminal \cup {"quarantined"}
      /\ rows'[j].state # "absent"
      /\ rows[j].state = "reconciliation_required" =>
            rows'[j].state \in {"reconciliation_required"} \cup Terminal
      /\ rows[j].state \in State
  BY <1>1 DEF TableMoves, ShownBy, QueueInv, Sound, Typed, TypeOK, Record
<1>3. ASSUME rows'[j].state \in {"queued"} \cup InProgress
      PROVE  items'[i].job = j /\ items'[i].state = "sending"
  <2>1. rows[j].state \in {"queued"} \cup InProgress
    BY <1>1, <1>2, <1>3 DEF ShownBy, State, InProgress, Terminal
  <2>2. items[i].job = j /\ items[i].state = "sending"
    BY <1>1, <2>1 DEF ShownBy
  <2>3. ~ MustSettle(i)
    BY <1>3, <2>2 DEF MustSettle, Settles, InProgress, Terminal
  <2> QED BY <2>2, <2>3 DEF Carried
<1>4. ASSUME rows'[j].state = "reconciliation_required"
      PROVE  items'[i].job = j /\ items'[i].state = "error"
  <2>1. CASE rows[j].state = "reconciliation_required"
    <3>1. items[i].job = j /\ items[i].state = "error"
      BY <1>1, <2>1 DEF ShownBy
    <3>2. ~ MustSettle(i)
      BY <1>4, <3>1 DEF MustSettle, Settles, Terminal
    <3> QED BY <3>1, <3>2 DEF Carried
  <2>2. CASE rows[j].state # "reconciliation_required"
    <3>1. rows[j].state \in {"queued"} \cup InProgress
      BY <1>1, <1>2, <1>4, <2>2 DEF ShownBy, State, InProgress, Terminal
    <3>2. items[i].job = j /\ items[i].state = "sending"
      BY <1>1, <3>1 DEF ShownBy
    <3>3. MustSettle(i) /\ SettledState(rows'[j]) = "error"
      BY <1>4, <2>2, <3>2 DEF MustSettle, Settles, SettledState, Terminal
    <3> QED BY <3>2, <3>3 DEF Carried
  <2> QED BY <2>1, <2>2
<1> QED BY <1>1, <1>2, <1>3, <1>4 DEF ShownBy

-----------------------------------------------------------------------------
(* The steps.                                                                *)

\* A row that has ended stays in its archive, and one that waits or runs
\* cannot have been anything else before.
LEMMA RowsMove ==
    ASSUME QueueInv, TableMoves, Sound', NEW j \in Job
    PROVE  /\ rows[j].state \in State /\ rows'[j].state \in State
           /\ rows[j].state \in Terminal \cup {"quarantined"} => rows'[j] = rows[j]
           /\ rows[j].state # "absent" => rows'[j].state # "absent"
           /\ rows[j].state # "absent"
                 /\ rows'[j].state \in {"queued", "reconciliation_required"} \cup InProgress
              => rows[j].state \in {"queued", "reconciliation_required"} \cup InProgress
           /\ rows[j].state = "reconciliation_required" =>
                 rows'[j].state \in {"reconciliation_required"} \cup Terminal
           /\ j \in archived => rows[j].state \in Terminal
<1>1. rows[j].state \in State /\ rows'[j].state \in State
  BY DEF QueueInv, Sound, Typed, TypeOK, Record
<1>2. /\ rows'[j] # rows[j] => rows[j].state \notin Terminal \cup {"quarantined"}
      /\ rows[j].state # "absent" => rows'[j].state # "absent"
      /\ rows[j].state = "reconciliation_required" =>
            rows'[j].state \in {"reconciliation_required"} \cup Terminal
  BY DEF TableMoves
<1>3. j \in archived => rows[j].state \in Terminal
  BY DEF QueueInv, TablesFit, Rows
<1> QED BY <1>1, <1>2, <1>3 DEF State, Terminal, InProgress

\* An item that can still be sent, or is being sent, was one before and keeps
\* its job; none comes to say that a send of Node's was interrupted.
Waiting == {"queued", "sending", "error"}

GoesOn(i) ==
    /\ items'[i].state \in Waiting =>
          items[i].state \in Waiting /\ items'[i].job = items[i].job
    /\ /\ items'[i].job \notin Job
       /\ items'[i].state = "error" /\ items'[i].text = "interrupted"
       => items'[i] = items[i]

\* What a transaction has to show of each item it does not just carry along.
Refits(i) ==
    /\ Fits(i)' /\ (items'[i].state = "sending" => items'[i].job \in Job)
    /\ \A j \in Job : owner[j] = i => ShownBy(j)'
    /\ GoesOn(i)

\* What every transaction but Send now does.
Onwards == TableMoves /\ UNCHANGED owner /\ \A i \in Item : GoesOn(i)

LEMMA CarriedGoesOn ==
    ASSUME NEW i \in Item, Carried(i)
    PROVE  GoesOn(i)
<1>1. MustSettle(i) => items[i].job \in Job /\ items[i].state \in {"sending", "error"}
  BY DEF MustSettle, Settles
<1> QED BY <1>1 DEF Carried, GoesOn, Waiting, NoItemRow

LEMMA TablesKept ==
    ASSUME QueueInv, Sound', TableMoves, ItemsOK', UNCHANGED owner,
           \A i \in Item : Carried(i) \/ Refits(i),
           \A j \in SendKey : rows[j].state = "absent" => rows'[j].state = "absent",
           phase' = "recovered" => Active(rows)' = {}
    PROVE  QueueInv' /\ Onwards
<1>1. \A i \in Item : Fits(i)' /\ (items'[i].state = "sending" => items'[i].job \in Job)
  BY CarriedFits DEF Refits
<1>2. ASSUME NEW j \in Job PROVE ShownBy(j)'
  <2>1. CASE owner[j] = NoItem
    BY <2>1 DEF ShownBy
  <2>2. CASE owner[j] # NoItem
    <3>1. owner[j] \in Item
      BY <2>2 DEF QueueInv, ItemsOK
    <3> QED BY <2>2, <3>1, CarriedShows DEF Refits
  <2> QED BY <2>1, <2>2
<1>3. \A j \in SendKey : owner'[j] = NoItem => rows'[j].state = "absent"
  BY DEF QueueInv, TablesFit
<1>4. archived' \subseteq Rows(rows', Terminal)
  BY RowsMove DEF TableMoves, QueueInv, TablesFit, Rows
<1>5. Onwards
  BY CarriedGoesOn DEF Onwards, Refits
<1> QED BY <1>1, <1>2, <1>3, <1>4, <1>5 DEF QueueInv, TablesFit

\* An item that a user acts on has no open job, and if the job's outcome was
\* unknown the action ends it.
LEMMA TargetShown ==
    ASSUME QueueInv, TableMoves, Sound', UNCHANGED owner, NEW i \in Item,
           Resendable(i),
           /\ items[i].job \in Job /\ items[i].state = "error"
           /\ rows[items[i].job].state = "reconciliation_required"
           => rows'[items[i].job].state \in Terminal
    PROVE  \A j \in Job : owner[j] = i => ShownBy(j)'
<1> SUFFICES ASSUME NEW j \in Job, owner[j] = i PROVE ShownBy(j)'
  OBVIOUS
<1>1. ShownBy(j) /\ owner[j] # NoItem
  BY QueueAssumption DEF QueueInv, TablesFit
<1>2. rows[j].state \notin {"queued"} \cup InProgress
  BY <1>1 DEF ShownBy, Resendable
<1>3. rows[j].state = "reconciliation_required" => rows'[j].state \in Terminal
  BY <1>1 DEF ShownBy
<1>4. rows[j].state # "absent" /\ rows'[j].state # "absent"
  BY <1>1, RowsMove DEF ShownBy
<1>5. rows'[j].state \notin {"queued", "reconciliation_required"} \cup InProgress
  BY <1>2, <1>3, <1>4, RowsMove DEF Terminal, InProgress
<1> QED BY <1>1, <1>4, <1>5 DEF ShownBy

\* An upload whose row is there has the state the item reads.
LEMMA UploadStates ==
    ASSUME QueueInv, NEW i \in Item
    PROVE  /\ NodeSent(i) <=> items[i].job \notin Job \ archived
           /\ ~ NodeSent(i) => UploadState(i) = rows[items[i].job].state
           /\ UploadState(i) \in {"queued", "quarantined", "reconciliation_required"}
                 => items[i].job \in Job
           /\ items[i].job \in Job /\ rows[items[i].job].state \notin Terminal
                 => UploadState(i) = rows[items[i].job].state
<1>1. items[i].job \in Job \cup {NoJob} /\ NoJob \notin Job
  BY RecordAssumption DEF QueueInv, ItemsOK, ItemRecord
<1>2. items[i].job \in archived => rows[items[i].job].state \in Terminal
  BY DEF QueueInv, TablesFit, Rows
<1>3. archived \subseteq Job
  BY DEF QueueInv, Sound, Typed, TypeOK
<1> QED BY <1>1, <1>2, <1>3 DEF NodeSent, UploadState

\* Only an open or unresolved upload is closed, and with a yes an unresolved one.
LEMMA ClosesKnown ==
    ASSUME QueueInv, NEW i \in Item, NEW printed \in BOOLEAN,
           Close(items[i].job, printed),
           \/ Releasable(i) /\ ~ printed
           \/ UploadState(i) = "reconciliation_required"
    PROVE  LET j == items[i].job IN
           /\ j \in Job /\ Sound' /\ TableMoves
           /\ rows'[j].state \in {"succeeded", "failed"}
           /\ \A k \in Job \ {j} : rows'[k] = rows[k]
           /\ rows[j].state \in {"queued", "reconciliation_required"}
           /\ \A k \in Job : rows[k].state = "absent" => rows'[k].state = "absent"
           /\ rows[j].state = "reconciliation_required" => j \in reconciled'
           /\ ~ printed => rows'[j].state = "failed"
           /\ UNCHANGED <<held, performed>>
<1> DEFINE j == items[i].job
<1>1. j \in Job
  BY UploadStates DEF Releasable
<1>2. /\ rows[j].state \in {"queued", "reconciliation_required"}
      /\ printed => rows[j].state = "reconciliation_required"
  BY UploadStates DEF Releasable, UploadState
<1>3. /\ Sound' /\ TableMoves
      /\ rows'[j].state \in {"succeeded", "failed"}
      /\ \A k \in Job \ {j} : rows'[k] = rows[k]
  BY <1>1, <1>2, CloseSound DEF QueueInv
<1>4. /\ rows[j].state = "reconciliation_required" => j \in reconciled'
      /\ UNCHANGED <<held, performed>>
  BY DEF Close
<1>5. ~ printed => rows'[j].state = "failed"
  BY <1>1, <1>2, CloseSound, ClosedUploadEnds, Zenon DEF QueueInv, Sound, Typed, Documents
<1> QED BY <1>1, <1>2, <1>3, <1>4, <1>5

\* An item that was trimmed after its saves is still just carried along.
LEMMA TrimmedCarries ==
    ASSUME QueueInv, NEW its \in [Item -> ItemRecord], NEW i \in Item,
           its[i] = Settled[i], items' = Trimmed(its)
    PROVE  Carried(i)
<1>1. \/ items'[i] = Settled[i]
      \/ items'[i] = NoItemRow /\ Settled[i].state \in {"done", "cancelled"}
  BY TrimmedItems
<1> QED BY <1>1, SettledCarries DEF QueueInv

\* Without saves nothing is settled.
LEMMA UnsavedSettles ==
    ASSUME UNCHANGED rows
    PROVE  Settled = items /\ \A i \in Item : ~ MustSettle(i)
BY DEF Settled, SettledBy, ToSettle, MustSettle

LEMMA SettledJob ==
    ASSUME QueueInv, NEW i \in Item
    PROVE  Settled \in [Item -> ItemRecord] /\ Settled[i].job \in {items[i].job, NoJob}
<1> DEFINE it == IF MustSettle(i) THEN Judged(i) ELSE items[i]
<1>1. items[i] \in ItemRecord
  BY DEF QueueInv, ItemsOK
<1>2. it.job = items[i].job
  BY <1>1 DEF Judged, ItemRecord
<1>3. Settled \in [Item -> ItemRecord] /\ (Settled[i] = it \/ Settled[i] = NoItemRow)
  BY SettledItems DEF QueueInv
<1> HIDE DEF it
<1> QED BY <1>2, <1>3 DEF NoItemRow

\* What a user's action makes of its own item: the same job, or no row.
LEMMA TargetFits ==
    ASSUME QueueInv, ItemsOK', UNCHANGED owner, NEW i \in Item,
           items'[i].job \in {items[i].job, NoJob}, items'[i].text = "other",
           items'[i].state \in {"absent", "cancelled", "error", "done"},
           items'[i].job \in Job =>
              /\ items'[i].state = "done" => items'[i].job \in reconciled'
              /\ items'[i].state = "error" =>
                    rows'[items'[i].job].state \notin {"succeeded", "uploaded_only"}
    PROVE  Fits(i)' /\ (items'[i].state = "sending" => items'[i].job \in Job)
<1>1. NoJob \notin Job /\ Fits(i)
  BY RecordAssumption DEF QueueInv, TablesFit
<1> QED BY <1>1 DEF Fits

LEMMA MissingKeeps ==
    ASSUME QueueInv, NEW i \in Item, Missing(i)
    PROVE  QueueInv' /\ Onwards
<1> DEFINE its == [items EXCEPT ![i].state = "error", ![i].text = "other"]
<1>1. /\ UNCHANGED vars /\ UNCHANGED owner /\ phase = "open" /\ phase' = "open"
      /\ Resendable(i) /\ ~ OutcomeUnknown(i)
      /\ items' = Trimmed(its)
  BY DEF Missing, Open
<1>2. Sound' /\ TableMoves
  BY <1>1, JobsSound DEF QueueInv
<1>3. items[i] \in ItemRecord /\ items \in [Item -> ItemRecord]
  BY DEF QueueInv, ItemsOK
<1>4. /\ its \in [Item -> ItemRecord]
      /\ its[i].job = items[i].job /\ its[i].state = "error" /\ its[i].text = "other"
      /\ \A k \in Item \ {i} : its[k] = items[k]
  BY <1>3 DEF ItemRecord
<1> HIDE DEF its
<1>5. ItemsOK' /\ items'[i] = its[i]
  BY <1>1, <1>4, TrimmedItems DEF QueueInv, ItemsOK
<1>6. UNCHANGED rows
  BY <1>1 DEF vars
<1>7. \A k \in Item \ {i} : Carried(k)
  BY <1>1, <1>4, <1>6, UnsavedSettles, TrimmedCarries
<1>8. Fits(i)' /\ (items'[i].state = "sending" => items'[i].job \in Job)
  <2>1. items[i].job \in Job => rows[items[i].job].state \notin {"succeeded", "uploaded_only"}
    BY <1>1 DEF QueueInv, TablesFit, Fits, Resendable
  <2> QED BY <1>1, <1>4, <1>5, <1>6, <2>1, TargetFits
<1>9. ~ (items[i].state = "error" /\ UploadState(i) = "reconciliation_required")
  BY <1>1 DEF OutcomeUnknown
<1>10. \A j \in Job : owner[j] = i => ShownBy(j)'
  BY <1>1, <1>2, <1>9, UploadStates, TargetShown DEF Terminal
<1>11. GoesOn(i)
  BY <1>1, <1>4, <1>5 DEF GoesOn, Waiting, Resendable
<1> QED BY <1>1, <1>2, <1>5, <1>6, <1>7, <1>8, <1>10, <1>11, TablesKept DEF Refits

LEMMA RemoveKeeps ==
    ASSUME QueueInv, NEW i \in Item, Remove(i)
    PROVE  /\ QueueInv' /\ Onwards
           /\ items'[i].state \notin Waiting
           /\ \A k \in Job \ {items[i].job} : rows'[k] = rows[k]
<1> DEFINE its == [Settled EXCEPT ![i].state = "cancelled", ![i].text = "other"]
<1>1. /\ UNCHANGED owner /\ phase = "open" /\ phase' = "open"
      /\ Resendable(i)
      /\ IF Releasable(i) THEN Close(items[i].job, FALSE) ELSE UNCHANGED vars
      /\ items' = Trimmed(its)
  BY DEF Remove, Open
<1>2. /\ Sound' /\ TableMoves
      /\ \A k \in Job : rows[k].state = "absent" => rows'[k].state = "absent"
      /\ Releasable(i) => rows'[items[i].job].state \in {"succeeded", "failed"}
  <2>1. CASE Releasable(i)
    BY <1>1, <2>1, ClosesKnown
  <2>2. CASE ~ Releasable(i)
    BY <1>1, <2>2, JobsSound DEF QueueInv, vars
  <2> QED BY <2>1, <2>2
<1>3. Settled \in [Item -> ItemRecord] /\ Settled[i].job \in {items[i].job, NoJob}
  BY SettledJob
<1>4. /\ its \in [Item -> ItemRecord]
      /\ its[i].job = Settled[i].job
      /\ its[i].state = "cancelled" /\ its[i].text = "other"
      /\ \A k \in Item \ {i} : its[k] = Settled[k]
  <2>1. Settled[i] \in ItemRecord
    BY <1>3
  <2> QED BY <1>3, <2>1 DEF ItemRecord
<1> HIDE DEF its
<1>5. ItemsOK'
  BY <1>1, <1>4, TrimmedItems DEF QueueInv, ItemsOK
<1>6. \A k \in Item \ {i} : Carried(k)
  BY <1>1, <1>4, TrimmedCarries
<1>7. /\ items'[i].job \in {items[i].job, NoJob} /\ items'[i].text = "other"
      /\ items'[i].state \in {"absent", "cancelled"}
  BY <1>1, <1>3, <1>4, TrimmedItems DEF NoItemRow
<1>8. Fits(i)' /\ (items'[i].state = "sending" => items'[i].job \in Job)
  BY <1>1, <1>5, <1>7, TargetFits
<1>9. \A j \in Job : owner[j] = i => ShownBy(j)'
  <2>1. items[i].job \in Job /\ rows[items[i].job].state = "reconciliation_required"
        => Releasable(i)
    BY UploadStates DEF Releasable, Terminal
  <2> QED BY <1>1, <1>2, <2>1, TargetShown DEF Terminal
<1>10. GoesOn(i)
  BY <1>7 DEF GoesOn, Waiting
<1>11. \A k \in Job \ {items[i].job} : rows'[k] = rows[k]
  <2>1. CASE Releasable(i)
    BY <1>1, <2>1, ClosesKnown
  <2>2. CASE ~ Releasable(i)
    BY <1>1, <2>2 DEF vars
  <2> QED BY <2>1, <2>2
<1>12. QueueInv' /\ Onwards
  BY <1>1, <1>2, <1>5, <1>6, <1>8, <1>9, <1>10, QueueAssumption, TablesKept DEF Refits
<1> QED BY <1>7, <1>11, <1>12 DEF Waiting

LEMMA AnswerKeeps ==
    ASSUME QueueInv, NEW i \in Item, NEW s, NEW printed \in BOOLEAN,
           Answer(i, s, printed)
    PROVE  /\ QueueInv' /\ Onwards
           /\ printed => items'[i].state \notin Waiting
           /\ \A k \in Job \ {items[i].job} : rows'[k] = rows[k]
           /\ UNCHANGED <<held, performed>>
<1> DEFINE its == [Settled EXCEPT ![i].text = "other",
                     ![i].state = IF printed THEN "done" ELSE "error"]
<1>1. /\ UNCHANGED owner /\ phase = "open" /\ phase' = "open"
      /\ Resendable(i) /\ OutcomeUnknown(i)
      /\ IF NodeSent(i) THEN UNCHANGED vars ELSE Close(items[i].job, printed)
      /\ items' = Trimmed(its)
  BY DEF Answer, Open
<1>2. items[i] \in ItemRecord /\ Fits(i)
  BY DEF QueueInv, ItemsOK, TablesFit
<1>3. NodeSent(i) => items[i].job = NoJob
  <2>1. items[i].job \in Job /\ NodeSent(i) => rows[items[i].job].state \in Terminal
    BY UploadStates DEF QueueInv, TablesFit, Rows
  <2>2. NodeSent(i) => UploadState(i) = "none" /\ items[i].text = "interrupted"
                       /\ items[i].state = "error"
    BY <1>1 DEF OutcomeUnknown, UploadState
  <2> QED BY <1>2, <2>1, <2>2 DEF Fits, Terminal, ItemRecord
<1>4. ~ NodeSent(i) => UploadState(i) = "reconciliation_required"
  <2>1. ~ NodeSent(i) => rows[items[i].job].state # "none"
    BY UploadStates
       DEF QueueInv, Sound, Typed, TypeOK, Record, State, InProgress, Terminal
  <2> QED BY <1>1, <2>1, UploadStates DEF OutcomeUnknown
<1>5. /\ Sound' /\ TableMoves
      /\ \A k \in Job : rows[k].state = "absent" => rows'[k].state = "absent"
      /\ items[i].job \in Job => /\ items[i].job \in reconciled'
                                 /\ rows'[items[i].job].state \in Terminal
                                 /\ ~ printed => rows'[items[i].job].state = "failed"
      /\ \A k \in Job \ {items[i].job} : rows'[k] = rows[k]
      /\ UNCHANGED <<held, performed>>
  <2>1. CASE NodeSent(i)
    BY <1>1, <1>3, <2>1, RecordAssumption, JobsSound DEF QueueInv, vars
  <2>2. CASE ~ NodeSent(i)
    <3>1. rows[items[i].job].state = "reconciliation_required"
      BY <1>4, <2>2, UploadStates
    <3> QED BY <1>1, <1>4, <2>2, <3>1, ClosesKnown DEF Terminal
  <2> QED BY <2>1, <2>2
<1>6. Settled \in [Item -> ItemRecord] /\ Settled[i].job \in {items[i].job, NoJob}
  BY SettledJob
<1>7. /\ its \in [Item -> ItemRecord]
      /\ its[i].job = Settled[i].job /\ its[i].text = "other"
      /\ its[i].state = IF printed THEN "done" ELSE "error"
      /\ \A k \in Item \ {i} : its[k] = Settled[k]
  <2>1. Settled[i] \in ItemRecord
    BY <1>6
  <2> QED BY <1>6, <2>1 DEF ItemRecord
<1> HIDE DEF its
<1>8. ItemsOK'
  BY <1>1, <1>7, TrimmedItems DEF QueueInv, ItemsOK
<1>9. \A k \in Item \ {i} : Carried(k)
  BY <1>1, <1>7, TrimmedCarries
<1>10. /\ items'[i].job \in {items[i].job, NoJob} /\ items'[i].text = "other"
       /\ items'[i].state \in {"absent", "done", "error"}
  BY <1>1, <1>6, <1>7, TrimmedItems DEF NoItemRow
<1>11. Fits(i)' /\ (items'[i].state = "sending" => items'[i].job \in Job)
  <2>1. items'[i].state = "error" => ~ printed
    BY <1>1, <1>7, TrimmedItems DEF NoItemRow
  <2> QED BY <1>1, <1>5, <1>8, <1>10, <2>1, RecordAssumption, TargetFits
<1>12. \A j \in Job : owner[j] = i => ShownBy(j)'
  BY <1>1, <1>5, TargetShown
<1>13. GoesOn(i)
  <2>1. CASE printed
    BY <1>1, <1>7, <1>10, <2>1, TrimmedItems DEF GoesOn, Waiting, NoItemRow
  <2>2. CASE ~ printed
    <3>1. Settled[i].job = items[i].job
      <4>1. CASE NodeSent(i)
        BY <1>1, <4>1, UnsavedSettles DEF vars
      <4>2. CASE ~ NodeSent(i)
        <5>1. MustSettle(i) => SettledState(rows'[items[i].job]) = "error"
          <6>1. rows'[items[i].job].state = "failed"
            BY <1>1, <1>4, <2>2, <4>2, ClosesKnown
          <6> QED BY <6>1 DEF SettledState
        <5> QED BY <1>1, <1>2, <5>1, SettledItems
              DEF QueueInv, Judged, ItemRecord, Resendable
      <4> QED BY <4>1, <4>2
    <3> QED BY <1>1, <1>7, <1>10, <2>2, <3>1, TrimmedItems
            DEF GoesOn, Waiting, NoItemRow, Resendable
  <2> QED BY <2>1, <2>2
<1>14. QueueInv' /\ Onwards
  BY <1>1, <1>5, <1>8, <1>9, <1>11, <1>12, <1>13, QueueAssumption, TablesKept DEF Refits
<1>15. printed => items'[i].state \notin Waiting
  BY <1>1, <1>7, TrimmedItems DEF Waiting, NoItemRow
<1> QED BY <1>5, <1>14, <1>15

LEMMA JobStepKeeps ==
    ASSUME QueueInv, JobStep
    PROVE  QueueInv' /\ Onwards
<1>1. /\ [Next]_vars /\ UNCHANGED owner /\ phase' = "open" /\ items' = Settled
      /\ \A j \in SendKey : rows[j].state = "absent" => rows'[j].state = "absent"
  BY DEF JobStep, Open, Next
<1>2. Sound' /\ TableMoves
  BY <1>1, JobsSound DEF QueueInv
<1>3. ItemsOK' /\ \A i \in Item : Carried(i)
  BY <1>1, SettledItems, SettledCarries DEF QueueInv, ItemsOK
<1> QED BY <1>1, <1>2, <1>3, TablesKept

\* After a restart no job is at work.
LEMMA RestartIdles ==
    ASSUME Sound, Restart
    PROVE  /\ Active(rows)' = {}
           /\ \A j \in Job : rows[j].state = "absent" => rows'[j].state = "absent"
<1>1. PICK oversized \in SUBSET Active(rows) : rows' = Recover(rows, Active(rows), oversized)
  BY DEF Restart
<1>2. ASSUME NEW j \in Job
      PROVE  /\ rows'[j].state \notin InProgress
             /\ rows[j].state = "absent" => rows'[j].state = "absent"
  <2>1. WellFormed(rows[j])
    BY DEF Sound, Typed, Documents
  <2>2. /\ Recovered(j, rows[j]).state \notin InProgress
        /\ Quarantined(rows[j]).state = "quarantined"
    BY <2>1, RecoveredFollows, QuarantinedFollows
  <2>3. rows'[j] = IF j \in Active(rows) \cap oversized THEN Quarantined(rows[j])
                   ELSE IF j \in Active(rows) THEN Recovered(j, rows[j])
                   ELSE rows[j]
    BY <1>1 DEF Recover
  <2> QED BY <2>2, <2>3 DEF Active, Rows, InProgress
<1> QED BY <1>2 DEF Active, Rows

LEMMA RecoverJobsKeeps ==
    ASSUME QueueInv, RecoverJobs
    PROVE  QueueInv' /\ Onwards
<1>1. /\ Restart /\ [Next]_vars /\ UNCHANGED owner /\ phase' = "recovered"
      /\ items' = [i \in Item |->
            IF /\ i \in ToSettle(rows')
               /\ rows'[items[i].job].state = "reconciliation_required"
            THEN [Settled[i] EXCEPT !.text = "interrupted"] ELSE Settled[i]]
  BY DEF RecoverJobs, Next
<1>2. Sound' /\ TableMoves
  BY <1>1, JobsSound DEF QueueInv
<1>3. Settled \in [Item -> ItemRecord] /\ ItemsOK
  BY SettledItems DEF QueueInv
<1>4. \A i \in Item : Carried(i)
  <2> TAKE i \in Item
  <2>1. i \in ToSettle(rows') <=> MustSettle(i)
    BY <1>3, SettledItems
  <2> QED BY <1>1, <1>3, <2>1, SettledCarries
<1>5. ItemsOK'
  <2>1. \A i \in Item : [Settled[i] EXCEPT !.text = "interrupted"] \in ItemRecord
    BY <1>3 DEF ItemRecord
  <2> QED BY <1>1, <1>3, <2>1 DEF ItemsOK
<1>6. /\ Active(rows)' = {}
      /\ \A j \in Job : rows[j].state = "absent" => rows'[j].state = "absent"
  BY <1>1, RestartIdles DEF QueueInv
<1> QED BY <1>1, <1>2, <1>4, <1>5, <1>6, QueueAssumption, TablesKept

\* The queue's recovery finds every sending item with a job that waits again
\* or that it cannot read, and closes the ones that wait.
LEMMA RecoverQueueKeeps ==
    ASSUME QueueInv, RecoverQueue
    PROVE  /\ QueueInv' /\ Onwards
           /\ \A j \in Job : rows'[j] # rows[j] => Admitted(rows'[j]) = {}
<1> DEFINE sending == {i \in Item : items[i].state = "sending"}
           released == {i \in sending : Releasable(i)}
           its == [i \in Item |->
                     IF i \in released
                     THEN [items[i] EXCEPT !.state = "error", !.text = "not_started"]
                     ELSE IF i \in sending
                     THEN [items[i] EXCEPT !.state = "error", !.text = "interrupted"]
                     ELSE items[i]]
           S == {items[i].job : i \in released}
<1>1. /\ phase = "recovered" /\ phase' = "open"
      /\ rows' = [j \in Job |-> IF \E i \in released : items[i].job = j
                                THEN ClosedUpload(j, rows[j], FALSE) ELSE rows[j]]
      /\ items' = IF released = {} THEN its ELSE Trimmed(its)
      /\ UNCHANGED <<archived, reconciled, expired, held, performed, owner>>
  BY DEF RecoverQueue
<1>2. Sound /\ ItemsOK /\ \A i \in Item : items[i] \in ItemRecord /\ Fits(i)
  BY DEF QueueInv, ItemsOK, TablesFit
<1>3. ASSUME NEW i \in sending
      PROVE  /\ items[i].job \in Job /\ rows[items[i].job].state \in {"queued", "quarantined"}
             /\ i \in released <=> rows[items[i].job].state = "queued"
  <2>1. /\ items[i].job \in Job
        /\ rows[items[i].job].state \in {"queued", "quarantined"} \cup InProgress
    BY <1>2 DEF QueueInv, TablesFit, Fits
  <2>2. rows[items[i].job].state \notin InProgress
    BY <1>1, <2>1 DEF QueueInv, TablesFit, Active, Rows
  <2>3. UploadState(i) = rows[items[i].job].state
    BY <2>1, <2>2, UploadStates DEF Terminal
  <2> QED BY <2>1, <2>2, <2>3 DEF Releasable
<1>4. S \in SUBSET Job /\ \A j \in S : rows[j].state = "queued"
  BY <1>3
<1>5. rows' = [j \in Job |-> IF j \in S THEN ClosedUpload(j, rows[j], FALSE) ELSE rows[j]]
  BY <1>1
<1> HIDE DEF S
<1>6. /\ Sound' /\ TableMoves
      /\ \A j \in S : rows'[j].state = "failed" /\ Admitted(rows'[j]) = {}
      /\ \A j \in Job \ S : rows'[j] = rows[j]
  BY <1>1, <1>2, <1>4, <1>5, CloseQueuedSound
<1> USE DEF S
<1>7. ASSUME NEW i \in Item
      PROVE  /\ its[i] \in ItemRecord /\ its[i].job = items[i].job
             /\ i \notin sending => its[i] = items[i]
             /\ i \in sending => /\ its[i].state = "error"
                                 /\ its[i].text = IF i \in released THEN "not_started"
                                                  ELSE "interrupted"
  BY <1>2 DEF ItemRecord
<1>8. its \in [Item -> ItemRecord]
  BY <1>7
<1> HIDE DEF its
<1>9. \A i \in Item : \/ items'[i] = its[i]
                      \/ items'[i] = NoItemRow /\ its[i].state \in {"done", "cancelled"}
  BY <1>1, <1>8, TrimmedItems
<1>10. ItemsOK'
  BY <1>1, <1>2, <1>8, TrimmedItems DEF ItemsOK
<1>11. ASSUME NEW i \in Item \ sending PROVE Carried(i)
  <2>1. ~ MustSettle(i)
    <3>1. ASSUME NEW k \in released PROVE items[k].job # items[i].job
      BY <1>2, <1>3, <1>11, <3>1 DEF Fits
    <3> QED BY <1>6, <3>1 DEF MustSettle
  <2> QED BY <1>7, <1>9, <1>11, <2>1 DEF Carried
<1>12. ASSUME NEW i \in sending PROVE Refits(i)
  <2> DEFINE j == items[i].job
  <2>1. /\ items'[i].job = j /\ items'[i].state = "error"
        /\ items'[i].text = IF i \in released THEN "not_started" ELSE "interrupted"
    BY <1>7, <1>9, <1>12
  <2>2. /\ j \in Job /\ owner'[j] = i
        /\ i \in released => rows'[j].state = "failed" /\ Admitted(rows'[j]) = {}
        /\ i \notin released => rows'[j].state = "quarantined"
    <3>1. j \in Job /\ owner'[j] = i
      BY <1>1, <1>2, <1>3, <1>12 DEF Fits
    <3>2. i \in released => j \in S
      OBVIOUS
    <3>3. i \notin released => rows[j].state = "quarantined"
      BY <1>3, <1>12
    <3> QED BY <1>6, <3>1, <3>2, <3>3, RowsMove
  <2>3. Fits(i)'
    BY <2>1, <2>2 DEF Fits, Terminal
  <2>4. ASSUME NEW k \in Job, owner[k] = i PROVE ShownBy(k)'
    <3>1. ShownBy(k) /\ owner[k] # NoItem /\ owner'[k] = owner[k]
      BY <1>1, <2>4, QueueAssumption DEF QueueInv, TablesFit
    <3>2. rows[k].state # "reconciliation_required"
      BY <1>12, <2>4, <3>1 DEF ShownBy
    <3>3. rows[k].state \in {"queued"} \cup InProgress => k = j
      BY <2>4, <3>1 DEF ShownBy
    <3>4. rows'[k].state \notin {"queued", "reconciliation_required"} \cup InProgress
      BY <1>6, <2>2, <3>1, <3>2, <3>3, RowsMove DEF ShownBy, InProgress
    <3> QED BY <1>6, <3>1, <3>4 DEF ShownBy, TableMoves
  <2>5. GoesOn(i)
    BY <1>12, <2>1, <2>2 DEF GoesOn, Waiting
  <2> QED BY <2>1, <2>3, <2>4, <2>5 DEF Refits
<1>13. \A j \in Job : rows[j].state = "absent" => rows'[j].state = "absent"
  BY <1>4, <1>6
<1>14. \A j \in Job : rows'[j] # rows[j] => Admitted(rows'[j]) = {}
  BY <1>6
<1> QED BY <1>1, <1>6, <1>10, <1>11, <1>12, <1>13, <1>14, QueueAssumption, TablesKept

\* Send now: the fresh job is nobody's yet, and the item it is for has no open
\* or unresolved one.
LEMMA DispatchKeeps ==
    ASSUME QueueInv, NEW i \in Item, NEW j \in Job, Dispatch(i, j)
    PROVE  /\ QueueInv' /\ TableMoves
           /\ owner[j] = NoItem /\ owner' = [owner EXCEPT ![j] = i]
           /\ \A k \in Job \ {j} : rows'[k] = rows[k]
           /\ rows'[j].state = "queued"
           /\ items'[i].job = j /\ items'[i].state = "sending"
           /\ \A k \in Item \ {i} : Carried(k) /\ ~ MustSettle(k)
<1> DEFINE its == Dispatched(i, j)
<1>1. /\ phase = "open" /\ phase' = "open"
      /\ Resendable(i) /\ Readable(i) /\ ~ OutcomeUnknown(i)
      /\ j \in SendKey /\ Request[j] = SendOf(i) /\ Enqueue(j)
      /\ items' = Trimmed(its)
      /\ owner' = [owner EXCEPT ![j] = i]
  BY DEF Dispatch, Open
<1>2. Sound' /\ TableMoves
  <2>1. [Next]_vars
    BY <1>1 DEF Next, User
  <2> QED BY <2>1, JobsSound DEF QueueInv
<1>3. /\ rows[j].state = "absent" /\ rows'[j].state = "queued"
      /\ \A k \in Job \ {j} : rows'[k] = rows[k]
  <2>1. Typed /\ rows[j] \in Record /\ rows[j].state = "absent"
    BY <1>1 DEF QueueInv, Sound, Typed, TypeOK, Enqueue
  <2>2. Put(j, Enqueued(rows[j]))
    BY <1>1 DEF Enqueue
  <2>3. Enqueued(rows[j]).state = "queued"
    <3>1. [rows[j] EXCEPT !.state = "queued"] \in Record
      BY <2>1 DEF Record, State
    <3>2. [rows[j] EXCEPT !.state = "queued"].state = "queued"
      BY <2>1 DEF Record
    <3> QED BY <3>1, <3>2, SavedKept DEF Enqueued
  <2> QED BY <2>1, <2>2, <2>3, PutTouches
<1>4. owner[j] = NoItem /\ NoItem \notin Item
  BY <1>3, QueueAssumption DEF QueueInv, TablesFit, ShownBy
<1>5. items \in [Item -> ItemRecord] /\ owner \in [Job -> Item \cup {NoItem}]
  BY DEF QueueInv, ItemsOK
<1>6. /\ its \in [Item -> ItemRecord]
      /\ its[i].state = "sending" /\ its[i].job = j /\ its[i].text = "other"
      /\ \A k \in Item \ {i} : its[k] = items[k]
  BY <1>5 DEF Dispatched, ItemRecord
<1> HIDE DEF its
<1>7. /\ items'[i].state = "sending" /\ items'[i].job = j /\ items'[i].text = "other"
      /\ ItemsOK'
  BY <1>1, <1>5, <1>6, TrimmedItems DEF ItemsOK
<1>8. ASSUME NEW k \in Item \ {i}
      PROVE  Carried(k) /\ ~ MustSettle(k) /\ items[k].job # j
  <2>1. Fits(k)
    BY DEF QueueInv, TablesFit
  <2>2. items[k].job # j
    BY <1>4, <2>1 DEF Fits
  <2>3. ~ MustSettle(k)
    BY <1>3, <2>2 DEF MustSettle
  <2>4. \/ items'[k] = items[k]
        \/ items'[k] = NoItemRow /\ items[k].state \in {"done", "cancelled"}
    BY <1>1, <1>6, TrimmedItems
  <2> QED BY <2>2, <2>3, <2>4 DEF Carried
<1>9. \A k \in Item : Fits(k)' /\ (items'[k].state = "sending" => items'[k].job \in Job)
  <2>1. Fits(i)'
    BY <1>1, <1>3, <1>5, <1>7 DEF Fits, Terminal
  <2>2. ASSUME NEW k \in Item \ {i}
        PROVE  Fits(k)' /\ (items'[k].state = "sending" => items'[k].job \in Job)
    <3>1. items[k].job \in Job => owner'[items[k].job] = owner[items[k].job]
      BY <1>1, <1>5, <1>8
    <3> QED BY <1>2, <1>8, <3>1, CarriedFits
  <2> QED BY <1>7, <2>1, <2>2
<1>10. ASSUME NEW k \in Job PROVE ShownBy(k)'
  <2>1. CASE k = j
    BY <1>1, <1>3, <1>5, <1>7, <2>1 DEF ShownBy, InProgress
  <2>2. CASE k # j /\ owner[k] \in Item \ {i}
    BY <1>1, <1>2, <1>4, <1>5, <1>8, <2>2, CarriedShows
  <2>3. CASE k # j /\ owner[k] = i
    <3>1. ShownBy(k) /\ owner'[k] = i /\ owner[k] # NoItem /\ rows'[k] = rows[k]
      BY <1>1, <1>3, <1>4, <1>5, <2>3 DEF QueueInv, TablesFit
    <3>2. rows[k].state \notin {"queued"} \cup InProgress
      BY <1>1, <2>3, <3>1 DEF ShownBy, Resendable
    <3>3. rows[k].state # "reconciliation_required"
      <4>1. rows[k].state = "reconciliation_required" =>
               items[i].job = k /\ items[i].state = "error"
        BY <2>3, <3>1 DEF ShownBy
      <4> QED BY <1>1, <4>1, UploadStates DEF OutcomeUnknown, Terminal
    <3> QED BY <2>3, <3>1, <3>2, <3>3 DEF ShownBy
  <2>4. CASE k # j /\ owner[k] = NoItem
    BY <1>1, <1>5, <2>4 DEF ShownBy
  <2> QED BY <1>5, <2>1, <2>2, <2>3, <2>4
<1>11. \A k \in SendKey : owner'[k] = NoItem => rows'[k].state = "absent"
  BY <1>1, <1>3, <1>4, <1>5, QueueAssumption DEF QueueInv, TablesFit
<1>12. archived' \subseteq Rows(rows', Terminal)
  BY <1>1, <1>3 DEF QueueInv, TablesFit, Rows, Enqueue, Terminal
<1> QED BY <1>1, <1>2, <1>3, <1>4, <1>7, <1>8, <1>9, <1>10, <1>11, <1>12
        DEF QueueInv, TablesFit

-----------------------------------------------------------------------------
(* The theorems about single states.                                         *)

LEMMA InitQueue == QueueInit => QueueInv
<1> SUFFICES ASSUME QueueInit PROVE QueueInv
  OBVIOUS
<1>1. Sound
  BY InitTyped, InitOnce, InitAccounted DEF QueueInit, Sound
<1>2. ItemsOK
  BY QueueAssumption DEF QueueInit, ItemsOK
<1>3. \A i \in Item : items[i].job = NoJob /\ items[i].state # "sending"
  BY QueueAssumption DEF QueueInit
<1>4. \A j \in Job : rows[j].state = "absent" /\ owner[j] = NoItem
  BY DEF QueueInit, Init, NoRow
<1> QED BY <1>1, <1>2, <1>3, <1>4, RecordAssumption, QueueAssumption
        DEF QueueInv, TablesFit, Fits, ShownBy, QueueInit, Init

\* One transaction of the queue other than Send now.
Else ==
    \/ \E i \in Item : \/ Remove(i) \/ Missing(i)
                       \/ \E s \in Job \cup {NoJob}, printed \in BOOLEAN :
                             Answer(i, s, printed)
    \/ JobStep \/ RecoverJobs \/ RecoverQueue \/ UNCHANGED sqvars

LEMMA QueueSplits ==
    [QueueNext]_sqvars => Else \/ \E i \in Item, j \in Job : Dispatch(i, j)
BY Zenon DEF QueueNext, ItemStep, Else

LEMMA ElseKeeps ==
    ASSUME QueueInv, Else
    PROVE  QueueInv' /\ Onwards
<1>1. CASE UNCHANGED sqvars
  <2>1. UNCHANGED vars /\ UNCHANGED <<items, phase, owner>>
    BY <1>1 DEF sqvars
  <2>2. Sound' /\ TableMoves /\ UNCHANGED rows /\ UNCHANGED archived /\ UNCHANGED reconciled
    BY <2>1, JobsSound DEF QueueInv, vars
  <2>3. QueueInv'
    BY <2>1, <2>2 DEF QueueInv, ItemsOK, TablesFit, Fits, ShownBy, Active, Rows
  <2>4. \A i \in Item : GoesOn(i)
    BY <2>1 DEF GoesOn
  <2> QED BY <2>1, <2>2, <2>3, <2>4 DEF Onwards
<1> QED BY <1>1, RemoveKeeps, MissingKeeps, AnswerKeeps, JobStepKeeps,
           RecoverJobsKeeps, RecoverQueueKeeps DEF Else

LEMMA QueueStep == QueueInv /\ [QueueNext]_sqvars => QueueInv'
BY QueueSplits, ElseKeeps, DispatchKeeps

LEMMA QueueAlways == QueueSpec => []QueueInv
<1> QED BY InitQueue, QueueStep, PTL DEF QueueSpec

\* An item is sending exactly as long as its job may still run: every save that ends
\* the job or loses track of it settles the item in its own transaction, no archive
\* takes an open job away, and no user's action moves the item on under its job.
THEOREM SendingAlwaysUntilSettled == QueueSpec => []SendingUntilSettled
<1>1. QueueInv => SendingUntilSettled
  <2> SUFFICES ASSUME QueueInv PROVE SendingUntilSettled
    OBVIOUS
  <2>1. ASSUME NEW i \in Item, items[i].state = "sending"
        PROVE  /\ items[i].job \in Job \ archived
               /\ rows[items[i].job].state \in {"queued", "quarantined"} \cup InProgress
    <3>1. /\ items[i].job \in Job
          /\ rows[items[i].job].state \in {"queued", "quarantined"} \cup InProgress
      BY <2>1 DEF QueueInv, TablesFit, Fits
    <3> QED BY <3>1 DEF QueueInv, TablesFit, Rows, Terminal, InProgress
  <2>2. \A j \in Job : owner[j] # NoItem /\ rows[j].state \in {"queued"} \cup InProgress =>
           items[owner[j]].job = j /\ items[owner[j]].state = "sending"
    BY DEF QueueInv, TablesFit, ShownBy
  <2> QED BY <2>1, <2>2 DEF SendingUntilSettled
<1> QED BY <1>1, QueueAlways, PTL

\* An upload whose outcome is unknown is shown as such by the item it was
\* dispatched for, whichever of timeout, refusal, restart, failure report and
\* cancellation left it so.
THEOREM UnresolvedAlwaysShown == QueueSpec => []UnresolvedIsShown
<1>1. QueueInv => UnresolvedIsShown
  <2> SUFFICES ASSUME QueueInv, NEW j \in Job, owner[j] # NoItem,
                      rows[j].state = "reconciliation_required"
               PROVE  items[owner[j]].job = j /\ OutcomeUnknown(owner[j])
    BY DEF UnresolvedIsShown
  <2>1. /\ owner[j] \in Item /\ items[owner[j]].job = j
        /\ items[owner[j]].state = "error"
    BY DEF QueueInv, ItemsOK, TablesFit, ShownBy
  <2> QED BY <2>1, UploadStates DEF OutcomeUnknown, Terminal
<1> QED BY <1>1, QueueAlways, PTL

\* A job that admitted nothing has sent nothing, and no task is about to.
LEMMA NothingAdmitted ==
    ASSUME Sound, NEW j \in Job, Admitted(rows[j]) = {}
    PROVE  Unsent(j)
<1>1. ASSUME NEW x \in Intent PROVE performed[j][x] = 0
  <2>1. performed[j][x] \in Nat
    BY DEF Sound, Typed, TypeOK
  <2>2. ~ (performed[j][x] > 0)
    BY DEF Sound, Once, EffectsOnRecord
  <2> QED BY <2>1, <2>2
<1>2. ASSUME NEW w \in Worker, held[w].job = j PROVE held[w].todo = NoIntent
  BY <1>2 DEF Sound, Once, ErrandsAreNew
<1> QED BY <1>1, <1>2 DEF Unsent

\* When an item says that nothing was sent, nothing was and nothing will be:
\* the restart closed the upload before any attempt admitted an effect.
THEOREM NotStartedAlwaysTrue == QueueSpec => []NotStartedIsTrue
<1>1. QueueInv => NotStartedIsTrue
  <2> SUFFICES ASSUME QueueInv, NEW i \in Item, items[i].text = "not_started"
               PROVE  Unsent(items[i].job)
    BY DEF NotStartedIsTrue
  <2>1. items[i].job \in Job \cup {NoJob}
    BY DEF QueueInv, ItemsOK, ItemRecord
  <2>2. items[i].job \in Job => Admitted(rows[items[i].job]) = {}
    BY DEF QueueInv, TablesFit, Fits
  <2> QED BY <2>1, <2>2, NothingAdmitted DEF QueueInv, Unsent
<1> QED BY <1>1, QueueAlways, PTL

\* A dispatched item is done only by its upload's own end or by an answer that
\* its user gave about that very upload.
THEOREM DoneAlwaysJustified == QueueSpec => []DoneIsJustified
<1>1. QueueInv => DoneIsJustified
  BY DEF QueueInv, TablesFit, Fits, DoneIsJustified
<1> QED BY <1>1, QueueAlways, PTL

-----------------------------------------------------------------------------
(* One send per printer.                                                     *)

LiveSend(j) == owner[j] # NoItem /\ rows[j].state \notin {"absent"} \cup Terminal

SendsApart ==
    /\ \A j, k \in Job :
          LiveSend(j) /\ LiveSend(k) /\ Request[j].target = Request[k].target => j = k
    /\ \A j \in Job : LiveSend(j) => ~ NodeSendUnresolved(Request[j].target)

\* No send becomes live but by Send now, and none of Node's is left unresolved
\* that was not when the queue was adopted.
LEMMA LiveSendBefore ==
    ASSUME QueueInv, TableMoves, NEW j \in Job, owner'[j] = owner[j], LiveSend(j)'
    PROVE  LiveSend(j)
<1>1. owner[j] # NoItem
  BY DEF LiveSend
<1>2. rows[j].state # "absent"
  BY <1>1 DEF QueueInv, TablesFit, ShownBy
<1> QED BY <1>1, <1>2 DEF LiveSend, TableMoves

LEMMA NodeUnresolvedBefore ==
    ASSUME QueueInv, QueueInv', NEW p, NodeSendUnresolved(p)',
           \A i \in Item : GoesOn(i) \/ items'[i].state = "sending"
    PROVE  NodeSendUnresolved(p)
<1>1. PICK i \in Item : /\ ItemPrinter[i] = p /\ NodeSent(i)'
                        /\ items'[i].state = "error" /\ items'[i].text = "interrupted"
  BY DEF NodeSendUnresolved
<1>2. items'[i].job \notin Job
  <2>1. items'[i].job \in Job => items'[i].job \notin archived'
    BY <1>1 DEF QueueInv, TablesFit, Fits, Rows, Terminal
  <2> QED BY <1>1, <2>1, RecordAssumption DEF NodeSent
<1>3. items[i] = items'[i]
  BY <1>1, <1>2 DEF GoesOn
<1>4. items[i].job = NoJob
  BY <1>2, <1>3 DEF QueueInv, ItemsOK, ItemRecord
<1> QED BY <1>1, <1>3, <1>4 DEF NodeSendUnresolved, NodeSent

LEMMA ApartStep ==
    QueueInv /\ SendsApart /\ [QueueNext]_sqvars => SendsApart'
<1> SUFFICES ASSUME QueueInv, SendsApart, [QueueNext]_sqvars PROVE SendsApart'
  OBVIOUS
<1>1. CASE Else
  <2>1. QueueInv' /\ TableMoves /\ UNCHANGED owner /\ \A i \in Item : GoesOn(i)
    BY <1>1, ElseKeeps DEF Onwards
  <2>2. \A j \in Job : LiveSend(j)' => LiveSend(j)
    BY <2>1, LiveSendBefore
  <2>3. \A p : NodeSendUnresolved(p)' => NodeSendUnresolved(p)
    BY <2>1, NodeUnresolvedBefore
  <2> QED BY <2>2, <2>3 DEF SendsApart
<1>2. ASSUME NEW i \in Item, NEW j \in Job, Dispatch(i, j) PROVE SendsApart'
  <2> DEFINE p == ItemPrinter[i]
  <2>1. /\ QueueInv' /\ TableMoves
        /\ owner' = [owner EXCEPT ![j] = i] /\ owner \in [Job -> Item \cup {NoItem}]
        /\ items'[i].state = "sending"
        /\ \A k \in Item \ {i} : GoesOn(k)
    BY <1>2, DispatchKeeps, CarriedGoesOn DEF QueueInv, ItemsOK
  <2>2. /\ ~ PrinterReserved(p) /\ ~ NodeSendUnresolved(p)
        /\ Request[j].target = p
    BY <1>2 DEF Dispatch, SendOf
  <2>3. \A k \in Job \ {j} : LiveSend(k)' => LiveSend(k)
    BY <2>1, LiveSendBefore
  <2>4. \A q : NodeSendUnresolved(q)' => NodeSendUnresolved(q)
    BY <2>1, NodeUnresolvedBefore
  <2>5. ASSUME NEW k \in Job, LiveSend(k) PROVE Request[k].target # p
    <3>1. rows[k].state \in State /\ Request[k] = SendOf(owner[k])
      BY <2>5 DEF LiveSend, QueueInv, TablesFit, ShownBy, Sound, Typed, TypeOK, Record
    <3>2. k \in Rows(rows, Reserving \cup {"queued"})
      BY <2>5, <3>1 DEF LiveSend, Rows, State, Reserving
    <3>3. Resource(k) = {Request[k].target}
      BY <3>1 DEF Resource, SendOf
    <3> QED BY <2>2, <3>2, <3>3 DEF PrinterReserved
  <2> QED BY <2>2, <2>3, <2>4, <2>5 DEF SendsApart
<1> QED BY <1>1, <1>2, QueueSplits

\* At any time at most one send to a printer waits, runs or is unresolved,
\* counting what Node left unresolved before the queue was adopted: Send now
\* looks at the printer's jobs in the transaction that draws the new one, and
\* nothing else makes a send live or brings back one of Node's.
THEOREM OneSendAlways == QueueSpec => []OneSendPerPrinter
<1>1. QueueInit => SendsApart
  BY DEF QueueInit, SendsApart, LiveSend
<1>2. SendsApart => OneSendPerPrinter
  <2> SUFFICES ASSUME SendsApart, NEW p \in Printer
               PROVE  LET S == {j \in Job : /\ rows[j].state \notin {"absent"} \cup Terminal
                                            /\ owner[j] # NoItem /\ Request[j].target = p}
                      IN Cardinality(S) + (IF NodeSendUnresolved(p) THEN 1 ELSE 0) <= 1
    BY DEF OneSendPerPrinter
  <2> DEFINE S == {j \in Job : /\ rows[j].state \notin {"absent"} \cup Terminal
                               /\ owner[j] # NoItem /\ Request[j].target = p}
  <2>1. \A j \in S : j \in Job /\ LiveSend(j) /\ Request[j].target = p
    BY DEF LiveSend
  <2>2. CASE S = {}
    BY <2>2, FS_EmptySet
  <2>3. CASE S # {}
    <3>1. PICK j \in S : TRUE
      BY <2>3
    <3>2. S = {j} /\ ~ NodeSendUnresolved(p)
      BY <2>1, <3>1 DEF SendsApart
    <3>3. Cardinality(S) = 1
      BY <3>2, FS_Singleton
    <3> QED BY <3>2, <3>3
  <2> QED BY <2>2, <2>3
<1> QED BY <1>1, <1>2, ApartStep, QueueAlways, PTL DEF QueueSpec

-----------------------------------------------------------------------------
(* How a job fails.                                                          *)

\* Document s, saved in r's place without a user's word, fails the job only if
\* it has admitted nothing.
FailsUntouched(r, s) == s.state = "failed" /\ s # r => Admitted(r) = {}

LEMMA RecoveredUntouched ==
    ASSUME NEW j \in Job, NEW r \in Record
    PROVE  /\ FailsUntouched(r, Recovered(j, r))
           /\ Quarantined(r).state = "quarantined"
<1>1. RecoveryState(j, r) \in State
  BY DEF RecoveryState, State, Terminal
<1>2. Recovered(j, r).state = RecoveryState(j, r)
  BY <1>1, FencedKeepsAttempt, SavedKeepsAttempt DEF Recovered
<1>3. RecoveryState(j, r) = "failed" => Admitted(r) = {}
  BY DEF RecoveryState
<1>4. Quarantined(r).state = "quarantined"
  <2>1. Unleased(r, "quarantined") \in Record /\ Unleased(r, "quarantined").state = "quarantined"
    BY FencedKeepsAttempt DEF State
  <2> QED BY <2>1 DEF Quarantined, Record
<1> QED BY <1>2, <1>3, <1>4 DEF FailsUntouched

LEMMA RefusedUntouched ==
    ASSUME NEW j \in Job, NEW r \in Record, NEW receipt \in BOOLEAN,
           receipt => r.last \in Intent
    PROVE  FailsUntouched(r, Refused(r, receipt))
<1> DEFINE seen  == IF receipt THEN [r EXCEPT !.effects[r.last] = "observed"] ELSE r
           state == IF Admitted(r) = {} THEN "failed" ELSE "reconciliation_required"
           f     == Fenced(seen, state)
           d     == [f EXCEPT !.refusal = "observed"]
<1>1. seen \in Record
  <2>1. CASE receipt
    <3>1. seen = Rewritten(r, r.last, "observed") /\ r.last \in Intent
      BY <2>1 DEF Rewritten
    <3> HIDE DEF seen
    <3> QED BY <3>1, EffectRewritten, LiveOutcomes, Zenon DEF SameAttempt
  <2> QED BY <2>1
<1>2. state \in State /\ (state = "failed" => Admitted(r) = {})
  BY DEF State, Terminal
<1>3. Refused(r, receipt) = Saved(d)
  BY DEF Refused
<1> HIDE DEF seen, state
<1>4. f \in Record /\ f.state = state
  BY <1>1, <1>2, FencedKeepsAttempt
<1> HIDE DEF f
<1>5. d \in Record /\ d.state = state
  <2>1. d \in Record
    BY <1>4, Zenon DEF Record
  <2> QED BY <1>4, <2>1, SMT DEF Record
<1> HIDE DEF d
<1> QED BY <1>2, <1>3, <1>5, SavedKeepsAttempt DEF FailsUntouched

LEMMA FailedUntouched ==
    ASSUME NEW r \in Record
    PROVE  FailsUntouched(r, Failed(r))
<1> DEFINE u == Unleased(r, "reconciliation_required")
<1>1. u \in Record /\ u.state = "reconciliation_required"
  BY FencedKeepsAttempt DEF State
<1>2. Admitted(r) # {} => Failed(r) = Saved(u)
  BY DEF Failed
<1> HIDE DEF u
<1> QED BY <1>1, <1>2, SavedKeepsAttempt DEF FailsUntouched

LEMMA CancelledUntouched ==
    ASSUME NEW j \in Job, NEW r \in Record
    PROVE  CancelRequested(j, r).state # "failed"
<1> DEFINE asked == [r EXCEPT !.cancel = "requested"]
           state == CASE Request[j].kind = "import" -> "queued"
                      [] Request[j].kind # "import" /\ Admitted(r) = {} -> "cancelled"
                      [] OTHER -> "reconciliation_required"
           f     == Fenced(asked, state)
<1>1. asked \in Record
  BY Zenon DEF Record
<1>2. state \in State /\ state # "failed"
  BY DEF State, Terminal
<1>3. CancelRequested(j, r) = Saved(f)
  BY DEF CancelRequested
<1> HIDE DEF asked, state
<1>4. f \in Record /\ f.state = state
  BY <1>1, <1>2, FencedKeepsAttempt
<1> HIDE DEF f
<1> QED BY <1>2, <1>3, <1>4, SavedKeepsAttempt

\* The states that the other documents are saved in.
LEMMA SavedStates ==
    ASSUME NEW r \in Record
    PROVE  /\ Enqueued(r).state = "queued"
           /\ \A w \in Worker : Claimed(r, w).state = "running"
           /\ r.last \in Intent => EffectConfirmed(r).state = "running"
           /\ \A res \in Intent \cup {NoIntent} : Finished(r, res).state = "succeeded"
           /\ \A i \in Intent : EffectBegun(r, i).state = "effect_admitted"
           /\ Saved(r).state = r.state
<1>1. Enqueued(r).state = "queued"
  <2>1. [r EXCEPT !.state = "queued"] \in Record /\ [r EXCEPT !.state = "queued"].state = "queued"
    BY DEF Record, State
  <2> QED BY <2>1, SavedKept DEF Enqueued
<1>2. ASSUME NEW w \in Worker PROVE Claimed(r, w).state = "running"
  <2> DEFINE d == [r EXCEPT !.state = "running", !.attempt = @ + 1,
                     !.generation = @ + 1, !.lease = "granted", !.worker = w]
  <2>1. d.state = "running"
    BY DEF Record
  <2>2. Claimed(r, w) = [d EXCEPT !.version = @ + 1]
    BY <2>1 DEF Claimed, Saved, Terminal
  <2>3. Claimed(r, w).state = d.state
    BY <2>2
  <2> QED BY <2>1, <2>3
<1>3. ASSUME r.last \in Intent PROVE EffectConfirmed(r).state = "running"
  <2> DEFINE e == Rewritten(r, r.last, "confirmed")
             d == [e EXCEPT !.state = "running"]
  <2>1. e \in Record
    BY <1>3, EffectRewritten, LiveOutcomes, Zenon DEF SameAttempt
  <2>2. EffectConfirmed(r) = Saved(d)
    BY DEF EffectConfirmed, Rewritten
  <2> HIDE DEF e
  <2>3. d \in Record /\ d.state = "running"
    BY <2>1, StatedKept DEF State, InProgress
  <2> HIDE DEF d
  <2> QED BY <2>2, <2>3, SavedKept
<1>4. ASSUME NEW res \in Intent \cup {NoIntent} PROVE Finished(r, res).state = "succeeded"
  <2> DEFINE d == [r EXCEPT !.state = "succeeded", !.result = res]
  <2>1. d \in Record
    BY Zenon DEF Record, State, Terminal
  <2>2. d.state = "succeeded"
    BY DEF Record
  <2>3. Finished(r, res) = Saved(d)
    BY DEF Finished
  <2> HIDE DEF d
  <2> QED BY <2>1, <2>2, <2>3, SavedKept
<1> QED BY <1>1, <1>2, <1>3, <1>4, EffectBegunKept, SavedKept

\* A row after a step of the engine fails untouched, or a user failed it.
UntouchedTable ==
    \A j \in Job : \/ FailsUntouched(rows[j], rows'[j])
                   \/ rows[j].state = "reconciliation_required"

LEMMA PutUntouched ==
    ASSUME Typed, NEW j \in Job, NEW r, Put(j, r),
           \/ FailsUntouched(rows[j], r)
           \/ rows[j].state = "reconciliation_required"
    PROVE  UntouchedTable
BY PutTouches DEF UntouchedTable, FailsUntouched

LEMMA UserUntouched ==
    ASSUME Typed, NEW j \in Job, Enqueue(j) \/ Cancel(j) \/ Reconcile(j) \/ Abandon(j)
    PROVE  UntouchedTable
<1>1. rows[j] \in Record
  BY DEF Typed, TypeOK
<1>2. CASE Enqueue(j)
  <2>1. Put(j, Enqueued(rows[j]))
    BY <1>2 DEF Enqueue
  <2> QED BY <1>1, <2>1, SavedStates, PutUntouched DEF FailsUntouched
<1>3. CASE Cancel(j)
  <2>1. Put(j, CancelRequested(j, rows[j]))
    BY <1>3 DEF Cancel
  <2> QED BY <1>1, <2>1, CancelledUntouched, PutUntouched DEF FailsUntouched
<1>4. CASE Reconcile(j) \/ Abandon(j)
  <2>1. rows[j].state = "reconciliation_required" /\ \E r : Put(j, r)
    BY <1>4 DEF Reconcile, Abandon
  <2> QED BY <2>1, PutUntouched
<1> QED BY <1>2, <1>3, <1>4

LEMMA RecoverUntouched ==
    ASSUME Typed, NEW lost, NEW oversized
    PROVE  \A j \in Job : FailsUntouched(rows[j], Recover(rows, lost, oversized)[j])
<1> TAKE j \in Job
<1>1. rows[j] \in Record
  BY DEF Typed, TypeOK
<1>2. Recover(rows, lost, oversized)[j] \in
         {rows[j], Quarantined(rows[j]), Recovered(j, rows[j])}
  BY DEF Recover
<1> QED BY <1>1, <1>2, RecoveredUntouched DEF FailsUntouched

LEMMA ClaimUntouched ==
    ASSUME Typed, Accounted, NEW w \in Worker, NEW c \in Job \cup {NoJob}, Claim(w, c)
    PROVE  UntouchedTable
<1> PICK oversized \in SUBSET LeaseLost, refused \in SUBSET Job, gone \in SUBSET Job :
      LET swept  == Recover(rows, LeaseLost, oversized)
          passed == Dropped(swept, refused, gone)
      IN
      /\ \A j \in refused \cup gone : Claimable(swept, j)
      /\ \/ rows' = passed
         \/ /\ c \in Job
            /\ rows' = [passed EXCEPT ![c] = Claimed(@, w)]
  BY ZenonT(60) DEF Claim
<1> DEFINE swept  == Recover(rows, LeaseLost, oversized)
           passed == Dropped(swept, refused, gone)
<1>1. ASSUME NEW j \in Job
      PROVE  /\ swept[j] \in Record /\ Admitted(swept[j]) = Admitted(rows[j])
             /\ Regular(j, swept[j])
             /\ FailsUntouched(rows[j], swept[j])
  <2>1. LeaseLost \in SUBSET Active(rows)
    BY DEF LeaseLost
  <2>2. swept[j] \in Record /\ Onward(rows[j], swept[j])
    BY RecoverMoves DEF Typed, WellFormed
  <2>3. Honest(j, rows[j], swept[j])
    BY <2>1, RecoverHonest
  <2>4. FailsUntouched(rows[j], swept[j])
    BY RecoverUntouched
  <2> HIDE DEF swept
  <2> QED BY <2>2, <2>3, <2>4 DEF Onward, Follows, Honest, Accounted, RegularDocuments
<1>2. \A j \in refused \cup gone : swept[j].state = "queued"
  BY DEF Claimable
<1>3. \/ rows' = passed
      \/ c \in Job /\ rows' = [passed EXCEPT ![c] = Claimed(@, w)]
  OBVIOUS
<1> HIDE DEF swept
<1>4. ASSUME NEW j \in Job
      PROVE  FailsUntouched(rows[j], passed[j]) /\ passed[j] \in Record
  <2>1. \/ passed[j] = swept[j] /\ j \notin refused \cup gone
        \/ j \in refused /\ passed[j] = Refused(swept[j], FALSE)
        \/ j \in gone /\ passed[j] = Saved([swept[j] EXCEPT !.state = "failed"])
    BY DEF Dropped
  <2>2. passed[j] \in Record
    <3>1. \A k \in Job : WellFormed(swept[k])
      BY RecoverMoves DEF Typed, swept
    <3> QED BY <3>1, DroppedMoves DEF WellFormed
  <2>3. j \in refused \cup gone => Admitted(rows[j]) = {}
    BY <1>1, <1>2 DEF Regular
  <2> HIDE DEF passed
  <2> QED BY <1>1, <2>1, <2>2, <2>3 DEF FailsUntouched
<1>5. passed = [j \in Job |-> passed[j]]
  BY DEF Dropped
<1> HIDE DEF passed
<1>6. ASSUME NEW j \in Job PROVE FailsUntouched(rows[j], rows'[j])
  <2>1. rows'[j] = passed[j] \/ (j = c /\ rows'[j] = Claimed(passed[j], w))
    BY <1>3, <1>5
  <2> QED BY <1>4, <2>1, SavedStates DEF FailsUntouched
<1> QED BY <1>6 DEF UntouchedTable

LEMMA CommandUntouched ==
    ASSUME Typed, NEW w \in Worker,
           \/ \E i \in Intent : BeginEffect(w, i)
           \/ Heartbeat(w) \/ ConfirmEffect(w) \/ Finish(w)
           \/ Fail(w) \/ RefuseAdvance(w)
    PROVE  UntouchedTable
<1> DEFINE j == held[w].job
           r == rows[j]
<1>1. HoldsClaim(w)
  BY DEF BeginEffect, Heartbeat, ConfirmEffect, Finish, Fail, RefuseAdvance
<1>2. j \in Job /\ r \in Record /\ r.state \in InProgress
  BY <1>1, ClaimHeld DEF Typed, TypeOK
<1>3. CASE Heartbeat(w)
  <2>1. Put(j, Saved(r)) /\ Saved(r).state # "failed"
    BY <1>2, <1>3, SavedStates DEF Heartbeat, InProgress
  <2> QED BY <1>2, <2>1, PutUntouched DEF FailsUntouched
<1>4. CASE ConfirmEffect(w)
  <2>1. Put(j, EffectConfirmed(r)) /\ r.last \in Intent
    BY <1>4 DEF ConfirmEffect, Advance, HasReceipt, Is
  <2> QED BY <1>2, <2>1, SavedStates, PutUntouched DEF FailsUntouched
<1>5. CASE Finish(w)
  <2>1. \E res \in Intent \cup {NoIntent} : Put(j, Finished(r, res))
    <3>1. PrimaryReceipt(j, r) \in Intent \cup {NoIntent}
      BY <1>2, PrimaryReceiptType
    <3> QED BY <1>5, <3>1 DEF Finish, Advance
  <2> QED BY <1>2, <2>1, SavedStates, PutUntouched DEF FailsUntouched
<1>6. CASE Fail(w)
  <2>1. Put(j, Failed(r))
    BY <1>6 DEF Fail, Advance
  <2> QED BY <1>2, <2>1, FailedUntouched, PutUntouched
<1>7. CASE RefuseAdvance(w)
  <2>1. PICK receipt \in BOOLEAN :
           /\ receipt => HasReceipt(w)
           /\ Put(j, Refused(r, receipt))
    BY <1>7 DEF RefuseAdvance, Advance
  <2>2. receipt => r.last \in Intent
    BY <2>1 DEF HasReceipt, Is
  <2> QED BY <1>2, <2>1, <2>2, RefusedUntouched, PutUntouched
<1>8. CASE \E i \in Intent : BeginEffect(w, i)
  <2>1. PICK i \in Intent : Put(j, EffectBegun(r, i))
    BY <1>8 DEF BeginEffect, Advance
  <2> QED BY <1>2, <2>1, SavedStates, PutUntouched DEF FailsUntouched
<1> QED BY <1>3, <1>4, <1>5, <1>6, <1>7, <1>8

\* No step of the engine fails a job that has admitted an effect, but a user
\* may when the outcome is unknown.
LEMMA StepUntouched ==
    ASSUME Typed, Accounted, [Next]_vars
    PROVE  UntouchedTable
<1>1. ASSUME UNCHANGED rows PROVE UntouchedTable
  BY <1>1 DEF UntouchedTable, FailsUntouched
<1>2. CASE Restart
  <2>1. PICK oversized : rows' = Recover(rows, Active(rows), oversized)
    BY <1>2 DEF Restart
  <2> QED BY <2>1, RecoverUntouched DEF UntouchedTable
<1>3. CASE Retain \/ (\E j \in Job : Expire(j)) \/ UNCHANGED vars
  BY <1>1, <1>3 DEF Retain, Expire, vars
<1>4. ASSUME NEW w \in Worker, Perform(w) \/ Drop(w) PROVE UntouchedTable
  BY <1>1, <1>4 DEF Perform, Drop, dbvars
<1> QED BY <1>2, <1>3, <1>4, UserUntouched, ClaimUntouched, CommandUntouched
        DEF Next, User, WorkerStep

-----------------------------------------------------------------------------
(* The sends of one item.                                                    *)

\* No task takes up again what has not been sent by a job that is not at work.
LEMMA UnsentStays ==
    ASSUME Sound, NEW j \in Job, rows[j].state \notin InProgress, Unsent(j),
           [Next]_vars \/ UNCHANGED <<held, performed>>
    PROVE  Unsent(j)'
<1>1. /\ HeldOK /\ Documents /\ j # NoJob
      /\ \A x \in Intent : performed[j][x] = 0
      /\ \A w \in Worker : held[w].job = j => held[w].todo = NoIntent
      /\ performed \in [Job -> [Intent -> Nat]]
  BY RecordAssumption DEF Sound, Typed, TypeOK, HeldOK, Unsent
<1>2. CASE Quiet
  BY <1>1, <1>2 DEF Quiet, Unsent
<1>3. CASE UNCHANGED <<held, performed>>
  BY <1>1, <1>3 DEF Unsent
<1>4. ASSUME NEW w \in Worker, Perform(w) PROVE Unsent(j)'
  <2>1. held[w].job # j
    BY <1>1, <1>4 DEF Perform
  <2>2. performed'[j] = performed[j]
    BY <1>1, <1>4, <2>1 DEF Perform
  <2>3. PICK receipt : held' = [held EXCEPT ![w].todo = NoIntent, ![w].receipt = receipt]
    BY <1>4 DEF Perform
  <2>4. \A v \in Worker : held'[v].todo = NoIntent \/ held'[v] = held[v]
    BY <1>1, <2>3 DEF HeldOK, Lease
  <2> QED BY <1>1, <2>2, <2>4 DEF Unsent
<1>5. ASSUME NEW w \in Worker, NEW i \in Intent, BeginEffect(w, i) PROVE Unsent(j)'
  <2>1. held[w].job \in Job /\ rows[held[w].job].state \in InProgress
    BY <1>1, <1>5, BeginEffectMoves DEF HeldOK
  <2>2. /\ UNCHANGED performed
        /\ \A v \in Worker \ {w} : held'[v] = held[v]
        /\ \/ held'[w].todo = NoIntent
           \/ held'[w].job = held[w].job
    BY <1>1, <1>5, <2>1, AdvanceQuiet DEF BeginEffect
  <2> QED BY <1>1, <2>1, <2>2 DEF Unsent
<1> QED BY <1>1, <1>2, <1>3, <1>4, <1>5, StepQuiet

\* NothingAdmitted, of the state after a step.
LEMMA NothingAdmittedNext ==
    ASSUME Sound', NEW j \in Job, Admitted(rows'[j]) = {}
    PROVE  Unsent(j)'
<1>1. ASSUME NEW x \in Intent PROVE performed'[j][x] = 0
  <2>1. performed'[j][x] \in Nat
    BY DEF Sound, Typed, TypeOK
  <2>2. ~ (performed'[j][x] > 0)
    BY DEF Sound, Once, EffectsOnRecord
  <2> QED BY <2>1, <2>2
<1>2. ASSUME NEW w \in Worker, held'[w].job = j PROVE held'[w].todo = NoIntent
  BY <1>2 DEF Sound, Once, ErrandsAreNew
<1> QED BY <1>1, <1>2 DEF Unsent

\* A job that has ended, and sent nothing or was denied: it stays so for good.
Dead(j) == rows[j].state \in Terminal /\ (Unsent(j) \/ j \in denied)

\* No step takes a denial back.
LEMMA DeniedGrows == [QueueNext]_sqvars => denied \subseteq denied'
<1>1. ASSUME NEW i \in Item, ItemStep(i) PROVE denied \subseteq denied'
  BY <1>1 DEF ItemStep, Dispatch, Remove, Missing, Answer
<1>2. JobStep \/ RecoverJobs \/ RecoverQueue \/ UNCHANGED sqvars => denied \subseteq denied'
  BY DEF JobStep, RecoverJobs, RecoverQueue, sqvars
<1> QED BY <1>1, <1>2, Zenon DEF QueueNext

\* Of the sends of one item at most one is not dead, and while the item can be
\* sent again it is the latest, which then has not ended.
OthersDead ==
    /\ \A j, k \in Job :
          j # k /\ owner[j] = owner[k] /\ owner[j] # NoItem => Dead(j) \/ Dead(k)
    /\ \A j \in Job :
          /\ owner[j] # NoItem /\ items[owner[j]].state \in Waiting
          /\ items[owner[j]].job # j \/ rows[j].state \in Terminal
          => Dead(j)

LEMMA DeadStays ==
    ASSUME QueueInv, TableMoves, Sound', NEW j \in Job, Dead(j),
           [Next]_vars \/ UNCHANGED <<held, performed>>, denied \subseteq denied'
    PROVE  Dead(j)'
<1>1. rows'[j] = rows[j] /\ rows[j].state \notin InProgress
  BY RowsMove DEF Dead, Terminal, InProgress
<1>2. Unsent(j) => Unsent(j)'
  BY <1>1, UnsentStays DEF QueueInv
<1> QED BY <1>1, <1>2 DEF Dead

\* When a step of the engine fails or cancels a job, the job has sent nothing,
\* unless a user spoke for one whose outcome was unknown.
LEMMA FailsUnsent ==
    ASSUME Sound, Sound', [Next]_vars, NEW j \in Job,
           rows[j].state \notin Terminal, rows'[j].state \in {"failed", "cancelled"},
           ~ (rows[j].state = "reconciliation_required" /\ rows'[j].state = "failed")
    PROVE  Unsent(j)'
<1>1. Typed /\ Documents /\ HeldOK /\ Accounted
  BY DEF Sound, Typed, TypeOK, HeldOK
<1>2. rows'[j] # rows[j]
  BY DEF Terminal
<1>3. CASE rows'[j].state = "cancelled"
  <2>1. Admitted(rows'[j]) = {}
    BY <1>3 DEF Sound, Accounted, RegularDocuments, Regular
  <2> QED BY <2>1, NothingAdmittedNext
<1>4. CASE rows'[j].state = "failed" /\ rows[j].state # "reconciliation_required"
  <2>1. Admitted(rows[j]) = {}
    BY <1>1, <1>2, <1>4, StepUntouched DEF UntouchedTable, FailsUntouched
  <2>2. ASSUME NEW w \in Worker, NEW i \in Intent, BeginEffect(w, i)
        PROVE  FALSE
    <3>1. held[w].job = j
      BY <1>1, <1>2, <2>2, BeginEffectMoves DEF HeldOK
    <3>2. rows'[j] = EffectBegun(rows[j], i) /\ rows[j] \in Record
      BY <1>1, <2>2, <3>1, PutTouches DEF BeginEffect, Advance, Typed, TypeOK
    <3> QED BY <1>4, <3>2, EffectBegunKept
  <2>3. Admitted(rows'[j]) = {}
    BY <1>1, <1>2, <2>1, <2>2, StepMoves DEF Moved, Onward, Follows
  <2> QED BY <2>3, NothingAdmittedNext
<1> QED BY <1>3, <1>4

\* Whatever a transaction other than Send now ends, without the item saying so, has
\* sent nothing or is denied in the same transaction.
LEMMA EndsDead ==
    ASSUME QueueInv, Else, NEW i \in Item, NEW j \in Job,
           items'[i].state \in Waiting, items'[i].job = j,
           rows[j].state \notin Terminal, rows'[j].state \in Terminal
    PROVE  Unsent(j)' \/ j \in denied'
<1>1. QueueInv' /\ Onwards /\ Sound /\ Sound'
  BY ElseKeeps DEF QueueInv
<1>2. rows'[j].state \in {"failed", "cancelled"}
  <2>1. Fits(i)'
    BY <1>1 DEF QueueInv, TablesFit
  <2> QED BY <2>1 DEF Fits, Waiting, Terminal, InProgress
<1>3. rows'[j] # rows[j] /\ items[i].job = j
  BY <1>1 DEF Onwards, GoesOn, Terminal
<1>4. CASE \E k \in Item : Missing(k)
  BY <1>3, <1>4 DEF Missing, vars
<1>5. ASSUME NEW k \in Item, Remove(k) PROVE FALSE
  <2>1. /\ items'[k].state \notin Waiting
        /\ \A l \in Job \ {items[k].job} : rows'[l] = rows[l]
    BY <1>5, RemoveKeeps
  <2>2. items[k].job = j
    BY <1>3, <2>1
  <2>3. k = i
    BY <1>3, <2>2 DEF QueueInv, TablesFit, Fits
  <2> QED BY <2>1, <2>3
<1>6. ASSUME NEW k \in Item, NEW s \in Job \cup {NoJob}, NEW printed \in BOOLEAN,
             Answer(k, s, printed)
      PROVE  j \in denied'
  <2>1. /\ printed => items'[k].state \notin Waiting
        /\ \A l \in Job \ {items[k].job} : rows'[l] = rows[l]
    BY <1>6, AnswerKeeps
  <2>2. items[k].job = j
    BY <1>3, <2>1
  <2>3. k = i
    BY <1>3, <2>2 DEF QueueInv, TablesFit, Fits
  <2>4. ~ printed /\ s = j
    BY <1>6, <2>1, <2>2, <2>3 DEF Answer
  <2> QED BY <1>6, <2>4 DEF Answer
<1>7. CASE JobStep
  <2>1. CASE rows[j].state = "reconciliation_required" /\ rows'[j].state = "failed"
    BY <1>7, <2>1 DEF JobStep, DeniedNow
  <2>2. CASE ~ (rows[j].state = "reconciliation_required" /\ rows'[j].state = "failed")
    <3>1. [Next]_vars
      BY <1>7 DEF JobStep, Next
    <3> QED BY <1>1, <1>2, <2>2, <3>1, FailsUnsent
  <2> QED BY <2>1, <2>2
<1>8. CASE RecoverJobs
  <2>1. Restart /\ [Next]_vars
    BY <1>8 DEF RecoverJobs, Next
  <2>2. rows[j].state # "reconciliation_required"
    <3>1. PICK oversized \in SUBSET Active(rows) :
             rows' = Recover(rows, Active(rows), oversized)
      BY <2>1 DEF Restart
    <3>2. j \in Active(rows)
      BY <1>3, <3>1 DEF Recover
    <3> QED BY <3>2 DEF Active, Rows, InProgress
  <2> QED BY <1>1, <1>2, <2>1, <2>2, FailsUnsent
<1>9. CASE RecoverQueue
  BY <1>1, <1>3, <1>9, RecoverQueueKeeps, NothingAdmittedNext
<1>10. CASE UNCHANGED sqvars
  BY <1>3, <1>10 DEF sqvars, vars
<1> HIDE DEF Unsent
<1> QED BY <1>4, <1>5, <1>6, <1>7, <1>8, <1>9, <1>10 DEF Else

\* The queue's own saves leave the tasks and the outside world alone.
LEMMA QueueOrEngine ==
    ASSUME [QueueNext]_sqvars
    PROVE  [Next]_vars \/ UNCHANGED <<held, performed>>
<1>1. ASSUME NEW i \in Item, NEW j \in Job, Dispatch(i, j) PROVE Next
  BY <1>1, Zenon DEF Dispatch, Next, User
<1>2. ASSUME NEW i \in Item, Remove(i) \/ Missing(i)
      PROVE  UNCHANGED <<held, performed>>
  BY <1>2 DEF Remove, Missing, Close, vars
<1>3. ASSUME NEW i \in Item, NEW s, NEW printed, Answer(i, s, printed)
      PROVE  UNCHANGED <<held, performed>>
  BY <1>3 DEF Answer, Close, vars
<1>4. JobStep \/ RecoverJobs => Next
  BY Zenon DEF JobStep, RecoverJobs, Next
<1>5. RecoverQueue => UNCHANGED <<held, performed>>
  BY DEF RecoverQueue
<1>6. UNCHANGED sqvars => UNCHANGED vars
  BY DEF sqvars
<1> QED BY <1>1, <1>2, <1>3, <1>4, <1>5, <1>6, Zenon DEF QueueNext, ItemStep

LEMMA ElseOthersDead ==
    ASSUME QueueInv, OthersDead, Else, [QueueNext]_sqvars
    PROVE  OthersDead'
<1>1. QueueInv' /\ Onwards /\ Sound'
  BY ElseKeeps DEF QueueInv
<1>2. \A j \in Job : Dead(j) => Dead(j)'
  BY <1>1, QueueOrEngine, DeniedGrows, DeadStays DEF Onwards
<1>3. \A j \in Job : owner'[j] = owner[j] /\ owner[j] \in Item \cup {NoItem}
  BY <1>1 DEF Onwards, QueueInv, ItemsOK
<1>4. ASSUME NEW j \in Job, owner[j] # NoItem, items'[owner[j]].state \in Waiting,
             items'[owner[j]].job # j \/ rows'[j].state \in Terminal
      PROVE  Dead(j)'
  <2> DEFINE i == owner[j]
  <2>1. i \in Item /\ items[i].state \in Waiting /\ items'[i].job = items[i].job
    BY <1>1, <1>3, <1>4 DEF Onwards, GoesOn
  <2>2. CASE items[i].job # j \/ rows[j].state \in Terminal
    BY <1>2, <1>4, <2>1, <2>2 DEF OthersDead
  <2>3. CASE items[i].job = j /\ rows[j].state \notin Terminal
    <3>1. rows'[j].state \in Terminal
      BY <1>4, <2>1, <2>3
    <3>2. Unsent(j)' \/ j \in denied'
      BY <1>4, <2>1, <2>3, <3>1, EndsDead
    <3> QED BY <3>1, <3>2 DEF Dead
  <2> QED BY <2>2, <2>3
<1>5. \A j, k \in Job : j # k /\ owner[j] = owner[k] /\ owner[j] # NoItem
                           => Dead(j) \/ Dead(k)
  BY DEF OthersDead
<1> HIDE DEF Dead
<1> QED BY <1>2, <1>3, <1>4, <1>5 DEF OthersDead

\* Send now draws a fresh job only when all the earlier ones of the item are
\* dead: it is refused while one is open, unresolved or cannot be read.
LEMMA DispatchOthersDead ==
    ASSUME QueueInv, OthersDead, NEW i \in Item, NEW j \in Job, Dispatch(i, j),
           [QueueNext]_sqvars
    PROVE  OthersDead'
<1>1. /\ Sound' /\ TableMoves
      /\ owner[j] = NoItem /\ owner' = [owner EXCEPT ![j] = i]
      /\ rows'[j].state = "queued"
      /\ items'[i].job = j /\ items'[i].state = "sending"
      /\ \A k \in Item \ {i} : GoesOn(k) /\ ~ MustSettle(k)
      /\ \A k \in Job \ {j} : rows'[k] = rows[k]
  BY DispatchKeeps, CarriedGoesOn DEF QueueInv
<1>2. \A k \in Job : Dead(k) => Dead(k)'
  BY <1>1, QueueOrEngine, DeniedGrows, DeadStays
<1>3. /\ owner \in [Job -> Item \cup {NoItem}] /\ NoItem \notin Item
      /\ Resendable(i) /\ Readable(i) /\ ~ OutcomeUnknown(i)
  BY QueueAssumption DEF QueueInv, ItemsOK, Dispatch
<1>4. ASSUME NEW k \in Job, owner[k] = i PROVE Dead(k)
  <2>1. CASE items[i].job # k \/ rows[k].state \in Terminal
    BY <1>3, <1>4, <2>1 DEF OthersDead, Waiting, Resendable
  <2>2. CASE items[i].job = k /\ rows[k].state \notin Terminal
    <3>1. UploadState(i) = rows[k].state
      BY <2>2, UploadStates
    <3>2. ShownBy(k) /\ rows[k].state \in State
      BY DEF QueueInv, TablesFit, Sound, Typed, TypeOK, Record
    <3>3. rows[k].state \notin {"queued"} \cup InProgress
      BY <1>3, <1>4, <3>2 DEF ShownBy, Resendable
    <3>4. rows[k].state # "reconciliation_required"
      BY <1>3, <1>4, <3>1, <3>2 DEF ShownBy, OutcomeUnknown
    <3> QED BY <1>3, <1>4, <2>2, <3>1, <3>2, <3>3, <3>4
            DEF ShownBy, Readable, State
  <2> QED BY <2>1, <2>2
<1>5. /\ owner'[j] = i
      /\ \A k \in Job \ {j} : owner'[k] = owner[k]
  BY <1>1, <1>3
<1>6. ASSUME NEW k \in Job, NEW l \in Job, k # l, owner'[k] = owner'[l], owner'[k] # NoItem
      PROVE  Dead(k)' \/ Dead(l)'
  <2>1. CASE k # j /\ l # j
    BY <1>2, <1>5, <1>6, <2>1 DEF OthersDead
  <2>2. CASE k = j \/ l = j
    BY <1>2, <1>4, <1>5, <1>6, <2>2
  <2> QED BY <2>1, <2>2
<1>7. ASSUME NEW k \in Job, owner'[k] # NoItem, items'[owner'[k]].state \in Waiting,
             items'[owner'[k]].job # k \/ rows'[k].state \in Terminal
      PROVE  Dead(k)'
  <2>1. k # j
    BY <1>1, <1>5, <1>7 DEF Terminal
  <2>2. CASE owner[k] = i
    BY <1>2, <1>4, <2>2
  <2>3. CASE owner[k] \in Item \ {i}
    BY <1>1, <1>2, <1>5, <1>7, <2>1, <2>3 DEF GoesOn, OthersDead
  <2> QED BY <1>3, <1>5, <1>7, <2>1, <2>2, <2>3
<1> HIDE DEF Dead
<1> QED BY <1>6, <1>7 DEF OthersDead

LEMMA OthersDeadAlways == QueueSpec => [](QueueInv /\ OthersDead)
<1>1. QueueInit => QueueInv /\ OthersDead
  BY InitQueue DEF QueueInit, OthersDead
<1>2. QueueInv /\ OthersDead /\ [QueueNext]_sqvars => (QueueInv /\ OthersDead)'
  BY QueueSplits, QueueStep, ElseOthersDead, DispatchOthersDead
<1> QED BY <1>1, <1>2, PTL DEF QueueSpec

\* An item's file reaches its printer at most once, but for sends that a user denied:
\* a second send is dispatched only when all earlier ones of the item are dead, and a
\* dead one stays dead, whichever tasks, restarts and late answers come after.
THEOREM SentOnceAlways == QueueSpec => []SentOnce
<1>1. QueueInv /\ OthersDead => SentOnce
  <2> SUFFICES ASSUME QueueInv, OthersDead, NEW i \in Item
               PROVE  Cardinality({j \in Job \ denied : owner[j] = i /\
                                      \E x \in Intent : performed[j][x] > 0}) <= 1
    BY DEF SentOnce
  <2> DEFINE S == {j \in Job \ denied :
                     owner[j] = i /\ \E x \in Intent : performed[j][x] > 0}
  <2>1. \A j \in S : j \in Job /\ owner[j] = i /\ ~ Dead(j)
    BY RecordAssumption DEF Dead, Unsent
  <2>2. \A j, k \in S : j = k
    BY <2>1, QueueAssumption DEF OthersDead
  <2>3. CASE S = {}
    BY <2>3, FS_EmptySet
  <2>4. CASE S # {}
    <3>1. PICK j \in S : TRUE
      BY <2>4
    <3>2. S = {j}
      BY <2>2, <3>1
    <3>3. Cardinality(S) = 1
      BY <3>2, FS_Singleton
    <3> QED BY <3>3
  <2> QED BY <2>3, <2>4
<1> QED BY <1>1, OthersDeadAlways, PTL

=============================================================================
