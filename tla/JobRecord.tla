----------------------------- MODULE JobRecord -----------------------------
(* One durable job document (pp-storage/src/jobs/model.rs) and the pure      *)
(* successor documents that the writer's commands compute from it            *)
(* (pp-storage/src/jobs.rs).  No variables: DurableJobs and SendQueue turn   *)
(* these operators into actions.                                             *)
(*                                                                           *)
(* A job is named by the idempotency key it was enqueued under.  A key binds *)
(* one intent for good, so what job j asks for is the constant Request[j].   *)
(* An effect is named by its intent, an operation on a target: the code      *)
(* refuses to admit the same pair twice, so the effect list is a function    *)
(* from intents to outcomes together with the last intent admitted.          *)
(* Options and flags are two-valued fields: lease is lease_until and the     *)
(* fence, cancel is cancel_requested, refusal is authority_refusal.          *)
EXTENDS Naturals, FiniteSets

CONSTANTS
    Job,            \* idempotency keys, and so job ids
    Worker,         \* worker tasks that claim and drive jobs
    Printer,        \* printer ids
    Source,         \* source ids
    Spool,          \* Spoolman spools
    Artifact,       \* local artifacts
    Request,        \* Request[j]: the payload enqueued under key j
    NoJob, NoWorker, NoIntent, NoTarget,
    MaxAttempts,    \* 100 in the code
    MaxEffects      \* 16 in the code

PrinterOperation ==
    {"printer_upload", "printer_upload_and_start", "printer_start"}

Intent ==
    [op : PrinterOperation, target : Printer]
        \cup [op : {"spoolman_deduction"}, target : Spool]
        \cup [op : {"local_artifact"}, target : Artifact]
        \cup [op : {"source_refresh"}, target : Source]

UploadTo(p)         == [op |-> "printer_upload", target |-> p]
UploadAndStartOn(p) == [op |-> "printer_upload_and_start", target |-> p]
StartOn(p)          == [op |-> "printer_start", target |-> p]

Payload ==
    [kind : {"upload"}, target : Printer, start : BOOLEAN, parent : {NoJob}]
        \cup [kind : {"start"}, target : Printer, start : {TRUE}, parent : Job]
        \cup [kind : {"scan", "import"}, target : Source,
              start : {FALSE}, parent : {NoJob}]
        \cup [kind : {"check", "export"}, target : {NoTarget},
              start : {FALSE}, parent : {NoJob}]

ASSUME RecordAssumption ==
    /\ MaxAttempts \in Nat \ {0}
    /\ MaxEffects \in Nat
    /\ Request \in [Job -> Payload]
    /\ NoJob \notin Job
    /\ NoWorker \notin Worker
    /\ NoIntent \notin Intent
    \* bind_printer_start copies the printer of the parent's upload effect
    /\ \A j \in Job : Request[j].kind = "start" =>
          /\ Request[Request[j].parent].kind = "upload"
          /\ Request[j].target = Request[Request[j].parent].target

\* JobKind: a printer start runs as a printer upload.
JobKind(j) == IF Request[j].kind = "start" THEN "upload" ELSE Request[j].kind

Kinds == {"upload", "scan", "import", "check", "export"}

\* The concrete resources a job reserves.  source:* overlaps every source.
Resource(j) ==
    CASE Request[j].kind = "check"  -> Source
      [] Request[j].kind = "export" -> {}
      [] OTHER                      -> {Request[j].target}

-----------------------------------------------------------------------------

Terminal == {"uploaded_only", "succeeded", "failed", "cancelled"}
InProgress == {"running", "effect_admitted"}
State == {"absent", "queued", "reconciliation_required", "quarantined"}
            \cup InProgress \cup Terminal

\* EffectReceipt::outcome, and "absent" for an intent never admitted.
Outcome == {"absent", "unresolved", "observed", "confirmed", "denied"}

Record ==
    [state : State, version : Nat, attempt : Nat, generation : Nat,
     lease : {"none", "granted"}, worker : Worker \cup {NoWorker},
     cancel : {"none", "requested"}, effects : [Intent -> Outcome],
     last : Intent \cup {NoIntent}, result : Intent \cup {NoIntent},
     refusal : {"none", "observed"}]

NoRow ==
    [state |-> "absent", version |-> 0, attempt |-> 0, generation |-> 0,
     lease |-> "none", worker |-> NoWorker, cancel |-> "none",
     effects |-> [i \in Intent |-> "absent"], last |-> NoIntent,
     result |-> NoIntent, refusal |-> "none"]

Admitted(r) == {i \in Intent : r.effects[i] # "absent"}
Is(r, i, outcome) == i \in Intent /\ r.effects[i] = outcome

\* A cancelled import waits for its owner's cleanup claim.
AwaitsOwnerCleanup(j, r) == r.cancel = "requested" /\ Request[j].kind = "import"

-----------------------------------------------------------------------------
(* What a document proves.                                                   *)

\* uploaded_only_proof: uploaded, and nothing says the print ever started.
UploadedOnlyProof(j, r) ==
    LET p == Request[j].target IN
    /\ Request[j].kind = "upload" /\ Request[j].start
    /\ Is(r, UploadTo(p), "confirmed")
    /\ r.result = UploadTo(p)
    /\ \A i \in Admitted(r) :
          \/ i = UploadTo(p)
          \/ i.op = "printer_start" /\ Is(r, i, "denied")
          \/ /\ i.op = "spoolman_deduction"
             /\ r.effects[i] \in {"confirmed", "denied"}

\* proven_primary_printer_receipt: the receipt that makes a print job succeed.
PrimaryReceipt(j, r) ==
    LET p == Request[j].target IN
    CASE Request[j].kind = "start" /\ Is(r, StartOn(p), "confirmed") -> StartOn(p)
      [] Request[j].kind = "upload" /\ Is(r, UploadAndStartOn(p), "confirmed")
            -> UploadAndStartOn(p)
      [] /\ Request[j].kind = "upload" /\ ~Is(r, UploadAndStartOn(p), "confirmed")
         /\ Is(r, UploadTo(p), "confirmed") /\ ~Request[j].start
            -> UploadTo(p)
      [] /\ Request[j].kind = "upload" /\ ~Is(r, UploadAndStartOn(p), "confirmed")
         /\ Is(r, UploadTo(p), "confirmed") /\ Request[j].start
         /\ Is(r, StartOn(p), "confirmed")
            -> StartOn(p)
      [] OTHER -> NoIntent

\* Mutant: any confirmed receipt completes a print.
CompletionByAnyReceipt(j, r, result) ==
    Request[j].kind # "import" /\ result # NoIntent

CompletionProven(j, r, result) ==
    CASE Request[j].kind \in {"upload", "start"} ->
            PrimaryReceipt(j, r) # NoIntent /\ result = PrimaryReceipt(j, r)
      [] Request[j].kind = "export" -> result # NoIntent
      [] Request[j].kind = "import" -> FALSE
      [] OTHER -> TRUE

\* Mutant: a job that only deducted filament has no failed outcome.
NoResolvedFailure(j, r) == FALSE

\* resolved_printer_failure: every effect is decided and no transfer happened.
ResolvedPrinterFailure(j, r) ==
    /\ Request[j].kind = "upload"
    /\ Admitted(r) # {}
    /\ \A i \in Admitted(r) :
          /\ i.op \in PrinterOperation \cup {"spoolman_deduction"}
          /\ r.effects[i] \in {"confirmed", "denied"}
          /\ i.op \in PrinterOperation => r.effects[i] = "denied"

\* validate_state, which every save runs and which aborts the transaction.
ValidState(j, r) ==
    /\ \A i \in Intent :
          /\ r.effects[i] = "observed" =>
                r.state = "reconciliation_required" /\ r.refusal = "observed"
          /\ r.effects[i] = "denied" => r.state \in Terminal
    /\ r.state = "uploaded_only" => UploadedOnlyProof(j, r)

-----------------------------------------------------------------------------
(* The documents the commands save.                                          *)

\* save: a new version; a finished job keeps no lease.
Saved(r) ==
    IF r.state \in Terminal
    THEN [r EXCEPT !.version = @ + 1, !.lease = "none", !.worker = NoWorker]
    ELSE [r EXCEPT !.version = @ + 1]

\* Mutant: the worker's name stays on the document.
UnleasedKeepingWorker(r, state) == [r EXCEPT !.state = state, !.lease = "none"]

Unleased(r, state) ==
    [r EXCEPT !.state = state, !.lease = "none", !.worker = NoWorker]

\* Ends the attempt and fences its lease: a hand-over is a new generation.
Fenced(r, state) ==
    [Unleased(r, state) EXCEPT !.generation = @ + 1]

Enqueued(r) == Saved([r EXCEPT !.state = "queued"])

Claimed(r, w) ==
    Saved([r EXCEPT !.state = "running", !.attempt = @ + 1,
                    !.generation = @ + 1, !.lease = "granted", !.worker = w])

\* Mutant: only an unconfirmed effect stops the job from being queued again.
RecoveryStateOfUnconfirmed(j, r) ==
    IF \E i \in Admitted(r) : r.effects[i] # "confirmed"
    THEN "reconciliation_required" ELSE "queued"

\* Mutant: the attempt limit is left to the claim.
RecoveryStateUnlimited(j, r) ==
    IF Admitted(r) # {} THEN "reconciliation_required"
    ELSE IF r.cancel = "requested" /\ ~AwaitsOwnerCleanup(j, r) THEN "cancelled"
    ELSE "queued"

\* recovery_decision: an attempt that admitted an effect is never queued again.
RecoveryState(j, r) ==
    IF Admitted(r) # {} THEN "reconciliation_required"
    ELSE IF r.cancel = "requested" /\ ~AwaitsOwnerCleanup(j, r) THEN "cancelled"
    ELSE IF r.attempt >= MaxAttempts /\ ~AwaitsOwnerCleanup(j, r) THEN "failed"
    ELSE "queued"

\* recover_attempt
Recovered(j, r) == Saved(Fenced(r, RecoveryState(j, r)))

\* Mutant: quarantine leaves the row's version alone.
QuarantinedInPlace(r) == Unleased(r, "quarantined")

\* quarantine: the row's state and version change, its document does not.
Quarantined(r) ==
    [Unleased(r, "quarantined") EXCEPT !.version = @ + 1]

\* record_refusal: a matching receipt is kept as observed, never confirmed.
Refused(r, receipt) ==
    LET seen == IF receipt THEN [r EXCEPT !.effects[r.last] = "observed"] ELSE r
        state == IF Admitted(r) = {} THEN "failed" ELSE "reconciliation_required"
    IN Saved([Fenced(seen, state) EXCEPT !.refusal = "observed"])

EffectBegun(r, i) ==
    Saved([r EXCEPT !.effects[i] = "unresolved", !.last = i,
                    !.state = "effect_admitted"])

EffectConfirmed(r) ==
    Saved([r EXCEPT !.effects[r.last] = "confirmed", !.state = "running"])

Finished(r, result) ==
    Saved([r EXCEPT !.state = "succeeded", !.result = result])

\* Mutant: a failure report ends the job whatever it had admitted.
FailedOutright(r) == Saved([r EXCEPT !.state = "failed"])

\* WorkerOperation::Fail
Failed(r) ==
    Saved(IF Admitted(r) # {} THEN Unleased(r, "reconciliation_required")
                              ELSE [r EXCEPT !.state = "failed"])

\* Mutant: cancelling ends the job whatever it had admitted.
CancelledOutright(j, r) == Saved(Fenced([r EXCEPT !.cancel = "requested"], "cancelled"))

\* UserOperation::Cancel.  An import goes back to its owner for cleanup.
CancelRequested(j, r) ==
    LET asked == [r EXCEPT !.cancel = "requested"]
        state == CASE Request[j].kind = "import" -> "queued"
                   [] Request[j].kind # "import" /\ Admitted(r) = {} -> "cancelled"
                   [] OTHER -> "reconciliation_required"
    IN Saved(Fenced(asked, state))

-----------------------------------------------------------------------------
(* Explicit reconciliation (UserOperation::Reconcile).                       *)

Succeeded(j, r) ==
    [r EXCEPT !.state = "succeeded",
              !.result = IF PrimaryReceipt(j, r) # NoIntent
                         THEN PrimaryReceipt(j, r) ELSE @]

\* settle_uploaded_only's candidate
UploadedOnly(j, r) ==
    [r EXCEPT !.state = "uploaded_only", !.result = UploadTo(Request[j].target)]

\* ConfirmSucceeded, on the last effect; it needs the effect's receipt.
ConfirmedByUser(r) ==
    [r EXCEPT !.effects[r.last] = "confirmed", !.result = r.last]

SuccessProven(j, r) ==
    PrimaryReceipt(j, r) # NoIntent \/ CompletionProven(j, r, r.result)

CanConfirmSucceeded(j, r) ==
    LET c == ConfirmedByUser(r) IN
    /\ r.last # NoIntent
    /\ r.effects[r.last] \in {"unresolved", "observed", "confirmed"}
    /\ \/ SuccessProven(j, c)
       \/ UploadedOnlyProof(j, UploadedOnly(j, c))
       \/ ResolvedPrinterFailure(j, c)

ConfirmSucceeded(j, r) ==
    LET c == ConfirmedByUser(r) IN
    Saved(IF SuccessProven(j, c) THEN Succeeded(j, c)
          ELSE IF UploadedOnlyProof(j, UploadedOnly(j, c)) THEN UploadedOnly(j, c)
          ELSE [c EXCEPT !.state = "failed", !.result = r.result])

\* ConfirmNoEffect: an observed receipt contradicts it and is refused.
CanConfirmNoEffect(r) ==
    r.last # NoIntent /\ r.effects[r.last] = "unresolved"

ConfirmNoEffect(j, r) ==
    LET d == [r EXCEPT !.effects[r.last] = "denied"] IN
    Saved(IF PrimaryReceipt(j, d) # NoIntent THEN Succeeded(j, d)
          ELSE IF UploadedOnlyProof(j, UploadedOnly(j, d)) THEN UploadedOnly(j, d)
          ELSE [d EXCEPT !.state = "failed"])

=============================================================================
