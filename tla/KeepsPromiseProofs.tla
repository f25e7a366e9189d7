------------------------- MODULE KeepsPromiseProofs -------------------------
(* DurableJobs implements JobPromise, for every value of the constants.  On  *)
(* top of DurableJobsProofs this needs to know what a confirmed effect means *)
(* (it happened) and where a job may end without a user's word (with every   *)
(* admitted effect confirmed).                                               *)
(*                                                                           *)
(* The last part is about admission: no printer or source is reserved past   *)
(* its limit, and no uploaded file has two live starts.  Both checks read    *)
(* the table in the transaction that writes it; the proofs show that nothing *)
(* but a claim can reserve a resource and nothing but an enqueue can add a   *)
(* live start.                                                               *)
EXTENDS DurableJobsProofs, FiniteSetTheorems

-----------------------------------------------------------------------------
(* Documents and their successors.                                           *)

AllConfirmed(r) == \A i \in Admitted(r) : r.effects[i] = "confirmed"

\* How far the effects of a document in some state can be undecided.
Regular(j, r) ==
    /\ r.state \in {"absent", "queued", "cancelled"} => Admitted(r) = {}
    /\ r.state = "running" => AllConfirmed(r)
    /\ r.state = "effect_admitted" =>
          \A i \in Admitted(r) : i = r.last \/ r.effects[i] = "confirmed"
    /\ r.state = "reconciliation_required" => Admitted(r) # {}
    /\ Request[j].kind = "import" => Admitted(r) = {}
    /\ ~ Request[j].start => \A i \in Admitted(r) : i.op # "printer_upload_and_start"

\* A print job succeeds by the receipt that proves the print.
Earned(j, r) ==
    r.state = "succeeded" /\ JobKind(j) = "upload" => PrimaryReceipt(j, r) # NoIntent

\* s may replace document r of job j without a user's decision.
Honest(j, r, s) ==
    \/ s = r
    \/ /\ Regular(j, s)
       /\ r.state \notin Terminal \cup {"quarantined"}
       /\ r.state = "reconciliation_required" => s.state = "reconciliation_required"
       /\ s.state \in Terminal => AllConfirmed(s)
       /\ Earned(j, s)
       /\ \A i \in Intent : s.effects[i] = "confirmed" =>
             r.effects[i] = "confirmed" \/ performed[j][i] > 0

LEMMA HonestTransitive ==
    ASSUME NEW j, NEW r, NEW s, NEW t, Honest(j, r, s), Honest(j, s, t)
    PROVE  Honest(j, r, t)
<1>1. CASE s = r \/ t = s
  BY <1>1
<1>2. CASE s # r /\ t # s
  BY <1>2, SMT DEF Honest
<1> QED BY <1>1, <1>2

\* A successor with the same effects is honest if its state is.
LEMMA SameEffectsHonest ==
    ASSUME NEW j, NEW r, NEW s, Regular(j, r), s.effects = r.effects,
           r.state \notin Terminal \cup {"quarantined"},
           r.state = "reconciliation_required" => s.state = "reconciliation_required",
           s.state \in {"absent", "queued", "cancelled"} => Admitted(r) = {},
           s.state \in {"running"} \cup Terminal => AllConfirmed(r),
           s.state = "effect_admitted" => r.state = "effect_admitted" /\ s.last = r.last,
           s.state = "reconciliation_required" => Admitted(r) # {},
           Earned(j, s)
    PROVE  Honest(j, r, s)
<1>1. Admitted(s) = Admitted(r) /\ (AllConfirmed(r) <=> AllConfirmed(s))
  BY DEF Admitted, AllConfirmed
<1> QED BY <1>1 DEF Honest, Regular, AllConfirmed

\* save changes the version and the lease only.
LEMMA SavedKept ==
    ASSUME NEW r \in Record
    PROVE  /\ Saved(r).state = r.state /\ Saved(r).effects = r.effects
           /\ Saved(r).last = r.last
BY SMT DEF Saved, Record

LEMMA StatedKept ==
    ASSUME NEW r \in Record, NEW s \in State
    PROVE  LET d == [r EXCEPT !.state = s] IN
           d \in Record /\ d.state = s /\ d.effects = r.effects
<1>1. [r EXCEPT !.state = s] \in Record
  BY Zenon DEF Record
<1> QED BY <1>1, SMT DEF Record

LEMMA NoneConfirmed == \A r : Admitted(r) = {} => AllConfirmed(r)
BY DEF AllConfirmed

LEMMA EnqueuedHonest ==
    ASSUME NEW j \in Job, NEW r \in Record, Regular(j, r), r.state = "absent"
    PROVE  Honest(j, r, Enqueued(r))
<1>1. "queued" \in State
  BY DEF State
<1>2. Enqueued(r).state = "queued" /\ Enqueued(r).effects = r.effects
  BY <1>1, StatedKept, SavedKept, ZenonT(90) DEF Enqueued
<1> QED BY <1>2, SameEffectsHonest DEF Regular, Terminal, Earned

LEMMA ClaimedHonest ==
    ASSUME NEW j \in Job, NEW r \in Record, Regular(j, r), r.state = "queued",
           NEW w \in Worker
    PROVE  Honest(j, r, Claimed(r, w))
<1> DEFINE d == [r EXCEPT !.state = "running", !.attempt = @ + 1,
                          !.generation = @ + 1, !.lease = "granted", !.worker = w]
<1>1. d \in Record
  BY Counters, Zenon DEF Record, State, InProgress
<1>2. d.effects = r.effects /\ d.state = "running"
  BY SMT DEF Record
<1> HIDE DEF d
<1>3. Saved(d).effects = r.effects /\ Saved(d).state = "running"
  BY <1>1, <1>2, SavedKept
<1>4. Claimed(r, w) = Saved(d)
  BY DEF Claimed, d
<1> QED BY <1>3, <1>4, NoneConfirmed, SameEffectsHonest DEF Regular, Terminal, Earned

LEMMA RecoveredHonest ==
    ASSUME NEW j \in Job, NEW r \in Record, Regular(j, r), r.state \in InProgress
    PROVE  Honest(j, r, Recovered(j, r)) /\ Honest(j, r, Quarantined(r))
<1> DEFINE s == RecoveryState(j, r)
<1>1. /\ s \in State
      /\ s = "reconciliation_required" => Admitted(r) # {}
      /\ s # "reconciliation_required" =>
            Admitted(r) = {} /\ s \in {"queued", "cancelled", "failed"}
  BY DEF RecoveryState, State, Terminal
<1>2. Recovered(j, r).state = s /\ Recovered(j, r).effects = r.effects
  BY <1>1, UnleasedKept, SavedKept DEF Recovered
<1> HIDE DEF s
<1>3. Honest(j, r, Recovered(j, r))
  BY <1>1, <1>2, NoneConfirmed, SameEffectsHonest DEF InProgress, Terminal, Earned
<1>4. Quarantined(r).state = "quarantined" /\ Quarantined(r).effects = r.effects
  <2> DEFINE u == Unleased(r, "quarantined")
  <2>1. u \in Record /\ u.state = "quarantined" /\ u.effects = r.effects
    BY UnleasedKept DEF State
  <2> HIDE DEF u
  <2>2. /\ [u EXCEPT !.version = @ + 1].state = "quarantined"
        /\ [u EXCEPT !.version = @ + 1].effects = r.effects
    BY <2>1, SMT DEF Record
  <2> QED BY <2>2 DEF Quarantined, u
<1>5. Honest(j, r, Quarantined(r))
  BY <1>4, SameEffectsHonest DEF InProgress, Terminal, Earned
<1> QED BY <1>3, <1>5

LEMMA RefusedHonest ==
    ASSUME NEW j \in Job, NEW r \in Record, Regular(j, r), NEW receipt \in BOOLEAN,
           r.state \in {"queued"} \cup InProgress, receipt => r.last \in Admitted(r)
    PROVE  Honest(j, r, Refused(r, receipt))
<1> DEFINE seen  == IF receipt THEN [r EXCEPT !.effects[r.last] = "observed"] ELSE r
           state == IF Admitted(r) = {} THEN "failed" ELSE "reconciliation_required"
           f     == Fenced(seen, state)
           d     == [f EXCEPT !.refusal = "observed"]
<1>1. /\ seen \in Record /\ Admitted(seen) = Admitted(r)
      /\ \A i \in Intent : seen.effects[i] = "confirmed" => r.effects[i] = "confirmed"
  <2>1. CASE ~receipt
    BY <2>1
  <2>2. CASE receipt
    <3>1. r.last \in Intent /\ Admitted(r) \cup {r.last} = Admitted(r)
      BY <2>2 DEF Admitted
    <3>2. seen = Rewritten(r, r.last, "observed")
      BY <2>2 DEF Rewritten
    <3> HIDE DEF seen
    <3>3. /\ SameAttempt(r, seen) /\ Admitted(seen) = Admitted(r) \cup {r.last}
          /\ seen.effects = [r.effects EXCEPT ![r.last] = "observed"]
      BY <3>1, <3>2, EffectRewritten, LiveOutcomes, Zenon
    <3>4. r.effects \in [Intent -> Outcome]
      BY DEF Record
    <3> QED BY <3>1, <3>3, <3>4 DEF SameAttempt
  <2> QED BY <2>1, <2>2
<1>2. state \in State
  BY DEF State, Terminal
<1> HIDE DEF seen
<1>3. f \in Record /\ f.state = state /\ f.effects = seen.effects
  BY <1>1, <1>2, UnleasedKept, ZenonT(90)
<1> HIDE DEF f
<1>4. d \in Record /\ d.state = state /\ d.effects = seen.effects
  <2>1. d \in Record
    BY <1>3, Zenon DEF Record
  <2> QED BY <1>3, <2>1, SMT DEF Record
<1> HIDE DEF d
<1>5. Refused(r, receipt) = Saved(d)
  BY DEF Refused, d, f, seen
<1> DEFINE t == Refused(r, receipt)
<1>6. /\ t.state = state /\ t.effects = seen.effects
      /\ Admitted(t) = Admitted(r)
  BY <1>1, <1>4, <1>5, SavedKept DEF Admitted
<1> HIDE DEF t
<1>7. Honest(j, r, t)
  BY <1>1, <1>6 DEF Honest, Regular, AllConfirmed, InProgress, Terminal, Earned
<1> QED BY <1>7 DEF t

\* The claim fails a queued job whose Source is gone.
LEMMA GoneHonest ==
    ASSUME NEW j \in Job, NEW r \in Record, Regular(j, r), r.state = "queued"
    PROVE  Honest(j, r, Saved([r EXCEPT !.state = "failed"]))
<1> DEFINE d == [r EXCEPT !.state = "failed"]
           s == Saved(d)
<1>0. d \in Record /\ d.state = "failed" /\ d.effects = r.effects
  BY StatedKept DEF State, Terminal
<1> HIDE DEF d
<1>1. s.state = "failed" /\ s.effects = r.effects
  BY <1>0, SavedKept
<1> HIDE DEF s
<1>2. Honest(j, r, s)
  BY <1>1, NoneConfirmed, SameEffectsHonest DEF Regular, Terminal, Earned
<1> QED BY <1>2 DEF s, d

LEMMA FailedHonest ==
    ASSUME NEW j \in Job, NEW r \in Record, Regular(j, r), r.state \in InProgress
    PROVE  Honest(j, r, Failed(r))
<1> DEFINE d == [r EXCEPT !.state = "failed"]
           u == Unleased(r, "reconciliation_required")
<1>1. /\ d \in Record /\ d.state = "failed" /\ d.effects = r.effects
      /\ u \in Record /\ u.state = "reconciliation_required" /\ u.effects = r.effects
  <2>1. d \in Record /\ d.state = "failed" /\ d.effects = r.effects
    BY StatedKept DEF State, Terminal
  <2> HIDE DEF d
  <2>2. u \in Record /\ u.state = "reconciliation_required" /\ u.effects = r.effects
    BY UnleasedKept DEF State
  <2> QED BY <2>1, <2>2
<1>2. Failed(r) = IF Admitted(r) # {} THEN Saved(u) ELSE Saved(d)
  BY DEF Failed
<1> HIDE DEF d, u
<1>3. Honest(j, r, Saved(u)) \/ Admitted(r) = {}
  BY <1>1, SavedKept, SameEffectsHonest DEF InProgress, Terminal, Earned
<1>4. Honest(j, r, Saved(d)) \/ Admitted(r) # {}
  BY <1>1, SavedKept, NoneConfirmed, SameEffectsHonest DEF InProgress, Terminal, Earned
<1> QED BY <1>2, <1>3, <1>4

\* What a document proves depends on its effects only.
LEMMA SamePrimaryReceipt ==
    ASSUME NEW j \in Job, NEW r, NEW s, s.effects = r.effects
    PROVE  PrimaryReceipt(j, s) = PrimaryReceipt(j, r)
BY Zenon DEF PrimaryReceipt, Is

LEMMA FinishedHonest ==
    ASSUME NEW j \in Job, NEW r \in Record, Regular(j, r), r.state = "running",
           NEW res \in Intent \cup {NoIntent}, CompletionProven(j, r, res)
    PROVE  Honest(j, r, Finished(r, res))
<1> DEFINE d == [r EXCEPT !.state = "succeeded", !.result = res]
           f == Finished(r, res)
<1>1. d \in Record
  BY Zenon DEF Record, State, Terminal
<1>2. d.state = "succeeded" /\ d.effects = r.effects
  BY SMT DEF Record
<1> HIDE DEF d
<1>3. f = Saved(d)
  BY DEF Finished, d
<1>4. f.state = "succeeded" /\ f.effects = r.effects
  BY <1>1, <1>2, <1>3, SavedKept
<1> HIDE DEF f
<1>5. JobKind(j) = "upload" => PrimaryReceipt(j, r) # NoIntent
  <2>1. JobKind(j) = "upload" => Request[j].kind \in {"upload", "start"}
    BY DEF JobKind
  <2> QED BY <2>1, SMT DEF CompletionProven
<1>6. Earned(j, f)
  BY <1>4, <1>5, SamePrimaryReceipt DEF Earned
<1>7. Honest(j, r, f)
  BY <1>4, <1>6, SameEffectsHonest DEF Regular, Terminal
<1> QED BY <1>7 DEF f

\* Heartbeat and Abandon.
LEMMA ResavedHonest ==
    ASSUME NEW j \in Job, NEW r \in Record, Regular(j, r),
           r.state \in InProgress \cup {"reconciliation_required"}
    PROVE  Honest(j, r, Saved(r)) /\ Saved(r).state = r.state
BY SavedKept, SameEffectsHonest DEF Regular, InProgress, Terminal, Earned

LEMMA CancelRequestedHonest ==
    ASSUME NEW j \in Job, NEW r \in Record, Regular(j, r),
           r.state \notin Terminal \cup {"absent", "quarantined"}
    PROVE  Honest(j, r, CancelRequested(j, r))
<1> DEFINE asked == [r EXCEPT !.cancel = "requested"]
           state == CASE Request[j].kind = "import" -> "queued"
                      [] Request[j].kind # "import" /\ Admitted(r) = {} -> "cancelled"
                      [] OTHER -> "reconciliation_required"
<1>1. asked \in Record /\ asked.effects = r.effects
  <2>1. asked \in Record
    BY Zenon DEF Record
  <2> QED BY <2>1, SMT DEF Record
<1>2. /\ state \in State
      /\ state = "reconciliation_required" => Admitted(r) # {}
      /\ state # "reconciliation_required" =>
            Admitted(r) = {} /\ state \in {"queued", "cancelled"}
  BY DEF Regular, State, Terminal
<1> HIDE DEF asked, state
<1>3. CancelRequested(j, r) = Saved(Fenced(asked, state))
  BY DEF CancelRequested, asked, state
<1>4. CancelRequested(j, r).state = state /\ CancelRequested(j, r).effects = r.effects
  BY <1>1, <1>2, <1>3, UnleasedKept, SavedKept
<1> QED BY <1>2, <1>4, NoneConfirmed, SameEffectsHonest DEF Regular, Terminal, Earned

\* A confirmation is honest if the effect happened.
LEMMA EffectConfirmedHonest ==
    ASSUME NEW j \in Job, NEW r \in Record, Regular(j, r),
           r.state = "effect_admitted", r.last \in Admitted(r),
           performed[j][r.last] > 0
    PROVE  Honest(j, r, EffectConfirmed(r))
<1> DEFINE e == Rewritten(r, r.last, "confirmed")
           d == [e EXCEPT !.state = "running"]
<1>1. r.last \in Intent /\ Admitted(r) \cup {r.last} = Admitted(r)
  BY DEF Admitted
<1>2. /\ SameAttempt(r, e) /\ Admitted(e) = Admitted(r) \cup {r.last}
      /\ e.effects = [r.effects EXCEPT ![r.last] = "confirmed"]
  BY <1>1, EffectRewritten, LiveOutcomes, Zenon
<1>3. EffectConfirmed(r) = Saved(d)
  BY DEF EffectConfirmed, Rewritten
<1> HIDE DEF e
<1>4. d \in Record /\ d.state = "running" /\ d.effects = e.effects
  BY <1>2, StatedKept DEF State, InProgress, SameAttempt
<1> HIDE DEF d
<1> DEFINE t == EffectConfirmed(r)
<1>5. t.state = "running" /\ t.effects = e.effects
  BY <1>3, <1>4, SavedKept
<1>6. /\ Admitted(t) = Admitted(r)
       /\ t.effects = [r.effects EXCEPT ![r.last] = "confirmed"]
  BY <1>1, <1>2, <1>5 DEF Admitted
<1> HIDE DEF t
<1>7. r.effects \in [Intent -> Outcome]
  BY DEF Record
<1>8. /\ t.effects[r.last] = "confirmed"
      /\ \A i \in Intent : i # r.last => t.effects[i] = r.effects[i]
  BY <1>1, <1>6, <1>7
<1>9. AllConfirmed(t)
  BY <1>6, <1>8 DEF AllConfirmed, Regular, Admitted
<1>10. Honest(j, r, t)
  BY <1>5, <1>8, <1>9, <1>6 DEF Honest, Regular, Terminal, Earned
<1> QED BY <1>10 DEF t

\* Whatever a reconciled document proves, the job is over.
LEMMA EndedByUser ==
    ASSUME NEW j \in Job, NEW c \in Record, NEW res
    PROVE  /\ Saved(Succeeded(j, c)).state = "succeeded"
           /\ UploadedOnlyProof(j, UploadedOnly(j, c)) =>
                 Saved(UploadedOnly(j, c)).state = "uploaded_only"
           /\ Saved([c EXCEPT !.state = "failed", !.result = res]).state = "failed"
           /\ Saved([c EXCEPT !.state = "failed"]).state = "failed"
<1>1. \A s, x : LET d == [c EXCEPT !.state = s, !.result = x] IN Saved(d).state = s
  BY SMT DEF Saved, Record
<1>2. Saved([c EXCEPT !.state = "failed"]).state = "failed"
  BY SMT DEF Saved, Record
<1> QED BY <1>1, <1>2, Zenon DEF Succeeded, UploadedOnly

LEMMA ConfirmSucceededEnds ==
    ASSUME NEW j \in Job, NEW r \in Record, CanConfirmSucceeded(j, r)
    PROVE  ConfirmSucceeded(j, r).state \in Terminal \ {"cancelled"}
<1> DEFINE e == Rewritten(r, r.last, "confirmed")
           c == [e EXCEPT !.result = r.last]
<1>1. r.last \in Intent
  BY DEF CanConfirmSucceeded, Record
<1>2. SameAttempt(r, e)
  BY <1>1, EffectRewritten, LiveOutcomes, Zenon
<1>3. c = ConfirmedByUser(r)
  BY DEF ConfirmedByUser, Rewritten
<1> HIDE DEF e
<1>4. c \in Record
  BY <1>1, <1>2, Zenon DEF Record, SameAttempt
<1> HIDE DEF c
<1>5. /\ Saved(Succeeded(j, c)).state \in Terminal \ {"cancelled"}
      /\ UploadedOnlyProof(j, UploadedOnly(j, c)) =>
            Saved(UploadedOnly(j, c)).state \in Terminal \ {"cancelled"}
      /\ Saved([c EXCEPT !.state = "failed", !.result = r.result]).state \in Terminal \ {"cancelled"}
  BY <1>4, EndedByUser, ZenonT(90) DEF Terminal
<1> QED BY <1>3, <1>5, Zenon DEF ConfirmSucceeded

LEMMA ConfirmNoEffectEnds ==
    ASSUME NEW j \in Job, NEW r \in Record, r.last \in Intent
    PROVE  ConfirmNoEffect(j, r).state \in Terminal \ {"cancelled"}
<1> DEFINE d == Rewritten(r, r.last, "denied")
<1>1. d \in Record
  BY EffectRewritten, LiveOutcomes, Zenon DEF SameAttempt
<1> HIDE DEF d
<1>2. /\ Saved(Succeeded(j, d)).state \in Terminal \ {"cancelled"}
      /\ UploadedOnlyProof(j, UploadedOnly(j, d)) =>
            Saved(UploadedOnly(j, d)).state \in Terminal \ {"cancelled"}
      /\ Saved([d EXCEPT !.state = "failed"]).state \in Terminal \ {"cancelled"}
  BY <1>1, EndedByUser, ZenonT(90) DEF Terminal
<1> QED BY <1>2, Zenon DEF ConfirmNoEffect, d, Rewritten

-----------------------------------------------------------------------------
(* The table: what every step but an admission and a user's decision does.   *)

RegularDocuments == \A j \in Job : Regular(j, rows[j])

\* Receipts in hand stand for effects that happened.
ReceiptsHappened ==
    \A w \in Worker : held[w].receipt # NoIntent =>
        performed[held[w].job][held[w].receipt] > 0

\* Where no user decided, so do confirmed effects, and a job that ended has
\* no others.
UndecidedProven ==
    \A j \in Job \ reconciled :
        /\ \A i \in Intent : rows[j].effects[i] = "confirmed" => performed[j][i] > 0
        /\ rows[j].state \in Terminal => AllConfirmed(rows[j])
        /\ Earned(j, rows[j])

DecisionsStand ==
    \A j \in reconciled : rows[j].state \in Terminal \cup {"reconciliation_required"}

\* What is on record can be accounted for.
Accounted ==
    RegularDocuments /\ ReceiptsHappened /\ UndecidedProven /\ DecisionsStand

HonestTable == \A j \in Job : Honest(j, rows[j], rows'[j])

\* Reconcile and Abandon record their user's word on an unresolved job only.
Asked ==
    /\ reconciled \subseteq reconciled'
    /\ \A j \in reconciled' \ reconciled : rows[j].state = "reconciliation_required"

LEMMA PutHonest ==
    ASSUME Typed, NEW j \in Job, NEW r, Put(j, r), Honest(j, rows[j], r)
    PROVE  HonestTable
BY DEF HonestTable, Honest, Put, Typed, TypeOK

LEMMA UnchangedHonest == UNCHANGED rows => HonestTable
BY DEF HonestTable, Honest

LEMMA UserHonest ==
    ASSUME Typed, Accounted, NEW j \in Job,
           Enqueue(j) \/ Cancel(j) \/ Abandon(j)
    PROVE  HonestTable
<1>1. rows[j] \in Record /\ Regular(j, rows[j])
  BY DEF Typed, TypeOK, Accounted, RegularDocuments
<1>2. CASE Enqueue(j)
  <2>1. rows[j].state = "absent" /\ Put(j, Enqueued(rows[j]))
    BY <1>2 DEF Enqueue
  <2> QED BY <1>1, <2>1, EnqueuedHonest, PutHonest
<1>3. CASE Cancel(j)
  <2>1. /\ rows[j].state \notin Terminal \cup {"absent", "quarantined"}
        /\ Put(j, CancelRequested(j, rows[j]))
    BY <1>3 DEF Cancel
  <2> QED BY <1>1, <2>1, CancelRequestedHonest, PutHonest
<1>4. CASE Abandon(j)
  <2>1. /\ rows[j].state = "reconciliation_required"
        /\ Put(j, Saved(rows[j]))
    BY <1>4 DEF Abandon
  <2> QED BY <1>1, <2>1, ResavedHonest, PutHonest
<1> QED BY <1>2, <1>3, <1>4

\* The recovery of attempts in progress, by a sweep or a restart.
LEMMA RecoverHonest ==
    ASSUME Typed, Accounted, NEW lost \in SUBSET Active(rows), NEW oversized
    PROVE  \A j \in Job : Honest(j, rows[j], Recover(rows, lost, oversized)[j])
<1> TAKE j \in Job
<1>1. rows[j] \in Record /\ Regular(j, rows[j])
  BY DEF Typed, TypeOK, Accounted, RegularDocuments
<1>2. j \in lost => rows[j].state \in InProgress
  BY DEF Active, Rows
<1>3. \/ Recover(rows, lost, oversized)[j] = rows[j]
      \/ /\ j \in lost
         /\ Recover(rows, lost, oversized)[j]
               \in {Quarantined(rows[j]), Recovered(j, rows[j])}
  BY DEF Recover
<1> QED BY <1>1, <1>2, <1>3, RecoveredHonest DEF Honest

LEMMA ClaimHonest ==
    ASSUME Typed, Accounted, NEW w \in Worker, NEW c \in Job \cup {NoJob}, Claim(w, c)
    PROVE  HonestTable
<1> PICK oversized \in SUBSET LeaseLost, refused \in SUBSET Job, gone \in SUBSET Job :
      LET swept  == Recover(rows, LeaseLost, oversized)
          passed == Dropped(swept, refused, gone)
      IN
      /\ \A j \in refused \cup gone : Claimable(swept, j)
      /\ \/ rows' = passed
         \/ /\ c \in Job \ (refused \cup gone) /\ Claimable(swept, c)
            /\ rows' = [passed EXCEPT ![c] = Claimed(@, w)]
  BY ZenonT(60) DEF Claim
<1> DEFINE swept  == Recover(rows, LeaseLost, oversized)
           passed == Dropped(swept, refused, gone)
<1>1. \A j \in Job : Honest(j, rows[j], swept[j]) /\ swept[j] \in Record
  <2>1. LeaseLost \in SUBSET Active(rows)
    BY DEF LeaseLost
  <2> QED BY <2>1, RecoverHonest, RecoverMoves DEF Typed
<1>2. \A j \in Job : Regular(j, swept[j])
  BY <1>1 DEF Honest, Accounted, RegularDocuments
<1>3. /\ \A j \in refused \cup gone : swept[j].state = "queued"
      /\ Claimable(swept, c) => swept[c].state = "queued"
  BY DEF Claimable
<1>4. \/ rows' = passed
      \/ /\ c \in Job \ (refused \cup gone) /\ Claimable(swept, c)
         /\ rows' = [passed EXCEPT ![c] = Claimed(@, w)]
  OBVIOUS
<1> HIDE DEF swept
<1>5. ASSUME NEW j \in Job
      PROVE  Honest(j, swept[j], passed[j])
  <2>1. \/ passed[j] = swept[j]
        \/ j \in refused /\ passed[j] = Refused(swept[j], FALSE)
        \/ j \in gone /\ passed[j] = Saved([swept[j] EXCEPT !.state = "failed"])
    BY DEF Dropped
  <2>2. Honest(j, swept[j], swept[j])
    BY DEF Honest
  <2> HIDE DEF passed
  <2> QED BY <1>1, <1>2, <1>3, <2>1, <2>2, RefusedHonest, GoneHonest
<1>6. /\ passed = [j \in Job |-> passed[j]]
      /\ \A j \in Job : j \notin refused \cup gone => passed[j] = swept[j]
  BY DEF Dropped
<1> HIDE DEF passed
<1>7. CASE rows' = passed
  BY <1>1, <1>5, <1>7, HonestTransitive DEF HonestTable
<1>8. CASE /\ c \in Job \ (refused \cup gone) /\ Claimable(swept, c)
           /\ rows' = [passed EXCEPT ![c] = Claimed(@, w)]
  <2>1. rows'[c] = Claimed(swept[c], w) /\ \A j \in Job \ {c} : rows'[j] = passed[j]
    BY <1>6, <1>8
  <2>2. Honest(c, swept[c], rows'[c])
    BY <1>1, <1>2, <1>3, <1>8, <2>1, ClaimedHonest
  <2> QED BY <1>1, <1>5, <2>1, <2>2, HonestTransitive DEF HonestTable
<1> QED BY <1>4, <1>7, <1>8

LEMMA CommandHonest ==
    ASSUME Typed, Accounted, NEW w \in Worker,
           \/ Heartbeat(w) \/ ConfirmEffect(w) \/ Finish(w)
           \/ Fail(w) \/ RefuseAdvance(w)
    PROVE  HonestTable
<1> DEFINE j == held[w].job
           r == rows[j]
<1>1. HoldsClaim(w)
  BY DEF Heartbeat, ConfirmEffect, Finish, Fail, RefuseAdvance
<1>2. j \in Job /\ r \in Record /\ Regular(j, r) /\ r.state \in InProgress
  BY <1>1, ClaimHeld DEF Typed, TypeOK, Accounted, RegularDocuments
<1>3. \A receipt : receipt /\ HasReceipt(w) => r.last \in Admitted(r)
  BY DEF HasReceipt, Is, Admitted
<1>4. CASE Heartbeat(w)
  <2>1. Put(j, Saved(r))
    BY <1>4 DEF Heartbeat
  <2> HIDE DEF j, r
  <2>2. r = rows[j]
    BY DEF r
  <2> QED BY <1>2, <2>1, <2>2, ResavedHonest, PutHonest
<1>5. CASE ConfirmEffect(w)
  <2>1. Put(j, EffectConfirmed(r)) /\ HasReceipt(w)
    BY <1>5 DEF ConfirmEffect, Advance
  <2>2. /\ r.state = "effect_admitted" /\ r.last \in Intent
        /\ r.last \in Admitted(r) /\ held[w].receipt = r.last
    BY <2>1 DEF HasReceipt, Is, Admitted
  <2>3. performed[j][r.last] > 0
    BY <2>2, RecordAssumption DEF Accounted, ReceiptsHappened
  <2>4. r = rows[j]
    OBVIOUS
  <2> HIDE DEF j, r
  <2> QED BY <1>2, <2>1, <2>2, <2>3, <2>4, EffectConfirmedHonest, PutHonest
<1>6. CASE Finish(w)
  <2>1. r.state = "running"
    BY <1>6 DEF Finish
  <2>2. PICK named \in Intent \cup {NoIntent} :
           LET result == IF named # NoIntent THEN named ELSE PrimaryReceipt(j, r) IN
           CompletionProven(j, r, result) /\ Put(j, Finished(r, result))
    BY <1>6 DEF Finish, Advance
  <2>3. r = rows[j]
    OBVIOUS
  <2> HIDE DEF j, r
  <2>4. (IF named # NoIntent THEN named ELSE PrimaryReceipt(j, r))
           \in Intent \cup {NoIntent}
    BY <1>2, PrimaryReceiptType
  <2> QED BY <1>2, <2>1, <2>2, <2>3, <2>4, FinishedHonest, PutHonest
<1>7. CASE Fail(w)
  <2>1. Put(j, Failed(r)) /\ r = rows[j]
    BY <1>7 DEF Fail, Advance
  <2> HIDE DEF j, r
  <2> QED BY <1>2, <2>1, FailedHonest, PutHonest
<1>8. CASE RefuseAdvance(w)
  <2>1. PICK receipt \in BOOLEAN :
           /\ receipt => HasReceipt(w)
           /\ Put(j, Refused(r, receipt))
    BY <1>8 DEF RefuseAdvance, Advance
  <2>2. receipt => r.last \in Admitted(r)
    BY <2>1 DEF HasReceipt, Is, Admitted
  <2>3. r = rows[j]
    OBVIOUS
  <2> HIDE DEF j, r
  <2> QED BY <1>2, <2>1, <2>2, <2>3, RefusedHonest, PutHonest
<1> QED BY <1>4, <1>5, <1>6, <1>7, <1>8

LEMMA StepHonest ==
    ASSUME Typed, Accounted, [Next]_vars,
           ~ \E j \in Job : Reconcile(j),
           ~ \E w \in Worker, i \in Intent : BeginEffect(w, i)
    PROVE  HonestTable /\ Asked
<1>1. CASE User
  <2>1. PICK j \in Job : Enqueue(j) \/ Cancel(j) \/ Abandon(j)
    BY <1>1 DEF User
  <2>2. Asked
    BY <2>1 DEF Enqueue, Cancel, Abandon, Asked
  <2> QED BY <2>1, <2>2, UserHonest
<1>2. CASE Retain \/ (\E j \in Job : Expire(j)) \/ UNCHANGED vars
  BY <1>2, UnchangedHonest DEF Retain, Expire, vars, Asked
<1>3. CASE Restart
  <2>1. PICK oversized : rows' = Recover(rows, Active(rows), oversized)
    BY <1>3 DEF Restart
  <2>2. \A j \in Job : Honest(j, rows[j], Recover(rows, Active(rows), oversized)[j])
    BY RecoverHonest
  <2>3. Asked
    BY <1>3 DEF Restart, Asked
  <2> QED BY <2>1, <2>2, <2>3 DEF HonestTable
<1>4. ASSUME NEW w \in Worker, NEW c \in Job \cup {NoJob}, Claim(w, c)
      PROVE  HonestTable /\ Asked
  <2>1. Asked
    BY <1>4 DEF Claim, Asked
  <2> QED BY <1>4, <2>1, ClaimHonest
<1>5. ASSUME NEW w \in Worker, Perform(w) \/ Drop(w)
      PROVE  HonestTable /\ Asked
  BY <1>5, UnchangedHonest DEF Perform, Drop, dbvars, Asked
<1>6. ASSUME NEW w \in Worker,
             \/ Heartbeat(w) \/ ConfirmEffect(w) \/ Finish(w)
             \/ Fail(w) \/ RefuseAdvance(w)
      PROVE  HonestTable /\ Asked
  <2>1. UNCHANGED reconciled
    BY <1>6, Zenon
       DEF Heartbeat, ConfirmEffect, Finish, Fail, RefuseAdvance, Advance
  <2> QED BY <1>6, <2>1, CommandHonest DEF Asked
<1> QED BY <1>1, <1>2, <1>3, <1>4, <1>5, <1>6 DEF Next, WorkerStep

\* A user's decision ends an unresolved job, and only that one.
LEMMA ReconcileEnds ==
    ASSUME Typed, NEW j \in Job, Reconcile(j)
    PROVE  /\ rows[j].state = "reconciliation_required"
           /\ rows'[j].state \in Terminal \ {"cancelled"}
           /\ Admitted(rows'[j]) = Admitted(rows[j])
           /\ \A k \in Job \ {j} : rows'[k] = rows[k]
           /\ reconciled' = reconciled \cup {j}
           /\ UNCHANGED <<held, performed>>
<1>1. PICK r :
         /\ \/ CanConfirmSucceeded(j, rows[j]) /\ r = ConfirmSucceeded(j, rows[j])
            \/ CanConfirmNoEffect(rows[j]) /\ r = ConfirmNoEffect(j, rows[j])
         /\ Put(j, r)
  BY DEF Reconcile
<1>2. /\ rows[j].state = "reconciliation_required"
      /\ rows'[j] = r /\ \A k \in Job \ {j} : rows'[k] = rows[k]
      /\ reconciled' = reconciled \cup {j} /\ UNCHANGED <<held, performed>>
  BY <1>1 DEF Reconcile, Put, Typed, TypeOK
<1>3. WellFormed(rows[j]) /\ rows[j] \in Record
  BY DEF Typed, Documents, TypeOK
<1>4. CanConfirmNoEffect(rows[j]) => rows[j].last \in Intent
  BY <1>3 DEF CanConfirmNoEffect, Record
<1>5. Follows(rows[j], r)
  BY <1>1, <1>3, <1>4, ConfirmSucceededFollows, ConfirmNoEffectFollows
<1>6. r.state \in Terminal \ {"cancelled"}
  <2>1. CASE CanConfirmSucceeded(j, rows[j]) /\ r = ConfirmSucceeded(j, rows[j])
    BY <1>3, <2>1, ConfirmSucceededEnds
  <2>2. CASE CanConfirmNoEffect(rows[j]) /\ r = ConfirmNoEffect(j, rows[j])
    BY <1>3, <1>4, <2>2, ConfirmNoEffectEnds
  <2> QED BY <1>1, <2>1, <2>2
<1> QED BY <1>2, <1>5, <1>6 DEF Follows

-----------------------------------------------------------------------------
(* Everything on record stays accounted for.                                 *)

\* A task gets a receipt by performing its errand, and in no other way.
KeepsReceipts ==
    \A w \in Worker :
        \/ held'[w].receipt = NoIntent
        \/ held'[w].receipt = held[w].receipt /\ held'[w].job = held[w].job

LEMMA AdvanceReceipts ==
    ASSUME HeldOK, NEW w \in Worker, NEW r, NEW todo, Advance(w, r, todo)
    PROVE  KeepsReceipts
<1>1. PICK l \in {[LeaseOn(held[w].job, r) EXCEPT !.todo = todo], NoLease} :
         held' = [held EXCEPT ![w] = l]
  BY Zenon DEF Advance, Reply
<1>2. l.receipt = NoIntent
  BY DEF LeaseOn, NoLease
<1> QED BY <1>1, <1>2 DEF HeldOK, KeepsReceipts

LEMMA StepReceipts ==
    ASSUME Typed, [Next]_vars, ~ \E w \in Worker : Perform(w)
    PROVE  KeepsReceipts /\ UNCHANGED performed
<1> USE DEF HeldOK
<1>1. HeldOK /\ Documents
  BY DEF Typed, TypeOK
<1>2. ASSUME UNCHANGED held PROVE KeepsReceipts
  BY <1>2 DEF KeepsReceipts
<1>3. CASE User
  BY <1>2, <1>3 DEF User, Enqueue, Cancel, Reconcile, Abandon
<1>4. CASE Retain \/ (\E j \in Job : Expire(j)) \/ UNCHANGED vars
  BY <1>2, <1>4 DEF Retain, Expire, vars
<1>5. CASE Restart
  BY <1>5 DEF Restart, KeepsReceipts, NoLease
<1>6. ASSUME NEW w \in Worker, NEW c \in Job \cup {NoJob}, Claim(w, c)
      PROVE  KeepsReceipts /\ UNCHANGED performed
  <2>1. UNCHANGED performed
    BY <1>6 DEF Claim
  <2>2. \/ UNCHANGED held
        \/ \E reply \in {LeaseOn(c, rows'[c]), NoLease} :
              held' = [held EXCEPT ![w] = reply]
    BY <1>6, Zenon DEF Claim
  <2>3. LeaseOn(c, rows'[c]).receipt = NoIntent /\ NoLease.receipt = NoIntent
    BY DEF LeaseOn, NoLease
  <2> QED BY <1>1, <2>1, <2>2, <2>3 DEF KeepsReceipts
<1>7. ASSUME NEW w \in Worker,
             \/ \E i \in Intent : BeginEffect(w, i)
             \/ ConfirmEffect(w) \/ Finish(w) \/ Fail(w) \/ RefuseAdvance(w)
      PROVE  KeepsReceipts /\ UNCHANGED performed
  <2>1. \E r, todo : Advance(w, r, todo)
    BY <1>7, Zenon DEF BeginEffect, ConfirmEffect, Finish, Fail, RefuseAdvance
  <2> QED BY <1>1, <2>1, AdvanceReceipts DEF Advance
<1>8. ASSUME NEW w \in Worker, Heartbeat(w)
      PROVE  KeepsReceipts /\ UNCHANGED performed
  <2> DEFINE l == [held[w] EXCEPT !.version = rows[held[w].job].version + 1]
  <2>1. /\ HoldsClaim(w) /\ held' \in {held, [held EXCEPT ![w] = l]}
        /\ UNCHANGED performed
    BY <1>8 DEF Heartbeat
  <2>2. l.receipt = held[w].receipt /\ l.job = held[w].job
    BY <1>1, <2>1, ClaimHeld DEF Lease, NoLease
  <2> HIDE DEF l
  <2> QED BY <1>1, <2>1, <2>2 DEF KeepsReceipts
<1>9. ASSUME NEW w \in Worker, Drop(w)
      PROVE  KeepsReceipts /\ UNCHANGED performed
  BY <1>1, <1>9 DEF Drop, KeepsReceipts, NoLease
<1>10. CASE User \/ Retain \/ (\E j \in Job : Expire(j)) \/ UNCHANGED vars \/ Restart
  BY <1>3, <1>4, <1>5, <1>10
     DEF User, Enqueue, Cancel, Reconcile, Abandon, Retain, Expire, vars, Restart
<1> QED BY <1>6, <1>7, <1>8, <1>9, <1>10 DEF Next, WorkerStep

LEMMA InitAccounted == Init => Accounted
<1> SUFFICES ASSUME Init PROVE Accounted
  OBVIOUS
<1>1. \A j \in Job : /\ rows[j].state = "absent" /\ Admitted(rows[j]) = {}
                     /\ \A i \in Intent : rows[j].effects[i] = "absent"
  BY DEF Init, NoRow, Admitted
<1>2. \A w \in Worker : held[w].receipt = NoIntent
  BY DEF Init, NoLease
<1> QED BY <1>1, <1>2
    DEF Init, Accounted, RegularDocuments, ReceiptsHappened, UndecidedProven,
        DecisionsStand, Regular, Terminal, Earned

LEMMA HonestAccounted ==
    ASSUME Typed, Typed', Accounted, HonestTable, Asked, UNCHANGED performed,
           KeepsReceipts
    PROVE  Accounted'
<1>0. reconciled \subseteq Job /\ reconciled' \subseteq Job
  BY DEF Typed, TypeOK
<1>1. RegularDocuments'
  BY DEF Accounted, RegularDocuments, HonestTable, Honest
<1>2. ReceiptsHappened'
  BY DEF Accounted, KeepsReceipts, ReceiptsHappened
<1>3. UndecidedProven'
  <2> SUFFICES ASSUME NEW j \in Job \ reconciled'
               PROVE  /\ \A i \in Intent :
                            rows'[j].effects[i] = "confirmed" => performed[j][i] > 0
                      /\ rows'[j].state \in Terminal => AllConfirmed(rows'[j])
                      /\ Earned(j, rows'[j])
    BY DEF UndecidedProven
  <2>1. j \notin reconciled /\ Honest(j, rows[j], rows'[j])
    BY DEF Asked, HonestTable
  <2> QED BY <2>1 DEF Accounted, UndecidedProven, Honest
<1>4. DecisionsStand'
  BY <1>0 DEF Accounted, DecisionsStand, HonestTable, Honest, Asked, Terminal
<1> QED BY <1>1, <1>2, <1>3, <1>4 DEF Accounted

LEMMA ReconcileAccounted ==
    ASSUME Typed, Typed', Accounted, NEW j \in Job, Reconcile(j)
    PROVE  Accounted'
<1>1. RegularDocuments'
  BY ReconcileEnds DEF Accounted, RegularDocuments, Regular, Terminal
<1>2. ReceiptsHappened'
  BY ReconcileEnds DEF Accounted, ReceiptsHappened
<1>3. UndecidedProven' /\ DecisionsStand'
  BY ReconcileEnds DEF Typed, TypeOK, Accounted, UndecidedProven, DecisionsStand
<1> QED BY <1>1, <1>2, <1>3 DEF Accounted

\* The document of an admission.
LEMMA EffectBegunKept ==
    ASSUME NEW r \in Record, NEW i \in Intent
    PROVE  /\ EffectBegun(r, i).state = "effect_admitted"
           /\ EffectBegun(r, i).last = i
           /\ EffectBegun(r, i).effects = [r.effects EXCEPT ![i] = "unresolved"]
<1> DEFINE e == Rewritten(r, i, "unresolved")
           d == [e EXCEPT !.last = i, !.state = "effect_admitted"]
<1>1. SameAttempt(r, e) /\ e.effects = [r.effects EXCEPT ![i] = "unresolved"]
  BY EffectRewritten, LiveOutcomes, Zenon
<1>2. EffectBegun(r, i) = Saved(d)
  BY DEF EffectBegun, Rewritten
<1> HIDE DEF e
<1>3. d \in Record
  BY <1>1, Zenon DEF Record, State, InProgress, SameAttempt
<1>4. d.state = "effect_admitted" /\ d.last = i /\ d.effects = e.effects
  BY <1>1, SMT DEF Record, SameAttempt
<1> HIDE DEF d
<1> QED BY <1>1, <1>2, <1>3, <1>4, SavedKept

LEMMA EffectBegunRegular ==
    ASSUME NEW j \in Job, NEW r \in Record, Regular(j, r), NEW i \in Intent,
           CanAdmit(j, r, i)
    PROVE  Regular(j, EffectBegun(r, i))
<1> DEFINE b == EffectBegun(r, i)
<1>1. /\ b.state = "effect_admitted" /\ b.last = i
      /\ b.effects = [r.effects EXCEPT ![i] = "unresolved"]
  BY EffectBegunKept
<1> HIDE DEF b
<1>2. \A k \in Intent : k # i => b.effects[k] = r.effects[k]
  BY <1>1 DEF Record
<1>3. \A k \in Admitted(b) : k = i \/ b.effects[k] = "confirmed"
  BY <1>2 DEF CanAdmit, Regular, AllConfirmed, Admitted
<1>4. Request[j].kind # "import"
  BY DEF CanAdmit, OperationAllowed
<1>5. ~ Request[j].start => i.op # "printer_upload_and_start"
  BY DEF CanAdmit, OperationAllowed, UploadTo, UploadAndStartOn, StartOn
<1>6. Admitted(b) = Admitted(r) \cup {i}
  BY <1>1, <1>2 DEF Admitted, Record
<1> QED BY <1>1, <1>3, <1>4, <1>5, <1>6 DEF Regular, b

LEMMA BeginEffectAccounted ==
    ASSUME Typed, Typed', Accounted, NEW w \in Worker, NEW i \in Intent,
           BeginEffect(w, i)
    PROVE  Accounted'
<1> DEFINE j == held[w].job
           b == EffectBegun(rows[j], i)
<1>1. /\ j \in Job /\ CanAdmit(j, rows[j], i) /\ rows[j].state \in InProgress
      /\ \A k \in Job \ {j} : rows'[k] = rows[k]
  BY BeginEffectMoves DEF Typed, TypeOK
<1>2. rows'[j] = b /\ UNCHANGED <<reconciled, performed>> /\ KeepsReceipts
  BY <1>1, AdvanceReceipts DEF BeginEffect, Advance, Put, Typed, TypeOK, HeldOK
<1>3. rows[j] \in Record /\ Regular(j, rows[j])
  BY <1>1 DEF Typed, TypeOK, Accounted, RegularDocuments
<1>4. /\ b.state = "effect_admitted" /\ Regular(j, b)
      /\ b.effects = [rows[j].effects EXCEPT ![i] = "unresolved"]
  BY <1>1, <1>3, EffectBegunKept, EffectBegunRegular
<1> HIDE DEF j, b
<1>5. RegularDocuments'
  BY <1>1, <1>2, <1>4 DEF Accounted, RegularDocuments
<1>6. ReceiptsHappened'
  BY <1>2 DEF Accounted, ReceiptsHappened, KeepsReceipts
<1>7. \A k \in Intent : b.effects[k] = "confirmed" => rows[j].effects[k] = "confirmed"
  BY <1>3, <1>4 DEF Record
<1>8. UndecidedProven'
  <2> SUFFICES ASSUME NEW k \in Job \ reconciled
               PROVE  /\ \A x \in Intent :
                            rows'[k].effects[x] = "confirmed" => performed[k][x] > 0
                      /\ rows'[k].state \in Terminal => AllConfirmed(rows'[k])
                      /\ Earned(k, rows'[k])
    BY <1>2 DEF UndecidedProven, AllConfirmed, Admitted, Earned, PrimaryReceipt, Is
  <2>1. CASE k = j
    BY <1>2, <1>4, <1>7, <2>1 DEF Accounted, UndecidedProven, Terminal, Earned
  <2>2. CASE k # j
    BY <1>1, <2>2 DEF Accounted, UndecidedProven
  <2> QED BY <2>1, <2>2
<1>9. DecisionsStand'
  BY <1>1, <1>2 DEF Typed, TypeOK, Accounted, DecisionsStand, InProgress, Terminal
<1> QED BY <1>5, <1>6, <1>8, <1>9 DEF Accounted

LEMMA PerformAccounted ==
    ASSUME Typed, Typed', Accounted, NEW w \in Worker, Perform(w)
    PROVE  Accounted'
<1> DEFINE j == held[w].job
           i == held[w].todo
<1>1. j \in Job /\ i \in Intent
  BY DEF Perform, Typed, TypeOK, Lease, NoLease
<1>2. PICK receipt \in {i, NoIntent} :
         held' = [held EXCEPT ![w].todo = NoIntent, ![w].receipt = receipt]
  BY DEF Perform
<1>3. /\ held'[w].receipt \in {i, NoIntent} /\ held'[w].job = j
      /\ \A v \in Worker \ {w} : held'[v] = held[v]
  BY <1>2 DEF Typed, TypeOK, Lease, NoLease
<1>4. /\ performed' = [performed EXCEPT ![j][i] = @ + 1]
      /\ UNCHANGED <<rows, reconciled>>
  BY DEF Perform, dbvars
<1> HIDE DEF j, i
<1>5. performed'[j][i] > 0
  BY <1>1, <1>4, SMT DEF Typed, TypeOK
<1>6. \A k \in Job, x \in Intent : performed[k][x] > 0 => performed'[k][x] > 0
  BY <1>1, <1>4, <1>5, SMT DEF Typed, TypeOK
<1>7. \A v \in Worker : held[v].receipt # NoIntent =>
         held[v].job \in Job /\ held[v].receipt \in Intent
  BY DEF Typed, TypeOK, Lease, NoLease
<1>8. ReceiptsHappened'
  BY <1>3, <1>5, <1>6, <1>7 DEF Accounted, ReceiptsHappened
<1>9. UndecidedProven'
  <2> SUFFICES ASSUME NEW k \in Job \ reconciled
               PROVE  /\ \A x \in Intent :
                            rows[k].effects[x] = "confirmed" => performed'[k][x] > 0
                      /\ rows[k].state \in Terminal => AllConfirmed(rows[k])
                      /\ Earned(k, rows[k])
    BY <1>4 DEF UndecidedProven, AllConfirmed, Admitted, Earned, PrimaryReceipt, Is
  <2> QED BY <1>6, SMTT(60) DEF Accounted, UndecidedProven
<1>10. RegularDocuments' /\ DecisionsStand'
  BY <1>4 DEF Accounted, RegularDocuments, DecisionsStand
<1> QED BY <1>8, <1>9, <1>10 DEF Accounted

LEMMA StepAccounted == Typed /\ Typed' /\ Accounted /\ [Next]_vars => Accounted'
<1> SUFFICES ASSUME Typed, Typed', Accounted, [Next]_vars PROVE Accounted'
  OBVIOUS
<1>1. CASE \E j \in Job : Reconcile(j)
  BY <1>1, ReconcileAccounted
<1>2. CASE \E w \in Worker, i \in Intent : BeginEffect(w, i)
  BY <1>2, BeginEffectAccounted
<1>3. CASE \E w \in Worker : Perform(w)
  BY <1>3, PerformAccounted
<1>4. CASE /\ ~ \E j \in Job : Reconcile(j)
           /\ ~ \E w \in Worker, i \in Intent : BeginEffect(w, i)
           /\ ~ \E w \in Worker : Perform(w)
  BY <1>4, StepHonest, StepReceipts, HonestAccounted
<1> QED BY <1>1, <1>2, <1>3, <1>4

LEMMA SpecAccounted == Spec => [](Typed /\ Once /\ Accounted)
<1>1. Init => Typed /\ Once /\ Accounted
  BY InitTyped, InitOnce, InitAccounted
<1>2. /\ Typed /\ Once /\ Accounted /\ [Next]_vars
      => (Typed /\ Once /\ Accounted)'
  BY StepTyped, StepOnce, StepAccounted
<1> QED BY <1>1, <1>2, PTL DEF Spec

\* An effect that happened is on record, and a job that ended with an effect
\* nobody confirmed ended by a user's recorded decision: no timeout, restart,
\* refusal or failure report closes a job over an open question.
THEOREM NothingIsForgotten == Spec => []NothingForgotten
<1>1. Typed /\ Once /\ Accounted => NothingForgotten
  BY DEF Typed, TypeOK, Once, EffectsOnRecord, Accounted, UndecidedProven,
         AllConfirmed, NothingForgotten
<1> QED BY <1>1, SpecAccounted, PTL

\* A queued or cancelled job, and one that failed without an effect, has
\* touched nothing and no task is about to: sending again is safe.
THEOREM ResendIsSafe == Spec => []SafeToResend
<1>1. Typed /\ Once /\ Accounted => SafeToResend
  <2> SUFFICES ASSUME Typed, Once, Accounted, NEW j \in Job,
                      \/ rows[j].state \in {"queued", "cancelled"}
                      \/ rows[j].state = "failed" /\ Admitted(rows[j]) = {}
               PROVE  /\ \A i \in Intent : performed[j][i] = 0
                      /\ \A w \in Worker : held[w].job = j => held[w].todo = NoIntent
    BY DEF SafeToResend
  <2>1. Admitted(rows[j]) = {}
    BY DEF Accounted, RegularDocuments, Regular
  <2>2. \A i \in Intent : performed[j][i] \in Nat /\ ~(performed[j][i] > 0)
    BY <2>1 DEF Typed, TypeOK, Once, EffectsOnRecord
  <2>3. \A w \in Worker : held[w].job = j => held[w].todo = NoIntent
    BY <2>1 DEF Once, ErrandsAreNew
  <2> QED BY <2>2, <2>3, SMT
<1> QED BY <1>1, SpecAccounted, PTL

\* A print job that succeeded without a user's word has really printed, or
\* uploaded when that was all it was asked for, exactly once.
THEOREM SuccessIsTrue == Spec => []SuccessIsReal
<1>1. Typed /\ Once /\ Accounted /\ NeverResent => SuccessIsReal
  <2> SUFFICES ASSUME Typed, Accounted, NeverResent, NEW j \in Job,
                      rows[j].state = "succeeded", j \notin reconciled,
                      JobKind(j) = "upload"
               PROVE  LET p == Request[j].target IN
                      IF Request[j].start
                      THEN performed[j][UploadAndStartOn(p)] + performed[j][StartOn(p)] = 1
                      ELSE performed[j][UploadTo(p)] = 1
    BY DEF SuccessIsReal
  <2> DEFINE p == Request[j].target
             i == PrimaryReceipt(j, rows[j])
  <2>1. /\ Request[j] \in Payload
        /\ Request[j].kind \in {"upload", "start"}
    BY RecordAssumption DEF JobKind
  <2>2. p \in Printer /\ (Request[j].kind = "start" => Request[j].start)
    BY <2>1 DEF Payload
  <2>3. i # NoIntent
    BY DEF Accounted, UndecidedProven, Earned
  <2>4. /\ Is(rows[j], i, "confirmed")
        /\ i \in {UploadTo(p), UploadAndStartOn(p), StartOn(p)}
        /\ Request[j].start => i # UploadTo(p)
        /\ ~ Request[j].start => i # StartOn(p)
    BY <2>1, <2>2, <2>3, SMT
       DEF PrimaryReceipt, UploadTo, UploadAndStartOn, StartOn
  <2> HIDE DEF i, p
  <2>5. i \in Intent /\ i \in Admitted(rows[j]) /\ performed[j][i] > 0
    BY <2>4 DEF Is, Admitted, Accounted, UndecidedProven
  <2>6. ~ Request[j].start => i # UploadAndStartOn(p)
    BY <2>5 DEF Accounted, RegularDocuments, Regular, UploadAndStartOn
  <2>7. /\ \A x \in Intent : performed[j][x] \in Nat /\ performed[j][x] <= 1
        /\ performed[j][UploadAndStartOn(p)] + performed[j][StartOn(p)] <= 1
    BY <2>2 DEF Typed, TypeOK, NeverResent, p
  <2>8. performed[j][i] = 1
    BY <2>5, <2>7
  <2>9. UploadAndStartOn(p) \in Intent /\ StartOn(p) \in Intent
    BY <2>2, StartIntents DEF p
  <2>10. CASE Request[j].start
    BY <2>4, <2>7, <2>8, <2>9, <2>10 DEF p
  <2>11. CASE ~ Request[j].start
    BY <2>4, <2>6, <2>8, <2>11 DEF p
  <2> QED BY <2>10, <2>11 DEF p
<1> QED BY <1>1, SpecAccounted, NeverSentTwice, PTL

LEMMA StepVersions ==
    ASSUME Typed, Accounted, [Next]_vars, NEW j \in Job, rows'[j] # rows[j]
    PROVE  /\ rows'[j].version > rows[j].version
           /\ rows[j].state \notin Terminal \cup {"quarantined"}
<1>1. Documents /\ HeldOK
  BY DEF Typed, TypeOK, HeldOK
<1>2. CASE \E w \in Worker, i \in Intent : BeginEffect(w, i)
  <2>1. PICK w \in Worker, i \in Intent : BeginEffect(w, i)
    BY <1>2
  <2>2. j = held[w].job
    BY <1>1, <2>1, BeginEffectMoves DEF HeldOK
  <2> QED BY <1>1, <2>1, <2>2, BeginEffectMoves DEF HeldOK, InProgress, Terminal
<1>3. CASE ~ \E w \in Worker, i \in Intent : BeginEffect(w, i)
  <2>1. rows'[j].version > rows[j].version
    BY <1>1, <1>3, StepMoves DEF Moved, Onward, Follows
  <2>2. CASE \E k \in Job : Reconcile(k)
    <3>1. PICK k \in Job : Reconcile(k)
      BY <2>2
    <3>2. k = j /\ rows[j].state = "reconciliation_required"
      BY <3>1, ReconcileEnds
    <3> QED BY <2>1, <3>2 DEF Terminal
  <2>3. CASE ~ \E k \in Job : Reconcile(k)
    BY <1>3, <2>1, <2>3, StepHonest DEF HonestTable, Honest
  <2> QED BY <2>2, <2>3
<1> QED BY <1>2, <1>3

\* Every change of a document is a new version, so a lease or an answer cut
\* for an older one is refused, and a finished document never changes.
THEOREM ChangesAreVersions == Spec => EveryChangeIsNewVersion
<1>1. /\ Typed /\ Once /\ Accounted /\ (Typed /\ Once /\ Accounted)' /\ [Next]_vars
      => [\A j \in Job : rows'[j] # rows[j] =>
            /\ rows'[j].version > rows[j].version
            /\ rows[j].state \notin Terminal \cup {"quarantined"}]_vars
  BY StepVersions
<1> QED BY <1>1, SpecAccounted, PTL DEF Spec, EveryChangeIsNewVersion

\* The effect list stays within its limit.
EffectsBounded ==
    \A j \in Job : /\ IsFiniteSet(Admitted(rows[j]))
                   /\ Cardinality(Admitted(rows[j])) <= MaxEffects

LEMMA StepBounded ==
    ASSUME Typed, EffectsBounded, [Next]_vars
    PROVE  EffectsBounded'
<1>1. Documents /\ HeldOK
  BY DEF Typed, TypeOK, HeldOK
<1>2. ASSUME NEW w \in Worker, NEW i \in Intent, BeginEffect(w, i),
             NEW k \in Job
      PROVE  /\ IsFiniteSet(Admitted(rows'[k]))
             /\ Cardinality(Admitted(rows'[k])) <= MaxEffects
  <2>1. LET j == held[w].job IN
        /\ CanAdmit(j, rows[j], i)
        /\ Admitted(rows'[j]) = Admitted(rows[j]) \cup {i}
        /\ \A h \in Job \ {j} : rows'[h] = rows[h]
    BY <1>1, <1>2, BeginEffectMoves DEF HeldOK
  <2> DEFINE A == Admitted(rows[k])
  <2>2. IsFiniteSet(A) /\ Cardinality(A) <= MaxEffects
    BY DEF EffectsBounded
  <2>3. CASE k # held[w].job
    BY <2>1, <2>2, <2>3
  <2>4. CASE k = held[w].job
    <3>1. /\ Admitted(rows'[k]) = A \cup {i} /\ i \notin A
          /\ Cardinality(A) < MaxEffects
      BY <2>1, <2>4 DEF CanAdmit
    <3> HIDE DEF A
    <3>2. /\ IsFiniteSet(A \cup {i}) /\ Cardinality(A \cup {i}) = Cardinality(A) + 1
          /\ Cardinality(A) \in Nat
      BY <2>2, <3>1, FS_AddElement, FS_CardinalityType
    <3> QED BY <3>1, <3>2, RecordAssumption
  <2> QED BY <2>3, <2>4
<1>3. CASE ~ \E w \in Worker, i \in Intent : BeginEffect(w, i)
  <2>1. \A j \in Job : Admitted(rows'[j]) = Admitted(rows[j])
    BY <1>1, <1>3, StepMoves DEF Moved, Onward, Follows
  <2> QED BY <2>1 DEF EffectsBounded
<1> QED BY <1>2, <1>3 DEF EffectsBounded

\* Whatever the engine stores, the next open accepts: leases and worker names
\* belong to attempts in progress, attempts are counted, effects bounded.
THEOREM StoredRowsAlwaysReopen == Spec => []StoredRowsReopen
<1>1. Init => EffectsBounded
  <2> SUFFICES ASSUME Init PROVE EffectsBounded
    OBVIOUS
  <2>1. \A j \in Job : Admitted(rows[j]) = {}
    BY DEF Init, NoRow, Admitted
  <2>2. IsFiniteSet({}) /\ Cardinality({}) = 0 /\ MaxEffects \in Nat
    BY FS_EmptySet, RecordAssumption
  <2>3. \A j \in Job : /\ IsFiniteSet(Admitted(rows[j]))
                       /\ Cardinality(Admitted(rows[j])) = 0
    BY <2>1, <2>2
  <2> QED BY <2>2, <2>3, SMT DEF EffectsBounded
<1>2. Typed /\ EffectsBounded => StoredRowsReopen
  BY DEF Typed, Documents, WellFormed, Attended, Counted, EffectsBounded,
         StoredRowsReopen
<1> QED BY <1>1, <1>2, StepBounded, SpecTyped, PTL DEF Spec

-----------------------------------------------------------------------------
(* The step simulation.                                                      *)

\* The state of the promise that a state of the engine stands for.
Granted == [j \in Job |-> Admitted(rows[j])]
Verdicts == [j \in Job |-> Verdict(j)]

LEMMA VerdictType ==
    ASSUME NEW j \in Job, rows[j] \in Record
    PROVE  Verdict(j) \in Promise!Verdict
<1>1. rows[j].state \in State
  BY DEF Record
<1> QED BY <1>1, SMT DEF Verdict, Promise!Verdict, State

\* Judging one job by a step that leaves its effects alone.
LEMMA HonestVerdict ==
    ASSUME Typed, Typed', Once', Accounted, Accounted', Asked, NEW j \in Job,
           Honest(j, rows[j], rows'[j]), Admitted(rows'[j]) = Admitted(rows[j])
    PROVE  \/ Verdict(j)' = Verdict(j)
           \/ Verdict(j) = "open" /\ Verdict(j)' = "unknown"
           \/ Verdict(j) = "open" /\ Verdict(j)' = "untouched" /\ Admitted(rows[j]) = {}
           \/ /\ Verdict(j) = "open" /\ Verdict(j)' = "proven"
              /\ Admitted(rows[j]) = {i \in Intent : performed'[j][i] > 0}
<1> USE DEF Verdict
<1>0. /\ rows[j].state \in State /\ rows'[j].state \in State
      /\ reconciled \subseteq reconciled'
      /\ j \in reconciled' \ reconciled => rows[j].state = "reconciliation_required"
  BY DEF Typed, TypeOK, Record, Asked
<1>1. CASE rows'[j] = rows[j]
  BY <1>0, <1>1, SMT DEF State, InProgress, Terminal
<1>2. CASE rows'[j] # rows[j]
  <2>1. /\ rows[j].state \notin Terminal \cup {"quarantined"}
        /\ rows[j].state = "reconciliation_required" =>
              rows'[j].state = "reconciliation_required"
    BY <1>2 DEF Honest
  <2>2. CASE rows[j].state = "reconciliation_required"
    BY <2>1, <2>2 DEF InProgress, Terminal
  <2>3. CASE rows[j].state # "reconciliation_required"
    <3>1. Verdict(j) = "open"
      BY <1>0, <2>1, <2>3, SMT DEF State, InProgress, Terminal
    <3>2. CASE rows'[j].state \notin Terminal
      BY <1>0, <3>1, <3>2, SMT DEF State, InProgress, Terminal
    <3>3. CASE rows'[j].state \in Terminal
      <4>1. j \notin reconciled'
        BY <1>0, <2>1, <2>3 DEF Accounted, DecisionsStand
      <4>2. Verdict(j)' = IF Admitted(rows'[j]) = {} THEN "untouched" ELSE "proven"
        BY <3>3, <4>1, SMT DEF InProgress, Terminal
      <4>3. Admitted(rows'[j]) = {i \in Intent : performed'[j][i] > 0}
        BY <3>3, <4>1
           DEF Accounted, UndecidedProven, AllConfirmed, Once, EffectsOnRecord, Admitted
      <4> QED BY <3>1, <4>2, <4>3
    <3> QED BY <3>2, <3>3
  <2> QED BY <2>2, <2>3
<1> QED BY <1>1, <1>2

LEMMA JudgeStep ==
    ASSUME Typed, Typed', Once', Accounted, Accounted', UNCHANGED performed,
           \A j \in Job : Admitted(rows'[j]) = Admitted(rows[j]),
           \A j \in Job :
              \/ Verdict(j)' = Verdict(j)
              \/ Verdict(j) = "open" /\ Verdict(j)' = "unknown"
              \/ /\ Verdict(j) = "open" /\ Verdict(j)' = "untouched"
                 /\ Admitted(rows[j]) = {}
              \/ /\ Verdict(j) = "open" /\ Verdict(j)' = "proven"
                 /\ Admitted(rows[j]) = {i \in Intent : performed[j][i] > 0}
              \/ Verdict(j) = "unknown" /\ Verdict(j)' = "decided"
    PROVE  Promise!Judge
<1>1. \A j \in Job : Verdict(j)' \in Promise!Verdict
  <2>1. \A j \in Job : rows'[j] \in Record
    BY DEF Typed, TypeOK
  <2>2. \A j \in Job : rows'[j].state \in State
    BY <2>1 DEF Record
  <2> QED BY <2>2, SMT DEF Verdict, Promise!Verdict, State
<1>2. Verdicts' \in [Job -> Promise!Verdict]
  BY <1>1 DEF Verdicts
<1>3. \A j \in Job : Verdicts'[j] = Verdicts[j] \/ Promise!MayBecome(j, Verdicts'[j])
  BY DEF Verdicts, Promise!MayBecome, Promise!Happened
<1>4. Granted' = Granted
  BY DEF Granted
<1> QED BY <1>2, <1>3, <1>4 DEF Promise!Judge, Verdicts, Granted

LEMMA HonestJudges ==
    ASSUME Typed, Typed', Once', Accounted, Accounted', HonestTable, Asked, Moved,
           UNCHANGED performed
    PROVE  Promise!Judge
<1>1. \A j \in Job : Admitted(rows'[j]) = Admitted(rows[j])
  BY DEF Moved, Onward, Follows
<1>2. \A j \in Job : Honest(j, rows[j], rows'[j])
  BY DEF HonestTable
<1> QED BY <1>1, <1>2, HonestVerdict, JudgeStep

LEMMA ReconcileJudges ==
    ASSUME Typed, Typed', Once', Accounted, Accounted', NEW j \in Job, Reconcile(j)
    PROVE  Promise!Judge
<1>1. /\ rows[j].state = "reconciliation_required"
      /\ rows'[j].state \in Terminal
      /\ Admitted(rows'[j]) = Admitted(rows[j])
      /\ \A k \in Job \ {j} : rows'[k] = rows[k]
      /\ reconciled' = reconciled \cup {j}
      /\ UNCHANGED performed
  BY ReconcileEnds
<1>2. Verdict(j) = "unknown" /\ Verdict(j)' = "decided"
  BY <1>1, SMT DEF Verdict, InProgress, Terminal
<1>3. \A k \in Job \ {j} : Verdict(k)' = Verdict(k)
  BY <1>1 DEF Verdict
<1>4. \A k \in Job : Admitted(rows'[k]) = Admitted(rows[k])
  BY <1>1
<1> QED BY <1>1, <1>2, <1>3, <1>4, JudgeStep

LEMMA BeginEffectGrants ==
    ASSUME Typed, Typed', Once', Accounted, NEW w \in Worker, NEW i \in Intent,
           BeginEffect(w, i)
    PROVE  \E j \in Job : Promise!Grant(j, i)
<1> PICK j \in Job : j = held[w].job
  BY BeginEffectMoves DEF Typed, TypeOK
<1> DEFINE b == EffectBegun(rows[j], i)
<1>1. /\ CanAdmit(j, rows[j], i) /\ rows[j].state \in InProgress
      /\ Admitted(rows'[j]) = Admitted(rows[j]) \cup {i}
      /\ \A k \in Job \ {j} : rows'[k] = rows[k]
  BY BeginEffectMoves DEF Typed, TypeOK
<1>2. rows'[j] = b /\ UNCHANGED <<reconciled, performed>>
  BY <1>1 DEF BeginEffect, Advance, Put, Typed, TypeOK
<1>3. rows[j] \in Record /\ Regular(j, rows[j])
  BY <1>1 DEF Typed, TypeOK, Accounted, RegularDocuments
<1>4. b.state = "effect_admitted"
  BY <1>3, EffectBegunKept
<1> HIDE DEF b
<1>5. Verdict(j) = "open" /\ Verdict(j)' = "open"
  BY <1>1, <1>2, <1>4, SMT DEF Verdict, InProgress, Terminal
<1>6. \A k \in Job : Verdict(k)' = Verdict(k)
  <2>1. ASSUME NEW k \in Job, k # j PROVE Verdict(k)' = Verdict(k)
    BY <1>1, <1>2, <2>1 DEF Verdict
  <2> QED BY <1>5, <2>1
<1>7. Verdicts' = Verdicts
  BY <1>6 DEF Verdicts
<1>8. Granted' = [Granted EXCEPT ![j] = @ \cup {i}]
  BY <1>1 DEF Granted
<1>9. i \notin Admitted(rows[j])
  BY <1>1 DEF CanAdmit
<1>10. ASSUME NEW p \in Printer, i \in {UploadAndStartOn(p), StartOn(p)}
       PROVE  {UploadAndStartOn(p), StartOn(p)} \cap Admitted(rows[j]) = {}
  <2>1. ~ {UploadAndStartOn(p), StartOn(p)} \subseteq Admitted(rows'[j])
    BY <1>1 DEF Once, OneWayToStart
  <2> QED BY <1>1, <1>9, <1>10, <2>1
<1>11. Verdicts[j] = "open" /\ Granted[j] = Admitted(rows[j])
  BY <1>1, <1>5 DEF Verdicts, Granted
<1>12. Promise!Grant(j, i)
  BY <1>2, <1>7, <1>8, <1>9, <1>10, <1>11 DEF Promise!Grant, Verdicts, Granted
<1> QED BY <1>1, <1>12

LEMMA PerformActs ==
    ASSUME Typed, Once, NEW w \in Worker, Perform(w)
    PROVE  \E j \in Job, i \in Intent : Promise!Act(j, i)
<1> DEFINE j == held[w].job
           i == held[w].todo
<1>1. j \in Job /\ i \in Intent /\ i \in Admitted(rows[j]) /\ performed[j][i] = 0
  BY DEF Perform, Typed, TypeOK, Lease, NoLease, Once, ErrandsAreNew
<1>2. /\ performed' = [performed EXCEPT ![j][i] = @ + 1]
      /\ UNCHANGED <<rows, reconciled>>
  BY DEF Perform, dbvars
<1> HIDE DEF j, i
<1>3. performed' = [performed EXCEPT ![j][i] = 1]
  BY <1>1, <1>2 DEF Typed, TypeOK
<1>4. Granted' = Granted /\ Verdicts' = Verdicts
  BY <1>2 DEF Granted, Verdicts, Verdict
<1>5. Granted[j] = Admitted(rows[j])
  BY <1>1 DEF Granted
<1>6. Promise!Act(j, i)
  BY <1>1, <1>3, <1>4, <1>5 DEF Promise!Act, Granted, Verdicts
<1> QED BY <1>1, <1>6

\* The engine keeps the promise: whatever leases, sweeps, refusals, restarts
\* and lost replies do, effects are granted to open jobs only, happen at most
\* once, and a job's verdict goes no further than its receipts or its user.
THEOREM PromiseKept == Spec => KeepsPromise
<1>1. Init => Promise!Init
  <2> SUFFICES ASSUME Init PROVE Promise!Init
    OBVIOUS
  <2>1. \A j \in Job : Admitted(rows[j]) = {} /\ Verdict(j) = "open"
    <3>1. \A j \in Job : rows[j].state = "absent" /\ Admitted(rows[j]) = {}
      BY DEF Init, NoRow, Admitted
    <3> QED BY <3>1, SMT DEF Verdict, InProgress, Terminal
  <2> QED BY <2>1 DEF Init, Promise!Init
<1>2. /\ Typed /\ Once /\ Accounted /\ (Typed /\ Once /\ Accounted)'
      /\ [Next]_vars
      => [Promise!Next]_Promise!vars
  <2> SUFFICES ASSUME Typed, Once, Accounted, Typed', Once', Accounted', [Next]_vars
               PROVE  Promise!Next
    OBVIOUS
  <2>1. CASE \E w \in Worker, i \in Intent : BeginEffect(w, i)
    BY <2>1, BeginEffectGrants DEF Promise!Next
  <2>2. CASE \E w \in Worker : Perform(w)
    BY <2>2, PerformActs DEF Promise!Next
  <2>3. CASE \E j \in Job : Reconcile(j)
    BY <2>3, ReconcileJudges DEF Promise!Next
  <2>4. CASE /\ ~ \E w \in Worker, i \in Intent : BeginEffect(w, i)
             /\ ~ \E w \in Worker : Perform(w)
             /\ ~ \E j \in Job : Reconcile(j)
    <3>1. HonestTable /\ Asked /\ UNCHANGED performed
      BY <2>4, StepHonest, StepReceipts
    <3>2. Moved
      BY <2>4, StepMoves DEF Typed, TypeOK, HeldOK
    <3> QED BY <3>1, <3>2, HonestJudges DEF Promise!Next
  <2> QED BY <2>1, <2>2, <2>3, <2>4
<1> QED BY <1>1, <1>2, SpecAccounted, PTL DEF Spec, Promise!Spec, KeepsPromise

-----------------------------------------------------------------------------
(* The documents of jobs that hold nothing yet.                              *)

LEMMA QueuedGivesUp ==
    ASSUME NEW j \in Job, NEW r \in Record, Regular(j, r), r.state = "queued"
    PROVE  /\ CancelRequested(j, r).state \in {"queued", "cancelled"}
           /\ Refused(r, FALSE).state = "failed"
           /\ Saved([r EXCEPT !.state = "failed"]).state = "failed"
<1>1. Admitted(r) = {}
  BY DEF Regular
<1>2. CancelRequested(j, r).state \in {"queued", "cancelled"}
  <2> DEFINE asked == [r EXCEPT !.cancel = "requested"]
             state == CASE Request[j].kind = "import" -> "queued"
                        [] Request[j].kind # "import" /\ Admitted(r) = {} -> "cancelled"
                        [] OTHER -> "reconciliation_required"
  <2>1. asked \in Record
    BY Zenon DEF Record
  <2>2. state \in {"queued", "cancelled"} /\ state \in State
    BY <1>1 DEF State, Terminal
  <2>3. CancelRequested(j, r) = Saved(Fenced(asked, state))
    BY DEF CancelRequested
  <2> HIDE DEF asked, state
  <2> QED BY <2>1, <2>2, <2>3, UnleasedKept, SavedKept
<1>3. Refused(r, FALSE).state = "failed"
  <2> DEFINE f == Fenced(r, "failed")
             d == [f EXCEPT !.refusal = "observed"]
  <2>1. f \in Record /\ f.state = "failed"
    BY UnleasedKept DEF State, Terminal
  <2>2. Refused(r, FALSE) = Saved(d)
    BY <1>1 DEF Refused
  <2> HIDE DEF f
  <2>3. d \in Record
    BY <2>1, Zenon DEF Record
  <2>4. d.state = "failed"
    BY <2>1, SMT DEF Record
  <2> HIDE DEF d
  <2> QED BY <2>2, <2>3, <2>4, SavedKept
<1>4. Saved([r EXCEPT !.state = "failed"]).state = "failed"
  <2> DEFINE d == [r EXCEPT !.state = "failed"]
  <2>1. d \in Record /\ d.state = "failed"
    BY StatedKept DEF State, Terminal
  <2> HIDE DEF d
  <2>2. Saved(d).state = "failed"
    BY <2>1, SavedKept
  <2> QED BY <2>2 DEF d
<1> QED BY <1>2, <1>3, <1>4

-----------------------------------------------------------------------------
(* What a step may do to a row.                                              *)

\* The row keeps what it reserves at most, or gives up what it waited for.
Yields(j) ==
    \/ rows'[j] = rows[j]
    \/ rows[j].state \in Reserving
    \/ rows[j].state = "queued" /\ rows'[j].state \in {"queued", "cancelled", "failed"}

LEMMA PutTouches ==
    ASSUME Typed, NEW k \in Job, NEW r, Put(k, r)
    PROVE  rows'[k] = r /\ \A j \in Job \ {k} : rows'[j] = rows[j]
BY DEF Put, Typed, TypeOK

LEMMA UserYields ==
    ASSUME Typed, Accounted, NEW k \in Job,
           Cancel(k) \/ Reconcile(k) \/ Abandon(k)
    PROVE  \A j \in Job : Yields(j)
<1>1. rows[k] \in Record /\ Regular(k, rows[k])
  BY DEF Typed, TypeOK, Accounted, RegularDocuments
<1>2. CASE Cancel(k)
  <2>1. /\ rows[k].state \notin Terminal \cup {"absent", "quarantined"}
        /\ Put(k, CancelRequested(k, rows[k]))
    BY <1>2 DEF Cancel
  <2>2. rows[k].state \in Reserving \cup {"queued"}
    BY <1>1, <2>1, SMT DEF Record, State, Terminal, Reserving, InProgress
  <2>3. rows[k].state = "queued" =>
           CancelRequested(k, rows[k]).state \in {"queued", "cancelled"}
    BY <1>1, QueuedGivesUp
  <2>4. /\ rows'[k] = CancelRequested(k, rows[k])
        /\ \A j \in Job \ {k} : rows'[j] = rows[j]
    BY <2>1, PutTouches
  <2> QED BY <2>2, <2>3, <2>4 DEF Yields
<1>3. CASE Reconcile(k) \/ Abandon(k)
  <2>1. rows[k].state = "reconciliation_required" /\ \E r : Put(k, r)
    BY <1>3 DEF Reconcile, Abandon
  <2> QED BY <2>1, PutTouches DEF Yields, Reserving
<1> QED BY <1>2, <1>3

LEMMA WorkerYields ==
    ASSUME Typed, NEW w \in Worker,
           \/ \E i \in Intent : BeginEffect(w, i)
           \/ Heartbeat(w) \/ ConfirmEffect(w) \/ Finish(w)
           \/ Fail(w) \/ RefuseAdvance(w)
    PROVE  \A j \in Job : Yields(j)
<1>1. HoldsClaim(w) /\ \E r : Put(held[w].job, r)
  BY Zenon DEF BeginEffect, Heartbeat, ConfirmEffect, Finish, Fail, RefuseAdvance, Advance
<1>2. held[w].job \in Job /\ rows[held[w].job].state \in InProgress
  BY <1>1, ClaimHeld DEF Typed, TypeOK
<1> QED BY <1>1, <1>2, PutTouches DEF Yields, Reserving

LEMMA RecoverReserves ==
    ASSUME NEW lost \in SUBSET Active(rows), NEW oversized, NEW j \in Job
    PROVE  \/ Recover(rows, lost, oversized)[j] = rows[j]
           \/ rows[j].state \in Reserving
BY DEF Recover, Active, Rows, Reserving

LEMMA OtherStepYields ==
    ASSUME Typed, Accounted, [Next]_vars,
           ~ \E j \in Job : Enqueue(j),
           ~ \E w \in Worker, c \in Job \cup {NoJob} : Claim(w, c)
    PROVE  \A j \in Job : Yields(j)
<1>1. ASSUME UNCHANGED rows PROVE \A j \in Job : Yields(j)
  BY <1>1 DEF Yields
<1>2. CASE User
  BY <1>2, UserYields DEF User
<1>3. CASE Retain \/ (\E j \in Job : Expire(j)) \/ UNCHANGED vars
  BY <1>1, <1>3 DEF Retain, Expire, vars
<1>4. CASE Restart
  <2>1. PICK oversized : rows' = Recover(rows, Active(rows), oversized)
    BY <1>4 DEF Restart
  <2> QED BY <2>1, RecoverReserves DEF Yields
<1>5. ASSUME NEW w \in Worker, WorkerStep(w) PROVE \A j \in Job : Yields(j)
  <2>1. CASE Perform(w) \/ Drop(w)
    BY <1>1, <2>1 DEF Perform, Drop, dbvars
  <2> QED BY <1>5, <2>1, WorkerYields DEF WorkerStep
<1> QED BY <1>2, <1>3, <1>4, <1>5 DEF Next

\* A claim reads the table db it has swept: whatever reserves something after
\* it, but for the claimed job, did so in db and before.
LEMMA ClaimReserves ==
    ASSUME Typed, Accounted, NEW w \in Worker, NEW c \in Job \cup {NoJob}, Claim(w, c)
    PROVE  \E db \in [Job -> Record] :
              /\ c \in Job => Claimable(db, c)
              /\ \A j \in Job : db[j].state \in Reserving => rows[j].state \in Reserving
              /\ \A j \in Job \ {c} : rows'[j].state \in Reserving =>
                                         db[j].state \in Reserving
              /\ \A j \in Job : rows'[j] # rows[j] =>
                                   rows[j].state \in Reserving \cup {"queued"}
<1> PICK oversized \in SUBSET LeaseLost, refused \in SUBSET Job, gone \in SUBSET Job :
      LET swept  == Recover(rows, LeaseLost, oversized)
          passed == Dropped(swept, refused, gone)
      IN
      /\ \A j \in refused \cup gone : Claimable(swept, j)
      /\ \/ c = NoJob /\ rows' = passed
         \/ /\ c \in Job \ (refused \cup gone) /\ Claimable(swept, c)
            /\ rows' = [passed EXCEPT ![c] = Claimed(@, w)]
  BY ZenonT(60) DEF Claim
<1> DEFINE swept  == Recover(rows, LeaseLost, oversized)
           passed == Dropped(swept, refused, gone)
<1>1. /\ \A j \in refused \cup gone : swept[j].state = "queued"
      /\ c \in Job => Claimable(swept, c) /\ swept[c].state = "queued"
      /\ \A j \in Job \ {c} : rows'[j] = passed[j]
      /\ c \in Job \/ (\A j \in Job : rows'[j] = passed[j])
  BY RecordAssumption DEF Claimable, Dropped
<1>2. LeaseLost \in SUBSET Active(rows)
  BY DEF LeaseLost
<1>3. \A j \in Job : swept[j] = rows[j] \/ rows[j].state \in Reserving
  BY <1>2, RecoverReserves
<1>4. swept \in [Job -> Record] /\ \A j \in Job : Regular(j, swept[j])
  BY <1>2, RecoverHonest, RecoverMoves
     DEF Typed, Honest, Accounted, RegularDocuments
<1> HIDE DEF swept
<1>5. ASSUME NEW j \in Job
      PROVE  \/ passed[j] = swept[j]
             \/ swept[j].state = "queued" /\ passed[j].state = "failed"
  <2>1. \/ passed[j] = swept[j]
        \/ j \in refused /\ passed[j] = Refused(swept[j], FALSE)
        \/ j \in gone /\ passed[j] = Saved([swept[j] EXCEPT !.state = "failed"])
    BY DEF Dropped
  <2>2. /\ swept[j] \in Record /\ Regular(j, swept[j])
        /\ j \in refused \cup gone => swept[j].state = "queued"
    BY <1>1, <1>4
  <2> HIDE DEF passed
  <2>3. CASE j \in refused \cup gone
    <3>1. /\ Refused(swept[j], FALSE).state = "failed"
          /\ Saved([swept[j] EXCEPT !.state = "failed"]).state = "failed"
      BY <2>2, <2>3, QueuedGivesUp
    <3> QED BY <2>1, <2>2, <2>3, <3>1
  <2> QED BY <2>1, <2>3
<1> HIDE DEF passed
<1>6. \A j \in Job : swept[j].state \in Reserving => rows[j].state \in Reserving
  BY <1>3
<1>7. \A j \in Job \ {c} : rows'[j].state \in Reserving => swept[j].state \in Reserving
  BY <1>1, <1>5 DEF Reserving, InProgress
<1>8. \A j \in Job : rows'[j] # rows[j] => rows[j].state \in Reserving \cup {"queued"}
  <2> TAKE j \in Job
  <2>1. CASE j = c
    BY <1>1, <1>3, <2>1
  <2>2. CASE j # c
    BY <1>1, <1>3, <1>5, <2>2
  <2> QED BY <2>1, <2>2
<1> QED BY <1>1, <1>4, <1>6, <1>7, <1>8

-----------------------------------------------------------------------------
(* The limit of each printer and source.                                     *)

Holders(x) == {j \in Job : rows[j].state \in Reserving /\ x \in Resource(j)}

\* A cardinality means something for finite sets only, so the limit comes
\* with the finiteness of the rows that count.
WithinLimit ==
    /\ IsFiniteSet(Rows(rows, Reserving))
    /\ \A x \in Printer \cup Source : Cardinality(Holders(x)) <= PerResource

LEMMA HoldersType ==
    ASSUME WithinLimit, NEW x
    PROVE  IsFiniteSet(Holders(x)) /\ Cardinality(Holders(x)) \in Nat
<1>1. Holders(x) \subseteq Rows(rows, Reserving)
  BY DEF Holders, Rows
<1>2. IsFiniteSet(Holders(x))
  BY <1>1, FS_Subset DEF WithinLimit
<1> QED BY <1>2, FS_CardinalityType

\* A step that lets no row reserve anew keeps the limit.
LEMMA FewerReserve ==
    ASSUME WithinLimit, Rows(rows, Reserving)' \subseteq Rows(rows, Reserving)
    PROVE  WithinLimit'
<1>1. IsFiniteSet(Rows(rows, Reserving)')
  BY FS_Subset DEF WithinLimit
<1>2. ASSUME NEW x \in Printer \cup Source
      PROVE  Cardinality(Holders(x)') <= PerResource
  <2>1. Holders(x)' \subseteq Holders(x)
    BY DEF Holders, Rows
  <2>2. /\ Cardinality(Holders(x)') <= Cardinality(Holders(x))
        /\ Cardinality(Holders(x)') \in Nat /\ Cardinality(Holders(x)) \in Nat
    BY <2>1, HoldersType, FS_Subset, FS_CardinalityType
  <2>3. Cardinality(Holders(x)) <= PerResource
    BY DEF WithinLimit
  <2> QED BY <2>2, <2>3, AdmissionAssumption
<1> QED BY <1>1, <1>2 DEF WithinLimit

\* The claimed job's resources had room when the claim read the table.
LEMMA ClaimWithinLimit ==
    ASSUME Typed, Accounted, WithinLimit,
           NEW w \in Worker, NEW c \in Job \cup {NoJob}, Claim(w, c)
    PROVE  WithinLimit'
<1> PICK db \in [Job -> Record] :
      /\ c \in Job => Claimable(db, c)
      /\ \A j \in Job : db[j].state \in Reserving => rows[j].state \in Reserving
      /\ \A j \in Job \ {c} : rows'[j].state \in Reserving => db[j].state \in Reserving
  BY ClaimReserves
<1>1. CASE c \notin Job
  BY <1>1, FewerReserve DEF Rows
<1>2. CASE c \in Job
  <2> DEFINE B == Rows(rows, Reserving)
             D == Rows(db, Reserving)
             A == Rows(rows, Reserving)'
  <2>1. IsFiniteSet(B) /\ D \subseteq B /\ A \subseteq D \cup {c}
    BY <1>2 DEF Rows, WithinLimit
  <2> HIDE DEF A, B, D
  <2>2. IsFiniteSet(D) /\ IsFiniteSet(D \cup {c}) /\ IsFiniteSet(A)
    BY <2>1, FS_Subset, FS_AddElement
  <2>3. ASSUME NEW x \in Printer \cup Source
        PROVE  Cardinality(Holders(x)') <= PerResource
    <3> DEFINE R == {j \in D : x \in Resource(j)}
               H == Holders(x)
               G == Holders(x)'
    <3>1. R \subseteq D /\ R \subseteq H
      BY <2>1 DEF Holders, Rows, B, D
    <3>2. /\ IsFiniteSet(R) /\ IsFiniteSet(H)
          /\ Cardinality(R) \in Nat /\ Cardinality(H) \in Nat
          /\ Cardinality(R) <= Cardinality(H) /\ Cardinality(H) <= PerResource
      BY <2>2, <3>1, HoldersType, FS_Subset, FS_CardinalityType DEF WithinLimit
    <3>3. CASE x \notin Resource(c)
      <4>1. G \subseteq R
        BY <2>1, <3>3 DEF Holders, Rows, A, D
      <4> HIDE DEF G, H, R
      <4>2. Cardinality(G) \in Nat /\ Cardinality(G) <= Cardinality(R)
        BY <3>2, <4>1, FS_Subset, FS_CardinalityType
      <4>3. Cardinality(G) <= PerResource
        BY <3>2, <4>2, AdmissionAssumption
      <4> QED BY <4>3 DEF G
    <3>4. CASE x \in Resource(c)
      <4> DEFINE O == Overlapping(db, c, Reserving)
      <4>1. Cardinality(O) < PerResource /\ db[c].state = "queued"
        BY <1>2, <3>4 DEF Claimable
      <4>2. R \subseteq O /\ O \subseteq D /\ c \notin R /\ G \subseteq R \cup {c}
        BY <2>1, <3>4, <4>1
           DEF Overlapping, Holders, Rows, A, D, Reserving, InProgress
      <4> HIDE DEF G, H, R, O
      <4>3. /\ IsFiniteSet(O) /\ Cardinality(O) \in Nat
            /\ Cardinality(R) <= Cardinality(O)
        BY <2>2, <4>2, FS_Subset, FS_CardinalityType
      <4>4. IsFiniteSet(R \cup {c}) /\ Cardinality(R \cup {c}) = Cardinality(R) + 1
        BY <3>2, <4>2, FS_AddElement
      <4>5. /\ Cardinality(G) \in Nat
            /\ Cardinality(G) <= Cardinality(R \cup {c})
        BY <4>2, <4>4, FS_Subset, FS_CardinalityType
      <4>6. Cardinality(G) <= PerResource
        BY <3>2, <4>1, <4>3, <4>4, <4>5, AdmissionAssumption
      <4> QED BY <4>6 DEF G
    <3> QED BY <3>3, <3>4
  <2>4. IsFiniteSet(Rows(rows, Reserving)')
    BY <2>2 DEF A
  <2> QED BY <2>3, <2>4 DEF WithinLimit
<1> QED BY <1>1, <1>2

LEMMA StepWithinLimit ==
    ASSUME Typed, Accounted, WithinLimit, [Next]_vars
    PROVE  WithinLimit'
<1>1. CASE \E w \in Worker, c \in Job \cup {NoJob} : Claim(w, c)
  BY <1>1, ClaimWithinLimit
<1>2. CASE \E k \in Job : Enqueue(k)
  <2>1. PICK k \in Job : rows[k].state = "absent" /\ Put(k, Enqueued(rows[k]))
    BY <1>2 DEF Enqueue
  <2>2. Enqueued(rows[k]).state = "queued"
    <3>1. rows[k] \in Record /\ "queued" \in State
      BY DEF Typed, TypeOK, State
    <3> QED BY <3>1, StatedKept, SavedKept DEF Enqueued
  <2>3. Rows(rows, Reserving)' \subseteq Rows(rows, Reserving)
    BY <2>1, <2>2, PutTouches DEF Rows, Reserving, InProgress
  <2> QED BY <2>3, FewerReserve
<1>3. CASE /\ ~ \E k \in Job : Enqueue(k)
           /\ ~ \E w \in Worker, c \in Job \cup {NoJob} : Claim(w, c)
  <2>1. \A j \in Job : Yields(j)
    BY <1>3, OtherStepYields
  <2>2. Rows(rows, Reserving)' \subseteq Rows(rows, Reserving)
    BY <2>1 DEF Rows, Yields, Reserving, InProgress
  <2> QED BY <2>2, FewerReserve
<1> QED BY <1>1, <1>2, <1>3

\* No printer and no source is ever reserved by more jobs than the admission
\* allows, counting the unresolved and quarantined ones that keep what they
\* had: only a claim reserves, and it counts the table it has just swept.
THEOREM LimitHolds == Spec => []ResourceLimit
<1>1. Init => WithinLimit
  <2> SUFFICES ASSUME Init PROVE WithinLimit
    OBVIOUS
  <2>1. \A j \in Job : rows[j].state = "absent"
    BY DEF Init, NoRow
  <2>2. Rows(rows, Reserving) = {} /\ \A x : Holders(x) = {}
    BY <2>1 DEF Rows, Holders, Reserving, InProgress
  <2> QED BY <2>2, FS_EmptySet, AdmissionAssumption DEF WithinLimit
<1>2. Typed /\ WithinLimit => ResourceLimit
  <2> SUFFICES ASSUME Typed, WithinLimit, NEW x \in Printer \cup Source
               PROVE  Cardinality({j \in Job :
                         /\ rows[j].state \notin {"absent", "queued"} \cup Terminal
                         /\ x \in Resource(j)}) <= PerResource
    BY DEF ResourceLimit
  <2>1. \A j \in Job : rows[j].state \in State
    BY DEF Typed, TypeOK, Record
  <2>2. Holders(x) = {j \in Job :
                        /\ rows[j].state \notin {"absent", "queued"} \cup Terminal
                        /\ x \in Resource(j)}
    BY <2>1 DEF Holders, State, Terminal, Reserving, InProgress
  <2> QED BY <2>2 DEF WithinLimit
<1>3. Typed /\ Accounted /\ WithinLimit /\ [Next]_vars => WithinLimit'
  BY StepWithinLimit
<1> QED BY <1>1, <1>2, <1>3, SpecAccounted, PTL DEF Spec

-----------------------------------------------------------------------------
(* One live start.                                                           *)

NotLive == {"absent", "failed", "cancelled"}

\* A start that is live after a step was live before, or it was enqueued.
LEMMA LiveBefore ==
    ASSUME Typed, Accounted, [Next]_vars, NEW s \in Job,
           rows'[s].state \notin NotLive, ~ Enqueue(s)
    PROVE  rows[s].state \notin NotLive
<1> SUFFICES ASSUME rows[s].state \in NotLive PROVE FALSE
  OBVIOUS
<1>1. rows'[s] # rows[s]
  OBVIOUS
<1>2. rows[s].state = "absent"
  BY <1>1, StepVersions DEF NotLive, Terminal
<1>3. CASE \E w \in Worker, c \in Job \cup {NoJob} : Claim(w, c)
  <2>1. rows[s].state \in Reserving \cup {"queued"}
    BY <1>1, <1>3, ClaimReserves
  <2> QED BY <1>2, <2>1 DEF Reserving, InProgress
<1>4. CASE \E k \in Job : Enqueue(k)
  <2>1. PICK k \in Job : Enqueue(k)
    BY <1>4
  <2>2. k = s
    BY <1>1, <2>1, PutTouches DEF Enqueue
  <2> QED BY <2>1, <2>2
<1>5. CASE /\ ~ \E k \in Job : Enqueue(k)
           /\ ~ \E w \in Worker, c \in Job \cup {NoJob} : Claim(w, c)
  <2>1. Yields(s)
    BY <1>5, OtherStepYields
  <2> QED BY <1>1, <1>2, <2>1 DEF Yields, Reserving, InProgress
<1> QED BY <1>3, <1>4, <1>5

\* Of one uploaded file at most one start is ever requested, running,
\* unresolved or done: an enqueue looks at every start of the parent, pruned
\* ones included, and an ended start never comes back.
THEOREM OneStartLives == Spec => []OneLiveStart
<1>1. Init => OneLiveStart
  <2> SUFFICES ASSUME Init PROVE OneLiveStart
    OBVIOUS
  <2>1. \A j \in Job : rows[j].state = "absent"
    BY DEF Init, NoRow
  <2> QED BY <2>1 DEF OneLiveStart
<1>2. ASSUME Typed, Accounted, OneLiveStart, [Next]_vars PROVE OneLiveStart'
  <2> SUFFICES ASSUME NEW s \in Job, NEW t \in Job,
                      Request[s].kind = "start", Request[t].kind = "start",
                      Request[s].parent = Request[t].parent,
                      rows'[s].state \notin NotLive, rows'[t].state \notin NotLive,
                      s # t
               PROVE  FALSE
    BY DEF OneLiveStart, NotLive
  <2>1. ASSUME NEW a \in {s, t}, NEW b \in {s, t}, a # b, Enqueue(a)
        PROVE  FALSE
    <3>1. LiveStarts(rows, Request[a].parent) = {}
      BY <2>1 DEF Enqueue
    <3>2. rows[b].state \in NotLive
      BY <2>1, <3>1 DEF LiveStarts, NotLive
    <3>3. Put(a, Enqueued(rows[a]))
      BY <2>1 DEF Enqueue
    <3>4. rows'[b] = rows[b]
      BY <1>2, <2>1, <3>3, PutTouches
    <3> QED BY <2>1, <3>2, <3>4
  <2>2. rows[s].state \notin NotLive /\ rows[t].state \notin NotLive
    BY <1>2, <2>1, LiveBefore
  <2> QED BY <1>2, <2>2 DEF OneLiveStart, NotLive
<1> QED BY <1>1, <1>2, SpecAccounted, PTL DEF Spec

-----------------------------------------------------------------------------
(* What a document tells the next attempt, or the user.                      *)

\* Which effects the kind of a job can have admitted, and in which order.
InOrder(j, r) ==
    LET p == Request[j].target IN
    /\ Request[j].kind = "start" => Admitted(r) \subseteq {StartOn(p)}
    /\ Request[j].kind = "upload" =>
          /\ \A i \in Admitted(r) :
                \/ i \in {UploadTo(p), UploadAndStartOn(p), StartOn(p)}
                \/ i.op = "spoolman_deduction"
          /\ StartOn(p) \in Admitted(r) => UploadTo(p) \in Admitted(r)

\* While a job can still change, only its last effect can be undecided.
LastOpen(r) ==
    r.state \in InProgress \cup {"reconciliation_required"} /\ Admitted(r) # {} =>
        /\ r.last \in Admitted(r)
        /\ \A i \in Admitted(r) \ {r.last} : r.effects[i] = "confirmed"

Legible(j, r) ==
    /\ InOrder(j, r)
    /\ LastOpen(r)
    /\ r.state # "quarantined" => ValidState(j, r)
    /\ r.state = "absent" => r.attempt = 0
    /\ r.state = "queued" => AttemptAllowed(j, r)

\* Document s of job j is over, or goes on where r was.
Later(j, r, s) ==
    \/ s = r
    \/ s.state \in Terminal \cup {"quarantined"}
    \/ /\ s.last = r.last
       /\ \A i \in Intent \ {r.last} : s.effects[i] = r.effects[i]
       /\ s.state = "queued" => AttemptAllowed(j, s)

LEMMA LaterTransitive ==
    ASSUME NEW j, NEW r, NEW s, NEW t, Later(j, r, s), Later(j, s, t),
           s.state \in Terminal \cup {"quarantined"} => t = s
    PROVE  Later(j, r, t)
BY DEF Later

LEMMA SavedKeepsAttempt ==
    ASSUME NEW r \in Record
    PROVE  /\ Saved(r).state = r.state /\ Saved(r).effects = r.effects
           /\ Saved(r).last = r.last /\ Saved(r).attempt = r.attempt
           /\ Saved(r).cancel = r.cancel
BY SMT DEF Saved, Record

LEMMA FencedKeepsAttempt ==
    ASSUME NEW r \in Record, NEW s \in State
    PROVE  \A u \in {Unleased(r, s), Fenced(r, s)} :
              /\ u \in Record /\ u.state = s /\ u.effects = r.effects
              /\ u.last = r.last /\ u.attempt = r.attempt /\ u.cancel = r.cancel
<1>1. Unleased(r, s) \in Record /\ Fenced(r, s) \in Record
  BY UnleasedKept
<1>2. Unleased(r, s).last = r.last /\ Unleased(r, s).cancel = r.cancel
  BY SMT DEF Unleased, Record
<1>3. Fenced(r, s).last = r.last /\ Fenced(r, s).cancel = r.cancel
  <2> DEFINE u == Unleased(r, s)
  <2>1. u \in Record /\ u.last = r.last /\ u.cancel = r.cancel
    BY <1>1, <1>2
  <2>2. Fenced(r, s) = [u EXCEPT !.generation = @ + 1]
    BY DEF Fenced
  <2> HIDE DEF u
  <2> QED BY <2>1, <2>2, SMT DEF Record
<1> QED BY <1>1, <1>2, <1>3, UnleasedKept

LEMMA EnqueuedLater ==
    ASSUME NEW j \in Job, NEW r \in Record, r.attempt = 0
    PROVE  Later(j, r, Enqueued(r))
<1> DEFINE d == [r EXCEPT !.state = "queued"]
<1>1. d \in Record
  BY Zenon DEF Record, State
<1>2. /\ d.state = "queued" /\ d.effects = r.effects /\ d.last = r.last
      /\ d.attempt = r.attempt
  BY SMT DEF Record
<1>3. Enqueued(r) = Saved(d)
  BY DEF Enqueued
<1> HIDE DEF d
<1>4. /\ Enqueued(r).effects = r.effects /\ Enqueued(r).last = r.last
      /\ Enqueued(r).attempt = 0
  BY <1>1, <1>2, <1>3, SavedKeepsAttempt
<1>5. AttemptAllowed(j, Enqueued(r))
  BY <1>4, RecordAssumption DEF AttemptAllowed
<1> QED BY <1>4, <1>5 DEF Later

LEMMA ClaimedLater ==
    ASSUME NEW j \in Job, NEW r \in Record, NEW w \in Worker
    PROVE  Later(j, r, Claimed(r, w))
<1> DEFINE d == [r EXCEPT !.state = "running", !.attempt = @ + 1,
                          !.generation = @ + 1, !.lease = "granted", !.worker = w]
<1>1. d \in Record
  BY Counters, Zenon DEF Record, State, InProgress
<1>2. d.effects = r.effects /\ d.last = r.last /\ d.state = "running"
  BY SMT DEF Record
<1>3. Claimed(r, w) = Saved(d)
  BY DEF Claimed
<1> HIDE DEF d
<1> QED BY <1>1, <1>2, <1>3, SavedKeepsAttempt DEF Later

LEMMA RecoveredLater ==
    ASSUME NEW j \in Job, NEW r \in Record
    PROVE  Later(j, r, Recovered(j, r)) /\ Later(j, r, Quarantined(r))
<1> DEFINE s == RecoveryState(j, r)
           f == Fenced(r, s)
<1>1. /\ s \in State
      /\ s = "queued" => AttemptAllowed(j, r)
  BY RecordAssumption DEF RecoveryState, State, Terminal, AttemptAllowed, Record
<1>2. Recovered(j, r) = Saved(f)
  BY DEF Recovered
<1> HIDE DEF s
<1>3. /\ f \in Record /\ f.state = s /\ f.effects = r.effects
      /\ f.last = r.last /\ f.attempt = r.attempt /\ f.cancel = r.cancel
  BY <1>1, FencedKeepsAttempt
<1> HIDE DEF f
<1>4. /\ Saved(f).state = s /\ Saved(f).effects = r.effects
      /\ Saved(f).last = r.last /\ Saved(f).attempt = r.attempt
      /\ Saved(f).cancel = r.cancel
  BY <1>3, SavedKeepsAttempt
<1>5. s = "queued" => AttemptAllowed(j, Saved(f))
  BY <1>1, <1>4 DEF AttemptAllowed, AwaitsOwnerCleanup
<1>6. Later(j, r, Recovered(j, r))
  BY <1>2, <1>4, <1>5 DEF Later
<1>7. Later(j, r, Quarantined(r))
  <2> DEFINE u == Unleased(r, "quarantined")
  <2>1. u \in Record /\ u.state = "quarantined"
    BY UnleasedKept DEF State
  <2>2. Quarantined(r) = [u EXCEPT !.version = @ + 1]
    BY DEF Quarantined
  <2> HIDE DEF u
  <2>3. Quarantined(r).state = "quarantined"
    BY <2>1, <2>2, SMT DEF Record
  <2> QED BY <2>3 DEF Later
<1> QED BY <1>6, <1>7

LEMMA RefusedLater ==
    ASSUME NEW j \in Job, NEW r \in Record, NEW receipt \in BOOLEAN,
           receipt => r.last \in Intent
    PROVE  Later(j, r, Refused(r, receipt))
<1> DEFINE seen  == IF receipt THEN [r EXCEPT !.effects[r.last] = "observed"] ELSE r
           state == IF Admitted(r) = {} THEN "failed" ELSE "reconciliation_required"
           f     == Fenced(seen, state)
           d     == [f EXCEPT !.refusal = "observed"]
<1>1. /\ seen \in Record /\ seen.last = r.last
      /\ \A i \in Intent \ {r.last} : seen.effects[i] = r.effects[i]
  <2>1. CASE ~receipt
    BY <2>1
  <2>2. CASE receipt
    <3>1. seen = Rewritten(r, r.last, "observed") /\ r.last \in Intent
      BY <2>2 DEF Rewritten
    <3> HIDE DEF seen
    <3>2. SameAttempt(r, seen) /\ seen.effects = [r.effects EXCEPT ![r.last] = "observed"]
      BY <3>1, EffectRewritten, LiveOutcomes, Zenon
    <3>3. r.effects \in [Intent -> Outcome]
      BY DEF Record
    <3> QED BY <3>2, <3>3 DEF SameAttempt
  <2> QED BY <2>1, <2>2
<1>2. state \in State /\ state # "queued"
  BY DEF State, Terminal
<1>3. Refused(r, receipt) = Saved(d)
  BY DEF Refused
<1> HIDE DEF seen, state
<1>4. f \in Record /\ f.state = state /\ f.effects = seen.effects /\ f.last = r.last
  BY <1>1, <1>2, FencedKeepsAttempt
<1> HIDE DEF f
<1>5. d \in Record /\ d.state = state /\ d.effects = seen.effects /\ d.last = r.last
  <2>1. d \in Record
    BY <1>4, Zenon DEF Record
  <2> QED BY <1>4, <2>1, SMT DEF Record
<1> HIDE DEF d
<1> QED BY <1>1, <1>2, <1>3, <1>5, SavedKeepsAttempt DEF Later

LEMMA CancelLater ==
    ASSUME NEW j \in Job, NEW r \in Record
    PROVE  Later(j, r, CancelRequested(j, r))
<1> DEFINE asked == [r EXCEPT !.cancel = "requested"]
           state == CASE Request[j].kind = "import" -> "queued"
                      [] Request[j].kind # "import" /\ Admitted(r) = {} -> "cancelled"
                      [] OTHER -> "reconciliation_required"
           f     == Fenced(asked, state)
<1>1. asked \in Record
  BY Zenon DEF Record
<1>2. /\ asked.effects = r.effects /\ asked.last = r.last
      /\ asked.cancel = "requested"
  BY SMT DEF Record
<1>3. /\ state \in State
      /\ state = "queued" => Request[j].kind = "import"
  BY DEF State, Terminal
<1>4. CancelRequested(j, r) = Saved(f)
  BY DEF CancelRequested
<1> HIDE DEF asked, state
<1>5. /\ f \in Record /\ f.state = state /\ f.effects = r.effects
      /\ f.last = r.last /\ f.cancel = "requested"
  BY <1>1, <1>2, <1>3, FencedKeepsAttempt
<1> HIDE DEF f
<1>6. /\ Saved(f).state = state /\ Saved(f).effects = r.effects
      /\ Saved(f).last = r.last /\ Saved(f).cancel = "requested"
  BY <1>5, SavedKeepsAttempt
<1> QED BY <1>3, <1>4, <1>6 DEF Later, AttemptAllowed, AwaitsOwnerCleanup

LEMMA EffectConfirmedLater ==
    ASSUME NEW j \in Job, NEW r \in Record, r.last \in Intent
    PROVE  Later(j, r, EffectConfirmed(r))
<1> DEFINE e == Rewritten(r, r.last, "confirmed")
           d == [e EXCEPT !.state = "running"]
<1>1. SameAttempt(r, e) /\ e.effects = [r.effects EXCEPT ![r.last] = "confirmed"]
  BY EffectRewritten, LiveOutcomes, Zenon
<1>2. EffectConfirmed(r) = Saved(d)
  BY DEF EffectConfirmed, Rewritten
<1> HIDE DEF e
<1>3. d \in Record
  BY <1>1, Zenon DEF Record, State, InProgress, SameAttempt
<1>4. d.state = "running" /\ d.effects = e.effects /\ d.last = r.last
  BY <1>1, SMT DEF Record, SameAttempt
<1> HIDE DEF d
<1>5. r.effects \in [Intent -> Outcome]
  BY DEF Record
<1> QED BY <1>1, <1>2, <1>3, <1>4, <1>5, SavedKeepsAttempt DEF Later

LEMMA FinishedLater ==
    ASSUME NEW j \in Job, NEW r \in Record, NEW res \in Intent \cup {NoIntent}
    PROVE  Later(j, r, Finished(r, res))
<1> DEFINE d == [r EXCEPT !.state = "succeeded", !.result = res]
<1>1. d \in Record
  BY Zenon DEF Record, State, Terminal
<1>2. d.state = "succeeded"
  BY SMT DEF Record
<1>3. Finished(r, res) = Saved(d)
  BY DEF Finished
<1> HIDE DEF d
<1> QED BY <1>1, <1>2, <1>3, SavedKeepsAttempt DEF Later, Terminal

LEMMA FailedLater ==
    ASSUME NEW j \in Job, NEW r \in Record
    PROVE  Later(j, r, Failed(r)) /\ Later(j, r, Saved([r EXCEPT !.state = "failed"]))
<1> DEFINE d == [r EXCEPT !.state = "failed"]
           u == Unleased(r, "reconciliation_required")
<1>1. d \in Record /\ d.state = "failed"
  BY StatedKept DEF State, Terminal
<1>2. /\ u \in Record /\ u.state = "reconciliation_required"
      /\ u.effects = r.effects /\ u.last = r.last
  BY FencedKeepsAttempt DEF State
<1>3. Failed(r) = IF Admitted(r) # {} THEN Saved(u) ELSE Saved(d)
  BY DEF Failed
<1> HIDE DEF d, u
<1>4. Later(j, r, Saved(d)) /\ Later(j, r, Saved(u))
  BY <1>1, <1>2, SavedKeepsAttempt DEF Later, Terminal
<1> QED BY <1>3, <1>4 DEF d

\* Heartbeat and Abandon.
LEMMA ResavedLater ==
    ASSUME NEW j \in Job, NEW r \in Record, r.state # "queued"
    PROVE  Later(j, r, Saved(r))
BY SavedKeepsAttempt DEF Later

-----------------------------------------------------------------------------
(* What every step but an admission does to the documents.                   *)

LaterTable == \A j \in Job : Later(j, rows[j], rows'[j])

LEMMA PutLater ==
    ASSUME Typed, NEW j \in Job, NEW r, Put(j, r), Later(j, rows[j], r)
    PROVE  LaterTable
BY PutTouches DEF LaterTable, Later

AllLegible == \A j \in Job : Legible(j, rows[j])

LEMMA UserLater ==
    ASSUME Typed, AllLegible, NEW k \in Job,
           Enqueue(k) \/ Cancel(k) \/ Reconcile(k) \/ Abandon(k)
    PROVE  LaterTable
<1>1. rows[k] \in Record /\ Legible(k, rows[k])
  BY DEF Typed, TypeOK, AllLegible
<1>2. CASE Enqueue(k)
  <2>1. rows[k].attempt = 0 /\ Put(k, Enqueued(rows[k]))
    BY <1>1, <1>2 DEF Enqueue, Legible
  <2> QED BY <1>1, <2>1, EnqueuedLater, PutLater
<1>3. CASE Cancel(k)
  <2>1. Put(k, CancelRequested(k, rows[k]))
    BY <1>3 DEF Cancel
  <2> QED BY <1>1, <2>1, CancelLater, PutLater
<1>4. CASE Reconcile(k)
  BY <1>4, ReconcileEnds DEF LaterTable, Later
<1>5. CASE Abandon(k)
  <2>1. rows[k].state # "queued" /\ Put(k, Saved(rows[k]))
    BY <1>5 DEF Abandon
  <2> QED BY <1>1, <2>1, ResavedLater, PutLater
<1> QED BY <1>2, <1>3, <1>4, <1>5

LEMMA RecoverLater ==
    ASSUME Typed, NEW lost, NEW oversized, NEW j \in Job
    PROVE  Later(j, rows[j], Recover(rows, lost, oversized)[j])
<1>1. Recover(rows, lost, oversized)[j]
         \in {Quarantined(rows[j]), Recovered(j, rows[j]), rows[j]}
  BY DEF Recover
<1>2. rows[j] \in Record
  BY DEF Typed, TypeOK
<1> QED BY <1>1, <1>2, RecoveredLater DEF Later

LEMMA ClaimLater ==
    ASSUME Typed, NEW w \in Worker, NEW c \in Job \cup {NoJob}, Claim(w, c)
    PROVE  LaterTable
<1> PICK oversized \in SUBSET LeaseLost, refused \in SUBSET Job, gone \in SUBSET Job :
      LET swept  == Recover(rows, LeaseLost, oversized)
          passed == Dropped(swept, refused, gone)
      IN
      /\ \A j \in refused \cup gone : Claimable(swept, j)
      /\ \/ rows' = passed
         \/ /\ c \in Job \ (refused \cup gone) /\ Claimable(swept, c)
            /\ rows' = [passed EXCEPT ![c] = Claimed(@, w)]
  BY ZenonT(60) DEF Claim
<1> DEFINE swept  == Recover(rows, LeaseLost, oversized)
           passed == Dropped(swept, refused, gone)
<1>1. \A j \in Job : Later(j, rows[j], swept[j]) /\ swept[j] \in Record
  BY RecoverLater, RecoverMoves DEF Typed
<1>2. /\ \A j \in refused \cup gone : swept[j].state = "queued"
      /\ \/ rows' = passed
         \/ /\ c \in Job \ (refused \cup gone) /\ swept[c].state = "queued"
            /\ rows' = [passed EXCEPT ![c] = Claimed(@, w)]
  BY DEF Claimable
<1> HIDE DEF swept
<1>3. ASSUME NEW j \in Job PROVE Later(j, swept[j], passed[j])
  <2>1. \/ passed[j] = swept[j]
        \/ passed[j] = Refused(swept[j], FALSE)
        \/ passed[j] = Saved([swept[j] EXCEPT !.state = "failed"])
    BY DEF Dropped
  <2>2. /\ Later(j, swept[j], Refused(swept[j], FALSE))
        /\ Later(j, swept[j], Saved([swept[j] EXCEPT !.state = "failed"]))
        /\ Later(j, swept[j], swept[j])
    BY <1>1, RefusedLater, FailedLater DEF Later
  <2> HIDE DEF passed
  <2> QED BY <2>1, <2>2
<1>4. /\ passed = [j \in Job |-> passed[j]]
      /\ \A j \in Job : j \notin refused \cup gone => passed[j] = swept[j]
  BY DEF Dropped
<1> HIDE DEF passed
<1>5. ASSUME NEW j \in Job PROVE Later(j, rows[j], passed[j])
  <2>1. swept[j].state \in Terminal \cup {"quarantined"} => passed[j] = swept[j]
    BY <1>2, <1>4 DEF Terminal
  <2> QED BY <1>1, <1>3, <2>1, LaterTransitive
<1>6. ASSUME c \in Job \ (refused \cup gone), swept[c].state = "queued"
      PROVE  Later(c, rows[c], Claimed(passed[c], w))
  <2>1. passed[c] = swept[c] /\ swept[c].state \notin Terminal \cup {"quarantined"}
    BY <1>4, <1>6 DEF Terminal
  <2>2. Later(c, swept[c], Claimed(swept[c], w))
    BY <1>1, <1>6, ClaimedLater
  <2> QED BY <1>1, <1>6, <2>1, <2>2, LaterTransitive
<1> QED BY <1>2, <1>4, <1>5, <1>6 DEF LaterTable

LEMMA CommandLater ==
    ASSUME Typed, NEW w \in Worker,
           \/ Heartbeat(w) \/ ConfirmEffect(w) \/ Finish(w)
           \/ Fail(w) \/ RefuseAdvance(w)
    PROVE  LaterTable
<1> DEFINE j == held[w].job
           r == rows[j]
<1>1. HoldsClaim(w)
  BY DEF Heartbeat, ConfirmEffect, Finish, Fail, RefuseAdvance
<1>2. j \in Job /\ r \in Record /\ r.state # "queued"
  BY <1>1, ClaimHeld DEF Typed, TypeOK, InProgress
<1>3. \/ Put(j, Saved(r))
      \/ HasReceipt(w) /\ Put(j, EffectConfirmed(r))
      \/ \E named \in Intent \cup {NoIntent} :
            Put(j, Finished(r, IF named # NoIntent THEN named ELSE PrimaryReceipt(j, r)))
      \/ Put(j, Failed(r))
      \/ \E receipt \in BOOLEAN : (receipt => HasReceipt(w)) /\ Put(j, Refused(r, receipt))
  BY Zenon DEF Heartbeat, ConfirmEffect, Finish, Fail, RefuseAdvance, Advance
<1>4. HasReceipt(w) => r.last \in Intent
  BY DEF HasReceipt, Is
<1>5. r = rows[j]
  OBVIOUS
<1> HIDE DEF j, r
<1>6. \A named \in Intent \cup {NoIntent} :
         (IF named # NoIntent THEN named ELSE PrimaryReceipt(j, r))
            \in Intent \cup {NoIntent}
  BY <1>2, PrimaryReceiptType
<1> QED BY <1>2, <1>3, <1>4, <1>5, <1>6, ResavedLater, EffectConfirmedLater,
           FinishedLater, FailedLater, RefusedLater, PutLater

LEMMA StepLater ==
    ASSUME Typed, AllLegible, [Next]_vars,
           ~ \E w \in Worker, i \in Intent : BeginEffect(w, i)
    PROVE  LaterTable
<1>1. ASSUME UNCHANGED rows PROVE LaterTable
  BY <1>1 DEF LaterTable, Later
<1>2. CASE User
  BY <1>2, UserLater DEF User
<1>3. CASE Retain \/ (\E j \in Job : Expire(j)) \/ UNCHANGED vars
  BY <1>1, <1>3 DEF Retain, Expire, vars
<1>4. CASE Restart
  BY <1>4, RecoverLater DEF Restart, LaterTable
<1>5. ASSUME NEW w \in Worker, WorkerStep(w) PROVE LaterTable
  <2>1. CASE Perform(w) \/ Drop(w)
    BY <1>1, <2>1 DEF Perform, Drop, dbvars
  <2> QED BY <1>5, <2>1, ClaimLater, CommandLater DEF WorkerStep
<1> QED BY <1>2, <1>3, <1>4, <1>5 DEF Next

\* Every transaction validates what it stores, but for a quarantined row.
LEMMA StoredValid ==
    ASSUME Typed, [Next]_vars, NEW j \in Job, rows'[j] # rows[j],
           rows'[j].state # "quarantined"
    PROVE  ValidState(j, rows'[j])
<1>1. ASSUME NEW k \in Job, NEW r, Put(k, r) PROVE ValidState(j, rows'[j])
  BY <1>1, PutTouches DEF Put
<1>2. ASSUME SavesValid PROVE ValidState(j, rows'[j])
  BY <1>2 DEF SavesValid
<1>3. CASE User
  BY <1>1, <1>3, Zenon DEF User, Enqueue, Cancel, Reconcile, Abandon
<1>4. CASE Retain \/ (\E k \in Job : Expire(k)) \/ UNCHANGED vars
  BY <1>4 DEF Retain, Expire, vars
<1>5. CASE Restart
  BY <1>2, <1>5 DEF Restart
<1>6. ASSUME NEW w \in Worker, WorkerStep(w) PROVE ValidState(j, rows'[j])
  <2>1. CASE Perform(w) \/ Drop(w)
    BY <2>1 DEF Perform, Drop, dbvars
  <2>2. CASE \E c \in Job \cup {NoJob} : Claim(w, c)
    <3>1. SavesValid
      BY <2>2, ZenonT(60) DEF Claim
    <3> QED BY <1>2, <3>1
  <2>3. CASE \/ \E i \in Intent : BeginEffect(w, i)
             \/ Heartbeat(w) \/ ConfirmEffect(w) \/ Finish(w)
             \/ Fail(w) \/ RefuseAdvance(w)
    <3>1. HoldsClaim(w) /\ \E r : Put(held[w].job, r)
      BY <2>3, Zenon
         DEF BeginEffect, Heartbeat, ConfirmEffect, Finish, Fail, RefuseAdvance, Advance
    <3>2. held[w].job \in Job
      BY <3>1, ClaimHeld DEF Typed, TypeOK
    <3> QED BY <1>1, <3>1, <3>2
  <2> QED BY <1>6, <2>1, <2>2, <2>3 DEF WorkerStep
<1> QED BY <1>3, <1>4, <1>5, <1>6 DEF Next

LEMMA ChangeLegible ==
    ASSUME Typed, Accounted, Accounted', AllLegible, [Next]_vars,
           ~ \E w \in Worker, i \in Intent : BeginEffect(w, i),
           NEW j \in Job, rows'[j] # rows[j]
    PROVE  Legible(j, rows'[j])
<1> DEFINE r == rows[j]
           s == rows'[j]
<1>1. Legible(j, r) /\ Regular(j, r) /\ Regular(j, s) /\ r \in Record
  BY DEF AllLegible, Accounted, RegularDocuments, Typed, TypeOK
<1>2. Later(j, r, s) /\ s # r
  BY StepLater DEF LaterTable
<1>3. Admitted(s) = Admitted(r) /\ s.state # "absent"
  BY <1>2, StepMoves DEF Moved, Onward, Follows, Typed, TypeOK, HeldOK
<1>4. r.state \notin Terminal \cup {"quarantined"}
  BY StepVersions
<1>5. s.state # "quarantined" => ValidState(j, s)
  BY StoredValid
<1> HIDE DEF r, s
<1>6. InOrder(j, s)
  BY <1>1, <1>3 DEF Legible, InOrder
<1>7. LastOpen(s)
  <2> SUFFICES ASSUME s.state \in InProgress \cup {"reconciliation_required"},
                      Admitted(s) # {}
               PROVE  /\ s.last \in Admitted(s)
                      /\ \A i \in Admitted(s) \ {s.last} : s.effects[i] = "confirmed"
    BY DEF LastOpen
  <2>1. /\ s.last = r.last
        /\ \A i \in Intent \ {r.last} : s.effects[i] = r.effects[i]
    BY <1>2 DEF Later, InProgress, Terminal
  <2>2. r.state \in InProgress \cup {"reconciliation_required"}
    BY <1>1, <1>3, <1>4, SMT DEF Regular, Record, State, InProgress, Terminal
  <2>3. /\ r.last \in Admitted(r)
        /\ \A i \in Admitted(r) \ {r.last} : r.effects[i] = "confirmed"
    BY <1>1, <1>3, <2>2 DEF Legible, LastOpen
  <2>4. Admitted(s) \subseteq Intent
    BY DEF Admitted
  <2> QED BY <1>3, <2>1, <2>3, <2>4
<1>8. s.state = "queued" => AttemptAllowed(j, s)
  BY <1>2 DEF Later, Terminal
<1>9. Legible(j, s)
  BY <1>3, <1>5, <1>6, <1>7, <1>8 DEF Legible
<1> QED BY <1>9 DEF s

\* An admission is the next one its job's kind allows, after confirmed ones.
LEMMA AdmissionLegible ==
    ASSUME NEW j \in Job, NEW r \in Record, Regular(j, r), InOrder(j, r),
           NEW i \in Intent, CanAdmit(j, r, i), ValidState(j, EffectBegun(r, i))
    PROVE  Legible(j, EffectBegun(r, i))
<1> DEFINE b == EffectBegun(r, i)
<1>1. /\ b.state = "effect_admitted" /\ b.last = i
      /\ b.effects = [r.effects EXCEPT ![i] = "unresolved"]
      /\ r.effects \in [Intent -> Outcome]
  BY EffectBegunKept DEF Record
<1> HIDE DEF b
<1>2. Admitted(b) = Admitted(r) \cup {i}
  BY <1>1 DEF Admitted
<1>3. LastOpen(b)
  BY <1>1, <1>2 DEF LastOpen, CanAdmit, Regular, AllConfirmed, Admitted
<1>4. InOrder(j, b)
  <2>1. CASE Request[j].kind = "start"
    <3>1. i = StartOn(Request[j].target)
      BY <2>1 DEF CanAdmit, OperationAllowed
    <3> QED BY <1>2, <2>1, <3>1 DEF InOrder
  <2>2. CASE Request[j].kind = "upload"
    <3> DEFINE p == Request[j].target
    <3>1. \/ i.op = "spoolman_deduction"
          \/ i = UploadTo(p)
          \/ i = UploadAndStartOn(p)
          \/ i = StartOn(p) /\ Is(r, UploadTo(p), "confirmed")
      BY <2>2 DEF CanAdmit, OperationAllowed
    <3>2. StartOn(p) = i => UploadTo(p) \in Admitted(r)
      BY <3>1, SMT DEF Is, Admitted, StartOn, UploadTo, UploadAndStartOn
    <3>3. /\ \A k \in Admitted(r) :
                \/ k \in {UploadTo(p), UploadAndStartOn(p), StartOn(p)}
                \/ k.op = "spoolman_deduction"
          /\ StartOn(p) \in Admitted(r) => UploadTo(p) \in Admitted(r)
      BY <2>2 DEF InOrder
    <3> HIDE DEF p
    <3>4. /\ \A k \in Admitted(b) :
                \/ k \in {UploadTo(p), UploadAndStartOn(p), StartOn(p)}
                \/ k.op = "spoolman_deduction"
          /\ StartOn(p) \in Admitted(b) => UploadTo(p) \in Admitted(b)
      BY <1>2, <3>1, <3>2, <3>3
    <3> QED BY <2>2, <3>4 DEF InOrder, p
  <2>3. CASE Request[j].kind \notin {"start", "upload"}
    BY <2>3 DEF InOrder
  <2> QED BY <2>1, <2>2, <2>3
<1>5. ValidState(j, b)
  BY DEF b
<1> QED BY <1>1, <1>3, <1>4, <1>5 DEF Legible, b

LEMMA StepLegible ==
    ASSUME Typed, Accounted, Accounted', AllLegible, [Next]_vars
    PROVE  AllLegible'
<1>1. CASE \E w \in Worker, i \in Intent : BeginEffect(w, i)
  <2>1. PICK w \in Worker, i \in Intent : BeginEffect(w, i)
    BY <1>1
  <2> DEFINE j == held[w].job
             r == rows[j]
  <2>2. /\ j \in Job /\ CanAdmit(j, r, i) /\ r.state \in InProgress
        /\ \A k \in Job \ {j} : rows'[k] = rows[k]
    BY <2>1, BeginEffectMoves DEF Typed, TypeOK
  <2>3. Put(j, EffectBegun(r, i))
    BY <2>1 DEF BeginEffect, Advance
  <2>4. rows'[j] = EffectBegun(r, i) /\ ValidState(j, EffectBegun(r, i))
    BY <2>2, <2>3, PutTouches DEF Put
  <2>5. r \in Record /\ Regular(j, r) /\ InOrder(j, r)
    BY <2>2 DEF Typed, TypeOK, Accounted, RegularDocuments, AllLegible, Legible
  <2> HIDE DEF j, r
  <2>6. Legible(j, rows'[j])
    BY <2>2, <2>4, <2>5, AdmissionLegible
  <2> QED BY <2>2, <2>6 DEF AllLegible
<1>2. CASE ~ \E w \in Worker, i \in Intent : BeginEffect(w, i)
  <2> SUFFICES ASSUME NEW j \in Job PROVE Legible(j, rows'[j])
    BY DEF AllLegible
  <2>1. CASE rows'[j] = rows[j]
    BY <2>1 DEF AllLegible
  <2> QED BY <1>2, <2>1, ChangeLegible
<1> QED BY <1>1, <1>2

LEMMA SpecLegible == Spec => []AllLegible
<1>1. Init => AllLegible
  <2> SUFFICES ASSUME Init, NEW j \in Job PROVE Legible(j, rows[j])
    BY DEF AllLegible
  <2>1. /\ rows[j].state = "absent" /\ rows[j].attempt = 0 /\ Admitted(rows[j]) = {}
        /\ \A i \in Intent : rows[j].effects[i] = "absent"
    BY DEF Init, NoRow, Admitted
  <2> QED BY <2>1 DEF Legible, InOrder, LastOpen, ValidState, InProgress
<1>2. /\ Typed /\ Accounted /\ Accounted' /\ AllLegible /\ [Next]_vars
      => AllLegible'
  BY StepLegible
<1> QED BY <1>1, <1>2, SpecAccounted, PTL DEF Spec

\* No stored row can make every later claim abort: a queued job is always
\* within its attempts, and an attempt in progress can always be recovered.
THEOREM NeverPoisoned == Spec => []ClaimNeverPoisoned
<1>1. Typed /\ AllLegible => ClaimNeverPoisoned
  <2> SUFFICES ASSUME Typed, AllLegible, NEW j \in Job,
                      rows[j].state \in InProgress
               PROVE  ValidState(j, Recovered(j, rows[j]))
    BY DEF ClaimNeverPoisoned, AllLegible, Legible
  <2> DEFINE r == rows[j]
             s == RecoveryState(j, r)
             f == Fenced(r, s)
  <2>1. r \in Record /\ ValidState(j, r) /\ r.state \in InProgress
    BY DEF Typed, TypeOK, AllLegible, Legible, InProgress
  <2>2. s \in State /\ s # "uploaded_only"
    BY DEF RecoveryState, State, Terminal
  <2>3. Recovered(j, r) = Saved(f)
    BY DEF Recovered
  <2> HIDE DEF r, s
  <2>4. f \in Record /\ f.state = s /\ f.effects = r.effects
    BY <2>1, <2>2, FencedKeepsAttempt
  <2> HIDE DEF f
  <2>5. Saved(f).state = s /\ Saved(f).effects = r.effects
    BY <2>4, SavedKeepsAttempt
  <2>6. \A i \in Intent : r.effects[i] \notin {"observed", "denied"}
    BY <2>1 DEF ValidState, InProgress, Terminal
  <2>7. ValidState(j, Saved(f))
    BY <2>2, <2>5, <2>6 DEF ValidState
  <2> QED BY <2>3, <2>7 DEF r
<1> QED BY <1>1, SpecLegible, SpecTyped, PTL

-----------------------------------------------------------------------------
(* The user's answer.                                                        *)

LEMMA PrinterIntents ==
    ASSUME NEW p
    PROVE  /\ UploadTo(p) # UploadAndStartOn(p) /\ UploadTo(p) # StartOn(p)
           /\ UploadAndStartOn(p) # StartOn(p)
           /\ \A i \in {UploadTo(p), UploadAndStartOn(p), StartOn(p)} :
                 i.op \in PrinterOperation /\ i.op # "spoolman_deduction"
BY DEF UploadTo, UploadAndStartOn, StartOn, PrinterOperation

\* With its last effect taken as confirmed, a job's document proves that it
\* succeeded, that only the upload happened, or that nothing was printed.
LEMMA ConfirmedProvesOutcome ==
    ASSUME NEW j \in Job, NEW c \in Record, Request[j].kind # "import", InOrder(j, c),
           Admitted(c) # {}, AllConfirmed(c), c.result \in Admitted(c)
    PROVE  \/ SuccessProven(j, c)
           \/ UploadedOnlyProof(j, UploadedOnly(j, c))
           \/ ResolvedPrinterFailure(j, c)
<1> DEFINE p == Request[j].target
           u == UploadedOnly(j, c)
<1>0. /\ Request[j] \in Payload
      /\ \A i \in Admitted(c) : i \in Intent /\ Is(c, i, "confirmed")
      /\ \A i : Is(c, i, "confirmed") => i \in Admitted(c)
  BY RecordAssumption DEF AllConfirmed, Admitted, Is
<1>1. CASE Request[j].kind \notin {"upload", "start"}
  <2>1. c.result # NoIntent
    BY <1>0, RecordAssumption
  <2>2. CompletionProven(j, c, c.result)
    BY <1>1, <2>1 DEF CompletionProven
  <2> QED BY <2>2 DEF SuccessProven
<1>2. CASE Request[j].kind = "start"
  <2>1. Is(c, StartOn(p), "confirmed")
    BY <1>0, <1>2 DEF InOrder
  <2>2. PrimaryReceipt(j, c) = StartOn(p)
    BY <1>2, <2>1 DEF PrimaryReceipt
  <2> QED BY <1>0, <2>1, <2>2, RecordAssumption DEF SuccessProven
<1>3. CASE Request[j].kind = "upload"
  <2>1. /\ \A i \in Admitted(c) :
              \/ i \in {UploadTo(p), UploadAndStartOn(p), StartOn(p)}
              \/ i.op = "spoolman_deduction"
        /\ StartOn(p) \in Admitted(c) => UploadTo(p) \in Admitted(c)
    BY <1>3 DEF InOrder
  <2>2. CASE Is(c, UploadAndStartOn(p), "confirmed")
    <3>1. PrimaryReceipt(j, c) = UploadAndStartOn(p)
      BY <1>3, <2>2 DEF PrimaryReceipt
    <3> QED BY <1>0, <2>2, <3>1, RecordAssumption DEF SuccessProven
  <2>3. CASE /\ ~ Is(c, UploadAndStartOn(p), "confirmed")
             /\ Is(c, UploadTo(p), "confirmed")
    <3>1. CASE ~ Request[j].start
      <4>1. PrimaryReceipt(j, c) = UploadTo(p)
        BY <1>3, <2>3, <3>1 DEF PrimaryReceipt
      <4> QED BY <1>0, <2>3, <4>1, RecordAssumption DEF SuccessProven
    <3>2. CASE Request[j].start /\ Is(c, StartOn(p), "confirmed")
      <4>1. PrimaryReceipt(j, c) = StartOn(p)
        BY <1>3, <2>3, <3>2 DEF PrimaryReceipt
      <4> QED BY <1>0, <3>2, <4>1, RecordAssumption DEF SuccessProven
    <3>3. CASE Request[j].start /\ ~ Is(c, StartOn(p), "confirmed")
      <4>1. \A i \in Admitted(c) : i = UploadTo(p) \/ i.op = "spoolman_deduction"
        BY <1>0, <2>1, <2>3, <3>3
      <4>2. /\ u.effects = c.effects /\ u.result = UploadTo(p)
            /\ Admitted(u) = Admitted(c)
        BY SMT DEF UploadedOnly, Record, Admitted
      <4> HIDE DEF u, p
      <4>3. /\ Is(u, UploadTo(p), "confirmed")
            /\ \A i \in Admitted(u) : u.effects[i] = "confirmed"
        BY <2>3, <4>2 DEF Is, AllConfirmed
      <4>4. UploadedOnlyProof(j, u)
        BY <1>3, <3>3, <4>1, <4>2, <4>3 DEF UploadedOnlyProof, p
      <4> QED BY <4>4 DEF u
    <3> QED BY <2>3, <3>1, <3>2, <3>3
  <2>4. CASE /\ ~ Is(c, UploadAndStartOn(p), "confirmed")
             /\ ~ Is(c, UploadTo(p), "confirmed")
    <3>1. \A i \in Admitted(c) : i.op = "spoolman_deduction"
      BY <1>0, <2>1, <2>4
    <3>2. ResolvedPrinterFailure(j, c)
      BY <1>0, <1>3, <3>1 DEF ResolvedPrinterFailure, AllConfirmed, PrinterOperation
    <3> QED BY <3>2
  <2> QED BY <2>2, <2>3, <2>4
<1> QED BY <1>1, <1>2, <1>3

\* Confirming the last effect of an unresolved job is an answer that holds.
LEMMA AnswerExists ==
    ASSUME NEW j \in Job, NEW r \in Record, r.state = "reconciliation_required",
           Regular(j, r), Legible(j, r)
    PROVE  CanConfirmSucceeded(j, r) /\ ValidState(j, ConfirmSucceeded(j, r))
<1> DEFINE e == Rewritten(r, r.last, "confirmed")
           c == [e EXCEPT !.result = r.last]
<1>1. /\ Admitted(r) # {} /\ Request[j].kind # "import"
      /\ r.last \in Admitted(r) /\ r.last \in Intent /\ r.last # NoIntent
      /\ \A i \in Admitted(r) \ {r.last} : r.effects[i] = "confirmed"
  BY RecordAssumption DEF Regular, Legible, LastOpen, Admitted
<1>2. r.effects[r.last] \in {"unresolved", "observed", "confirmed"}
  BY <1>1 DEF Legible, ValidState, Admitted, Record, Outcome, Terminal
<1>3. /\ SameAttempt(r, e) /\ Admitted(e) = Admitted(r)
      /\ e.effects = [r.effects EXCEPT ![r.last] = "confirmed"]
  <2>1. r.last \in Intent /\ Admitted(r) \cup {r.last} = Admitted(r)
    BY <1>1
  <2>2. /\ SameAttempt(r, e) /\ Admitted(e) = Admitted(r) \cup {r.last}
        /\ e.effects = [r.effects EXCEPT ![r.last] = "confirmed"]
    BY <2>1, EffectRewritten, LiveOutcomes, Zenon
  <2> HIDE DEF e
  <2> QED BY <2>1, <2>2
<1>4. c = ConfirmedByUser(r)
  BY DEF ConfirmedByUser, Rewritten
<1> HIDE DEF e
<1>5. c \in Record
  BY <1>1, <1>3, Zenon DEF Record, SameAttempt
<1>6. c.effects = e.effects /\ c.result = r.last
  BY <1>3, SMT DEF Record, SameAttempt
<1> HIDE DEF c
<1>7. Admitted(c) = Admitted(r)
  BY <1>3, <1>6 DEF Admitted
<1>8. AllConfirmed(c)
  BY <1>1, <1>3, <1>6, <1>7 DEF AllConfirmed, Record, Admitted
<1>9. InOrder(j, c)
  BY <1>7 DEF Legible, InOrder
<1>10. \/ SuccessProven(j, c)
       \/ UploadedOnlyProof(j, UploadedOnly(j, c))
       \/ ResolvedPrinterFailure(j, c)
  BY <1>1, <1>5, <1>6, <1>7, <1>8, <1>9, ConfirmedProvesOutcome
<1>11. CanConfirmSucceeded(j, r)
  BY <1>1, <1>2, <1>4, <1>10 DEF CanConfirmSucceeded
<1>12. \A i \in Intent : c.effects[i] \in {"absent", "confirmed"}
  BY <1>8 DEF AllConfirmed, Admitted
<1> DEFINE u == UploadedOnly(j, c)
           f == [c EXCEPT !.state = "failed", !.result = r.result]
           t == Succeeded(j, c)
<1>13. ConfirmSucceeded(j, r) = Saved(IF SuccessProven(j, c) THEN t
                                      ELSE IF UploadedOnlyProof(j, u) THEN u ELSE f)
  BY <1>4 DEF ConfirmSucceeded
<1>14. /\ Saved(t).effects = c.effects /\ Saved(t).state = "succeeded"
       /\ Saved(f).effects = c.effects /\ Saved(f).state = "failed"
       /\ Saved(u).effects = c.effects
       /\ u.effects = c.effects /\ Saved(u).result = u.result
  BY <1>5, SMT DEF Saved, Record, Succeeded, UploadedOnly
<1> HIDE DEF t, f, u
<1>15. Admitted(Saved(u)) = Admitted(u)
  BY <1>14 DEF Admitted
<1>16. UploadedOnlyProof(j, u) => UploadedOnlyProof(j, Saved(u))
  BY <1>14, <1>15 DEF UploadedOnlyProof, Is
<1>17. /\ ValidState(j, Saved(t)) /\ ValidState(j, Saved(f))
       /\ UploadedOnlyProof(j, u) => ValidState(j, Saved(u))
  BY <1>12, <1>14, <1>16 DEF ValidState
<1> QED BY <1>11, <1>13, <1>17

\* Whatever left a job unresolved, its user has an answer that the engine
\* accepts and can store, so its printer can be freed.
THEOREM AlwaysReconcilable == Spec => []Reconcilable
<1>1. Typed /\ Accounted /\ AllLegible => Reconcilable
  BY AnswerExists
     DEF Reconcilable, Typed, TypeOK, Accounted, RegularDocuments, AllLegible
<1> QED BY <1>1, SpecLegible, SpecAccounted, PTL

=============================================================================
