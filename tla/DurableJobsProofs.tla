------------------------- MODULE DurableJobsProofs -------------------------
(* Theorems about DurableJobs, for every set of jobs, workers, printers and  *)
(* sources and every admission limit.                                        *)
EXTENDS DurableJobs, TLAPS

-----------------------------------------------------------------------------
(* The documents.  A draft is a document about to be saved: save itself      *)
(* takes the lease off a finished one.                                       *)

Attended(r) ==
    /\ r.state \in InProgress <=> r.lease = "granted"
    /\ r.state \in InProgress <=> r.worker # NoWorker

Counted(r) == r.generation >= r.attempt

WellFormed(r) ==
    /\ r \in Record /\ Attended(r) /\ Counted(r)
    /\ r.state # "absent" => r.version > 0

Draft(r) ==
    /\ r \in Record /\ Counted(r) /\ r.state # "absent"
    /\ r.state \in Terminal \/ Attended(r)

\* s is a later document of the same job, with the same effects admitted.
Follows(r, s) ==
    /\ WellFormed(s) /\ s.state # "absent"
    /\ s.version > r.version
    /\ Admitted(s) = Admitted(r)

\* The three counters stay natural when they are raised.
LEMMA Counters ==
    ASSUME NEW r \in Record
    PROVE  /\ r.version + 1 \in Nat /\ r.attempt + 1 \in Nat
           /\ r.generation + 1 \in Nat
BY SMT DEF Record

\* save makes a well-formed document of a draft and only raises its version.
LEMMA SavedDraft ==
    ASSUME NEW r, Draft(r)
    PROVE  /\ WellFormed(Saved(r)) /\ Saved(r).version = r.version + 1
           /\ Saved(r).effects = r.effects /\ Saved(r).state = r.state
<1> USE DEF Draft
<1>1. Saved(r) \in Record
  BY Counters, Zenon DEF Saved, Record
<1>2. /\ Saved(r).version = r.version + 1 /\ Saved(r).effects = r.effects
      /\ Saved(r).state = r.state /\ Saved(r).generation = r.generation
      /\ Saved(r).attempt = r.attempt
  BY SMT DEF Saved, Record
<1>3. Attended(Saved(r))
  BY SMT DEF Saved, Record, Attended, Terminal, InProgress
<1>4. Saved(r).version > 0 /\ Counted(Saved(r))
  BY <1>2, SMT DEF Record, Counted
<1> QED BY <1>1, <1>2, <1>3, <1>4 DEF WellFormed

\* A later document: a draft with the same effects and counters not lowered.
LEMMA SavedFollows ==
    ASSUME NEW r, NEW d, r \in Record, Draft(d), d.version = r.version,
           Admitted(d) = Admitted(r)
    PROVE  Follows(r, Saved(d))
<1>1. Saved(d).version > r.version
  BY SavedDraft, SMT DEF Record
<1>2. Admitted(Saved(d)) = Admitted(r)
  BY SavedDraft DEF Admitted
<1> QED BY <1>1, <1>2, SavedDraft DEF Follows, Draft

\* Taking the lease off a document, with or without a new fence.
LEMMA UnleasedKept ==
    ASSUME NEW r \in Record, NEW s \in State
    PROVE  /\ Unleased(r, s) \in Record /\ Fenced(r, s) \in Record
           /\ \A u \in {Unleased(r, s), Fenced(r, s)} :
                 /\ u.state = s /\ u.lease = "none" /\ u.worker = NoWorker
                 /\ u.effects = r.effects /\ u.version = r.version
                 /\ u.attempt = r.attempt /\ u.generation >= r.generation
<1>1. Unleased(r, s) \in Record
  BY Zenon DEF Unleased, Record
<1>2. \A u \in Record : [u EXCEPT !.generation = @ + 1] \in Record
  BY Counters, Zenon DEF Record
<1>3. Fenced(r, s) \in Record
  BY <1>1, <1>2 DEF Fenced
<1> QED BY <1>1, <1>3, SMT DEF Unleased, Fenced, Record

LEMMA EnqueuedFollows ==
    ASSUME NEW r, WellFormed(r), r.state = "absent"
    PROVE  Follows(r, Enqueued(r))
<1> DEFINE d == [r EXCEPT !.state = "queued"]
<1>1. d \in Record
  BY Zenon DEF WellFormed, Record, State
<1>2. d.version = r.version /\ d.effects = r.effects /\ d.state = "queued"
  BY SMT DEF WellFormed, Record
<1>3. Draft(d)
  BY <1>1, SMT DEF WellFormed, Draft, Record, Attended, Counted, InProgress
<1>4. Admitted(d) = Admitted(r)
  BY <1>2 DEF Admitted
<1> QED BY <1>2, <1>3, <1>4, SavedFollows DEF Enqueued, WellFormed

LEMMA ClaimedFollows ==
    ASSUME NEW r, WellFormed(r), NEW w \in Worker
    PROVE  Follows(r, Claimed(r, w)) /\ Claimed(r, w).state = "running"
<1> DEFINE d == [r EXCEPT !.state = "running", !.attempt = @ + 1,
                          !.generation = @ + 1, !.lease = "granted", !.worker = w]
<1>1. d \in Record
  BY Counters, Zenon DEF WellFormed, Record, State, InProgress
<1>2. d.version = r.version /\ d.effects = r.effects /\ d.state = "running"
  BY SMT DEF WellFormed, Record
<1>3. Draft(d)
  <2>1. Counted(d)
    BY SMT DEF WellFormed, Record, Counted
  <2>2. Attended(d)
    BY RecordAssumption, SMT DEF WellFormed, Record, Attended, InProgress
  <2> QED BY <1>1, <1>2, <2>1, <2>2 DEF Draft
<1>4. Admitted(d) = Admitted(r)
  BY <1>2 DEF Admitted
<1> HIDE DEF d
<1>5. Follows(r, Saved(d)) /\ Saved(d).state = "running"
  BY <1>2, <1>3, <1>4, SavedFollows, SavedDraft DEF WellFormed
<1> QED BY <1>5 DEF Claimed, d

LEMMA RecoveredFollows ==
    ASSUME NEW j \in Job, NEW r, WellFormed(r)
    PROVE  Follows(r, Recovered(j, r)) /\ Recovered(j, r).state \notin InProgress
<1> DEFINE s == RecoveryState(j, r)
           d == Fenced(r, s)
<1>1. s \in State \ ({"absent"} \cup InProgress)
  BY DEF RecoveryState, State, Terminal, InProgress
<1> HIDE DEF s
<1>2. /\ d \in Record /\ d.state = s /\ d.effects = r.effects
      /\ d.version = r.version /\ Attended(d) /\ Counted(d)
  BY <1>1, UnleasedKept, SMT DEF WellFormed, Attended, Counted, Record
<1>3. Draft(d) /\ Admitted(d) = Admitted(r)
  BY <1>1, <1>2 DEF Draft, Admitted
<1> HIDE DEF d
<1>4. Follows(r, Saved(d)) /\ Saved(d).state \notin InProgress
  BY <1>1, <1>2, <1>3, SavedFollows, SavedDraft DEF WellFormed
<1> QED BY <1>4 DEF Recovered, d, s

LEMMA QuarantinedFollows ==
    ASSUME NEW r, WellFormed(r)
    PROVE  Follows(r, Quarantined(r)) /\ Quarantined(r).state = "quarantined"
<1> DEFINE u == Unleased(r, "quarantined")
           q == [u EXCEPT !.version = @ + 1]
<1>1. /\ u \in Record /\ u.state = "quarantined" /\ u.effects = r.effects
      /\ u.version = r.version /\ Attended(u) /\ Counted(u)
  BY UnleasedKept, SMT
     DEF WellFormed, Attended, Counted, Record, State, InProgress
<1> HIDE DEF u
<1>2. q \in Record
  BY <1>1, Counters, Zenon DEF Record
<1>3. /\ q.state = "quarantined" /\ q.effects = r.effects
      /\ q.version = r.version + 1 /\ q.lease = u.lease /\ q.worker = u.worker
      /\ q.generation = u.generation /\ q.attempt = u.attempt
  BY <1>1, SMT DEF Record
<1>4. Attended(q) /\ Counted(q) /\ q.version > 0 /\ q.version > r.version
  BY <1>1, <1>3, SMT DEF Attended, Counted, WellFormed, Record
<1>5. Admitted(q) = Admitted(r)
  BY <1>3 DEF Admitted
<1> HIDE DEF q
<1>6. Follows(r, q) /\ q.state = "quarantined"
  BY <1>2, <1>3, <1>4, <1>5 DEF Follows, WellFormed
<1> QED BY <1>6 DEF Quarantined, q, u

\* One effect's outcome rewritten, and what that leaves alone.
Rewritten(r, i, o) == [r EXCEPT !.effects[i] = o]

SameAttempt(r, e) ==
    /\ e \in Record
    /\ e.state = r.state /\ e.version = r.version /\ e.attempt = r.attempt
    /\ e.generation = r.generation /\ e.lease = r.lease
    /\ e.worker = r.worker /\ e.last = r.last /\ e.result = r.result

LEMMA EffectRewritten ==
    ASSUME NEW r \in Record, NEW i \in Intent, NEW o \in Outcome \ {"absent"}
    PROVE  /\ SameAttempt(r, Rewritten(r, i, o))
           /\ Admitted(Rewritten(r, i, o)) = Admitted(r) \cup {i}
           /\ Rewritten(r, i, o).effects = [r.effects EXCEPT ![i] = o]
<1>1. [r.effects EXCEPT ![i] = o] \in [Intent -> Outcome]
  BY DEF Record
<1>2. \A f \in [Intent -> Outcome] : [r EXCEPT !.effects = f] \in Record
  BY Zenon DEF Record
<1>3. Rewritten(r, i, o) = [r EXCEPT !.effects = [r.effects EXCEPT ![i] = o]]
  BY DEF Rewritten
<1>4. Rewritten(r, i, o) \in Record
  BY <1>1, <1>2, <1>3
<1>5. Rewritten(r, i, o).effects = [r.effects EXCEPT ![i] = o]
  BY SMT DEF Record, Rewritten
<1>6. Admitted(Rewritten(r, i, o)) = Admitted(r) \cup {i}
  BY <1>5, SMT DEF Admitted, Record
<1>7. LET e == Rewritten(r, i, o) IN
      /\ e.state = r.state /\ e.version = r.version /\ e.attempt = r.attempt
      /\ e.generation = r.generation /\ e.lease = r.lease
      /\ e.worker = r.worker /\ e.last = r.last /\ e.result = r.result
  BY SMT DEF Record, Rewritten
<1> QED BY <1>4, <1>5, <1>6, <1>7 DEF SameAttempt

LEMMA LiveOutcomes ==
    /\ "unresolved" \in Outcome \ {"absent"} /\ "observed" \in Outcome \ {"absent"}
    /\ "confirmed" \in Outcome \ {"absent"} /\ "denied" \in Outcome \ {"absent"}
BY DEF Outcome

LEMMA RefusedFollows ==
    ASSUME NEW r, WellFormed(r), NEW receipt \in BOOLEAN,
           receipt => r.last \in Admitted(r)
    PROVE  Follows(r, Refused(r, receipt))
<1> DEFINE seen  == IF receipt THEN [r EXCEPT !.effects[r.last] = "observed"] ELSE r
           state == IF Admitted(r) = {} THEN "failed" ELSE "reconciliation_required"
           f     == Fenced(seen, state)
           d     == [f EXCEPT !.refusal = "observed"]
<1>1. /\ seen \in Record /\ Admitted(seen) = Admitted(r)
      /\ seen.version = r.version /\ seen.attempt = r.attempt
      /\ seen.generation = r.generation
  <2>1. CASE ~receipt
    BY <2>1 DEF WellFormed
  <2>2. CASE receipt
    <3>1. r.last \in Intent /\ Admitted(r) \cup {r.last} = Admitted(r)
      BY <2>2 DEF Admitted
    <3>2. seen = Rewritten(r, r.last, "observed")
      BY <2>2 DEF Rewritten
    <3> HIDE DEF seen
    <3>3. r \in Record
      BY DEF WellFormed
    <3>4. SameAttempt(r, seen) /\ Admitted(seen) = Admitted(r)
      BY <3>1, <3>2, <3>3, EffectRewritten, LiveOutcomes, Zenon
    <3> QED BY <3>4 DEF SameAttempt
  <2> QED BY <2>1, <2>2
<1>2. state \in State \ ({"absent"} \cup InProgress)
  BY DEF State, Terminal, InProgress
<1> HIDE DEF seen, state
<1>3. /\ f \in Record /\ f.state = state /\ f.effects = seen.effects
      /\ f.version = r.version /\ Attended(f) /\ Counted(f)
  BY <1>1, <1>2, UnleasedKept, SMT DEF WellFormed, Attended, Counted, Record
<1> HIDE DEF f
<1>4. d \in Record
  BY <1>3, Zenon DEF Record
<1>5. /\ d.state = state /\ d.effects = seen.effects /\ d.version = r.version
      /\ Attended(d) /\ Counted(d)
  BY <1>3, SMT DEF Record, Attended, Counted
<1>6. Draft(d) /\ Admitted(d) = Admitted(r)
  BY <1>1, <1>2, <1>4, <1>5 DEF Draft, Admitted
<1> HIDE DEF d
<1>7. Follows(r, Saved(d))
  BY <1>5, <1>6, SavedFollows DEF WellFormed
<1> QED BY <1>7 DEF Refused, d, f, seen, state

\* The only document that admits an effect.
LEMMA EffectBegunFollows ==
    ASSUME NEW r, WellFormed(r), r.state \in InProgress, NEW i \in Intent
    PROVE  LET b == EffectBegun(r, i) IN
           /\ WellFormed(b) /\ b.state # "absent" /\ b.version > r.version
           /\ Admitted(b) = Admitted(r) \cup {i}
<1> DEFINE e == Rewritten(r, i, "unresolved")
           d == [r EXCEPT !.effects[i] = "unresolved", !.last = i,
                          !.state = "effect_admitted"]
<1>0. r \in Record
  BY DEF WellFormed
<1>1. SameAttempt(r, e) /\ Admitted(e) = Admitted(r) \cup {i}
  BY <1>0, EffectRewritten, LiveOutcomes, Zenon
<1>2. d = [e EXCEPT !.last = i, !.state = "effect_admitted"]
  BY DEF Rewritten
<1> HIDE DEF e, d
<1>3. d \in Record
  BY <1>1, <1>2, Zenon DEF Record, State, InProgress, SameAttempt
<1>4. /\ d.state = "effect_admitted" /\ d.effects = e.effects
      /\ d.version = r.version /\ d.lease = r.lease /\ d.worker = r.worker
      /\ d.attempt = r.attempt /\ d.generation = r.generation
  BY <1>1, <1>2, SMT DEF Record, SameAttempt
<1>5. Draft(d) /\ Admitted(d) = Admitted(r) \cup {i}
  BY <1>1, <1>3, <1>4, SMT
     DEF WellFormed, Draft, Attended, Counted, InProgress, Admitted
<1>6. Saved(d).version > r.version /\ Admitted(Saved(d)) = Admitted(d)
  BY <1>4, <1>5, SavedDraft, SMT DEF WellFormed, Record, Admitted
<1>7. WellFormed(Saved(d)) /\ Saved(d).state # "absent"
  BY <1>5, SavedDraft DEF Draft
<1> QED BY <1>5, <1>6, <1>7 DEF EffectBegun, d

LEMMA EffectConfirmedFollows ==
    ASSUME NEW r, WellFormed(r), r.state \in InProgress, r.last \in Admitted(r)
    PROVE  Follows(r, EffectConfirmed(r))
<1> DEFINE e == Rewritten(r, r.last, "confirmed")
           d == [r EXCEPT !.effects[r.last] = "confirmed", !.state = "running"]
<1>0. /\ r \in Record /\ r.last \in Intent
      /\ Admitted(r) \cup {r.last} = Admitted(r)
  BY DEF Admitted, WellFormed
<1>1. SameAttempt(r, e) /\ Admitted(e) = Admitted(r)
  BY <1>0, EffectRewritten, LiveOutcomes, Zenon
<1>2. d = [e EXCEPT !.state = "running"]
  BY DEF Rewritten
<1> HIDE DEF e, d
<1>3. d \in Record
  BY <1>1, <1>2, Zenon DEF Record, State, InProgress, SameAttempt
<1>4. /\ d.state = "running" /\ d.effects = e.effects
      /\ d.version = r.version /\ d.lease = r.lease /\ d.worker = r.worker
      /\ d.attempt = r.attempt /\ d.generation = r.generation
  BY <1>1, <1>2, SMT DEF Record, SameAttempt
<1>5. Draft(d) /\ Admitted(d) = Admitted(r)
  BY <1>1, <1>3, <1>4, SMT
     DEF WellFormed, Draft, Attended, Counted, InProgress, Admitted
<1>6. Follows(r, Saved(d))
  BY <1>4, <1>5, SavedFollows DEF WellFormed
<1> QED BY <1>6 DEF EffectConfirmed, d

\* A document that is rewritten in state and result only, and saved.
LEMMA EndedFollows ==
    ASSUME NEW r, NEW c, r \in Record, c \in Record, Counted(c),
           c.version = r.version, Admitted(c) = Admitted(r),
           NEW s \in Terminal, NEW res \in Intent \cup {NoIntent}
    PROVE  Follows(r, Saved([c EXCEPT !.state = s, !.result = res]))
<1> DEFINE d == [c EXCEPT !.state = s, !.result = res]
<1>1. s \in State \ {"absent"}
  BY DEF State, Terminal
<1>2. d \in Record
  BY <1>1, Zenon DEF Record
<1>3. /\ d.state = s /\ d.effects = c.effects /\ d.version = c.version
      /\ d.attempt = c.attempt /\ d.generation = c.generation
  BY SMT DEF Record
<1> HIDE DEF d
<1>4. Draft(d) /\ Admitted(d) = Admitted(r)
  BY <1>1, <1>2, <1>3 DEF Draft, Counted, Admitted
<1>5. Follows(r, Saved(d))
  BY <1>3, <1>4, SavedFollows
<1> QED BY <1>5 DEF d

\* The same for a document whose result stays.
LEMMA EndedHereFollows ==
    ASSUME NEW r, NEW c, r \in Record, c \in Record, Counted(c),
           c.version = r.version, Admitted(c) = Admitted(r), NEW s \in Terminal
    PROVE  Follows(r, Saved([c EXCEPT !.state = s]))
<1> DEFINE d == [c EXCEPT !.state = s]
<1>1. s \in State \ {"absent"}
  BY DEF State, Terminal
<1>2. d \in Record
  BY <1>1, Zenon DEF Record
<1>3. /\ d.state = s /\ d.effects = c.effects /\ d.version = c.version
      /\ d.attempt = c.attempt /\ d.generation = c.generation
  BY SMT DEF Record
<1> HIDE DEF d
<1>4. Draft(d) /\ Admitted(d) = Admitted(r)
  BY <1>1, <1>2, <1>3 DEF Draft, Counted, Admitted
<1>5. Follows(r, Saved(d))
  BY <1>3, <1>4, SavedFollows
<1> QED BY <1>5 DEF d

LEMMA FinishedFollows ==
    ASSUME NEW r, WellFormed(r), NEW res \in Intent \cup {NoIntent}
    PROVE  Follows(r, Finished(r, res))
<1>1. "succeeded" \in Terminal
  BY DEF Terminal
<1> QED BY <1>1, EndedFollows DEF Finished, WellFormed

\* Heartbeats and Abandon save the document as it is.
LEMMA ResavedFollows ==
    ASSUME NEW r, WellFormed(r), r.state # "absent"
    PROVE  Follows(r, Saved(r)) /\ Saved(r).state = r.state
BY SavedFollows, SavedDraft DEF WellFormed, Draft

LEMMA UnleasedFollows ==
    ASSUME NEW r, WellFormed(r), NEW s \in State \ ({"absent"} \cup InProgress)
    PROVE  /\ Follows(r, Saved(Unleased(r, s)))
           /\ Follows(r, Saved(Fenced(r, s)))
<1> SUFFICES ASSUME NEW u \in {Unleased(r, s), Fenced(r, s)}
             PROVE  Follows(r, Saved(u))
  OBVIOUS
<1>1. /\ u \in Record /\ u.state = s /\ u.effects = r.effects
      /\ u.version = r.version /\ Attended(u) /\ Counted(u)
  BY UnleasedKept, SMT DEF WellFormed, Attended, Counted, Record
<1>2. Draft(u) /\ Admitted(u) = Admitted(r)
  BY <1>1 DEF Draft, Admitted
<1> QED BY <1>1, <1>2, SavedFollows DEF WellFormed

LEMMA FailedFollows ==
    ASSUME NEW r, WellFormed(r)
    PROVE  /\ Follows(r, Failed(r))
           /\ Follows(r, Saved([r EXCEPT !.state = "failed"]))
<1>1. Follows(r, Saved([r EXCEPT !.state = "failed"]))
  BY EndedHereFollows DEF WellFormed, Terminal
<1>2. Follows(r, Saved(Unleased(r, "reconciliation_required")))
  BY UnleasedFollows DEF State, InProgress
<1> QED BY <1>1, <1>2 DEF Failed

LEMMA CancelRequestedFollows ==
    ASSUME NEW j \in Job, NEW r, WellFormed(r)
    PROVE  Follows(r, CancelRequested(j, r))
<1> DEFINE asked == [r EXCEPT !.cancel = "requested"]
           state == CASE Request[j].kind = "import" -> "queued"
                      [] Request[j].kind # "import" /\ Admitted(r) = {} -> "cancelled"
                      [] OTHER -> "reconciliation_required"
           f     == Fenced(asked, state)
<1>1. state \in State \ ({"absent"} \cup InProgress)
  BY DEF State, Terminal, InProgress
<1>2. asked \in Record
  BY Zenon DEF WellFormed, Record
<1>3. /\ asked.version = r.version /\ asked.effects = r.effects
      /\ asked.attempt = r.attempt /\ asked.generation = r.generation
  BY SMT DEF WellFormed, Record
<1> HIDE DEF asked, state
<1>4. /\ f \in Record /\ f.state = state /\ f.effects = r.effects
      /\ f.version = r.version /\ Attended(f) /\ Counted(f)
  BY <1>1, <1>2, <1>3, UnleasedKept, SMT DEF WellFormed, Attended, Counted, Record
<1>5. Draft(f) /\ Admitted(f) = Admitted(r)
  BY <1>1, <1>4 DEF Draft, Admitted
<1> HIDE DEF f
<1>6. Follows(r, Saved(f))
  BY <1>4, <1>5, SavedFollows DEF WellFormed
<1> QED BY <1>6 DEF CancelRequested, f, asked, state

-----------------------------------------------------------------------------
(* The documents of an explicit reconciliation.                              *)

LEMMA PrimaryReceiptType ==
    ASSUME NEW j \in Job, NEW r
    PROVE  PrimaryReceipt(j, r) \in Intent \cup {NoIntent}
BY Zenon DEF PrimaryReceipt, Is

\* Whatever a reconciled document proves, it ends the job and nothing else.
LEMMA ReconciledFollows ==
    ASSUME NEW j \in Job, NEW r, NEW c, r \in Record, c \in Record, Counted(c),
           c.version = r.version, Admitted(c) = Admitted(r),
           NEW res \in Intent \cup {NoIntent}
    PROVE  /\ Follows(r, Saved(Succeeded(j, c)))
           /\ UploadedOnlyProof(j, UploadedOnly(j, c)) =>
                 Follows(r, Saved(UploadedOnly(j, c)))
           /\ Follows(r, Saved([c EXCEPT !.state = "failed", !.result = res]))
           /\ Follows(r, Saved([c EXCEPT !.state = "failed"]))
<1>1. {"succeeded", "uploaded_only", "failed"} \subseteq Terminal
  BY DEF Terminal
<1>2. c.result \in Intent \cup {NoIntent}
  BY DEF Record
<1>3. Follows(r, Saved(Succeeded(j, c)))
  <2> DEFINE res1 == IF PrimaryReceipt(j, c) # NoIntent
                     THEN PrimaryReceipt(j, c) ELSE c.result
  <2>1. res1 \in Intent \cup {NoIntent}
    BY <1>2, PrimaryReceiptType
  <2> HIDE DEF res1
  <2>2. Follows(r, Saved([c EXCEPT !.state = "succeeded", !.result = res1]))
    BY <1>1, <2>1, EndedFollows
  <2> QED BY <2>2 DEF Succeeded, res1
<1>4. ASSUME UploadedOnlyProof(j, UploadedOnly(j, c))
      PROVE  Follows(r, Saved(UploadedOnly(j, c)))
  <2>1. UploadTo(Request[j].target) \in Intent
    BY <1>4 DEF UploadedOnlyProof, Is
  <2> QED BY <1>1, <2>1, EndedFollows DEF UploadedOnly
<1>5. /\ Follows(r, Saved([c EXCEPT !.state = "failed", !.result = res]))
      /\ Follows(r, Saved([c EXCEPT !.state = "failed"]))
  BY <1>1, EndedFollows, EndedHereFollows
<1> QED BY <1>3, <1>4, <1>5

LEMMA ConfirmNoEffectFollows ==
    ASSUME NEW j \in Job, NEW r, WellFormed(r), CanConfirmNoEffect(r),
           r.last \in Intent
    PROVE  Follows(r, ConfirmNoEffect(j, r))
<1> DEFINE d == Rewritten(r, r.last, "denied")
<1>1. r \in Record /\ r.last \in Admitted(r)
  BY DEF WellFormed, CanConfirmNoEffect, Admitted
<1>2. SameAttempt(r, d) /\ Admitted(d) = Admitted(r) \cup {r.last}
  BY <1>1, EffectRewritten, LiveOutcomes, Zenon
<1> HIDE DEF d
<1>3. d \in Record /\ Counted(d) /\ d.version = r.version /\ Admitted(d) = Admitted(r)
  BY <1>1, <1>2 DEF WellFormed, SameAttempt, Counted
<1>4. /\ Follows(r, Saved(Succeeded(j, d)))
      /\ UploadedOnlyProof(j, UploadedOnly(j, d)) =>
            Follows(r, Saved(UploadedOnly(j, d)))
      /\ Follows(r, Saved([d EXCEPT !.state = "failed"]))
  BY <1>1, <1>3, ReconciledFollows
<1> QED BY <1>4, Zenon DEF ConfirmNoEffect, d, Rewritten

LEMMA ConfirmSucceededFollows ==
    ASSUME NEW j \in Job, NEW r, WellFormed(r), CanConfirmSucceeded(j, r)
    PROVE  Follows(r, ConfirmSucceeded(j, r))
<1> DEFINE e == Rewritten(r, r.last, "confirmed")
           c == [e EXCEPT !.result = r.last]
<1>1. r \in Record /\ r.last \in Admitted(r) /\ r.last \in Intent
  BY DEF WellFormed, CanConfirmSucceeded, Admitted, Record
<1>2. SameAttempt(r, e) /\ Admitted(e) = Admitted(r) \cup {r.last}
  BY <1>1, EffectRewritten, LiveOutcomes, Zenon
<1>3. c = ConfirmedByUser(r)
  BY DEF ConfirmedByUser, Rewritten
<1> HIDE DEF e
<1>4. c \in Record
  BY <1>1, <1>2, Zenon DEF Record, SameAttempt
<1>5. /\ c.version = r.version /\ c.effects = e.effects
      /\ c.attempt = r.attempt /\ c.generation = r.generation
  BY <1>2, SMT DEF Record, SameAttempt
<1> HIDE DEF c
<1>6. Counted(c) /\ Admitted(c) = Admitted(r)
  BY <1>1, <1>2, <1>5 DEF WellFormed, Counted, Admitted
<1>7. r.result \in Intent \cup {NoIntent}
  BY <1>1 DEF Record
<1>8. /\ Follows(r, Saved(Succeeded(j, c)))
      /\ UploadedOnlyProof(j, UploadedOnly(j, c)) =>
            Follows(r, Saved(UploadedOnly(j, c)))
      /\ Follows(r, Saved([c EXCEPT !.state = "failed", !.result = r.result]))
  BY <1>1, <1>4, <1>5, <1>6, <1>7, ReconciledFollows
<1> QED BY <1>3, <1>8, Zenon DEF ConfirmSucceeded

-----------------------------------------------------------------------------
(* The table.  Every action moves some documents on and leaves the others;   *)
(* only BeginEffect also admits an effect.                                   *)

Documents == rows \in [Job -> Record] /\ \A j \in Job : WellFormed(rows[j])

Onward(r, s) == s = r \/ Follows(r, s)

Moved == rows' \in [Job -> Record] /\ \A j \in Job : Onward(rows[j], rows'[j])

LEMMA FollowsTransitive ==
    ASSUME NEW r, NEW s, NEW t, r \in Record, Onward(r, s), Onward(s, t)
    PROVE  Onward(r, t)
<1>1. CASE s = r \/ t = s
  BY <1>1 DEF Onward
<1>2. CASE Follows(r, s) /\ Follows(s, t)
  <2>1. r.version \in Nat /\ s.version \in Nat /\ t.version \in Nat
    BY <1>2 DEF Follows, WellFormed, Record
  <2>2. t.version > r.version
    BY <1>2, <2>1, SMT DEF Follows
  <2> QED BY <1>2, <2>2 DEF Onward, Follows
<1> QED BY <1>1, <1>2 DEF Onward

LEMMA MovedDocuments ==
    ASSUME Documents, Moved
    PROVE  Documents'
BY DEF Documents, Moved, Onward, Follows

LEMMA PutMoves ==
    ASSUME Documents, NEW j \in Job, NEW r, Put(j, r), Follows(rows[j], r)
    PROVE  Moved
BY DEF Documents, Put, Moved, Onward, Follows, WellFormed

LEMMA EnqueueMoves == ASSUME Documents, NEW j \in Job, Enqueue(j) PROVE Moved
BY EnqueuedFollows, PutMoves DEF Enqueue, Documents

LEMMA CancelMoves == ASSUME Documents, NEW j \in Job, Cancel(j) PROVE Moved
BY CancelRequestedFollows, PutMoves DEF Cancel, Documents

LEMMA ReconcileMoves == ASSUME Documents, NEW j \in Job, Reconcile(j) PROVE Moved
<1>1. WellFormed(rows[j])
  BY DEF Documents
<1>2. CanConfirmNoEffect(rows[j]) => rows[j].last \in Intent
  BY <1>1 DEF CanConfirmNoEffect, WellFormed, Record
<1> QED BY <1>1, <1>2, ConfirmSucceededFollows, ConfirmNoEffectFollows, PutMoves
        DEF Reconcile

LEMMA AbandonMoves == ASSUME Documents, NEW j \in Job, Abandon(j) PROVE Moved
<1>1. rows[j].state # "absent" /\ Put(j, Saved(rows[j]))
  BY DEF Abandon
<1> QED BY <1>1, ResavedFollows, PutMoves DEF Documents

\* The sweep recovers or quarantines the lost attempts.
LEMMA RecoverMoves ==
    ASSUME Documents, NEW lost, NEW oversized
    PROVE  LET db == Recover(rows, lost, oversized) IN
           /\ db \in [Job -> Record]
           /\ \A j \in Job : WellFormed(db[j]) /\ Onward(rows[j], db[j])
<1> SUFFICES ASSUME NEW j \in Job
             PROVE  LET r == Recover(rows, lost, oversized)[j] IN
                    WellFormed(r) /\ Onward(rows[j], r)
  BY DEF Recover, WellFormed
<1>1. WellFormed(rows[j])
  BY DEF Documents
<1>2. Recover(rows, lost, oversized)[j]
        \in {Quarantined(rows[j]), Recovered(j, rows[j]), rows[j]}
  BY DEF Recover
<1> QED BY <1>1, <1>2, QuarantinedFollows, RecoveredFollows DEF Onward, Follows

LEMMA DroppedMoves ==
    ASSUME NEW db, \A j \in Job : WellFormed(db[j]), NEW refused, NEW gone
    PROVE  \A j \in Job :
              LET r == Dropped(db, refused, gone)[j] IN
              WellFormed(r) /\ Onward(db[j], r)
<1> TAKE j \in Job
<1>1. Dropped(db, refused, gone)[j]
        \in {Refused(db[j], FALSE), Saved([db[j] EXCEPT !.state = "failed"]), db[j]}
  BY DEF Dropped
<1>2. Follows(db[j], Refused(db[j], FALSE))
  BY RefusedFollows
<1> QED BY <1>1, <1>2, FailedFollows DEF Onward, Follows

LEMMA ClaimMoves ==
    ASSUME Documents, NEW w \in Worker, NEW c \in Job \cup {NoJob}, Claim(w, c)
    PROVE  Moved
<1> PICK oversized \in SUBSET LeaseLost,
         refused \in SUBSET Job, gone \in SUBSET Job :
      LET passed == Dropped(Recover(rows, LeaseLost, oversized), refused, gone) IN
      \/ rows' = passed
      \/ c \in Job /\ rows' = [passed EXCEPT ![c] = Claimed(@, w)]
  BY ZenonT(60) DEF Claim
<1> DEFINE swept  == Recover(rows, LeaseLost, oversized)
           passed == Dropped(swept, refused, gone)
<1>1. \A j \in Job : WellFormed(swept[j]) /\ Onward(rows[j], swept[j])
  BY RecoverMoves
<1> HIDE DEF swept
<1>2. \A j \in Job : WellFormed(passed[j]) /\ Onward(swept[j], passed[j])
  BY <1>1, DroppedMoves
<1>3. passed = [j \in Job |-> passed[j]]
  BY DEF Dropped
<1> HIDE DEF passed
<1>4. \A j \in Job : Onward(passed[j], Claimed(passed[j], w))
  BY <1>2, ClaimedFollows DEF Onward
<1>5. \/ rows' = passed
      \/ c \in Job /\ rows' = [passed EXCEPT ![c] = Claimed(@, w)]
  BY DEF passed, swept
<1>6. \A j \in Job : rows[j] \in Record /\ swept[j] \in Record /\ passed[j] \in Record
  BY <1>1, <1>2 DEF Documents, WellFormed
<1>7. \A j \in Job : Onward(rows[j], passed[j])
  BY <1>1, <1>2, <1>6, FollowsTransitive
<1>8. \A j \in Job : Onward(rows[j], Claimed(passed[j], w))
  BY <1>4, <1>6, <1>7, FollowsTransitive
<1>9. \A j \in Job : Claimed(passed[j], w) \in Record
  BY <1>2, ClaimedFollows DEF Follows, WellFormed
<1> QED BY <1>3, <1>5, <1>6, <1>7, <1>8, <1>9 DEF Moved

\* What a command that checks its lease may rely on.
LEMMA ClaimHeld ==
    ASSUME Documents, held \in [Worker -> Lease], NEW w \in Worker, HoldsClaim(w)
    PROVE  /\ held[w].job \in Job /\ WellFormed(rows[held[w].job])
           /\ rows[held[w].job].state \in InProgress
           /\ rows[held[w].job].state # "absent"
BY DEF HoldsClaim, Lease, NoLease, Documents, InProgress

LEMMA HeartbeatMoves ==
    ASSUME Documents, held \in [Worker -> Lease], NEW w \in Worker, Heartbeat(w)
    PROVE  Moved
<1>1. HoldsClaim(w) /\ Put(held[w].job, Saved(rows[held[w].job]))
  BY DEF Heartbeat
<1> QED BY <1>1, ClaimHeld, ResavedFollows, PutMoves

LEMMA ConfirmEffectMoves ==
    ASSUME Documents, held \in [Worker -> Lease], NEW w \in Worker, ConfirmEffect(w)
    PROVE  Moved
<1>1. /\ HoldsClaim(w) /\ HasReceipt(w)
      /\ Put(held[w].job, EffectConfirmed(rows[held[w].job]))
  BY DEF ConfirmEffect, Advance
<1>2. rows[held[w].job].last \in Admitted(rows[held[w].job])
  BY <1>1 DEF HasReceipt, Is, Admitted
<1> QED BY <1>1, <1>2, ClaimHeld, EffectConfirmedFollows, PutMoves

LEMMA FinishMoves ==
    ASSUME Documents, held \in [Worker -> Lease], NEW w \in Worker, Finish(w)
    PROVE  Moved
<1> DEFINE j == held[w].job
<1>1. HoldsClaim(w)
  BY DEF Finish
<1>2. PICK named \in Intent \cup {NoIntent} :
         Put(j, Finished(rows[j], IF named # NoIntent THEN named
                                  ELSE PrimaryReceipt(j, rows[j])))
  BY DEF Finish, Advance
<1>3. j \in Job /\ WellFormed(rows[j])
  BY <1>1, ClaimHeld
<1> HIDE DEF j
<1>4. (IF named # NoIntent THEN named ELSE PrimaryReceipt(j, rows[j]))
         \in Intent \cup {NoIntent}
  BY <1>3, PrimaryReceiptType
<1> QED BY <1>2, <1>3, <1>4, FinishedFollows, PutMoves

LEMMA FailMoves ==
    ASSUME Documents, held \in [Worker -> Lease], NEW w \in Worker, Fail(w)
    PROVE  Moved
<1>1. HoldsClaim(w) /\ Put(held[w].job, Failed(rows[held[w].job]))
  BY DEF Fail, Advance
<1> QED BY <1>1, ClaimHeld, FailedFollows, PutMoves

LEMMA RefuseAdvanceMoves ==
    ASSUME Documents, held \in [Worker -> Lease], NEW w \in Worker, RefuseAdvance(w)
    PROVE  Moved
<1>1. PICK receipt \in BOOLEAN :
         /\ HoldsClaim(w)
         /\ receipt => HasReceipt(w)
         /\ Put(held[w].job, Refused(rows[held[w].job], receipt))
  BY DEF RefuseAdvance, Advance
<1>2. receipt => rows[held[w].job].last \in Admitted(rows[held[w].job])
  BY <1>1 DEF HasReceipt, Is, Admitted
<1> QED BY <1>1, <1>2, ClaimHeld, RefusedFollows, PutMoves

LEMMA RestartMoves == ASSUME Documents, Restart PROVE Moved
<1> PICK oversized : rows' = Recover(rows, Active(rows), oversized)
  BY DEF Restart
<1> QED BY RecoverMoves DEF Moved

\* BeginEffect moves its own document on and admits one effect in it.
LEMMA BeginEffectMoves ==
    ASSUME Documents, held \in [Worker -> Lease], NEW w \in Worker, NEW i \in Intent,
           BeginEffect(w, i)
    PROVE  LET j == held[w].job IN
           /\ j \in Job /\ Documents'
           /\ CanAdmit(j, rows[j], i)
           /\ rows'[j].version > rows[j].version
           /\ rows[j].state \in InProgress
           /\ Admitted(rows'[j]) = Admitted(rows[j]) \cup {i}
           /\ \A k \in Job \ {j} : rows'[k] = rows[k]
<1> DEFINE j == held[w].job
           b == EffectBegun(rows[j], i)
<1>1. /\ HoldsClaim(w) /\ CanAdmit(j, rows[j], i)
      /\ rows' = [rows EXCEPT ![j] = b]
  BY DEF BeginEffect, Advance, Put
<1>2. /\ j \in Job /\ WellFormed(rows[j]) /\ rows[j].state \in InProgress
  BY <1>1, ClaimHeld
<1>3. /\ WellFormed(b) /\ b.version > rows[j].version
      /\ Admitted(b) = Admitted(rows[j]) \cup {i}
  BY <1>2, EffectBegunFollows
<1> HIDE DEF b
<1>4. rows' \in [Job -> Record] /\ rows'[j] = b
  BY <1>1, <1>2, <1>3 DEF Documents, WellFormed
<1>5. \A k \in Job \ {j} : rows'[k] = rows[k]
  BY <1>1, <1>2 DEF Documents
<1>6. Documents'
  BY <1>3, <1>4, <1>5 DEF Documents
<1> QED BY <1>1, <1>2, <1>3, <1>4, <1>5, <1>6

-----------------------------------------------------------------------------
(* Type correctness.                                                         *)

HeldOK == held \in [Worker -> Lease]

Unchanging(w) ==
    \/ \E c \in Job \cup {NoJob} : Claim(w, c)
    \/ Heartbeat(w) \/ ConfirmEffect(w) \/ Finish(w) \/ Fail(w) \/ RefuseAdvance(w)

\* No action but BeginEffect admits an effect, and each keeps every document
\* or saves a later one.
LEMMA StepMoves ==
    ASSUME Documents, HeldOK, [Next]_vars,
           ~ \E w \in Worker, i \in Intent : BeginEffect(w, i)
    PROVE  Moved
<1>1. ASSUME UNCHANGED rows PROVE Moved
  BY <1>1 DEF Documents, Moved, Onward
<1>2. ASSUME NEW w \in Worker, Unchanging(w) PROVE Moved
  BY <1>2, ClaimMoves, HeartbeatMoves, ConfirmEffectMoves, FinishMoves, FailMoves,
     RefuseAdvanceMoves DEF HeldOK, Unchanging
<1>3. ASSUME NEW w \in Worker, Perform(w) \/ Drop(w) PROVE UNCHANGED rows
  BY <1>3 DEF Perform, Drop, dbvars
<1>4. ASSUME NEW j \in Job, Expire(j) PROVE UNCHANGED rows
  BY <1>4 DEF Expire
<1>5. ASSUME Retain PROVE UNCHANGED rows
  BY <1>5 DEF Retain
<1>6. ASSUME UNCHANGED vars PROVE UNCHANGED rows
  BY <1>6 DEF vars
<1>7. ASSUME NEW w \in Worker, WorkerStep(w) PROVE Moved
  BY <1>1, <1>2, <1>3, <1>7 DEF WorkerStep, Unchanging
<1>8. ASSUME User PROVE Moved
  BY <1>8, EnqueueMoves, CancelMoves, ReconcileMoves, AbandonMoves DEF User
<1> QED BY <1>1, <1>4, <1>5, <1>6, <1>7, <1>8, RestartMoves DEF Next

LEMMA StepDocuments ==
    ASSUME Documents, HeldOK, [Next]_vars
    PROVE  Documents'
BY StepMoves, MovedDocuments, BeginEffectMoves DEF HeldOK

\* A lease cut for a document, and what later steps make of it.
LEMMA LeaseTypes ==
    /\ NoLease \in Lease
    /\ \A j \in Job, r \in Record, todo \in Intent \cup {NoIntent} :
          /\ LeaseOn(j, r) \in Lease
          /\ [LeaseOn(j, r) EXCEPT !.todo = todo] \in Lease
    /\ \A l \in Lease, v \in Nat, receipt \in Intent \cup {NoIntent} :
          l.job # NoJob =>
             /\ [l EXCEPT !.version = v] \in Lease
             /\ [l EXCEPT !.todo = NoIntent, !.receipt = receipt] \in Lease
<1>1. NoLease \in Lease
  BY DEF Lease
<1>2. ASSUME NEW j \in Job, NEW r \in Record, NEW todo \in Intent \cup {NoIntent}
      PROVE  /\ LeaseOn(j, r) \in Lease
             /\ [LeaseOn(j, r) EXCEPT !.todo = todo] \in Lease
  BY <1>2, SMT DEF Lease, LeaseOn, Record
<1>3. ASSUME NEW l \in Lease, NEW v \in Nat, NEW receipt \in Intent \cup {NoIntent},
             l.job # NoJob
      PROVE  /\ [l EXCEPT !.version = v] \in Lease
             /\ [l EXCEPT !.todo = NoIntent, !.receipt = receipt] \in Lease
  <2>1. l \in [job : Job, generation : Nat, version : Nat,
               todo : Intent \cup {NoIntent}, receipt : Intent \cup {NoIntent}]
    BY <1>3 DEF Lease, NoLease
  <2> QED BY <1>3, <2>1, Zenon DEF Lease
<1> QED BY <1>1, <1>2, <1>3

LEMMA AdvanceHeld ==
    ASSUME HeldOK, NEW w \in Worker, held[w].job \in Job, NEW r \in Record,
           NEW todo \in Intent \cup {NoIntent}, Advance(w, r, todo)
    PROVE  HeldOK'
<1>1. Reply(w, r, todo)
  BY DEF Advance
<1>2. PICK l \in Lease : held' = [held EXCEPT ![w] = l]
  BY <1>1, LeaseTypes, Zenon DEF Reply
<1> QED BY <1>2 DEF HeldOK

LEMMA StepHeld ==
    ASSUME Documents, HeldOK, [Next]_vars
    PROVE  HeldOK'
<1> USE DEF HeldOK
<1>1. ASSUME UNCHANGED held PROVE HeldOK'
  BY <1>1
<1>2. CASE User
  BY <1>1, <1>2 DEF User, Enqueue, Cancel, Reconcile, Abandon
<1>3. CASE Retain \/ (\E j \in Job : Expire(j)) \/ UNCHANGED vars
  BY <1>1, <1>3 DEF Retain, Expire, vars
<1>4. CASE Restart
  BY <1>4, LeaseTypes DEF Restart
<1>5. ASSUME NEW w \in Worker, NEW c \in Job \cup {NoJob}, Claim(w, c)
      PROVE  HeldOK'
  <2>1. CASE c = NoJob
    BY <1>5, <2>1 DEF Claim
  <2>2. CASE c # NoJob
    <3>1. PICK reply \in {LeaseOn(c, rows'[c]), NoLease} :
             held' = [held EXCEPT ![w] = reply]
      BY <1>5, <2>2, Zenon DEF Claim
    <3>2. rows'[c] \in Record
      BY <1>5, <2>2, ClaimMoves DEF Moved
    <3> QED BY <2>2, <3>1, <3>2, LeaseTypes
  <2> QED BY <2>1, <2>2
<1>6. ASSUME NEW w \in Worker, NEW i \in Intent, BeginEffect(w, i)
      PROVE  HeldOK'
  <2>1. /\ HoldsClaim(w)
        /\ Advance(w, EffectBegun(rows[held[w].job], i), i)
    BY <1>6 DEF BeginEffect
  <2>2. EffectBegun(rows[held[w].job], i) \in Record
    BY <1>6, <2>1, ClaimHeld, EffectBegunFollows DEF WellFormed
  <2> QED BY <2>1, <2>2, ClaimHeld, AdvanceHeld
<1>7. ASSUME NEW w \in Worker, ConfirmEffect(w) \/ Finish(w) \/ Fail(w) \/ RefuseAdvance(w)
      PROVE  HeldOK'
  <2>1. PICK r : HoldsClaim(w) /\ Advance(w, r, NoIntent)
    BY <1>7, Zenon DEF ConfirmEffect, Finish, Fail, RefuseAdvance
  <2>2. held[w].job \in Job
    BY <2>1, ClaimHeld
  <2>3. Moved
    BY <1>7, ConfirmEffectMoves, FinishMoves, FailMoves, RefuseAdvanceMoves
  <2>4. r \in Record
    BY <2>1, <2>2, <2>3 DEF Advance, Put, Moved, Documents
  <2> QED BY <2>1, <2>2, <2>4, AdvanceHeld
<1>8. ASSUME NEW w \in Worker, Heartbeat(w)
      PROVE  HeldOK'
  <2> DEFINE l == [held[w] EXCEPT !.version = rows[held[w].job].version + 1]
  <2>1. HoldsClaim(w) /\ held' \in {held, [held EXCEPT ![w] = l]}
    BY <1>8 DEF Heartbeat
  <2>2. held[w].job \in Job /\ rows[held[w].job] \in Record
    BY <2>1, ClaimHeld DEF WellFormed
  <2>3. l \in Lease
    BY <2>1, <2>2, Counters, LeaseTypes DEF HoldsClaim
  <2> QED BY <2>1, <2>3
<1>9. ASSUME NEW w \in Worker, Perform(w)
      PROVE  HeldOK'
  <2>1. PICK receipt \in {held[w].todo, NoIntent} :
           held' = [held EXCEPT ![w].todo = NoIntent, ![w].receipt = receipt]
    BY <1>9 DEF Perform
  <2>2. held' = [held EXCEPT ![w] = [held[w] EXCEPT !.todo = NoIntent, !.receipt = receipt]]
    BY <2>1
  <2>3. held[w] \in Lease /\ held[w].todo # NoIntent
    BY <1>9 DEF Perform
  <2>4. held[w].job # NoJob /\ receipt \in Intent \cup {NoIntent}
    BY <2>3, RecordAssumption DEF Lease, NoLease
  <2> QED BY <2>2, <2>3, <2>4, LeaseTypes
<1>10. ASSUME NEW w \in Worker, Drop(w)
       PROVE  HeldOK'
  BY <1>10, LeaseTypes DEF Drop
<1> QED BY <1>2, <1>3, <1>4, <1>5, <1>6, <1>7, <1>8, <1>9, <1>10
        DEF Next, WorkerStep

LEMMA StepSets ==
    ASSUME TypeOK, [Next]_vars
    PROVE  /\ archived' \in SUBSET Job /\ reconciled' \in SUBSET Job
           /\ performed' \in [Job -> [Intent -> Nat]]
<1>1. ASSUME Prune \/ UNCHANGED archived PROVE archived' \in SUBSET Job
  BY <1>1 DEF Prune, Rows, TypeOK
<1>2. \A r : PruneIfEnded(r) => Prune \/ UNCHANGED archived
  BY DEF PruneIfEnded
<1>3. CASE User
  BY <1>1, <1>2, <1>3 DEF User, Enqueue, Cancel, Reconcile, Abandon, TypeOK
<1>4. CASE Retain \/ Restart \/ (\E j \in Job : Expire(j)) \/ UNCHANGED vars
  BY <1>1, <1>4 DEF Retain, Restart, Expire, vars, TypeOK
<1>5. ASSUME NEW w \in Worker, WorkerStep(w)
      PROVE  archived' \in SUBSET Job /\ reconciled' \in SUBSET Job
  <2>1. ASSUME NEW c \in Job \cup {NoJob}, Claim(w, c)
        PROVE  (Prune \/ UNCHANGED archived) /\ UNCHANGED reconciled
    BY <2>1, Zenon DEF Claim
  <2>2. ASSUME NEW r, NEW todo, Advance(w, r, todo)
        PROVE  (Prune \/ UNCHANGED archived) /\ UNCHANGED reconciled
    BY <1>2, <2>2 DEF Advance
  <2>3. ASSUME \/ \E i \in Intent : BeginEffect(w, i)
               \/ ConfirmEffect(w) \/ Finish(w) \/ Fail(w) \/ RefuseAdvance(w)
        PROVE  \E r, todo : Advance(w, r, todo)
    BY <2>3, Zenon DEF BeginEffect, ConfirmEffect, Finish, Fail, RefuseAdvance
  <2>4. ASSUME Heartbeat(w) \/ Perform(w) \/ Drop(w)
        PROVE  UNCHANGED archived /\ UNCHANGED reconciled
    BY <2>4, Zenon DEF Heartbeat, Perform, Drop, dbvars
  <2>5. (Prune \/ UNCHANGED archived) /\ UNCHANGED reconciled
    BY <1>5, <2>1, <2>2, <2>3, <2>4 DEF WorkerStep
  <2> QED BY <1>1, <2>5 DEF TypeOK
<1>6. ASSUME NEW w \in Worker, Perform(w)
      PROVE  performed' \in [Job -> [Intent -> Nat]]
  <2>1. held[w].job \in Job /\ held[w].todo \in Intent
    BY <1>6 DEF Perform, TypeOK, Lease, NoLease
  <2> QED BY <1>6, <2>1 DEF Perform, TypeOK
<1>7. ASSUME NEW w \in Worker, WorkerStep(w), ~Perform(w)
      PROVE  UNCHANGED performed
  BY <1>7, Zenon
     DEF WorkerStep, Claim, BeginEffect, Heartbeat, ConfirmEffect, Finish,
         Fail, RefuseAdvance, Drop, Advance
<1> QED BY <1>3, <1>4, <1>5, <1>6, <1>7 DEF Next, TypeOK

\* An expired lease is one that still runs: every save takes its job off.
LEMMA StepExpired ==
    ASSUME Documents, HeldOK, Documents', [Next]_vars,
           expired \in SUBSET {j \in Job : rows[j].lease = "granted"}
    PROVE  expired' \in SUBSET {j \in Job : rows'[j].lease = "granted"}
<1> DEFINE OK == expired' \in SUBSET {j \in Job : rows'[j].lease = "granted"}
<1>1. ASSUME UNCHANGED <<rows, expired>> PROVE OK
  BY <1>1
<1>2. ASSUME NEW j \in Job, NEW r, Put(j, r) PROVE OK
  BY <1>2 DEF Put, Documents
<1>3. CASE User
  BY <1>2, <1>3 DEF User, Enqueue, Cancel, Reconcile, Abandon
<1>4. CASE Retain \/ UNCHANGED vars
  BY <1>1, <1>4 DEF Retain, vars
<1>5. CASE Restart
  BY <1>5 DEF Restart
<1>6. ASSUME NEW j \in Job, Expire(j) PROVE OK
  BY <1>6 DEF Expire
<1>7. ASSUME NEW w \in Worker, NEW c \in Job \cup {NoJob}, Claim(w, c) PROVE OK
  <2>1. expired \subseteq LeaseLost
    BY DEF LeaseLost, Active, Rows, Documents, WellFormed, Attended
  <2> QED BY <1>7, <2>1 DEF Claim
<1>8. ASSUME NEW w \in Worker, Perform(w) \/ Drop(w) PROVE OK
  BY <1>1, <1>8 DEF Perform, Drop, dbvars
<1>9. ASSUME NEW w \in Worker,
             \/ \E i \in Intent : BeginEffect(w, i)
             \/ Heartbeat(w) \/ ConfirmEffect(w) \/ Finish(w)
             \/ Fail(w) \/ RefuseAdvance(w)
      PROVE  OK
  <2>1. HoldsClaim(w) /\ \E r : Put(held[w].job, r)
    BY <1>9, Zenon
       DEF BeginEffect, Heartbeat, ConfirmEffect, Finish, Fail, RefuseAdvance, Advance
  <2> QED BY <1>2, <2>1, ClaimHeld DEF HeldOK
<1> QED BY <1>3, <1>4, <1>5, <1>6, <1>7, <1>8, <1>9 DEF Next, WorkerStep

Typed == TypeOK /\ Documents

LEMMA InitTyped == Init => Typed
<1> SUFFICES ASSUME Init PROVE Typed
  OBVIOUS
<1>1. NoRow \in Record
  BY Zenon DEF NoRow, Record, State, Outcome
<1>2. WellFormed(NoRow)
  BY <1>1, SMT DEF NoRow, WellFormed, Attended, Counted, InProgress
<1> QED BY <1>1, <1>2, LeaseTypes DEF Init, Typed, TypeOK, Documents

LEMMA StepTyped == Typed /\ [Next]_vars => Typed'
<1> SUFFICES ASSUME Typed, [Next]_vars PROVE Typed'
  OBVIOUS
<1>1. Documents' /\ HeldOK'
  BY StepDocuments, StepHeld DEF Typed, TypeOK, HeldOK
<1>2. /\ archived' \in SUBSET Job /\ reconciled' \in SUBSET Job
      /\ performed' \in [Job -> [Intent -> Nat]]
  BY StepSets DEF Typed
<1>3. expired' \in SUBSET {j \in Job : rows'[j].lease = "granted"}
  BY <1>1, StepExpired DEF Typed, TypeOK, HeldOK
<1> QED BY <1>1, <1>2, <1>3 DEF Typed, TypeOK, Documents, HeldOK

LEMMA SpecTyped == Spec => []Typed
BY InitTyped, StepTyped, PTL DEF Spec

\* Type correctness: every document, lease and history the writer and its
\* workers can reach has the shape model.rs gives it, and only a job with a
\* granted lease can have an expired one.
THEOREM TypeCorrect == Spec => []TypeOK
<1>1. Typed => TypeOK
  BY DEF Typed
<1> QED BY <1>1, SpecTyped, PTL

-----------------------------------------------------------------------------
(* No effect happens twice.  A task that is about to perform an effect is    *)
(* the only one, its effect is on record and has not happened; the record of *)
(* an effect is never lost, so the effect is never admitted again.           *)

EffectsOnRecord ==
    \A j \in Job : \A i \in Intent :
        performed[j][i] > 0 => i \in Admitted(rows[j])

ErrandsAreNew ==
    \A w \in Worker : held[w].todo # NoIntent =>
        /\ held[w].todo \in Admitted(rows[held[w].job])
        /\ performed[held[w].job][held[w].todo] = 0

ErrandsAreExclusive ==
    \A v, w \in Worker :
        v # w /\ held[v].job = held[w].job /\ held[v].todo = held[w].todo
            => held[v].todo = NoIntent

OneWayToStart ==
    \A j \in Job :
        /\ \A p \in Printer :
              ~ {UploadAndStartOn(p), StartOn(p)} \subseteq Admitted(rows[j])
        /\ Request[j].kind = "start" =>
              \A i \in Admitted(rows[j]) : i.op = "printer_start"

PerformedOnce == \A j \in Job : \A i \in Intent : performed[j][i] <= 1

Once ==
    /\ EffectsOnRecord /\ ErrandsAreNew /\ ErrandsAreExclusive
    /\ OneWayToStart /\ PerformedOnce

\* Nothing happens outside, and no task gets a new errand.
Quiet ==
    /\ UNCHANGED performed
    /\ \A w \in Worker :
          \/ held'[w].todo = NoIntent
          \/ held'[w].todo = held[w].todo /\ held'[w].job = held[w].job

LEMMA StartIntents ==
    ASSUME NEW p \in Printer
    PROVE  /\ UploadAndStartOn(p) \in Intent /\ StartOn(p) \in Intent
           /\ UploadTo(p) \in Intent
           /\ UploadAndStartOn(p) # StartOn(p)
BY DEF UploadAndStartOn, StartOn, UploadTo, Intent, PrinterOperation

LEMMA AdvanceQuiet ==
    ASSUME HeldOK, NEW w \in Worker, held[w].job \in Job, NEW r,
           NEW todo \in Intent \cup {NoIntent}, Advance(w, r, todo)
    PROVE  /\ UNCHANGED performed
           /\ \A v \in Worker \ {w} : held'[v] = held[v]
           /\ \/ held'[w].todo = NoIntent
              \/ held'[w].todo = todo /\ held'[w].job = held[w].job
<1>1. Reply(w, r, todo) /\ UNCHANGED performed
  BY DEF Advance
<1>2. PICK l \in {[LeaseOn(held[w].job, r) EXCEPT !.todo = todo], NoLease} :
         held' = [held EXCEPT ![w] = l]
  BY <1>1, Zenon DEF Reply
<1>3. l.todo = NoIntent \/ (l.todo = todo /\ l.job = held[w].job)
  BY DEF LeaseOn, NoLease
<1> QED BY <1>1, <1>2, <1>3 DEF HeldOK

LEMMA StepQuiet ==
    ASSUME Documents, HeldOK, [Next]_vars,
           ~ \E w \in Worker : Perform(w) \/ \E i \in Intent : BeginEffect(w, i)
    PROVE  Quiet
<1> USE DEF HeldOK
<1>1. ASSUME UNCHANGED <<held, performed>> PROVE Quiet
  BY <1>1 DEF Quiet
<1>2. CASE User
  BY <1>1, <1>2 DEF User, Enqueue, Cancel, Reconcile, Abandon
<1>3. CASE Retain \/ (\E j \in Job : Expire(j)) \/ UNCHANGED vars
  BY <1>1, <1>3 DEF Retain, Expire, vars
<1>4. CASE Restart
  BY <1>4 DEF Restart, Quiet, NoLease
<1>5. ASSUME NEW w \in Worker, NEW c \in Job \cup {NoJob}, Claim(w, c)
      PROVE  Quiet
  <2>1. UNCHANGED performed
    BY <1>5 DEF Claim
  <2>2. \/ UNCHANGED held
        \/ \E reply \in {LeaseOn(c, rows'[c]), NoLease} :
              held' = [held EXCEPT ![w] = reply]
    BY <1>5, Zenon DEF Claim
  <2>3. LeaseOn(c, rows'[c]).todo = NoIntent /\ NoLease.todo = NoIntent
    BY DEF LeaseOn, NoLease
  <2> QED BY <2>1, <2>2, <2>3 DEF Quiet
<1>6. ASSUME NEW w \in Worker, ConfirmEffect(w) \/ Finish(w) \/ Fail(w) \/ RefuseAdvance(w)
      PROVE  Quiet
  <2>1. PICK r : HoldsClaim(w) /\ Advance(w, r, NoIntent)
    BY <1>6, Zenon DEF ConfirmEffect, Finish, Fail, RefuseAdvance
  <2> QED BY <2>1, ClaimHeld, AdvanceQuiet DEF Quiet
<1>7. ASSUME NEW w \in Worker, Heartbeat(w)
      PROVE  Quiet
  <2> DEFINE l == [held[w] EXCEPT !.version = rows[held[w].job].version + 1]
  <2>1. /\ HoldsClaim(w) /\ held' \in {held, [held EXCEPT ![w] = l]}
        /\ UNCHANGED performed
    BY <1>7 DEF Heartbeat
  <2>2. l.todo = held[w].todo /\ l.job = held[w].job
    BY <2>1, ClaimHeld DEF Lease, NoLease
  <2> HIDE DEF l
  <2> QED BY <2>1, <2>2 DEF Quiet
<1>8. ASSUME NEW w \in Worker, Drop(w)
      PROVE  Quiet
  BY <1>8 DEF Drop, Quiet, NoLease
<1> QED BY <1>2, <1>3, <1>4, <1>5, <1>6, <1>7, <1>8 DEF Next, WorkerStep

LEMMA QuietKeepsOnce ==
    ASSUME Typed, Typed', Once, Moved, Quiet
    PROVE  Once'
<1>1. \A j \in Job : Admitted(rows'[j]) = Admitted(rows[j])
  BY DEF Moved, Onward, Follows
<1>2. \A w \in Worker : held'[w].todo # NoIntent =>
         held'[w].todo = held[w].todo /\ held'[w].job = held[w].job
                                      /\ held'[w].job \in Job
  BY DEF Quiet, Typed, TypeOK, Lease, NoLease
<1>3. (EffectsOnRecord /\ OneWayToStart /\ PerformedOnce)'
  BY <1>1 DEF Once, Quiet, EffectsOnRecord, OneWayToStart, PerformedOnce
<1>4. (ErrandsAreNew /\ ErrandsAreExclusive)'
  BY <1>1, <1>2 DEF Once, Quiet, ErrandsAreNew, ErrandsAreExclusive
<1> QED BY <1>3, <1>4 DEF Once

\* Admission: the effect is new to the document, so nobody performs it, and a
\* print that can already start one way is not given the other.
LEMMA BeginEffectKeepsOnce ==
    ASSUME Typed, Typed', Once, NEW w \in Worker, NEW i \in Intent, BeginEffect(w, i)
    PROVE  Once'
<1> DEFINE j == held[w].job
<1>1. /\ j \in Job
      /\ CanAdmit(j, rows[j], i)
      /\ Admitted(rows'[j]) = Admitted(rows[j]) \cup {i}
      /\ \A k \in Job \ {j} : rows'[k] = rows[k]
  BY BeginEffectMoves DEF Typed, TypeOK
<1>2. i \notin Admitted(rows[j]) /\ performed[j][i] = 0
  BY <1>1, SMT DEF CanAdmit, Once, EffectsOnRecord, Typed, TypeOK
<1>3. /\ UNCHANGED performed
      /\ \A v \in Worker \ {w} : held'[v] = held[v]
      /\ \/ held'[w].todo = NoIntent
         \/ held'[w].todo = i /\ held'[w].job = j
  BY <1>1, AdvanceQuiet DEF BeginEffect, Typed, TypeOK, HeldOK
<1> HIDE DEF j
<1>4. \A k \in Job : Admitted(rows[k]) \subseteq Admitted(rows'[k])
  BY <1>1
<1>5. (EffectsOnRecord /\ PerformedOnce)'
  BY <1>3, <1>4 DEF Once, EffectsOnRecord, PerformedOnce
<1>6. \A v \in Worker : held[v].todo # NoIntent =>
         held[v].job \in Job /\ ~(held[v].job = j /\ held[v].todo = i)
  BY <1>2 DEF Once, ErrandsAreNew, Typed, TypeOK, Lease, NoLease
<1>7. ErrandsAreNew'
  BY <1>1, <1>2, <1>3, <1>4, <1>6 DEF Once, ErrandsAreNew
<1>8. ErrandsAreExclusive'
  BY <1>3, <1>6 DEF Once, ErrandsAreExclusive
<1>9. OperationAllowed(j, rows[j], i)
  BY <1>1 DEF CanAdmit
<1>10. ASSUME NEW p \in Printer
       PROVE  ~ {UploadAndStartOn(p), StartOn(p)} \subseteq Admitted(rows'[j])
  <2> SUFFICES ASSUME {UploadAndStartOn(p), StartOn(p)} \subseteq Admitted(rows'[j])
               PROVE  FALSE
    OBVIOUS
  <2>1. \/ i = UploadAndStartOn(p) /\ StartOn(p) \in Admitted(rows[j])
        \/ i = StartOn(p) /\ UploadAndStartOn(p) \in Admitted(rows[j])
    BY <1>1, StartIntents DEF Once, OneWayToStart
  <2>2. Request[j].kind = "upload"
    BY <1>1, <1>9, <2>1
       DEF OperationAllowed, UploadAndStartOn, StartOn, Once, OneWayToStart
  <2>3. i.target = p /\ i.op \in {"printer_upload_and_start", "printer_start"}
    BY <2>1 DEF UploadAndStartOn, StartOn
  <2>4. \/ i = UploadAndStartOn(p) /\ StartOn(p) \notin Admitted(rows[j])
        \/ i = StartOn(p) /\ UploadAndStartOn(p) \notin Admitted(rows[j])
    BY <1>9, <2>2, <2>3
       DEF OperationAllowed, UploadTo, UploadAndStartOn, StartOn
  <2> QED BY <2>1, <2>4 DEF UploadAndStartOn, StartOn
<1>11. Request[j].kind = "start" => i.op = "printer_start"
  BY <1>9 DEF OperationAllowed, StartOn
<1>12. OneWayToStart'
  BY <1>1, <1>10, <1>11 DEF Once, OneWayToStart
<1> QED BY <1>5, <1>7, <1>8, <1>12 DEF Once

\* The effect happens: it had not, and the task that holds it lets it go.
LEMMA PerformKeepsOnce ==
    ASSUME Typed, Typed', Once, NEW w \in Worker, Perform(w)
    PROVE  Once'
<1> DEFINE j == held[w].job
           i == held[w].todo
<1>1. j \in Job /\ i \in Intent /\ i \in Admitted(rows[j]) /\ performed[j][i] = 0
  BY DEF Perform, Typed, TypeOK, Lease, NoLease, Once, ErrandsAreNew
<1>2. performed' = [performed EXCEPT ![j][i] = @ + 1]
  BY DEF Perform
<1>3. PICK receipt : held' = [held EXCEPT ![w].todo = NoIntent, ![w].receipt = receipt]
  BY DEF Perform
<1>4. held'[w].todo = NoIntent /\ \A v \in Worker \ {w} : held'[v] = held[v]
  BY <1>3 DEF Typed, TypeOK, Lease, NoLease
<1>5. UNCHANGED rows
  BY DEF Perform, dbvars
<1> HIDE DEF j, i
<1>6. performed'[j][i] = 1 /\ \A k \in Job, x \in Intent :
         ~(k = j /\ x = i) => performed'[k][x] = performed[k][x]
  BY <1>1, <1>2, SMT DEF Typed, TypeOK
<1>7. (EffectsOnRecord /\ PerformedOnce)'
  BY <1>1, <1>5, <1>6, SMT DEF Once, EffectsOnRecord, PerformedOnce
<1>8. OneWayToStart'
  BY <1>5 DEF Once, OneWayToStart
<1>9. ErrandsAreNew'
  <2> SUFFICES ASSUME NEW v \in Worker, held'[v].todo # NoIntent
               PROVE  /\ held'[v].todo \in Admitted(rows'[held'[v].job])
                      /\ performed'[held'[v].job][held'[v].todo] = 0
    BY DEF ErrandsAreNew
  <2>1. v # w /\ held'[v] = held[v]
    BY <1>4
  <2>2. ~(held[v].job = j /\ held[v].todo = i)
    BY <1>1, <2>1, RecordAssumption DEF Once, ErrandsAreExclusive, j, i
  <2>3. held[v].job \in Job /\ held[v].todo \in Intent
    BY <2>1 DEF Typed, TypeOK, Lease, NoLease
  <2> QED BY <1>5, <1>6, <2>1, <2>2, <2>3 DEF Once, ErrandsAreNew
<1>10. ErrandsAreExclusive'
  BY <1>4 DEF Once, ErrandsAreExclusive
<1> QED BY <1>7, <1>8, <1>9, <1>10 DEF Once

LEMMA StepOnce == Typed /\ Typed' /\ Once /\ [Next]_vars => Once'
<1> SUFFICES ASSUME Typed, Typed', Once, [Next]_vars PROVE Once'
  OBVIOUS
<1>1. Documents /\ HeldOK
  BY DEF Typed, TypeOK, HeldOK
<1>2. ASSUME NEW w \in Worker, NEW i \in Intent, BeginEffect(w, i) PROVE Once'
  BY <1>2, BeginEffectKeepsOnce
<1>3. ASSUME NEW w \in Worker, Perform(w) PROVE Once'
  BY <1>3, PerformKeepsOnce
<1>4. CASE ~ \E w \in Worker : Perform(w) \/ \E i \in Intent : BeginEffect(w, i)
  BY <1>1, <1>4, StepMoves, StepQuiet, QuietKeepsOnce
<1> QED BY <1>2, <1>3, <1>4

LEMMA InitOnce == Init => Once
<1> SUFFICES ASSUME Init PROVE Once
  OBVIOUS
<1>1. \A j \in Job : Admitted(rows[j]) = {}
  BY DEF Init, NoRow, Admitted
<1>2. \A w \in Worker : held[w].todo = NoIntent
  BY DEF Init, NoLease
<1> QED BY <1>1, <1>2, StartIntents
    DEF Init, Once, EffectsOnRecord, ErrandsAreNew, ErrandsAreExclusive,
        OneWayToStart, PerformedOnce

\* No effect of a job is sent to the outside world twice, and one job starts
\* at most one print, through every loss of a lease, restart, quarantine,
\* refusal and late answer.
THEOREM NeverSentTwice == Spec => []NeverResent
<1>1. Typed /\ Once => NeverResent
  <2> SUFFICES ASSUME Typed, Once, NEW j \in Job
               PROVE  /\ \A i \in Intent : performed[j][i] <= 1
                      /\ \A p \in Printer :
                            performed[j][UploadAndStartOn(p)]
                                + performed[j][StartOn(p)] <= 1
    BY DEF NeverResent
  <2>1. \A i \in Intent : performed[j][i] \in Nat /\ performed[j][i] <= 1
    BY DEF Typed, TypeOK, Once, PerformedOnce
  <2>2. ASSUME NEW p \in Printer
        PROVE  performed[j][UploadAndStartOn(p)] = 0 \/ performed[j][StartOn(p)] = 0
    BY <2>1, StartIntents, SMT DEF Once, OneWayToStart, EffectsOnRecord
  <2> QED BY <2>1, <2>2, StartIntents, SMT
<1> QED BY <1>1, InitOnce, StepOnce, SpecTyped, PTL DEF Spec

=============================================================================
