----------------------------- MODULE PlanDrafts -----------------------------
(***************************************************************************)
(* The Plan drafts of one Build on the Node server, from their creation to *)
(* their publication, and the accepted Plan as the line of its revisions.  *)
(*                                                                         *)
(* A command is one SQLite transaction, so it is one action, except that a *)
(* recompute and a rebase prepare their draft before the transaction that  *)
(* writes it: other commands may run in between.  Requests to publish are  *)
(* kept by their idempotency keys and may be delivered late and repeatedly.*)
(* The other requests also name what they expect; one that comes too late  *)
(* is refused and changes nothing.                                         *)
(*                                                                         *)
(* A digest is the record of what it digests.  There is one actor.  The    *)
(* Required units and their Progress, archiving and production are the     *)
(* subject of AcceptedPlan and PlanProduction: here a reconciliation is    *)
(* only automatic or explicit, and resolved or not.                        *)
(***************************************************************************)
EXTENDS Integers, Sequences, FiniteSets, FiniteSetsExt

CONSTANTS
    Parts,          \* the part keys
    Decisions,      \* what the operator may decide: <<part, field, value>>
    Inputs,         \* what the attached Sources hold, 1 and then each after a sync or attachment
    Found,          \* the parts that a scan finds for each of the inputs
    Attached,       \* the attachment identity of each of the inputs
    KitIncludes, KitExcludes,   \* the parts the kit's rules include and exclude
    Ambiguous,      \* the parts that, when new, need an explicit reconciliation
    DraftKeys,      \* idempotency keys of recomputes and rebases
    AskKeys,        \* idempotency keys of requests to publish
    SaveKeys,       \* idempotency keys of explicit reconciliations
    Workers,        \* recomputes and rebases between their two halves
    MaxRevisions, MaxDrafts,    \* bounds
    Resumable,      \* bound: the drafts that are resumed, <<draft, generation>>
    Interrupted,    \* bound: after whose creation the process may stop, <<draft, revision>>
    None

ASSUME DraftAssumption ==
    /\ Found \in [Inputs -> SUBSET Parts]
    /\ 1 \in Inputs /\ Inputs \subseteq Nat
    /\ DOMAIN Attached = Inputs
    /\ KitIncludes \cap KitExcludes = {}
    /\ None \notin Nat /\ None \notin Nat \X Nat
    /\ \A c \in Decisions : c[1] \in Parts /\ c[2] \in {"included", "override"}

VARIABLES
    revisions,  \* the accepted Plans with their receipts
    drafts,     \* plan_drafts, in the order of their ids
    saved,      \* the drafts and keys of the saved reconciliations
    inputs,     \* what the Sources hold now
    asks,       \* the request to publish that each key was last used for
    work        \* what each worker has prepared, or None

vars == <<revisions, drafts, saved, inputs, asks, work>>

Latest == Len(revisions)
Accepted == revisions[Latest].content
Ids == DOMAIN drafts
Opened == {d \in Ids : drafts[d].state = "open"}

NewChoice == [included |-> TRUE, override |-> None]

\* An accepted Plan, and an open draft that has just been computed from it.
Init ==
    /\ inputs = 1
    /\ revisions = <<[content |-> [p \in Found[inputs] |-> NewChoice], inputs |-> inputs,
                      key |-> None, draft |-> None, request |-> None]>>
    /\ drafts = <<[state |-> "open", base |-> 1, inputs |-> inputs, gen |-> 0,
                   content |-> revisions[1].content, format |-> "plan", selected |-> None,
                   key |-> None, from |-> None]>>
    /\ saved = {}
    /\ asks = [k \in AskKeys |-> None]
    /\ work = [w \in Workers |-> None]

-----------------------------------------------------------------------------
(* Digests and reconciliations.                                            *)

\* The base, the inputs and the parts, and the selected reconciliation if there is one.
Digest(dr) == [format |-> dr.format, base |-> dr.base, inputs |-> dr.inputs,
               content |-> dr.content,
               selection |-> dr.selected]

\* Without a decision of the operator a new ambiguous part leaves a reconciliation unresolved.
Result(dr, decided) ==
    [decided |-> decided,
     ready |-> decided \/ \A p \in Ambiguous \cap DOMAIN dr.content :
                            p \in DOMAIN revisions[dr.base].content]

Select(dr, decided) ==
    [dr EXCEPT !.selected = Result(dr, decided), !.format = "selection"]

\* autoReconcile selects a reconciliation for a draft that has none.  Its key is the digest:
\* when the key was used before, for a selection that a later edit has cleared, it is refused.
AutoKey(d, dr) == <<d, <<"auto", Digest(dr)>>>>

CanAutoReconcile(d, dr) ==
    /\ dr.selected = None
    /\ dr.state = "open"
    /\ dr.base = Latest
    /\ AutoKey(d, dr) \notin saved

\* Every command that leaves a draft to work on ends with autoReconcile.
Leave(d, all) ==
    IF CanAutoReconcile(d, all[d])
    THEN /\ drafts' = [all EXCEPT ![d] = Select(@, FALSE)]
         /\ saved' = saved \cup {AutoKey(d, all[d])}
    ELSE drafts' = all /\ saved' = saved

\* It is a transaction of its own: the process may stop before it.
LeaveUnreconciled(all) == drafts' = all /\ saved' = saved

-----------------------------------------------------------------------------
(* Editing.                                                                *)

Changed(content, p, field, value) ==
    IF field = "included" THEN [content EXCEPT ![p].included = value]
                          ELSE [content EXCEPT ![p].override = value]

Fields == {"included", "override"}

\* An edit clears the selection, and the digest keeps its format.
Edited(dr, p, field, value) ==
    [dr EXCEPT !.content = Changed(@, p, field, value), !.selected = None]

Edit(d, shown, p, field, value) ==
    /\ p \in DOMAIN drafts[d].content
    /\ drafts[d].state = "open"
    /\ drafts[d].base = Latest
    /\ Edited(drafts[d], p, field, value).content # drafts[d].content
    /\ Digest(drafts[d]) = shown
    /\ Leave(d, [drafts EXCEPT ![d] = Edited(@, p, field, value)])
    /\ UNCHANGED <<revisions, inputs, asks, work>>

\* The page of a draft is prepared for Apply, or an edit that changes nothing is made.
Prepare(d) ==
    /\ drafts[d].state = "open"
    /\ Leave(d, drafts)
    /\ UNCHANGED <<revisions, inputs, asks, work>>

\* An explicit reconciliation, under a key that no client has used before.
Reconcile(d, shown, key) ==
    /\ \A e \in Ids : <<e, key>> \notin saved
    /\ drafts[d].state = "open"
    /\ Digest(drafts[d]) = shown
    /\ drafts[d].base = Latest
    /\ drafts' = [drafts EXCEPT ![d] = Select(@, TRUE)]
    /\ saved' = saved \cup {<<d, key>>}
    /\ UNCHANGED <<revisions, inputs, asks, work>>

Closed(dr) == [dr EXCEPT !.state = "abandoned", !.gen = @ + 1]

Abandon(d, gen) ==
    /\ drafts[d].state = "open"
    /\ drafts[d].gen = gen
    /\ drafts' = [drafts EXCEPT ![d] = Closed(@)]
    /\ UNCHANGED <<revisions, saved, inputs, asks, work>>

Resumed(dr) == [dr EXCEPT !.state = "open", !.gen = @ + 1]

\* An abandoned draft is opened again, with what it held, while its base is the accepted Plan.
Resume(d, gen) ==
    /\ drafts[d].gen = gen /\ <<d, gen>> \in Resumable
    /\ drafts[d].state = "abandoned"
    /\ drafts[d].base = Latest
    /\ drafts' = [drafts EXCEPT ![d] = Resumed(@)]
    /\ UNCHANGED <<revisions, saved, inputs, asks, work>>

-----------------------------------------------------------------------------
(* New drafts.                                                             *)

\* A scan of the Sources, with the choices of the accepted Plan and, on request, the kit's.
Scanned(manifest) ==
    [p \in Found[inputs] |->
        IF p \in DOMAIN Accepted
        THEN [Accepted[p] EXCEPT !.included =
                IF manifest /\ p \in KitIncludes \cup KitExcludes THEN p \in KitIncludes ELSE @]
        ELSE [NewChoice EXCEPT !.included = p \notin KitExcludes]]

NewDraft(key, prepared, content, from) ==
    [state |-> "open", base |-> prepared.base, inputs |-> prepared.inputs, gen |-> 0,
     content |-> content, format |-> "plan", selected |-> None, key |-> key, from |-> from]

WithKey(key) == {d \in Ids : drafts[d].key = key}

\* The open draft with the highest id that has the part: it overwrites the others.
LastEdit(p) == drafts[Max({d \in Opened : p \in DOMAIN drafts[d].content})].content[p]

\* Mutant: what was prepared is written as it is.
NothingCarried(content, manifest) == content

\* The overrides of the open drafts, and on request their inclusion.
Carried(content, manifest) ==
    [p \in DOMAIN content |->
        IF \A d \in Opened : p \notin DOMAIN drafts[d].content THEN content[p]
        ELSE [included |-> IF manifest THEN content[p].included ELSE LastEdit(p).included,
              override |-> IF LastEdit(p).override = None THEN content[p].override
                           ELSE LastEdit(p).override]]

\* recomputePlanDraft up to its transaction.
StartRecompute(w, key, manifest) ==
    /\ work[w] = None
    /\ WithKey(key) = {}
    /\ work' = [work EXCEPT ![w] =
            [kind |-> "recompute", key |-> key, base |-> Latest, inputs |-> inputs,
             content |-> Scanned(manifest), manifest |-> manifest]]
    /\ UNCHANGED <<revisions, drafts, saved, inputs, asks>>

\* A retry finds the draft of its key.
RetryDraft(key) ==
    \E d \in WithKey(key) :
        /\ Leave(d, drafts)
        /\ UNCHANGED <<revisions, inputs, asks, work>>

StillPrepared(x) == x.base = Latest /\ x.inputs = inputs

FinishRecompute(w) ==
    LET x == work[w]
        n == Len(drafts) + 1
        closed == [d \in Ids |-> IF d \in Opened THEN Closed(drafts[d]) ELSE drafts[d]]
    IN  /\ x # None /\ x.kind = "recompute"
        /\ WithKey(x.key) = {} /\ StillPrepared(x)
        /\ n <= MaxDrafts
        /\ LET all == Append(closed, NewDraft(x.key, x, Carried(x.content, x.manifest), None))
           IN  Leave(n, all) \/ (<<n, Latest>> \in Interrupted /\ LeaveUnreconciled(all))
        /\ work' = [work EXCEPT ![w] = None]
        /\ UNCHANGED <<revisions, inputs, asks>>

-----------------------------------------------------------------------------
(* Rebasing.                                                               *)

BaseChoice(dr, p) ==
    LET base == revisions[dr.base].content
    IN  IF p \in DOMAIN base THEN base[p] ELSE NewChoice

IsNew(base, p) == p \notin DOMAIN revisions[base].content

\* The operator has decided a field of a part that differs from the accepted one, and the
\* inclusion of every new part.
Decided(dr, p, field) ==
    \/ dr.content[p][field] # BaseChoice(dr, p)[field]
    \/ field = "included" /\ IsNew(dr.base, p)

Kept(dr, fresh) ==
    {c \in (DOMAIN dr.content \cap DOMAIN fresh) \X Fields : Decided(dr, c[1], c[2])}

\* Another publication has decided the field differently in the meantime.
Clashes(dr, fresh) ==
    {c \in Kept(dr, fresh) :
        /\ c[2] = "included" => ~IsNew(dr.base, c[1]) \/ ~IsNew(Latest, c[1])
        /\ fresh[c[1]][c[2]] # BaseChoice(dr, c[1])[c[2]]
        /\ fresh[c[1]][c[2]] # dr.content[c[1]][c[2]]}

Merged(dr, fresh) ==
    LET Value(p, field) == IF <<p, field>> \in Kept(dr, fresh) THEN dr.content[p][field]
                                                              ELSE fresh[p][field]
    IN  [p \in DOMAIN fresh |->
            [included |-> Value(p, "included"), override |-> Value(p, "override")]]

Generation(dr) == IF dr.state = "open" THEN dr.gen + 1 ELSE dr.gen

\* Mutant: successors are found by the key alone.
SuccessorByKey(key, from) == WithKey(key)

\* The draft that an earlier rebase has made, under this key or of this source generation.
Successor(key, from) == WithKey(key) \cup {d \in Ids : drafts[d].from = from}

\* rebasePlanDraft up to its transaction.
StartRebase(w, key, d) ==
    LET dr == drafts[d]
        from == <<d, Generation(dr)>>
        fresh == Scanned(FALSE)
    IN  /\ work[w] = None
        /\ dr.state \in {"open", "abandoned"}
        /\ Successor(key, from) = {}
        /\ dr.base # Latest \/ dr.inputs # inputs
        /\ Clashes(dr, fresh) = {}
        /\ work' = [work EXCEPT ![w] =
                [kind |-> "rebase", key |-> key, base |-> Latest, inputs |-> inputs,
                 content |-> Merged(dr, fresh), from |-> from,
                 state |-> dr.state, gen |-> dr.gen, shown |-> Digest(dr)]]
        /\ UNCHANGED <<revisions, drafts, saved, inputs, asks>>

\* The source is still the one that the rebase was prepared from.
SourceHolds(x, dr) == dr.state = x.state /\ dr.gen = x.gen /\ Digest(dr) = x.shown

FinishRebase(w) ==
    LET x == work[w]
        d == x.from[1]
        n == Len(drafts) + 1
        closed == [drafts EXCEPT ![d] = IF x.state = "open" THEN Closed(@) ELSE @]
    IN  /\ x # None /\ x.kind = "rebase"
        /\ Successor(x.key, x.from) = {}
        /\ SourceHolds(x, drafts[d])
        /\ StillPrepared(x)
        /\ n <= MaxDrafts
        /\ LET all == Append(closed, NewDraft(x.key, x, x.content, x.from))
           IN  Leave(n, all) \/ (<<n, Latest>> \in Interrupted /\ LeaveUnreconciled(all))
        /\ work' = [work EXCEPT ![w] = None]
        /\ UNCHANGED <<revisions, inputs, asks>>

\* The second half of a recompute or a rebase is refused, or the process stops before it.
GiveUp(w) ==
    /\ work[w] # None
    /\ work' = [work EXCEPT ![w] = None]
    /\ UNCHANGED <<revisions, drafts, saved, inputs, asks>>

-----------------------------------------------------------------------------
(* Publishing.                                                             *)

\* A client asks for what it is shown: a draft (applyPlanChanges), ...
AskApply(k, d) ==
    /\ drafts[d].state = "open"
    /\ asks' = [asks EXCEPT ![k] =
            [kind |-> "apply", draft |-> d, gen |-> drafts[d].gen, base |-> drafts[d].base,
             shown |-> Digest(drafts[d])]]
    /\ UNCHANGED <<revisions, drafts, saved, inputs, work>>

\* ... or one choice more in the open draft or in the accepted Plan (savePlanChoices).
Source(d) == [draft |-> d, gen |-> drafts[d].gen, shown |-> Digest(drafts[d])]

AskSave(k, source, p, field, value) ==
    /\ asks' = [asks EXCEPT ![k] =
            [kind |-> "save", base |-> Latest, source |-> source,
             part |-> p, field |-> field, value |-> value]]
    /\ UNCHANGED <<revisions, drafts, saved, inputs, work>>

\* The two kinds of request keep their keys apart.
Receipts(k) == {v \in DOMAIN revisions : revisions[v].key = <<asks[k].kind, k>>}
Applied(d) == {v \in DOMAIN revisions : revisions[v].draft = d}

Receipted(k) ==
    LET v == CHOOSE v \in Receipts(k) : TRUE
    IN  IF revisions[v].request = asks[k] THEN <<"existing", v>> ELSE <<"idempotency_conflict">>

\* Mutant: the digest of the draft is not compared.
UncomparedDraft(q) == drafts[q.draft].gen = q.gen

DraftHolds(q) == drafts[q.draft].gen = q.gen /\ Digest(drafts[q.draft]) = q.shown

\* Mutant: the draft of a request is looked at before its receipt.
DraftFirst(k) ==
    LET q == asks[k]
    IN  IF drafts[q.draft].state # "open" THEN <<"not_open">>
        ELSE IF Receipts(k) # {} THEN Receipted(k)
        ELSE IF ~DraftHolds(q) THEN <<"draft_changed">>
        ELSE <<"applied", Latest + 1>>

BaseHolds(q) == q.base = Latest

ApplyAnswer(k) ==
    LET q == asks[k]
        dr == drafts[q.draft]
    IN  IF Receipts(k) # {} THEN Receipted(k)
        ELSE IF Applied(q.draft) # {} THEN <<"already_applied", Applied(q.draft)>>
        ELSE IF dr.state # "open" THEN <<"not_open">>
        ELSE IF ~DraftHolds(q) THEN <<"draft_changed">>
        ELSE IF ~BaseHolds(q) THEN <<"base_changed">>
        ELSE IF Attached[dr.inputs] # Attached[inputs] THEN <<"inputs_changed">>
        ELSE IF \/ dr.selected = None
                \/ ~dr.selected.ready THEN <<"reconciliation_required">>
        ELSE <<"applied", Latest + 1>>

Consumed(dr) == [dr EXCEPT !.state = "consumed", !.gen = @ + 1]

\* The revision and the receipt.
Published(k, d, dr) ==
    revisions' = Append(revisions, [content |-> dr.content, inputs |-> dr.inputs,
                                    key |-> <<asks[k].kind, k>>, draft |-> d,
                                    request |-> asks[k]])

Apply(k) ==
    /\ asks[k] # None /\ asks[k].kind = "apply"
    /\ ApplyAnswer(k)[1] = "applied"
    /\ Latest < MaxRevisions
    /\ LET d == asks[k].draft
       IN  /\ Published(k, d, drafts[d])
           /\ drafts' = [drafts EXCEPT ![d] = Consumed(@)]
    /\ UNCHANGED <<saved, inputs, asks, work>>

\* Without a source no draft may be open.
SourceOpen(q) ==
    IF q.source = None THEN Opened = {}
    ELSE drafts[q.source.draft].state = "open" /\ DraftHolds(q.source)

SaveContent(q) == IF q.source = None THEN Scanned(FALSE) ELSE drafts[q.source.draft].content

SaveDecided(q) ==
    /\ q.source # None
    /\ drafts[q.source.draft].selected # None
    /\ drafts[q.source.draft].selected.decided

SourceClosed(q) ==
    IF q.source = None THEN drafts ELSE [drafts EXCEPT ![q.source.draft] = Closed(@)]

\* A draft of the request's own is inserted, reconciled and published, and the source
\* closed; if any of these is refused nothing has happened.
Save(k) ==
    LET q == asks[k]
        n == Len(drafts) + 1
        own == NewDraft(<<"payload", q>>, [base |-> Latest, inputs |-> inputs],
                        Changed(SaveContent(q), q.part, q.field, q.value), None)
        reconciled == Select(own, SaveDecided(q))
    IN  /\ q # None /\ q.kind = "save"
        /\ Receipts(k) = {}
        /\ BaseHolds(q)
        /\ SourceOpen(q)
        /\ q.source # None => /\ drafts[q.source.draft].base = Latest
                              /\ drafts[q.source.draft].inputs = inputs
        /\ q.part \in DOMAIN SaveContent(q)
        /\ reconciled.selected.ready
        /\ n <= MaxDrafts /\ Latest < MaxRevisions
        /\ Published(k, n, own)
        /\ drafts' = Append(SourceClosed(q), Consumed(reconciled))
        /\ saved' = saved \cup {<<n, <<"save", k>>>>}
        /\ UNCHANGED <<inputs, asks, work>>

\* What a client gets to read when its request is delivered.
Answer(k) ==
    IF asks[k].kind = "apply" THEN ApplyAnswer(k)
    ELSE IF Receipts(k) # {} THEN Receipted(k)
    ELSE <<"refused or saved">>

-----------------------------------------------------------------------------
\* The Sources are synced, attached or detached at any time.
Sync ==
    /\ inputs' = inputs + 1 /\ inputs' \in Inputs
    /\ UNCHANGED <<revisions, drafts, saved, asks, work>>

DraftStep ==
    \E d \in Ids :
        \/ \E c \in Decisions, e \in Ids : Edit(d, Digest(drafts[e]), c[1], c[2], c[3])
        \/ Prepare(d)
        \/ \E key \in SaveKeys, e \in Ids : Reconcile(d, Digest(drafts[e]), key)
        \/ \E gen \in 0 .. drafts[d].gen : Abandon(d, gen) \/ Resume(d, gen)

WorkStep ==
    \/ \E w \in Workers :
        \/ \E key \in DraftKeys, manifest \in BOOLEAN : StartRecompute(w, key, manifest)
        \/ \E key \in DraftKeys, d \in Ids : StartRebase(w, key, d)
        \/ FinishRecompute(w) \/ FinishRebase(w) \/ GiveUp(w)
    \/ \E key \in DraftKeys : RetryDraft(key)

AskStep ==
    \E k \in AskKeys :
        \/ \E d \in Ids : AskApply(k, d)
        \/ \E source \in {None} \cup {Source(d) : d \in Opened}, c \in Decisions :
                AskSave(k, source, c[1], c[2], c[3])
        \/ Apply(k) \/ Save(k)

Next == DraftStep \/ WorkStep \/ AskStep \/ Sync

Spec == Init /\ [][Next]_vars

-----------------------------------------------------------------------------
(* Properties.                                                             *)

ChoicesOf(content) ==
    {<<p, field, content[p][field]>> : p \in DOMAIN content, field \in Fields}

\* What the author of a request was shown and asked for.
Wanted(k) ==
    LET q == asks[k]
        source == IF q.kind = "apply" THEN q.shown.content
                  ELSE IF q.source = None THEN <<>> ELSE q.source.shown.content
    IN  IF q.kind = "apply" THEN ChoicesOf(source)
        ELSE {c \in ChoicesOf(source) : <<c[1], c[2]>> # <<q.part, q.field>>}
                \cup {<<q.part, q.field, q.value>>}

Intents ==
    {[key |-> <<asks[k].kind, k>>, base |-> asks[k].base, wants |-> Wanted(k),
      draft |-> IF asks[k].kind = "apply" THEN asks[k].draft ELSE None,
      whole |-> asks[k].kind = "apply" \/ asks[k].source # None] :
        k \in {j \in AskKeys : asks[j] # None}}

HistoryOf ==
    [v \in DOMAIN revisions |->
        [key |-> revisions[v].key, draft |-> revisions[v].draft,
         choices |-> ChoicesOf(revisions[v].content)]]

\* The revisions are the history that PlanHistory promises: each publishes what its request's
\* author was shown and asked for, on the Plan they saw, and once.
History == INSTANCE PlanHistory WITH asked <- Intents, history <- HistoryOf,
                                     NoKey <- None, NoDraft <- None

KeepsHistory == History!HistorySpec

\* A request that went through is answered with its own receipt whenever it is delivered
\* again, whatever has since become of the draft, the Plan and the Sources.
RetryIsAnswered ==
    \A k \in AskKeys, v \in DOMAIN revisions :
        asks[k] # None /\ revisions[v].request = asks[k] /\ revisions[v].key = <<asks[k].kind, k>>
            => Answer(k) = <<"existing", v>>

\* A draft is consumed exactly by the revision that holds its content, on the base it had.
ReceiptsMatchDrafts ==
    /\ \A v \in 2 .. Latest :
        LET dr == drafts[revisions[v].draft]
        IN  /\ dr.state = "consumed" /\ dr.base = v - 1
            /\ dr.content = revisions[v].content /\ dr.inputs = revisions[v].inputs
    /\ \A d \in Ids : drafts[d].state = "consumed" => Cardinality(Applied(d)) = 1

\* One generation of a draft has one successor, and the draft has left it, closed or resumed
\* since as a later generation: two rebases of it, or a retry under another key, do not fork it.
OneSuccessor ==
    \A n \in Ids : drafts[n].from # None =>
        LET d == drafts[n].from[1]
            gen == drafts[n].from[2]
        IN  /\ drafts[d].gen >= gen
            /\ drafts[d].gen = gen => drafts[d].state = "abandoned"
            /\ \A m \in Ids : drafts[m].from = drafts[n].from => m = n

\* A new draft keeps what the operator has decided in the drafts it replaces, edits that
\* were made while it was being prepared included: a rebase every decision, a recompute the
\* overrides the open drafts agree on.
EditsSurvive ==
    [][LET n == Len(drafts) + 1
       IN  n \in DOMAIN drafts' /\ drafts'[n].state = "open" =>
            LET new == drafts'[n]
                source == new.from[1]
            IN  IF new.from # None
                THEN \A c \in Kept(drafts[source], new.content) :
                        new.content[c[1]][c[2]] = drafts[source].content[c[1]][c[2]]
                ELSE \A p \in DOMAIN new.content, v \in {c[3] : c \in {e \in Decisions : e[2] = "override"}} \ {None} :
                        (/\ Opened # {}
                         /\ \A d \in Opened : /\ p \in DOMAIN drafts[d].content
                                              /\ drafts[d].content[p].override = v)
                            => new.content[p].override = v
      ]_vars
=============================================================================
