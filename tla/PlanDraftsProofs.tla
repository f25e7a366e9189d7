-------------------------- MODULE PlanDraftsProofs --------------------------
(***************************************************************************)
(* The drafts of a Build keep the history that PlanHistory promises, for   *)
(* any parts, decisions, inputs, keys, workers and bounds.                 *)
(***************************************************************************)
EXTENDS PlanDrafts, FiniteSetTheorems, SequenceTheorems, WellFoundedInduction, TLAPS

\* Documents have the shape of records, whatever their fields hold.
IsSeq(s) == s \in Seq({s[i] : i \in DOMAIN s})

IsContent(c) ==
    c = [p \in DOMAIN c |-> [included |-> c[p].included, override |-> c[p].override]]

IsDraft(dr) ==
    /\ dr = [f \in DOMAIN dr |-> dr[f]]
    /\ {"state", "base", "inputs", "gen", "content", "from"} \subseteq DOMAIN dr
    /\ IsContent(dr.content) /\ dr.gen \in Nat

AreDrafts(s) == IsSeq(s) /\ \A d \in DOMAIN s : IsDraft(s[d])

\* The accepted Plans form a sequence, and each but the first names a draft that exists.
RevisionsInv ==
    /\ IsSeq(revisions) /\ Len(revisions) >= 1
    /\ \A v \in DOMAIN revisions : /\ IsContent(revisions[v].content)
                                   /\ revisions[v].draft \in Ids \cup {None}

WorkInv ==
    /\ DOMAIN work = Workers
    /\ \A w \in Workers : work[w] # None =>
            /\ IsContent(work[w].content)
            /\ work[w].kind = "rebase" => work[w].from[1] \in Ids

AsksInv ==
    /\ DOMAIN asks = AskKeys
    /\ \A k \in AskKeys : asks[k] # None =>
            /\ asks[k].kind = "apply" => asks[k].draft \in Ids
            /\ asks[k].kind = "save" =>
                    /\ asks[k].field \in Fields
                    /\ asks[k].source # None => asks[k].source.draft \in Ids

IInv == RevisionsInv /\ AreDrafts(drafts) /\ WorkInv /\ AsksInv

-----------------------------------------------------------------------------
(* Sequences.                                                              *)

LEMMA SeqDomain ==
    ASSUME NEW s, IsSeq(s)
    PROVE  Len(s) \in Nat /\ DOMAIN s = 1 .. Len(s) /\ s = [i \in 1 .. Len(s) |-> s[i]]
  BY DEF IsSeq

LEMMA SeqFunction ==
    ASSUME NEW n \in Nat, NEW s, s = [i \in 1 .. n |-> s[i]]
    PROVE  IsSeq(s) /\ Len(s) = n
  <1>1. DOMAIN s = 1 .. n
    OBVIOUS
  <1>2. s \in [1 .. n -> {s[i] : i \in DOMAIN s}]
    BY <1>1
  <1>3. s \in Seq({s[i] : i \in DOMAIN s})
    BY <1>2, SeqDef
  <1>4. Len(s) = n
    BY <1>1, <1>3
  <1> QED BY <1>3, <1>4 DEF IsSeq

LEMMA SeqAppend ==
    ASSUME NEW s, IsSeq(s), NEW e
    PROVE  /\ IsSeq(Append(s, e)) /\ Len(Append(s, e)) = Len(s) + 1
           /\ DOMAIN Append(s, e) = DOMAIN s \cup {Len(s) + 1}
           /\ \A i \in DOMAIN s : Append(s, e)[i] = s[i]
           /\ Append(s, e)[Len(s) + 1] = e
  <1> DEFINE S == {s[i] : i \in DOMAIN s} \cup {e}
  <1>1. Len(s) \in Nat /\ DOMAIN s = 1 .. Len(s) /\ s = [i \in 1 .. Len(s) |-> s[i]]
    BY SeqDomain
  <1>2. s \in [1 .. Len(s) -> S]
    BY <1>1
  <1>3. s \in Seq(S)
    BY <1>1, <1>2, SeqDef
  <1>4. e \in S
    OBVIOUS
  <1> HIDE DEF S
  <1>5. /\ Append(s, e) \in Seq(S) /\ Len(Append(s, e)) = Len(s) + 1
        /\ \A i \in 1 .. Len(s) : Append(s, e)[i] = s[i]
        /\ Append(s, e)[Len(s) + 1] = e
    BY <1>3, <1>4, AppendProperties
  <1>6. /\ DOMAIN Append(s, e) = 1 .. Len(s) + 1
        /\ Append(s, e) = [i \in 1 .. Len(s) + 1 |-> Append(s, e)[i]]
    <2> DEFINE t == Append(s, e)
    <2>1. t \in Seq(S) /\ Len(t) = Len(s) + 1
      BY <1>5
    <2> HIDE DEF t
    <2>2. DOMAIN t = 1 .. Len(s) + 1 /\ t = [i \in 1 .. Len(s) + 1 |-> t[i]]
      BY <2>1
    <2> QED BY <2>2 DEF t
  <1>7. IsSeq(Append(s, e))
    <2> DEFINE t == Append(s, e)
    <2>1. t = [i \in 1 .. Len(s) + 1 |-> t[i]]
      BY <1>6
    <2> HIDE DEF t
    <2>2. IsSeq(t)
      BY <2>1, <1>1, SeqFunction
    <2> QED BY <2>2 DEF t
  <1>8. DOMAIN Append(s, e) = DOMAIN s \cup {Len(s) + 1}
    BY <1>1, <1>6
  <1> QED BY <1>1, <1>5, <1>7, <1>8

LEMMA SeqExcept ==
    ASSUME NEW s, IsSeq(s), NEW j \in DOMAIN s, NEW e
    PROVE  /\ IsSeq([s EXCEPT ![j] = e])
           /\ DOMAIN [s EXCEPT ![j] = e] = DOMAIN s
           /\ \A i \in DOMAIN s : [s EXCEPT ![j] = e][i] = IF i = j THEN e ELSE s[i]
  <1>1. Len(s) \in Nat /\ DOMAIN s = 1 .. Len(s) /\ s = [i \in 1 .. Len(s) |-> s[i]]
    BY SeqDomain
  <1> DEFINE t == [s EXCEPT ![j] = e]
  <1>2. DOMAIN t = DOMAIN s /\ t = [i \in 1 .. Len(s) |-> t[i]]
    BY <1>1
  <1>3. \A i \in DOMAIN s : t[i] = IF i = j THEN e ELSE s[i]
    BY <1>1
  <1> HIDE DEF t
  <1>4. IsSeq(t)
    BY <1>1, <1>2, SeqFunction
  <1> QED BY <1>2, <1>3, <1>4 DEF t

-----------------------------------------------------------------------------
(* Choices.                                                                *)

LEMMA ChangedChoices ==
    ASSUME NEW content, IsContent(content), NEW p \in DOMAIN content,
           NEW field \in Fields, NEW value
    PROVE  /\ IsContent(Changed(content, p, field, value))
           /\ DOMAIN Changed(content, p, field, value) = DOMAIN content
           /\ \A r \in DOMAIN content, f \in Fields :
                Changed(content, p, field, value)[r][f] =
                    IF r = p /\ f = field THEN value ELSE content[r][f]
  <1>1. CASE field = "included"
    BY <1>1 DEF IsContent, Changed, Fields
  <1>2. CASE field = "override"
    BY <1>2 DEF IsContent, Changed, Fields
  <1> QED BY <1>1, <1>2 DEF Fields

\* Changing one choice of a Plan changes that one only.
LEMMA ChangedPlan ==
    ASSUME NEW content, IsContent(content), NEW p \in DOMAIN content,
           NEW field \in Fields, NEW value
    PROVE  ChoicesOf(Changed(content, p, field, value)) =
                {c \in ChoicesOf(content) : <<c[1], c[2]>> # <<p, field>>}
                    \cup {<<p, field, value>>}
  <1> DEFINE new == Changed(content, p, field, value)
             kept == {c \in ChoicesOf(content) : <<c[1], c[2]>> # <<p, field>>}
  <1>1. /\ DOMAIN new = DOMAIN content
        /\ \A r \in DOMAIN content, f \in Fields :
                new[r][f] = IF r = p /\ f = field THEN value ELSE content[r][f]
    BY ChangedChoices
  <1> HIDE DEF new
  <1>2. ASSUME NEW c \in ChoicesOf(new) PROVE c \in kept \cup {<<p, field, value>>}
    <2>1. PICK r \in DOMAIN content, f \in Fields : c = <<r, f, new[r][f]>>
      BY <1>1, <1>2 DEF ChoicesOf
    <2>2. CASE r = p /\ f = field
      BY <1>1, <2>1, <2>2
    <2>3. CASE ~(r = p /\ f = field)
      <3>1. c = <<r, f, content[r][f]>>
        BY <1>1, <2>1, <2>3
      <3>2. c \in ChoicesOf(content)
        BY <3>1 DEF ChoicesOf
      <3> QED BY <2>3, <3>1, <3>2
    <2> QED BY <2>2, <2>3
  <1>3. ASSUME NEW c \in kept PROVE c \in ChoicesOf(new)
    <2>1. PICK r \in DOMAIN content, f \in Fields : c = <<r, f, content[r][f]>>
      BY <1>3 DEF ChoicesOf
    <2>2. ~(r = p /\ f = field)
      BY <1>3, <2>1
    <2>3. c = <<r, f, new[r][f]>>
      BY <1>1, <2>1, <2>2
    <2> QED BY <1>1, <2>3 DEF ChoicesOf
  <1>4. <<p, field, value>> \in ChoicesOf(new)
    <2>1. new[p][field] = value
      BY <1>1
    <2> QED BY <1>1, <2>1 DEF ChoicesOf
  <1>5. ChoicesOf(new) = kept \cup {<<p, field, value>>}
    BY <1>2, <1>3, <1>4
  <1> QED BY <1>5 DEF new

LEMMA ScannedIsContent ==
    ASSUME RevisionsInv, NEW manifest
    PROVE  IsContent(Scanned(manifest))
  <1>1. IsContent(Accepted)
    BY SeqDomain DEF RevisionsInv, Accepted, Latest
  <1> QED BY <1>1 DEF IsContent, Scanned, NewChoice

LEMMA CarriedIsContent ==
    ASSUME NEW content, IsContent(content), NEW manifest
    PROVE  IsContent(Carried(content, manifest))
  <1> DEFINE Untouched(p) == \A d \in Opened : p \notin DOMAIN drafts[d].content
  <1>1. Carried(content, manifest) =
            [p \in DOMAIN content |->
                IF Untouched(p) THEN content[p]
                ELSE [included |-> IF manifest THEN content[p].included
                                               ELSE LastEdit(p).included,
                      override |-> IF LastEdit(p).override = None THEN content[p].override
                                   ELSE LastEdit(p).override]]
    BY DEF Carried
  <1> HIDE DEF Untouched
  <1> QED BY <1>1 DEF IsContent

LEMMA MergedIsContent ==
    ASSUME NEW dr, NEW fresh
    PROVE  IsContent(Merged(dr, fresh))
  BY DEF IsContent, Merged

-----------------------------------------------------------------------------
(* Drafts.                                                                 *)

LEMMA SelectIsDraft ==
    ASSUME NEW dr, IsDraft(dr), NEW decided
    PROVE  IsDraft(Select(dr, decided)) /\ Select(dr, decided).content = dr.content
  BY DEF IsDraft, Select

LEMMA ClosedIsDraft ==
    ASSUME NEW dr, IsDraft(dr)
    PROVE  IsDraft(Closed(dr))
  <1>1. /\ DOMAIN Closed(dr) = DOMAIN dr /\ Closed(dr).content = dr.content
        /\ Closed(dr) = [f \in DOMAIN dr |-> Closed(dr)[f]]
        /\ Closed(dr).gen = dr.gen + 1
    BY DEF IsDraft, Closed
  <1> QED BY <1>1 DEF IsDraft

LEMMA ResumedIsDraft ==
    ASSUME NEW dr, IsDraft(dr)
    PROVE  IsDraft(Resumed(dr))
  <1>1. /\ DOMAIN Resumed(dr) = DOMAIN dr /\ Resumed(dr).content = dr.content
        /\ Resumed(dr) = [f \in DOMAIN dr |-> Resumed(dr)[f]]
        /\ Resumed(dr).gen = dr.gen + 1
    BY DEF IsDraft, Resumed
  <1> QED BY <1>1 DEF IsDraft

LEMMA ConsumedIsDraft ==
    ASSUME NEW dr, IsDraft(dr)
    PROVE  IsDraft(Consumed(dr))
  <1>1. /\ DOMAIN Consumed(dr) = DOMAIN dr /\ Consumed(dr).content = dr.content
        /\ Consumed(dr) = [f \in DOMAIN dr |-> Consumed(dr)[f]]
        /\ Consumed(dr).gen = dr.gen + 1
    BY DEF IsDraft, Consumed
  <1> QED BY <1>1 DEF IsDraft

LEMMA EditedIsDraft ==
    ASSUME NEW dr, IsDraft(dr), NEW p \in DOMAIN dr.content, NEW field \in Fields, NEW value
    PROVE  IsDraft(Edited(dr, p, field, value))
  <1>1. IsContent(Changed(dr.content, p, field, value))
    BY ChangedChoices DEF IsDraft
  <1> QED BY <1>1 DEF IsDraft, Edited

LEMMA NewDraftIsDraft ==
    ASSUME NEW key, NEW prepared, NEW content, NEW from, IsContent(content)
    PROVE  IsDraft(NewDraft(key, prepared, content, from))
  BY DEF IsDraft, NewDraft

LEMMA DraftExcept ==
    ASSUME NEW s, AreDrafts(s), NEW d \in DOMAIN s, NEW dr, IsDraft(dr)
    PROVE  AreDrafts([s EXCEPT ![d] = dr]) /\ DOMAIN [s EXCEPT ![d] = dr] = DOMAIN s
  BY SeqExcept DEF AreDrafts

LEMMA DraftAppend ==
    ASSUME NEW s, AreDrafts(s), NEW dr, IsDraft(dr)
    PROVE  /\ AreDrafts(Append(s, dr))
           /\ DOMAIN Append(s, dr) = DOMAIN s \cup {Len(s) + 1}
  <1>1. /\ IsSeq(Append(s, dr))
        /\ DOMAIN Append(s, dr) = DOMAIN s \cup {Len(s) + 1}
        /\ \A i \in DOMAIN s : Append(s, dr)[i] = s[i]
        /\ Append(s, dr)[Len(s) + 1] = dr
    BY SeqAppend DEF AreDrafts
  <1> QED BY <1>1 DEF AreDrafts

LEMMA LeaveKeepsDrafts ==
    ASSUME NEW all, AreDrafts(all), NEW d \in DOMAIN all,
           Leave(d, all) \/ LeaveUnreconciled(all)
    PROVE  AreDrafts(drafts') /\ DOMAIN drafts' = DOMAIN all
  <1>1. CASE drafts' = all
    BY <1>1
  <1>2. CASE drafts' = [all EXCEPT ![d] = Select(@, FALSE)]
    <2>1. IsDraft(Select(all[d], FALSE))
      BY SelectIsDraft DEF AreDrafts
    <2> QED BY <1>2, <2>1, DraftExcept
  <1> QED BY <1>1, <1>2 DEF Leave, LeaveUnreconciled

-----------------------------------------------------------------------------
(* The invariant.                                                          *)

LEMMA InitInv == Init => IInv
  <1> SUFFICES ASSUME Init PROVE IInv
    OBVIOUS
  <1> DEFINE dr == drafts[1]
             rev == revisions[1]
  <1>1. /\ drafts = [i \in 1 .. 1 |-> drafts[i]] /\ revisions = [i \in 1 .. 1 |-> revisions[i]]
        /\ dr.content = rev.content /\ rev.draft = None
        /\ rev.content = [p \in Found[inputs] |-> NewChoice]
        /\ dr = [f \in DOMAIN dr |-> dr[f]]
        /\ {"state", "base", "inputs", "gen", "content", "from"} \subseteq DOMAIN dr
        /\ dr.gen = 0
    BY DEF Init
  <1>2. IsContent(rev.content)
    BY <1>1 DEF IsContent, NewChoice
  <1>3. IsSeq(drafts) /\ Len(drafts) = 1 /\ IsSeq(revisions) /\ Len(revisions) = 1
    BY <1>1, SeqFunction
  <1>4. DOMAIN drafts = {1} /\ DOMAIN revisions = {1}
    BY <1>3, SeqDomain
  <1>5. RevisionsInv
    BY <1>1, <1>2, <1>3, <1>4 DEF RevisionsInv, Ids
  <1>6. AreDrafts(drafts)
    BY <1>1, <1>2, <1>3, <1>4 DEF AreDrafts, IsDraft
  <1>7. WorkInv /\ AsksInv
    BY DEF Init, WorkInv, AsksInv
  <1> QED BY <1>5, <1>6, <1>7 DEF IInv

\* A step that publishes nothing keeps the invariant when it keeps the drafts drafts.
LEMMA NothingPublished ==
    ASSUME IInv, revisions' = revisions, AreDrafts(drafts'), Ids \subseteq Ids', WorkInv', AsksInv'
    PROVE  IInv'
  BY DEF IInv, RevisionsInv

LEMMA SameWorkAndAsks ==
    ASSUME WorkInv, AsksInv, work' = work, asks' = asks, Ids \subseteq Ids'
    PROVE  WorkInv' /\ AsksInv'
  BY DEF WorkInv, AsksInv

\* The request of a client is kept as it was made.
LEMMA AskedInv ==
    ASSUME IInv, NEW k, NEW q, asks' = [asks EXCEPT ![k] = q],
           UNCHANGED <<revisions, drafts, work>>,
           q.kind = "apply" => q.draft \in Ids,
           q.kind = "save" => /\ q.field \in Fields
                              /\ q.source # None => q.source.draft \in Ids
    PROVE  IInv'
  <1>1. AsksInv' /\ WorkInv' /\ AreDrafts(drafts') /\ Ids \subseteq Ids'
    BY DEF IInv, AsksInv, WorkInv, Ids
  <1> QED BY <1>1, NothingPublished

LEMMA DraftStepInv ==
    ASSUME IInv, DraftStep
    PROVE  IInv' /\ revisions' = revisions
  <1>1. PICK d \in Ids :
            \/ \E c \in Decisions, e \in Ids : Edit(d, Digest(drafts[e]), c[1], c[2], c[3])
            \/ Prepare(d)
            \/ \E key \in SaveKeys, e \in Ids : Reconcile(d, Digest(drafts[e]), key)
            \/ \E gen \in 0 .. drafts[d].gen : Abandon(d, gen) \/ Resume(d, gen)
    BY DEF DraftStep
  <1>2. IsDraft(drafts[d]) /\ d \in DOMAIN drafts
    BY DEF IInv, AreDrafts, Ids
  <1>3. /\ AreDrafts(drafts') /\ DOMAIN drafts' = Ids
        /\ revisions' = revisions /\ work' = work /\ asks' = asks
    <2>1. CASE \E c \in Decisions, e \in Ids : Edit(d, Digest(drafts[e]), c[1], c[2], c[3])
      <3>1. PICK c \in Decisions, e \in Ids : Edit(d, Digest(drafts[e]), c[1], c[2], c[3])
        BY <2>1
      <3> DEFINE dr == Edited(drafts[d], c[1], c[2], c[3])
                 all == [drafts EXCEPT ![d] = dr]
      <3>2. IsDraft(dr)
        BY <1>2, <3>1, EditedIsDraft, DraftAssumption DEF Edit, Fields
      <3>3. AreDrafts(all) /\ DOMAIN all = Ids
        BY <1>2, <3>2, DraftExcept DEF IInv, Ids
      <3>4. Leave(d, all)
        BY <3>1 DEF Edit
      <3>5. AreDrafts(drafts') /\ DOMAIN drafts' = DOMAIN all
        BY <3>3, <3>4, LeaveKeepsDrafts
      <3> QED BY <3>1, <3>3, <3>5 DEF Edit
    <2>2. CASE Prepare(d)
      <3>1. AreDrafts(drafts') /\ DOMAIN drafts' = DOMAIN drafts
        BY <1>2, <2>2, LeaveKeepsDrafts DEF Prepare, IInv
      <3> QED BY <2>2, <3>1 DEF Prepare, Ids
    <2>3. CASE \E key \in SaveKeys, e \in Ids : Reconcile(d, Digest(drafts[e]), key)
      <3>1. /\ drafts' = [drafts EXCEPT ![d] = Select(drafts[d], TRUE)]
            /\ revisions' = revisions /\ work' = work /\ asks' = asks
        BY <2>3 DEF Reconcile
      <3> QED BY <1>2, <3>1, SelectIsDraft, DraftExcept DEF IInv, Ids
    <2>4. CASE \E gen \in 0 .. drafts[d].gen : Abandon(d, gen)
      <3>1. /\ drafts' = [drafts EXCEPT ![d] = Closed(drafts[d])]
            /\ revisions' = revisions /\ work' = work /\ asks' = asks
        BY <2>4 DEF Abandon
      <3> QED BY <1>2, <3>1, ClosedIsDraft, DraftExcept DEF IInv, Ids
    <2>5. CASE \E gen \in 0 .. drafts[d].gen : Resume(d, gen)
      <3>1. /\ drafts' = [drafts EXCEPT ![d] = Resumed(drafts[d])]
            /\ revisions' = revisions /\ work' = work /\ asks' = asks
        BY <2>5 DEF Resume
      <3> QED BY <1>2, <3>1, ResumedIsDraft, DraftExcept DEF IInv, Ids
    <2> QED BY <1>1, <2>1, <2>2, <2>3, <2>4, <2>5
  <1> QED BY <1>3, NothingPublished, SameWorkAndAsks DEF IInv, Ids

LEMMA StartsInv ==
    ASSUME IInv, NEW w \in Workers, NEW key, NEW x,
           IsContent(x.content), x.kind = "rebase" => x.from[1] \in Ids,
           work' = [work EXCEPT ![w] = x],
           UNCHANGED <<revisions, drafts, asks>>
    PROVE  IInv'
  <1>1. WorkInv' /\ AsksInv'
    BY DEF IInv, WorkInv, AsksInv, Ids
  <1>2. AreDrafts(drafts') /\ Ids \subseteq Ids'
    BY DEF IInv, Ids
  <1> QED BY <1>1, <1>2, NothingPublished

LEMMA FinishInv ==
    ASSUME IInv, NEW w \in Workers, NEW all, AreDrafts(all), NEW new, IsDraft(new),
           DOMAIN all = Ids,
           LET n == Len(all) + 1
           IN  Leave(n, Append(all, new)) \/ LeaveUnreconciled(Append(all, new)),
           work' = [work EXCEPT ![w] = None], UNCHANGED <<revisions, asks>>
    PROVE  IInv'
  <1>1. AreDrafts(Append(all, new)) /\ DOMAIN Append(all, new) = Ids \cup {Len(all) + 1}
    BY DraftAppend
  <1>2. AreDrafts(drafts') /\ DOMAIN drafts' = DOMAIN Append(all, new)
    BY <1>1, LeaveKeepsDrafts
  <1>3. WorkInv' /\ AsksInv'
    BY <1>1, <1>2 DEF IInv, WorkInv, AsksInv, Ids
  <1> QED BY <1>1, <1>2, <1>3, NothingPublished DEF Ids

LEMMA SameLength ==
    ASSUME NEW s, NEW t, IsSeq(s), IsSeq(t), DOMAIN s = DOMAIN t
    PROVE  Len(s) = Len(t)
  <1>1. /\ Len(s) \in Nat /\ Len(t) \in Nat
        /\ DOMAIN s = 1 .. Len(s) /\ DOMAIN t = 1 .. Len(t)
    BY SeqDomain
  <1>2. ASSUME NEW m \in Nat, NEW n \in Nat, m < n PROVE 1 .. m # 1 .. n
    <2>1. n \in 1 .. n /\ n \notin 1 .. m
      BY <1>2
    <2> QED BY <2>1
  <1>3. ASSUME NEW m \in Nat, NEW n \in Nat, 1 .. m = 1 .. n PROVE m = n
    <2>1. ~(m < n) /\ ~(n < m)
      BY <1>2, <1>3
    <2> QED BY <2>1
  <1> QED BY <1>1, <1>3

LEMMA FinishRecomputeInv ==
    ASSUME IInv, NEW w \in Workers, FinishRecompute(w)
    PROVE  IInv'
  <1> DEFINE x == work[w]
             closed == [d \in Ids |-> IF d \in Opened THEN Closed(drafts[d]) ELSE drafts[d]]
             new == NewDraft(x.key, x, Carried(x.content, x.manifest), None)
  <1>1. IsDraft(new)
    <2>1. IsContent(Carried(x.content, x.manifest))
      BY CarriedIsContent DEF IInv, WorkInv, FinishRecompute
    <2> QED BY <2>1, NewDraftIsDraft
  <1>2. /\ Len(drafts) \in Nat /\ Ids = 1 .. Len(drafts)
        /\ \A d \in Ids : IsDraft(drafts[d])
    BY SeqDomain DEF IInv, AreDrafts, Ids
  <1>3. AreDrafts(closed) /\ DOMAIN closed = Ids /\ Len(closed) = Len(drafts)
    <2>1. DOMAIN closed = Ids /\ closed = [i \in 1 .. Len(drafts) |-> closed[i]]
      BY <1>2
    <2>2. \A d \in Ids : IsDraft(closed[d])
      BY <1>2, ClosedIsDraft
    <2> HIDE DEF closed
    <2>3. IsSeq(closed) /\ Len(closed) = Len(drafts)
      BY <1>2, <2>1, SeqFunction
    <2> QED BY <2>1, <2>2, <2>3 DEF AreDrafts
  <1>4. /\ \/ Leave(Len(drafts) + 1, Append(closed, new))
           \/ LeaveUnreconciled(Append(closed, new))
        /\ work' = [work EXCEPT ![w] = None] /\ UNCHANGED <<revisions, asks>>
    BY DEF FinishRecompute
  <1> HIDE DEF closed, new
  <1> QED BY <1>1, <1>3, <1>4, FinishInv

LEMMA FinishRebaseInv ==
    ASSUME IInv, NEW w \in Workers, FinishRebase(w)
    PROVE  IInv'
  <1> DEFINE x == work[w]
             d == x.from[1]
             closed == [drafts EXCEPT ![d] = IF x.state = "open" THEN Closed(@) ELSE @]
             new == NewDraft(x.key, x, x.content, x.from)
  <1>1. IsDraft(new)
    BY NewDraftIsDraft DEF IInv, WorkInv, FinishRebase
  <1>2. AreDrafts(closed) /\ DOMAIN closed = Ids
    <2> d \in Ids
      BY DEF IInv, WorkInv, FinishRebase
    <2>1. IsDraft(IF x.state = "open" THEN Closed(drafts[d]) ELSE drafts[d])
      BY ClosedIsDraft DEF IInv, AreDrafts, Ids
    <2> QED BY <2>1, DraftExcept DEF IInv, Ids
  <1>3. Len(closed) = Len(drafts)
    BY <1>2, SameLength DEF IInv, AreDrafts, Ids
  <1>4. /\ \/ Leave(Len(drafts) + 1, Append(closed, new))
           \/ LeaveUnreconciled(Append(closed, new))
        /\ work' = [work EXCEPT ![w] = None] /\ UNCHANGED <<revisions, asks>>
    BY DEF FinishRebase
  <1> HIDE DEF closed, new
  <1> QED BY <1>1, <1>2, <1>3, <1>4, FinishInv

LEMMA WorkStepInv ==
    ASSUME IInv, WorkStep
    PROVE  IInv' /\ revisions' = revisions
  <1> DEFINE Starts(w) ==
                \/ \E key \in DraftKeys, manifest \in BOOLEAN : StartRecompute(w, key, manifest)
                \/ \E key \in DraftKeys, d \in Ids : StartRebase(w, key, d)
  <1>1. ASSUME NEW w \in Workers, NEW key \in DraftKeys, NEW manifest \in BOOLEAN,
               StartRecompute(w, key, manifest)
        PROVE  IInv' /\ revisions' = revisions
    <2> DEFINE x == [kind |-> "recompute", key |-> key, base |-> Latest, inputs |-> inputs,
                     content |-> Scanned(manifest), manifest |-> manifest]
    <2>1. IsContent(x.content) /\ x.kind # "rebase"
      BY ScannedIsContent DEF IInv
    <2>2. /\ work' = [work EXCEPT ![w] = x]
          /\ UNCHANGED <<revisions, drafts, asks>>
      BY <1>1 DEF StartRecompute
    <2> HIDE DEF x
    <2> QED BY <2>1, <2>2, StartsInv
  <1>2. ASSUME NEW w \in Workers, NEW key \in DraftKeys, NEW d \in Ids, StartRebase(w, key, d)
        PROVE  IInv' /\ revisions' = revisions
    <2> DEFINE dr == drafts[d]
               x == [kind |-> "rebase", key |-> key, base |-> Latest, inputs |-> inputs,
                     content |-> Merged(dr, Scanned(FALSE)), from |-> <<d, Generation(dr)>>,
                     state |-> dr.state, gen |-> dr.gen, shown |-> Digest(dr)]
    <2>1. IsContent(x.content) /\ x.from[1] = d
      BY MergedIsContent
    <2>2. /\ work' = [work EXCEPT ![w] = x]
          /\ UNCHANGED <<revisions, drafts, asks>>
      BY <1>2 DEF StartRebase
    <2> HIDE DEF x
    <2> QED BY <2>1, <2>2, StartsInv
  <1>3. ASSUME NEW w \in Workers, FinishRecompute(w) PROVE IInv' /\ revisions' = revisions
    BY <1>3, FinishRecomputeInv DEF FinishRecompute
  <1>4. ASSUME NEW w \in Workers, FinishRebase(w) PROVE IInv' /\ revisions' = revisions
    BY <1>4, FinishRebaseInv DEF FinishRebase
  <1>5. ASSUME NEW w \in Workers, GiveUp(w) PROVE IInv' /\ revisions' = revisions
    <2>1. /\ work' = [work EXCEPT ![w] = None]
          /\ UNCHANGED <<revisions, drafts, asks>>
      BY <1>5 DEF GiveUp
    <2>2. WorkInv' /\ AsksInv' /\ AreDrafts(drafts') /\ Ids \subseteq Ids'
      BY <2>1 DEF IInv, WorkInv, AsksInv, Ids
    <2> QED BY <2>1, <2>2, NothingPublished
  <1>6. ASSUME NEW key \in DraftKeys, RetryDraft(key) PROVE IInv' /\ revisions' = revisions
    <2>1. PICK d \in WithKey(key) :
                Leave(d, drafts) /\ UNCHANGED <<revisions, inputs, asks, work>>
      BY <1>6 DEF RetryDraft
    <2>2. d \in DOMAIN drafts
      BY DEF WithKey, Ids
    <2>3. AreDrafts(drafts') /\ DOMAIN drafts' = DOMAIN drafts
      BY <2>1, <2>2, LeaveKeepsDrafts DEF IInv
    <2> QED BY <2>1, <2>3, NothingPublished, SameWorkAndAsks DEF IInv, Ids
  <1> QED BY <1>1, <1>2, <1>3, <1>4, <1>5, <1>6 DEF WorkStep

LEMMA AskApplyInv ==
    ASSUME IInv, NEW k \in AskKeys, NEW d \in Ids, AskApply(k, d)
    PROVE  IInv' /\ revisions' = revisions
  <1> DEFINE q == [kind |-> "apply", draft |-> d, gen |-> drafts[d].gen,
                   base |-> drafts[d].base, shown |-> Digest(drafts[d])]
  <1>1. asks' = [asks EXCEPT ![k] = q] /\ q.kind = "apply" /\ q.draft \in Ids
    BY DEF AskApply
  <1>2. UNCHANGED <<revisions, drafts, work>>
    BY DEF AskApply
  <1> HIDE DEF q
  <1> QED BY <1>1, <1>2, AskedInv

LEMMA AskSaveInv ==
    ASSUME IInv, NEW k \in AskKeys, NEW source \in {None} \cup {Source(d) : d \in Opened},
           NEW c \in Decisions, AskSave(k, source, c[1], c[2], c[3])
    PROVE  IInv' /\ revisions' = revisions
  <1> DEFINE q == [kind |-> "save", base |-> Latest, source |-> source,
                   part |-> c[1], field |-> c[2], value |-> c[3]]
  <1>1. asks' = [asks EXCEPT ![k] = q] /\ q.kind = "save"
    BY DEF AskSave
  <1>2. q.field \in Fields
    BY DraftAssumption DEF Fields
  <1>3. q.source # None => q.source.draft \in Ids
    BY DEF Source, Opened
  <1>4. UNCHANGED <<revisions, drafts, work>>
    BY DEF AskSave
  <1> HIDE DEF q
  <1> QED BY <1>1, <1>2, <1>3, <1>4, AskedInv

\* Publishing keeps the invariant.
LEMMA PublishedInv ==
    ASSUME IInv, NEW k, NEW d, NEW dr, Published(k, d, dr), IsContent(dr.content),
           AreDrafts(drafts'), Ids \cup {d} \subseteq Ids', UNCHANGED <<work, asks>>
    PROVE  IInv'
  <1> DEFINE rev == [content |-> dr.content, inputs |-> dr.inputs, key |-> <<asks[k].kind, k>>,
                     draft |-> d, request |-> asks[k]]
  <1>1. revisions' = Append(revisions, rev) /\ rev.content = dr.content /\ rev.draft = d
    BY DEF Published
  <1> HIDE DEF rev
  <1>2. /\ IsSeq(revisions') /\ Len(revisions') = Len(revisions) + 1
        /\ DOMAIN revisions' = DOMAIN revisions \cup {Len(revisions) + 1}
        /\ \A i \in DOMAIN revisions : revisions'[i] = revisions[i]
        /\ revisions'[Len(revisions) + 1] = rev
    BY <1>1, SeqAppend DEF IInv, RevisionsInv
  <1>3. Len(revisions) \in Nat
    BY SeqDomain DEF IInv, RevisionsInv
  <1>4. RevisionsInv'
    BY <1>1, <1>2, <1>3 DEF IInv, RevisionsInv
  <1>5. WorkInv' /\ AsksInv'
    BY SameWorkAndAsks DEF IInv
  <1> QED BY <1>4, <1>5 DEF IInv

LEMMA AppliedWhen ==
    ASSUME NEW k, Apply(k)
    PROVE  /\ Receipts(k) = {} /\ Applied(asks[k].draft) = {}
           /\ DraftHolds(asks[k]) /\ BaseHolds(asks[k])
  BY DEF Apply, ApplyAnswer, Receipted

LEMMA ApplyInv ==
    ASSUME IInv, NEW k \in AskKeys, Apply(k)
    PROVE  IInv'
  <1> DEFINE d == asks[k].draft
  <1>1. /\ d \in Ids /\ Published(k, d, drafts[d]) /\ UNCHANGED <<work, asks>>
        /\ drafts' = [drafts EXCEPT ![d] = Consumed(drafts[d])]
    BY DEF Apply, IInv, AsksInv
  <1>2. IsDraft(drafts[d])
    BY <1>1 DEF IInv, AreDrafts, Ids
  <1>3. AreDrafts(drafts') /\ Ids' = Ids
    BY <1>1, <1>2, ConsumedIsDraft, DraftExcept DEF IInv, Ids
  <1> QED BY <1>1, <1>2, <1>3, PublishedInv DEF IsDraft

\* What a save publishes.
LEMMA SavedContent ==
    ASSUME IInv, NEW k \in AskKeys, Save(k)
    PROVE  /\ asks[k].field \in Fields /\ asks[k].part \in DOMAIN SaveContent(asks[k])
           /\ IsContent(SaveContent(asks[k]))
           /\ asks[k].source # None => /\ asks[k].source.draft \in Ids
                                       /\ SaveContent(asks[k]) = asks[k].source.shown.content
  <1> DEFINE q == asks[k]
  <1>1. /\ q # None /\ q.kind = "save" /\ SourceOpen(q) /\ q.part \in DOMAIN SaveContent(q)
    BY DEF Save
  <1>2. q.field \in Fields /\ (q.source # None => q.source.draft \in Ids)
    BY <1>1 DEF IInv, AsksInv
  <1>3. CASE q.source = None
    BY <1>1, <1>2, <1>3, ScannedIsContent DEF SaveContent, IInv
  <1>4. CASE q.source # None
    <2>1. SaveContent(q) = drafts[q.source.draft].content
      BY <1>4 DEF SaveContent
    <2>2. Digest(drafts[q.source.draft]) = q.source.shown
      BY <1>1, <1>4 DEF SourceOpen, DraftHolds
    <2>3. drafts[q.source.draft].content = q.source.shown.content
      BY <2>2 DEF Digest
    <2>4. IsContent(drafts[q.source.draft].content)
      BY <1>2, <1>4 DEF IInv, AreDrafts, IsDraft, Ids
    <2> QED BY <1>1, <1>2, <2>1, <2>3, <2>4
  <1> QED BY <1>3, <1>4

LEMMA SaveInv ==
    ASSUME IInv, NEW k \in AskKeys, Save(k)
    PROVE  IInv'
  <1> DEFINE q == asks[k]
             n == Len(drafts) + 1
             own == NewDraft(<<"payload", q>>, [base |-> Latest, inputs |-> inputs],
                             Changed(SaveContent(q), q.part, q.field, q.value), None)
             reconciled == Select(own, SaveDecided(q))
             closed == SourceClosed(q)
  <1>1. /\ Published(k, n, own) /\ drafts' = Append(closed, Consumed(reconciled))
        /\ UNCHANGED <<work, asks>>
    BY DEF Save
  <1>2. IsContent(Changed(SaveContent(q), q.part, q.field, q.value))
    BY SavedContent, ChangedChoices
  <1>3. IsDraft(own)
    BY <1>2, NewDraftIsDraft
  <1>4. IsDraft(Consumed(reconciled))
    <2> HIDE DEF own
    <2>1. IsDraft(reconciled)
      BY <1>3, SelectIsDraft
    <2> QED BY <2>1, ConsumedIsDraft
  <1>5. AreDrafts(closed) /\ DOMAIN closed = Ids
    <2>1. CASE q.source = None
      BY <2>1 DEF SourceClosed, IInv, Ids
    <2>2. CASE q.source # None
      <3> DEFINE d == q.source.draft
      <3>1. d \in Ids /\ IsDraft(drafts[d])
        BY <2>2, SavedContent DEF IInv, AreDrafts, Ids
      <3>2. IsDraft(Closed(drafts[d]))
        BY <3>1, ClosedIsDraft
      <3>3. closed = [drafts EXCEPT ![d] = Closed(drafts[d])]
        BY <2>2 DEF SourceClosed
      <3> QED BY <3>1, <3>2, <3>3, DraftExcept DEF IInv, Ids
    <2> QED BY <2>1, <2>2
  <1>6. Len(closed) = Len(drafts)
    BY <1>5, SameLength DEF IInv, AreDrafts, Ids
  <1> HIDE DEF own, closed, reconciled
  <1>7. AreDrafts(drafts') /\ Ids' = Ids \cup {n}
    BY <1>1, <1>4, <1>5, <1>6, DraftAppend DEF Ids
  <1> QED BY <1>1, <1>3, <1>7, PublishedInv DEF IsDraft

\* The shapes hold throughout.
THEOREM DraftsInvariant == Spec => []IInv
  <1>1. IInv /\ [Next]_vars => IInv'
    <2> SUFFICES ASSUME IInv, [Next]_vars PROVE IInv'
      OBVIOUS
    <2>1. CASE AskStep
      BY <2>1, AskApplyInv, AskSaveInv, ApplyInv, SaveInv DEF AskStep
    <2>2. CASE Sync
      <3>1. AreDrafts(drafts') /\ Ids \subseteq Ids' /\ UNCHANGED <<revisions, work, asks>>
        BY <2>2 DEF Sync, IInv, Ids
      <3> QED BY <3>1, NothingPublished, SameWorkAndAsks DEF IInv
    <2>3. CASE UNCHANGED vars
      <3>1. AreDrafts(drafts') /\ Ids \subseteq Ids' /\ UNCHANGED <<revisions, work, asks>>
        BY <2>3 DEF vars, IInv, Ids
      <3> QED BY <3>1, NothingPublished, SameWorkAndAsks DEF IInv
    <2> QED BY <2>1, <2>2, <2>3, DraftStepInv, WorkStepInv DEF Next
  <1> QED BY InitInv, <1>1, PTL DEF Spec

-----------------------------------------------------------------------------
(* The history.                                                            *)

LEMMA HistoryShape ==
    ASSUME IInv
    PROVE  IsSeq(HistoryOf) /\ Len(HistoryOf) = Latest /\ DOMAIN HistoryOf = DOMAIN revisions
  <1>1. Len(revisions) \in Nat /\ DOMAIN revisions = 1 .. Len(revisions)
    BY SeqDomain DEF IInv, RevisionsInv
  <1> DEFINE h == HistoryOf
  <1>2. DOMAIN h = DOMAIN revisions /\ h = [i \in 1 .. Len(revisions) |-> h[i]]
    BY <1>1 DEF HistoryOf
  <1> HIDE DEF h
  <1>3. IsSeq(h) /\ Len(h) = Len(revisions)
    BY <1>1, <1>2, SeqFunction
  <1> QED BY <1>2, <1>3 DEF h, Latest

\* A publication of what its request names is one step of the history.
LEMMA PublishedIsHistory ==
    ASSUME IInv, NEW k \in AskKeys, asks[k] # None, NEW d, NEW dr, Published(k, d, dr),
           asks[k].kind \in {"apply", "save"}, asks[k].kind = "apply" => d = asks[k].draft,
           BaseHolds(asks[k]), Receipts(k) = {}, Applied(d) = {},
           Wanted(k) \subseteq ChoicesOf(dr.content),
           asks[k].kind = "apply" \/ asks[k].source # None => ChoicesOf(dr.content) = Wanted(k)
    PROVE  History!HistoryNext
  <1> DEFINE q == [key |-> <<asks[k].kind, k>>, base |-> asks[k].base, wants |-> Wanted(k),
                   draft |-> IF asks[k].kind = "apply" THEN asks[k].draft ELSE None,
                   whole |-> asks[k].kind = "apply" \/ asks[k].source # None]
             entry == [key |-> <<asks[k].kind, k>>, draft |-> d,
                       choices |-> ChoicesOf(dr.content)]
             rev == [content |-> dr.content, inputs |-> dr.inputs, key |-> <<asks[k].kind, k>>,
                     draft |-> d, request |-> asks[k]]
             n == Len(revisions) + 1
  <1>1. q \in Intents
    BY DEF Intents
  <1>2. /\ IsSeq(revisions) /\ revisions' = Append(revisions, rev)
        /\ Len(revisions) \in Nat /\ DOMAIN revisions = 1 .. Len(revisions)
    BY SeqDomain DEF IInv, RevisionsInv, Published
  <1>3. /\ DOMAIN revisions' = 1 .. n /\ Len(revisions') = n
        /\ \A v \in DOMAIN revisions : revisions'[v] = revisions[v]
        /\ revisions'[n] = rev
    <2> HIDE DEF rev
    <2> QED BY <1>2, SeqAppend
  <1>4. /\ HistoryOf'[n] = entry
        /\ \A v \in DOMAIN revisions : HistoryOf'[v] = HistoryOf[v]
        /\ DOMAIN HistoryOf' = 1 .. n
    <2>1. HistoryOf' = [v \in 1 .. n |->
                [key |-> revisions'[v].key, draft |-> revisions'[v].draft,
                 choices |-> ChoicesOf(revisions'[v].content)]]
      BY <1>3 DEF HistoryOf, ChoicesOf
    <2>2. rev.key = <<asks[k].kind, k>> /\ rev.draft = d /\ rev.content = dr.content
      OBVIOUS
    <2>3. n \in 1 .. n
      BY <1>2
    <2> HIDE DEF rev
    <2>4. HistoryOf'[n] = entry
      BY <1>3, <2>1, <2>2, <2>3
    <2>5. \A v \in DOMAIN revisions : v \in 1 .. n
      BY <1>2
    <2>6. \A v \in DOMAIN revisions : HistoryOf'[v] = HistoryOf[v]
      BY <1>3, <2>1, <2>5 DEF HistoryOf
    <2> QED BY <2>1, <2>4, <2>6
  <1> HIDE DEF entry, rev
  <1>5. IsSeq(HistoryOf) /\ Len(HistoryOf) = Len(revisions) /\ DOMAIN HistoryOf = 1 .. Len(revisions)
    BY <1>2, HistoryShape DEF Latest
  <1>6. HistoryOf' = Append(HistoryOf, entry) /\ Len(HistoryOf') = n
    <2> DEFINE h == HistoryOf
               g == HistoryOf'
               a == Append(h, entry)
    <2>1. IsSeq(g) /\ IsSeq(h) /\ DOMAIN g = 1 .. n /\ DOMAIN h = 1 .. Len(revisions)
      <3>1. DOMAIN g = 1 .. n /\ g = [i \in 1 .. n |-> g[i]]
        BY <1>4 DEF HistoryOf
      <3> HIDE DEF g
      <3>2. IsSeq(g)
        BY <1>2, <3>1, SeqFunction
      <3> QED BY <1>5, <3>1, <3>2
    <2>2. Len(h) = Len(revisions)
      BY <1>5
    <2>3. g[n] = entry /\ \A v \in DOMAIN h : g[v] = h[v]
      BY <1>2, <1>4, <2>1
    <2> HIDE DEF g, h
    <2>4. /\ IsSeq(a) /\ Len(a) = n /\ DOMAIN a = DOMAIN h \cup {n}
          /\ \A v \in DOMAIN h : a[v] = h[v]
          /\ a[n] = entry
      BY <2>1, <2>2, SeqAppend
    <2> HIDE DEF a
    <2>5. /\ DOMAIN a = 1 .. n /\ a = [i \in 1 .. n |-> a[i]]
          /\ g = [i \in 1 .. Len(g) |-> g[i]] /\ 1 .. Len(g) = 1 .. n
      <3>1. DOMAIN a = 1 .. Len(a) /\ a = [i \in 1 .. Len(a) |-> a[i]]
        BY <2>4, SeqDomain, SMTT(60)
      <3>2. DOMAIN g = 1 .. Len(g) /\ g = [i \in 1 .. Len(g) |-> g[i]]
        BY <2>1, SeqDomain
      <3> QED BY <2>1, <2>4, <3>1, <3>2
    <2>6. \A i \in 1 .. n : a[i] = g[i]
      BY <1>2, <2>1, <2>3, <2>4
    <2>7. a = g
      BY <2>5, <2>6
    <2>8. Len(g) = n
      BY <2>1, <2>4, <2>5, <2>7
    <2> QED BY <2>7, <2>8 DEF g, a, h
  <1>7. q.base = Len(HistoryOf)
    BY <1>5 DEF BaseHolds, Latest
  <1>8. entry.key = q.key /\ (q.draft # None => entry.draft = q.draft)
    BY DEF entry
  <1>9. \A v \in 1 .. Len(HistoryOf) :
            HistoryOf[v].key # entry.key /\ HistoryOf[v].draft # entry.draft
    <2> SUFFICES ASSUME NEW v \in 1 .. Len(HistoryOf)
                 PROVE  HistoryOf[v].key # entry.key /\ HistoryOf[v].draft # entry.draft
      OBVIOUS
    <2>1. v \in DOMAIN revisions
      BY <1>2, <1>5
    <2>2. HistoryOf[v].key = revisions[v].key /\ HistoryOf[v].draft = revisions[v].draft
      BY <2>1 DEF HistoryOf
    <2>3. revisions[v].key # <<asks[k].kind, k>> /\ revisions[v].draft # d
      BY <2>1 DEF Receipts, Applied
    <2> QED BY <2>2, <2>3 DEF entry
  <1>10. q.wants \subseteq entry.choices /\ (q.whole => entry.choices = q.wants)
    BY DEF entry
  <1> HIDE DEF q
  <1>11. History!Publish(q, entry)
    BY <1>6, <1>7, <1>8, <1>9, <1>10 DEF History!Publish
  <1>12. HistoryOf'[Len(HistoryOf')] = entry
    BY <1>4, <1>6
  <1> QED BY <1>1, <1>11, <1>12 DEF History!HistoryNext

\* An Apply publishes the draft that its client was shown.
LEMMA ApplyIsHistory ==
    ASSUME IInv, NEW k \in AskKeys, Apply(k)
    PROVE  History!HistoryNext
  <1> DEFINE q == asks[k]
             d == q.draft
  <1>1. /\ q # None /\ q.kind = "apply" /\ Published(k, d, drafts[d])
        /\ Receipts(k) = {} /\ Applied(d) = {} /\ DraftHolds(q) /\ BaseHolds(q)
    BY AppliedWhen DEF Apply
  <1>2. q.shown.content = drafts[d].content
    <2>1. Digest(drafts[d]) = q.shown
      BY <1>1 DEF DraftHolds
    <2>2. Digest(drafts[d]).content = drafts[d].content
      BY DEF Digest
    <2> QED BY <2>1, <2>2
  <1>3. Wanted(k) = ChoicesOf(drafts[d].content)
    BY <1>1, <1>2 DEF Wanted
  <1> QED BY <1>1, <1>3, PublishedIsHistory

\* A save publishes the Plan that its client was shown with the one choice they asked for.
LEMMA SaveIsHistory ==
    ASSUME IInv, NEW k \in AskKeys, Save(k)
    PROVE  History!HistoryNext
  <1> DEFINE q == asks[k]
             n == Len(drafts) + 1
             new == Changed(SaveContent(q), q.part, q.field, q.value)
             own == NewDraft(<<"payload", q>>, [base |-> Latest, inputs |-> inputs], new, None)
  <1>1. /\ q # None /\ q.kind = "save" /\ Published(k, n, own)
        /\ Receipts(k) = {} /\ BaseHolds(q)
    BY DEF Save
  <1>2. own.content = new
    BY DEF NewDraft
  <1>3. Applied(n) = {}
    <2>1. Len(drafts) \in Nat /\ Ids = 1 .. Len(drafts)
      BY SeqDomain DEF IInv, AreDrafts, Ids
    <2>2. n \notin Ids \cup {None}
      BY <2>1, DraftAssumption
    <2> QED BY <2>2 DEF Applied, IInv, RevisionsInv
  <1>4. /\ q.field \in Fields /\ q.part \in DOMAIN SaveContent(q) /\ IsContent(SaveContent(q))
        /\ q.source # None => SaveContent(q) = q.source.shown.content
    BY SavedContent
  <1>5. ChoicesOf(new) = {c \in ChoicesOf(SaveContent(q)) : <<c[1], c[2]>> # <<q.part, q.field>>}
                            \cup {<<q.part, q.field, q.value>>}
    BY <1>4, ChangedPlan
  <1>6. CASE q.source # None
    <2>1. Wanted(k) = ChoicesOf(new)
      BY <1>1, <1>4, <1>5, <1>6 DEF Wanted
    <2> HIDE DEF own, new
    <2> QED BY <1>1, <1>2, <1>3, <2>1, PublishedIsHistory
  <1>7. CASE q.source = None
    <2>1. ChoicesOf(<<>>) = {}
      BY DEF ChoicesOf
    <2>2. Wanted(k) = {<<q.part, q.field, q.value>>}
      BY <1>1, <1>7, <2>1 DEF Wanted
    <2>3. Wanted(k) \subseteq ChoicesOf(new)
      BY <1>5, <2>2
    <2> HIDE DEF own, new
    <2> QED BY <1>1, <1>2, <1>3, <1>7, <2>3, PublishedIsHistory
  <1> QED BY <1>6, <1>7

\* However requests are delayed, repeated and interleaved with edits, recomputes, rebases and
\* syncs, the accepted Plans are the history that PlanHistory promises: each publishes what
\* its author was shown and asked for, on the Plan they saw, once, from a draft of its own.
THEOREM HistoryKept == Spec => KeepsHistory
  <1>1. Init => History!HistoryInit
    <2> SUFFICES ASSUME Init PROVE History!HistoryInit
      OBVIOUS
    <2>1. IInv
      BY InitInv
    <2>2. Len(HistoryOf) = Len(revisions) /\ DOMAIN HistoryOf = DOMAIN revisions
      BY <2>1, HistoryShape DEF Latest
    <2>3. revisions[1].key = None /\ revisions[1].draft = None
      BY DEF Init
    <2>4. revisions = [i \in 1 .. 1 |-> revisions[i]]
      BY DEF Init
    <2>5. Len(revisions) = 1
      BY <2>4, SeqFunction
    <2>6. 1 \in DOMAIN revisions
      BY <2>4
    <2>7. HistoryOf[1].key = None /\ HistoryOf[1].draft = None
      BY <2>3, <2>6 DEF HistoryOf
    <2> QED BY <2>2, <2>5, <2>7 DEF History!HistoryInit
  <1>2. IInv /\ [Next]_vars => [History!HistoryNext]_<<Intents, HistoryOf>>
    <2> SUFFICES ASSUME IInv, [Next]_vars PROVE History!HistoryNext
      OBVIOUS
    <2>1. ASSUME revisions' = revisions PROVE History!HistoryNext
      BY <2>1 DEF HistoryOf, History!HistoryNext, History!Ask
    <2>2. CASE AskStep
      BY <2>1, <2>2, AskApplyInv, AskSaveInv, ApplyIsHistory, SaveIsHistory DEF AskStep
    <2>3. CASE Sync \/ UNCHANGED vars
      BY <2>1, <2>3 DEF Sync, vars
    <2> QED BY <2>1, <2>2, <2>3, DraftStepInv, WorkStepInv DEF Next
  <1> QED BY <1>1, <1>2, DraftsInvariant, PTL
          DEF Spec, KeepsHistory, History!HistorySpec

-----------------------------------------------------------------------------
(* Receipts.                                                               *)

\* A key has one receipt.
KeysUnique ==
    \A v, w \in DOMAIN revisions : revisions[v].key = revisions[w].key => v = w

LEMMA PublishedKey ==
    ASSUME IInv, KeysUnique, NEW k, NEW d, NEW dr, Published(k, d, dr), Receipts(k) = {}
    PROVE  KeysUnique'
  <1> DEFINE rev == [content |-> dr.content, inputs |-> dr.inputs, key |-> <<asks[k].kind, k>>,
                     draft |-> d, request |-> asks[k]]
             n == Len(revisions) + 1
  <1>1. IsSeq(revisions) /\ revisions' = Append(revisions, rev) /\ rev.key = <<asks[k].kind, k>>
    BY DEF IInv, RevisionsInv, Published
  <1> HIDE DEF rev
  <1>2. /\ DOMAIN revisions' = DOMAIN revisions \cup {n} /\ revisions'[n] = rev
        /\ \A v \in DOMAIN revisions : revisions'[v] = revisions[v]
    BY <1>1, SeqAppend
  <1>3. \A v \in DOMAIN revisions : revisions[v].key # rev.key
    BY <1>1 DEF Receipts
  <1> HIDE DEF n
  <1> QED BY <1>2, <1>3 DEF KeysUnique

LEMMA KeysStayUnique == Spec => []KeysUnique
  <1>1. Init => KeysUnique
    <2> SUFFICES ASSUME Init PROVE KeysUnique
      OBVIOUS
    <2>1. DOMAIN revisions = {1}
      BY DEF Init
    <2> QED BY <2>1 DEF KeysUnique
  <1>2. IInv /\ KeysUnique /\ [Next]_vars => KeysUnique'
    <2> SUFFICES ASSUME IInv, KeysUnique, [Next]_vars PROVE KeysUnique'
      OBVIOUS
    <2>1. ASSUME revisions' = revisions PROVE KeysUnique'
      BY <2>1 DEF KeysUnique
    <2>2. ASSUME NEW k \in AskKeys, Apply(k) PROVE KeysUnique'
      <3>1. Published(k, asks[k].draft, drafts[asks[k].draft])
        BY <2>2 DEF Apply
      <3> QED BY <2>2, <3>1, AppliedWhen, PublishedKey
    <2>3. ASSUME NEW k \in AskKeys, Save(k) PROVE KeysUnique'
      BY <2>3, PublishedKey DEF Save
    <2>4. CASE AskStep
      BY <2>1, <2>2, <2>3, <2>4, AskApplyInv, AskSaveInv DEF AskStep
    <2>5. CASE Sync \/ UNCHANGED vars
      BY <2>1, <2>5 DEF Sync, vars
    <2> QED BY <2>1, <2>4, <2>5, DraftStepInv, WorkStepInv DEF Next
  <1> QED BY <1>1, <1>2, DraftsInvariant, PTL DEF Spec

\* A request that went through is answered with its own receipt whenever it is delivered again.
THEOREM RetriesAnswered == Spec => []RetryIsAnswered
  <1>1. KeysUnique /\ IInv => RetryIsAnswered
    <2> SUFFICES ASSUME KeysUnique, IInv, NEW k \in AskKeys, NEW v \in DOMAIN revisions,
                        asks[k] # None, revisions[v].request = asks[k],
                        revisions[v].key = <<asks[k].kind, k>>
                 PROVE  Answer(k) = <<"existing", v>>
      BY DEF RetryIsAnswered
    <2>1. Receipts(k) = {v}
      BY DEF Receipts, KeysUnique
    <2>2. Receipted(k) = <<"existing", v>>
      BY <2>1 DEF Receipted
    <2> QED BY <2>1, <2>2 DEF Answer, ApplyAnswer
  <1> QED BY <1>1, KeysStayUnique, DraftsInvariant, PTL

-----------------------------------------------------------------------------
(* Closed drafts.                                                          *)

\* A draft goes from one generation to later ones, and is not opened again in the same.
MovesOn(old, new) ==
    /\ new.gen \in Nat /\ new.gen >= old.gen
    /\ new.gen = old.gen /\ old.state = "abandoned" => new.state = "abandoned"

\* Nothing reaches a draft that is consumed, and no draft changes its base or its source.
KeepsDrafts ==
    \A d \in Ids :
        /\ d \in Ids'
        /\ drafts'[d].from = drafts[d].from /\ drafts'[d].base = drafts[d].base
        /\ drafts[d].state = "consumed" => drafts'[d] = drafts[d]
        /\ MovesOn(drafts[d], drafts'[d])

\* No draft is consumed.
NoneConsumed ==
    \A d \in Ids' : drafts'[d].state = "consumed" => d \in Ids /\ drafts[d].state = "consumed"

\* A new draft is the successor of one that its rebase has left closed.
AddsDraft(n, from) ==
    /\ Ids' = Ids \cup {n} /\ n \notin Ids
    /\ drafts'[n].from = from /\ drafts'[n].state = "open"

\* What a new draft starts from.
NewestIs(n, new) == drafts'[n].base = new.base /\ drafts'[n].content = new.content

LEMMA SetDraftKeeps ==
    ASSUME NEW s, AreDrafts(s), NEW d \in DOMAIN s, NEW dr,
           dr.from = s[d].from, dr.base = s[d].base
    PROVE  \A e \in DOMAIN s : /\ [s EXCEPT ![d] = dr][e].from = s[e].from
                               /\ [s EXCEPT ![d] = dr][e].base = s[e].base
                               /\ e # d => [s EXCEPT ![d] = dr][e] = s[e]
  BY SeqExcept DEF AreDrafts

LEMMA ChangesOfDraft ==
    ASSUME NEW dr, IsDraft(dr)
    PROVE  /\ \A p, field, value : /\ Edited(dr, p, field, value).from = dr.from
                                   /\ Edited(dr, p, field, value).base = dr.base
                                   /\ Edited(dr, p, field, value).state = dr.state
                                   /\ Edited(dr, p, field, value).gen = dr.gen
           /\ /\ Closed(dr).from = dr.from /\ Closed(dr).base = dr.base
              /\ Closed(dr).state = "abandoned" /\ Closed(dr).gen = dr.gen + 1
           /\ /\ Consumed(dr).from = dr.from /\ Consumed(dr).base = dr.base
              /\ Consumed(dr).state = "consumed" /\ Consumed(dr).content = dr.content
              /\ Consumed(dr).inputs = dr.inputs /\ Consumed(dr).gen = dr.gen + 1
           /\ /\ Resumed(dr).from = dr.from /\ Resumed(dr).base = dr.base
              /\ Resumed(dr).state = "open" /\ Resumed(dr).gen = dr.gen + 1
  BY DEF IsDraft, Edited, Closed, Consumed, Resumed

LEMMA SelectedDraft ==
    ASSUME NEW dr, IsDraft(dr), NEW decided
    PROVE  /\ Select(dr, decided).from = dr.from /\ Select(dr, decided).base = dr.base
           /\ Select(dr, decided).state = dr.state /\ Select(dr, decided).inputs = dr.inputs
           /\ Select(dr, decided).gen = dr.gen
  BY DEF IsDraft, Select

\* What a command leaves keeps its state.
LEMMA LeaveKeeps ==
    ASSUME NEW all, AreDrafts(all), NEW d \in DOMAIN all,
           Leave(d, all) \/ LeaveUnreconciled(all)
    PROVE  \A e \in DOMAIN all :
                /\ drafts'[e].from = all[e].from /\ drafts'[e].base = all[e].base
                /\ drafts'[e].state = all[e].state /\ drafts'[e].content = all[e].content
                /\ drafts'[e].gen = all[e].gen
                /\ e # d \/ all[e].state # "open" => drafts'[e] = all[e]
  <1>1. CASE drafts' = all
    BY <1>1
  <1>2. CASE CanAutoReconcile(d, all[d]) /\ drafts' = [all EXCEPT ![d] = Select(@, FALSE)]
    <2> DEFINE dr == Select(all[d], FALSE)
    <2>1. IsDraft(all[d]) /\ all[d].state = "open"
      BY <1>2 DEF AreDrafts, CanAutoReconcile
    <2>2. /\ dr.from = all[d].from /\ dr.base = all[d].base /\ dr.state = all[d].state
          /\ dr.content = all[d].content /\ dr.gen = all[d].gen
      BY <2>1, SelectedDraft, SelectIsDraft
    <2>3. drafts' = [all EXCEPT ![d] = dr]
      BY <1>2
    <2> HIDE DEF dr
    <2>4. \A e \in DOMAIN all : drafts'[e] = IF e = d THEN dr ELSE all[e]
      BY <2>3, SeqExcept DEF AreDrafts
    <2> QED BY <2>1, <2>2, <2>4
  <1> QED BY <1>1, <1>2 DEF Leave, LeaveUnreconciled

LEMMA DraftStepKeeps ==
    ASSUME IInv, DraftStep
    PROVE  KeepsDrafts /\ NoneConsumed /\ Ids' = Ids
  <1>1. PICK d \in Ids :
            \/ \E c \in Decisions, e \in Ids : Edit(d, Digest(drafts[e]), c[1], c[2], c[3])
            \/ Prepare(d)
            \/ \E key \in SaveKeys, e \in Ids : Reconcile(d, Digest(drafts[e]), key)
            \/ \E gen \in 0 .. drafts[d].gen : Abandon(d, gen) \/ Resume(d, gen)
    BY DEF DraftStep
  <1>2. d \in DOMAIN drafts /\ IsDraft(drafts[d]) /\ AreDrafts(drafts)
    BY DEF IInv, AreDrafts, Ids
  <1>3. CASE Prepare(d)
    <2>1. Leave(d, drafts)
      BY <1>3 DEF Prepare
    <2>2. DOMAIN drafts' = DOMAIN drafts
      BY <1>2, <2>1, LeaveKeepsDrafts
    <2>3. \A e \in DOMAIN drafts :
                /\ drafts'[e].from = drafts[e].from /\ drafts'[e].base = drafts[e].base
                /\ drafts'[e].state = drafts[e].state /\ drafts'[e].gen = drafts[e].gen
                /\ e # d \/ drafts[e].state # "open" => drafts'[e] = drafts[e]
      BY <1>2, <2>1, LeaveKeeps
    <2>4. \A e \in DOMAIN drafts : drafts[e].gen \in Nat
      BY <1>2 DEF AreDrafts, IsDraft
    <2> QED BY <2>2, <2>3, <2>4 DEF KeepsDrafts, MovesOn, NoneConsumed, Ids
  <1>4. CASE \E c \in Decisions, e \in Ids : Edit(d, Digest(drafts[e]), c[1], c[2], c[3])
    <2>1. PICK c \in Decisions, e \in Ids : Edit(d, Digest(drafts[e]), c[1], c[2], c[3])
      BY <1>4
    <2> DEFINE dr == Edited(drafts[d], c[1], c[2], c[3])
               all == [drafts EXCEPT ![d] = dr]
    <2>2. /\ IsDraft(dr) /\ dr.from = drafts[d].from /\ dr.base = drafts[d].base
          /\ dr.state = drafts[d].state /\ dr.gen = drafts[d].gen
      BY <1>2, <2>1, EditedIsDraft, ChangesOfDraft, DraftAssumption DEF Edit, Fields
    <2>3. drafts[d].state = "open" /\ Leave(d, all)
      BY <2>1 DEF Edit
    <2> HIDE DEF dr
    <2>4. AreDrafts(all) /\ DOMAIN all = DOMAIN drafts
      BY <1>2, <2>2, DraftExcept
    <2>5. all[d] = dr
      BY <1>2, SeqExcept DEF AreDrafts
    <2>6. \A f \in DOMAIN drafts : /\ all[f].from = drafts[f].from /\ all[f].base = drafts[f].base
                                   /\ f # d => all[f] = drafts[f]
      BY <1>2, <2>2, SetDraftKeeps
    <2> HIDE DEF all
    <2>7. DOMAIN drafts' = DOMAIN drafts
      BY <1>2, <2>3, <2>4, LeaveKeepsDrafts
    <2>8. \A f \in DOMAIN all :
                /\ drafts'[f].from = all[f].from /\ drafts'[f].base = all[f].base
                /\ drafts'[f].state = all[f].state /\ drafts'[f].gen = all[f].gen
                /\ f # d \/ all[f].state # "open" => drafts'[f] = all[f]
      BY <1>2, <2>3, <2>4, LeaveKeeps
    <2>9. ASSUME NEW f \in DOMAIN drafts
          PROVE  /\ drafts'[f].from = drafts[f].from /\ drafts'[f].base = drafts[f].base
                 /\ drafts'[f].state = drafts[f].state /\ drafts'[f].gen = drafts[f].gen
                 /\ drafts[f].state # "open" => drafts'[f] = drafts[f]
      <3>1. f # d => drafts'[f] = all[f] /\ all[f] = drafts[f]
        BY <2>4, <2>6, <2>8
      <3> QED BY <2>2, <2>3, <2>4, <2>6, <2>8, <2>5, <3>1
    <2>10. \A f \in DOMAIN drafts : drafts[f].gen \in Nat
      BY <1>2 DEF AreDrafts, IsDraft
    <2> QED BY <2>4, <2>7, <2>9, <2>10 DEF KeepsDrafts, MovesOn, NoneConsumed, Ids
  <1>5. ASSUME NEW dr, drafts' = [drafts EXCEPT ![d] = dr], drafts[d].state # "consumed",
               dr.from = drafts[d].from, dr.base = drafts[d].base, dr.state # "consumed",
               MovesOn(drafts[d], dr)
        PROVE  KeepsDrafts /\ NoneConsumed /\ Ids' = Ids
    <2>1. DOMAIN drafts' = DOMAIN drafts
      BY <1>2, <1>5, SeqExcept DEF AreDrafts
    <2>2. \A f \in DOMAIN drafts : /\ drafts'[f].from = drafts[f].from
                                   /\ drafts'[f].base = drafts[f].base
                                   /\ f # d => drafts'[f] = drafts[f]
      BY <1>2, <1>5, SetDraftKeeps
    <2>3. drafts'[d] = dr
      BY <1>2, <1>5, SeqExcept DEF AreDrafts
    <2>4. \A f \in DOMAIN drafts : drafts[f].gen \in Nat
      BY <1>2 DEF AreDrafts, IsDraft
    <2> QED BY <1>5, <2>1, <2>2, <2>3, <2>4 DEF KeepsDrafts, MovesOn, NoneConsumed, Ids
  <1>6. CASE \E key \in SaveKeys, e \in Ids : Reconcile(d, Digest(drafts[e]), key)
    <2> DEFINE dr == Select(drafts[d], TRUE)
    <2>1. drafts[d].state = "open" /\ drafts' = [drafts EXCEPT ![d] = dr]
      BY <1>6 DEF Reconcile
    <2>2. /\ dr.from = drafts[d].from /\ dr.base = drafts[d].base /\ dr.state = drafts[d].state
          /\ dr.gen = drafts[d].gen /\ dr.gen \in Nat
      BY <1>2, SelectedDraft DEF IsDraft
    <2> HIDE DEF dr
    <2>3. MovesOn(drafts[d], dr)
      BY <2>1, <2>2 DEF MovesOn
    <2> QED BY <1>5, <2>1, <2>2, <2>3
  <1>7. CASE \E gen \in 0 .. drafts[d].gen : Abandon(d, gen)
    <2> DEFINE dr == Closed(drafts[d])
    <2>1. drafts[d].state = "open" /\ drafts' = [drafts EXCEPT ![d] = dr]
      BY <1>7 DEF Abandon
    <2>2. /\ dr.from = drafts[d].from /\ dr.base = drafts[d].base /\ dr.state = "abandoned"
          /\ dr.gen = drafts[d].gen + 1 /\ drafts[d].gen \in Nat
      BY <1>2, ChangesOfDraft DEF IsDraft
    <2> HIDE DEF dr
    <2>3. MovesOn(drafts[d], dr)
      BY <2>2 DEF MovesOn
    <2> QED BY <1>5, <2>1, <2>2, <2>3
  <1>8. CASE \E gen \in 0 .. drafts[d].gen : Resume(d, gen)
    <2> DEFINE dr == Resumed(drafts[d])
    <2>1. drafts[d].state = "abandoned" /\ drafts' = [drafts EXCEPT ![d] = dr]
      BY <1>8 DEF Resume
    <2>2. /\ dr.from = drafts[d].from /\ dr.base = drafts[d].base /\ dr.state = "open"
          /\ dr.gen = drafts[d].gen + 1 /\ drafts[d].gen \in Nat
      BY <1>2, ChangesOfDraft DEF IsDraft
    <2> HIDE DEF dr
    <2>3. MovesOn(drafts[d], dr)
      BY <2>2 DEF MovesOn
    <2> QED BY <1>5, <2>1, <2>2, <2>3
  <1> QED BY <1>1, <1>3, <1>4, <1>6, <1>7, <1>8

\* A recompute or a rebase replaces some open drafts by closed ones and adds its own.
LEMMA FinishKeeps ==
    ASSUME IInv, NEW all, AreDrafts(all), DOMAIN all = Ids, NEW new, IsDraft(new),
           new.state = "open",
           \A d \in Ids : \/ all[d] = drafts[d]
                         \/ (drafts[d].state = "open" /\ all[d] = Closed(drafts[d])),
           LET n == Len(all) + 1
           IN  Leave(n, Append(all, new)) \/ LeaveUnreconciled(Append(all, new))
    PROVE  /\ KeepsDrafts /\ NoneConsumed /\ AddsDraft(Len(all) + 1, new.from)
           /\ \A d \in Ids : drafts'[d] = all[d]
           /\ NewestIs(Len(all) + 1, new)
  <1> DEFINE n == Len(all) + 1
             more == Append(all, new)
  <1>1. /\ AreDrafts(more) /\ DOMAIN more = Ids \cup {n} /\ more[n] = new
        /\ \A d \in Ids : more[d] = all[d]
    BY DraftAppend, SeqAppend DEF AreDrafts
  <1>2. n \notin Ids
    BY SeqDomain DEF AreDrafts
  <1>3. Leave(n, more) \/ LeaveUnreconciled(more)
    OBVIOUS
  <1> HIDE DEF more
  <1>4. DOMAIN drafts' = Ids \cup {n}
    BY <1>1, <1>3, LeaveKeepsDrafts
  <1>5. \A e \in DOMAIN more :
            /\ drafts'[e].from = more[e].from /\ drafts'[e].base = more[e].base
            /\ drafts'[e].state = more[e].state /\ drafts'[e].content = more[e].content
            /\ e # n \/ more[e].state # "open" => drafts'[e] = more[e]
    BY <1>1, <1>3, LeaveKeeps
  <1>6. \A d \in Ids : drafts'[d] = all[d]
    BY <1>1, <1>2, <1>5
  <1>7. \A d \in Ids : IsDraft(drafts[d])
    BY DEF IInv, AreDrafts, Ids
  <1>8. KeepsDrafts
    <2> SUFFICES ASSUME NEW d \in Ids
                 PROVE  /\ d \in Ids'
                        /\ drafts'[d].from = drafts[d].from /\ drafts'[d].base = drafts[d].base
                        /\ drafts[d].state = "consumed" => drafts'[d] = drafts[d]
                        /\ MovesOn(drafts[d], drafts'[d])
      BY DEF KeepsDrafts
    <2>1. drafts'[d] = drafts[d] \/ (drafts[d].state = "open" /\ drafts'[d] = Closed(drafts[d]))
      BY <1>6
    <2>2. d \in Ids' /\ IsDraft(drafts[d]) /\ drafts[d].gen \in Nat
      BY <1>4, <1>7 DEF Ids, IsDraft
    <2> QED BY <2>1, <2>2, ChangesOfDraft DEF MovesOn
  <1>9. NoneConsumed
    BY <1>1, <1>4, <1>5, <1>6, <1>7, ChangesOfDraft DEF NoneConsumed, Ids
  <1>10. AddsDraft(n, new.from)
    BY <1>1, <1>2, <1>4, <1>5 DEF AddsDraft, Ids
  <1>11. NewestIs(n, new)
    BY <1>1, <1>5 DEF NewestIs
  <1> QED BY <1>6, <1>8, <1>9, <1>10, <1>11

LEMMA FinishRecomputeKeeps ==
    ASSUME IInv, NEW w \in Workers, FinishRecompute(w)
    PROVE  /\ KeepsDrafts /\ NoneConsumed /\ \E n : AddsDraft(n, None)
           /\ AddsDraft(Len(drafts) + 1, None)
           /\ NewestIs(Len(drafts) + 1,
                       [base |-> Latest, content |-> Carried(work[w].content, work[w].manifest)])
  <1> DEFINE x == work[w]
             all == [d \in Ids |-> IF d \in Opened THEN Closed(drafts[d]) ELSE drafts[d]]
             new == NewDraft(x.key, x, Carried(x.content, x.manifest), None)
  <1>1. /\ IsDraft(new) /\ new.state = "open" /\ new.from = None
        /\ new.base = Latest /\ new.content = Carried(x.content, x.manifest)
    <2>1. IsContent(Carried(x.content, x.manifest))
      BY CarriedIsContent DEF IInv, WorkInv, FinishRecompute
    <2>2. IsDraft(new)
      BY <2>1, NewDraftIsDraft
    <2>3. x.base = Latest
      BY DEF FinishRecompute, StillPrepared
    <2> QED BY <2>2, <2>3 DEF NewDraft
  <1>2. /\ Len(drafts) \in Nat /\ Ids = 1 .. Len(drafts)
        /\ \A d \in Ids : IsDraft(drafts[d])
    BY SeqDomain DEF IInv, AreDrafts, Ids
  <1>3. \A d \in Ids : \/ all[d] = drafts[d]
                       \/ (drafts[d].state = "open" /\ all[d] = Closed(drafts[d]))
    BY DEF Opened
  <1>4. AreDrafts(all) /\ DOMAIN all = Ids /\ Len(all) = Len(drafts)
    <2>1. DOMAIN all = Ids /\ all = [i \in 1 .. Len(drafts) |-> all[i]]
      BY <1>2
    <2>2. \A d \in Ids : IsDraft(all[d])
      BY <1>2, ClosedIsDraft
    <2> HIDE DEF all
    <2>3. IsSeq(all) /\ Len(all) = Len(drafts)
      BY <1>2, <2>1, SeqFunction
    <2> QED BY <2>1, <2>2, <2>3 DEF AreDrafts
  <1>5. \/ Leave(Len(drafts) + 1, Append(all, new))
        \/ LeaveUnreconciled(Append(all, new))
    BY DEF FinishRecompute
  <1> HIDE DEF all, new
  <1>6. /\ KeepsDrafts /\ NoneConsumed /\ AddsDraft(Len(all) + 1, new.from)
        /\ NewestIs(Len(all) + 1, new)
    BY <1>1, <1>3, <1>4, <1>5, FinishKeeps
  <1> QED BY <1>1, <1>4, <1>6 DEF NewestIs

LEMMA FinishRebaseKeeps ==
    ASSUME IInv, NEW w \in Workers, FinishRebase(w)
    PROVE  /\ KeepsDrafts /\ NoneConsumed /\ \E n : AddsDraft(n, work[w].from)
           /\ AddsDraft(Len(drafts) + 1, work[w].from)
           /\ NewestIs(Len(drafts) + 1, [base |-> Latest, content |-> work[w].content])
           /\ LET d == work[w].from[1]
              IN  /\ d \in Ids /\ drafts[d].state = work[w].state
                  /\ drafts[d].gen = work[w].gen
                  /\ drafts'[d] = IF work[w].state = "open" THEN Closed(drafts[d]) ELSE drafts[d]
  <1> DEFINE x == work[w]
             d == x.from[1]
             dr == IF x.state = "open" THEN Closed(drafts[d]) ELSE drafts[d]
             all == [drafts EXCEPT ![d] = dr]
             new == NewDraft(x.key, x, x.content, x.from)
  <1>1. /\ IsDraft(new) /\ new.state = "open" /\ new.from = x.from
        /\ new.base = Latest /\ new.content = x.content
    <2>1. IsDraft(new)
      BY NewDraftIsDraft DEF IInv, WorkInv, FinishRebase
    <2>2. x.base = Latest
      BY DEF FinishRebase, StillPrepared
    <2> QED BY <2>1, <2>2 DEF NewDraft
  <1>2. d \in Ids /\ IsDraft(drafts[d]) /\ AreDrafts(drafts)
    BY DEF IInv, WorkInv, FinishRebase, AreDrafts, Ids
  <1>3. drafts[d].state = x.state /\ drafts[d].gen = x.gen
    BY DEF FinishRebase, SourceHolds
  <1>4. IsDraft(dr)
    BY <1>2, ClosedIsDraft
  <1>5. \/ Leave(Len(drafts) + 1, Append(all, new))
        \/ LeaveUnreconciled(Append(all, new))
    BY DEF FinishRebase
  <1>6. dr = drafts[d] \/ (drafts[d].state = "open" /\ dr = Closed(drafts[d]))
    BY <1>3
  <1>7. dr = IF x.state = "open" THEN Closed(drafts[d]) ELSE drafts[d]
    OBVIOUS
  <1> HIDE DEF dr, new
  <1>8. AreDrafts(all) /\ DOMAIN all = Ids
    BY <1>2, <1>4, DraftExcept DEF Ids
  <1>9. \A e \in Ids : all[e] = IF e = d THEN dr ELSE drafts[e]
    BY <1>2, SeqExcept DEF AreDrafts, Ids
  <1> HIDE DEF all
  <1>10. Len(all) = Len(drafts)
    BY <1>2, <1>8, SameLength DEF AreDrafts, Ids
  <1>11. \A e \in Ids : \/ all[e] = drafts[e]
                        \/ (drafts[e].state = "open" /\ all[e] = Closed(drafts[e]))
    BY <1>6, <1>9
  <1>12. /\ KeepsDrafts /\ NoneConsumed /\ AddsDraft(Len(all) + 1, new.from)
         /\ \A e \in Ids : drafts'[e] = all[e]
         /\ NewestIs(Len(all) + 1, new)
    BY <1>1, <1>5, <1>8, <1>10, <1>11, FinishKeeps
  <1> QED BY <1>1, <1>2, <1>3, <1>7, <1>9, <1>10, <1>12 DEF NewestIs

LEMMA ApplyKeeps ==
    ASSUME IInv, NEW k \in AskKeys, Apply(k)
    PROVE  /\ KeepsDrafts /\ Ids' = Ids
           /\ \A d \in Ids : drafts'[d] = IF d = asks[k].draft THEN Consumed(drafts[d])
                                           ELSE drafts[d]
  <1> DEFINE d == asks[k].draft
  <1>1. /\ d \in Ids /\ IsDraft(drafts[d]) /\ AreDrafts(drafts)
        /\ drafts' = [drafts EXCEPT ![d] = Consumed(drafts[d])]
    BY DEF Apply, IInv, AsksInv, AreDrafts, Ids
  <1>2. drafts[d].state = "open"
    BY DEF Apply, ApplyAnswer, Receipted
  <1>3. Consumed(drafts[d]).from = drafts[d].from /\ Consumed(drafts[d]).base = drafts[d].base
    BY <1>1, ChangesOfDraft
  <1>4. /\ DOMAIN drafts' = DOMAIN drafts
        /\ \A e \in DOMAIN drafts : drafts'[e] = IF e = d THEN Consumed(drafts[d]) ELSE drafts[e]
    BY <1>1, SeqExcept DEF AreDrafts, Ids
  <1>5. /\ Consumed(drafts[d]).gen = drafts[d].gen + 1
        /\ \A e \in DOMAIN drafts : drafts[e].gen \in Nat
    BY <1>1, ChangesOfDraft DEF AreDrafts, IsDraft
  <1> QED BY <1>2, <1>3, <1>4, <1>5 DEF KeepsDrafts, MovesOn, Ids

LEMMA SaveKeeps ==
    ASSUME IInv, NEW k \in AskKeys, Save(k)
    PROVE  LET n == Len(drafts) + 1
           IN  /\ KeepsDrafts /\ Ids' = Ids \cup {n} /\ n \notin Ids
               /\ drafts'[n].from = None /\ drafts'[n].state = "consumed"
               /\ drafts'[n].base = Latest /\ drafts'[n].inputs = inputs
               /\ drafts'[n].content = revisions'[Latest + 1].content
               /\ revisions'[Latest + 1].inputs = inputs /\ revisions'[Latest + 1].draft = n
               /\ \A d \in Ids : drafts'[d] = drafts[d] \/ drafts'[d].state = "abandoned"
  <1> DEFINE q == asks[k]
             n == Len(drafts) + 1
             new == Changed(SaveContent(q), q.part, q.field, q.value)
             own == NewDraft(<<"payload", q>>, [base |-> Latest, inputs |-> inputs], new, None)
             reconciled == Select(own, SaveDecided(q))
             last == Consumed(reconciled)
             closed == SourceClosed(q)
             rev == [content |-> own.content, inputs |-> own.inputs,
                     key |-> <<asks[k].kind, k>>, draft |-> n, request |-> asks[k]]
  <1>1. /\ SourceOpen(q) /\ drafts' = Append(closed, last)
        /\ revisions' = Append(revisions, rev)
    BY DEF Save, Published
  <1>2. /\ IsDraft(own) /\ own.from = None /\ own.base = Latest /\ own.inputs = inputs
    <2>1. IsContent(new)
      BY SavedContent, ChangedChoices
    <2> HIDE DEF new
    <2> QED BY <2>1, NewDraftIsDraft DEF NewDraft
  <1>3. rev.content = own.content /\ rev.inputs = own.inputs /\ rev.draft = n
    OBVIOUS
  <1> HIDE DEF own, rev
  <1>4. /\ IsDraft(reconciled) /\ reconciled.from = own.from /\ reconciled.base = own.base
        /\ reconciled.inputs = own.inputs /\ reconciled.content = own.content
    BY <1>2, SelectedDraft, SelectIsDraft
  <1> HIDE DEF reconciled
  <1>5. /\ IsDraft(last) /\ last.from = None /\ last.base = Latest /\ last.state = "consumed"
        /\ last.inputs = inputs /\ last.content = own.content
    BY <1>2, <1>4, ConsumedIsDraft, ChangesOfDraft
  <1> HIDE DEF last
  <1>6. /\ AreDrafts(drafts) /\ \A d \in Ids : IsDraft(drafts[d])
    BY DEF IInv, AreDrafts, Ids
  <1>7. /\ AreDrafts(closed) /\ DOMAIN closed = Ids
        /\ \A d \in Ids : \/ closed[d] = drafts[d]
                          \/ (drafts[d].state = "open" /\ closed[d] = Closed(drafts[d]))
    <2>1. CASE q.source = None
      BY <1>6, <2>1 DEF SourceClosed, Ids
    <2>2. CASE q.source # None
      <3> DEFINE d == q.source.draft
      <3>1. d \in Ids /\ IsDraft(drafts[d]) /\ drafts[d].state = "open"
        BY <1>1, <1>6, <2>2, SavedContent DEF SourceOpen
      <3>2. IsDraft(Closed(drafts[d]))
        BY <3>1, ClosedIsDraft
      <3>3. closed = [drafts EXCEPT ![d] = Closed(drafts[d])]
        BY <2>2 DEF SourceClosed
      <3>4. AreDrafts(closed) /\ DOMAIN closed = Ids
        BY <1>6, <3>1, <3>2, <3>3, DraftExcept DEF Ids
      <3>5. \A e \in Ids : closed[e] = IF e = d THEN Closed(drafts[d]) ELSE drafts[e]
        BY <1>6, <3>1, <3>3, SeqExcept DEF AreDrafts, Ids
      <3> QED BY <3>1, <3>4, <3>5
    <2> QED BY <2>1, <2>2
  <1> HIDE DEF closed
  <1>8. Len(closed) = Len(drafts) /\ n \notin Ids
    BY <1>6, <1>7, SameLength, SeqDomain DEF AreDrafts, Ids
  <1>9. /\ Ids' = Ids \cup {n} /\ drafts'[n] = last
        /\ \A d \in Ids : drafts'[d] = closed[d]
    BY <1>1, <1>7, <1>8, SeqAppend DEF AreDrafts, Ids
  <1>10. revisions'[Latest + 1] = rev
    BY <1>1, SeqAppend DEF IInv, RevisionsInv, Latest
  <1>11. \A d \in Ids : drafts'[d] = drafts[d] \/ drafts'[d].state = "abandoned"
    BY <1>6, <1>7, <1>9, ChangesOfDraft
  <1>12. KeepsDrafts
    <2> SUFFICES ASSUME NEW d \in Ids
                 PROVE  /\ d \in Ids'
                        /\ drafts'[d].from = drafts[d].from /\ drafts'[d].base = drafts[d].base
                        /\ drafts[d].state = "consumed" => drafts'[d] = drafts[d]
                        /\ MovesOn(drafts[d], drafts'[d])
      BY DEF KeepsDrafts
    <2>1. drafts'[d] = drafts[d] \/ (drafts[d].state = "open" /\ drafts'[d] = Closed(drafts[d]))
      BY <1>7, <1>9
    <2>2. d \in Ids' /\ IsDraft(drafts[d]) /\ drafts[d].gen \in Nat
      BY <1>6, <1>9 DEF IsDraft
    <2> QED BY <2>1, <2>2, ChangesOfDraft DEF MovesOn
  <1> QED BY <1>2, <1>3, <1>5, <1>8, <1>9, <1>10, <1>11, <1>12

-----------------------------------------------------------------------------
(* Successors.                                                             *)

\* A rebase that is being prepared names the generation that it will leave its source in.
GenerationInv ==
    \A w \in Workers : work[w] # None /\ work[w].kind = "rebase" =>
        /\ work[w].state \in {"open", "abandoned"}
        /\ work[w].from[2] = IF work[w].state = "open" THEN work[w].gen + 1 ELSE work[w].gen

SourcesInv ==
    \A n \in Ids : drafts[n].from # None => drafts[n].from[1] \in Ids /\ drafts[n].from[2] \in Nat

SuccessorInv == OneSuccessor /\ SourcesInv /\ GenerationInv

LEMMA GenerationStep ==
    ASSUME IInv, GenerationInv, [Next]_vars
    PROVE  GenerationInv'
  <1>1. ASSUME NEW w \in Workers, work' = [work EXCEPT ![w] = None] PROVE GenerationInv'
    BY <1>1 DEF GenerationInv, IInv, WorkInv
  <1>2. ASSUME work' = work PROVE GenerationInv'
    BY <1>2 DEF GenerationInv
  <1>3. ASSUME NEW w \in Workers, NEW key, NEW manifest, StartRecompute(w, key, manifest)
        PROVE  GenerationInv'
    <2> DEFINE x == [kind |-> "recompute", key |-> key, base |-> Latest, inputs |-> inputs,
                     content |-> Scanned(manifest), manifest |-> manifest]
    <2>1. work' = [work EXCEPT ![w] = x] /\ x.kind # "rebase"
      BY <1>3 DEF StartRecompute
    <2> HIDE DEF x
    <2> QED BY <2>1 DEF GenerationInv, IInv, WorkInv
  <1>4. ASSUME NEW w \in Workers, NEW key, NEW d \in Ids, StartRebase(w, key, d)
        PROVE  GenerationInv'
    <2> DEFINE dr == drafts[d]
               x == [kind |-> "rebase", key |-> key, base |-> Latest, inputs |-> inputs,
                     content |-> Merged(dr, Scanned(FALSE)), from |-> <<d, Generation(dr)>>,
                     state |-> dr.state, gen |-> dr.gen, shown |-> Digest(dr)]
    <2>1. work' = [work EXCEPT ![w] = x] /\ dr.state \in {"open", "abandoned"}
      BY <1>4 DEF StartRebase
    <2>2. x.state = dr.state /\ x.gen = dr.gen /\ x.from[2] = Generation(dr)
      OBVIOUS
    <2> HIDE DEF x, dr
    <2> QED BY <2>1, <2>2 DEF GenerationInv, IInv, WorkInv, Generation
  <1>5. CASE WorkStep
    BY <1>1, <1>2, <1>3, <1>4, <1>5
       DEF WorkStep, FinishRecompute, FinishRebase, GiveUp, RetryDraft
  <1>6. CASE DraftStep
    BY <1>2, <1>6 DEF DraftStep, Edit, Prepare, Reconcile, Abandon, Resume
  <1>7. CASE AskStep
    BY <1>2, <1>7 DEF AskStep, AskApply, AskSave, Apply, Save
  <1>8. CASE Sync \/ UNCHANGED vars
    BY <1>2, <1>8 DEF Sync, vars
  <1> QED BY <1>5, <1>6, <1>7, <1>8 DEF Next

\* A draft has left a generation: it is closed in it or has gone on to a later one.
Left(dr, gen) == dr.gen >= gen /\ (dr.gen = gen => dr.state = "abandoned")

LEMMA StaysLeft ==
    ASSUME IInv, KeepsDrafts, NEW d \in Ids, NEW gen \in Nat, Left(drafts[d], gen)
    PROVE  Left(drafts'[d], gen)
  <1>1. drafts[d].gen \in Nat
    BY DEF IInv, AreDrafts, IsDraft, Ids
  <1>2. MovesOn(drafts[d], drafts'[d])
    BY DEF KeepsDrafts
  <1> QED BY <1>1, <1>2 DEF Left, MovesOn

\* A step that adds no successor keeps those there are.
LEMMA SuccessorsKept ==
    ASSUME IInv, OneSuccessor, SourcesInv, KeepsDrafts,
           \A n \in Ids' : n \in Ids \/ drafts'[n].from = None
    PROVE  OneSuccessor' /\ SourcesInv'
  <1>1. SourcesInv'
    BY DEF SourcesInv, KeepsDrafts
  <1>2. ASSUME NEW n \in Ids', drafts'[n].from # None
        PROVE  /\ Left(drafts'[drafts'[n].from[1]], drafts'[n].from[2])
               /\ \A m \in Ids' : drafts'[m].from = drafts'[n].from => m = n
    <2>1. n \in Ids /\ drafts'[n].from = drafts[n].from /\ drafts[n].from # None
      BY <1>2 DEF KeepsDrafts
    <2>2. Left(drafts'[drafts[n].from[1]], drafts[n].from[2])
      BY <2>1, StaysLeft DEF OneSuccessor, Left, SourcesInv
    <2>3. \A m \in Ids : drafts[m].from = drafts[n].from => m = n
      BY <2>1 DEF OneSuccessor
    <2>4. \A m \in Ids' : \/ m \in Ids /\ drafts'[m].from = drafts[m].from
                          \/ drafts'[m].from = None
      BY DEF KeepsDrafts
    <2> QED BY <2>1, <2>2, <2>3, <2>4
  <1> QED BY <1>1, <1>2 DEF OneSuccessor, Left

LEMMA SuccessorAdded ==
    ASSUME IInv, OneSuccessor, SourcesInv, GenerationInv, NEW w \in Workers, FinishRebase(w)
    PROVE  OneSuccessor' /\ SourcesInv'
  <1> DEFINE x == work[w]
             d == x.from[1]
  <1>1. PICK n : AddsDraft(n, x.from)
    BY FinishRebaseKeeps
  <1>2. /\ KeepsDrafts /\ d \in Ids /\ drafts[d].state = x.state /\ drafts[d].gen = x.gen
        /\ drafts'[d] = IF x.state = "open" THEN Closed(drafts[d]) ELSE drafts[d]
    BY FinishRebaseKeeps
  <1>3. IsDraft(drafts[d]) /\ drafts[d].gen \in Nat
    BY <1>2 DEF IInv, AreDrafts, IsDraft, Ids
  <1>4. /\ x.state \in {"open", "abandoned"}
        /\ x.from[2] = IF x.state = "open" THEN x.gen + 1 ELSE x.gen
    BY DEF GenerationInv, FinishRebase
  <1>5. /\ drafts'[d].state = "abandoned" /\ drafts'[d].gen = x.from[2]
        /\ x.from[2] \in Nat
    BY <1>2, <1>3, <1>4, ChangesOfDraft
  <1>6. \A m \in Ids : drafts[m].from # x.from
    BY DEF FinishRebase, Successor
  <1>7. /\ Ids' = Ids \cup {n} /\ n \notin Ids /\ drafts'[n].from = x.from
    BY <1>1 DEF AddsDraft
  <1>8. SourcesInv'
    BY <1>2, <1>5, <1>7 DEF SourcesInv, KeepsDrafts
  <1>9. ASSUME NEW m \in Ids', drafts'[m].from # None
        PROVE  /\ Left(drafts'[drafts'[m].from[1]], drafts'[m].from[2])
               /\ \A l \in Ids' : drafts'[l].from = drafts'[m].from => l = m
    <2>1. CASE m = n
      <3>1. Left(drafts'[d], x.from[2])
        BY <1>5 DEF Left
      <3> QED BY <1>2, <1>6, <1>7, <2>1, <3>1 DEF KeepsDrafts
    <2>2. CASE m # n
      <3>1. m \in Ids /\ drafts'[m].from = drafts[m].from /\ drafts[m].from # None
        BY <1>2, <1>7, <1>9, <2>2 DEF KeepsDrafts
      <3>2. Left(drafts'[drafts[m].from[1]], drafts[m].from[2])
        BY <1>2, <3>1, StaysLeft DEF OneSuccessor, Left, SourcesInv
      <3>3. \A l \in Ids : drafts[l].from = drafts[m].from => l = m
        BY <3>1 DEF OneSuccessor
      <3>4. drafts'[n].from # drafts'[m].from
        BY <1>6, <1>7, <3>1
      <3>5. \A l \in Ids : drafts'[l].from = drafts[l].from
        BY <1>2 DEF KeepsDrafts
      <3> QED BY <1>7, <3>1, <3>2, <3>3, <3>4, <3>5
    <2> QED BY <2>1, <2>2
  <1> QED BY <1>8, <1>9 DEF OneSuccessor, Left

\* What the commands do that neither publish nor finish a new draft.
LEMMA OtherStepKeeps ==
    ASSUME IInv, [Next]_vars, \A w \in Workers : ~FinishRebase(w) /\ ~FinishRecompute(w),
           \A k \in AskKeys : ~Apply(k) /\ ~Save(k)
    PROVE  KeepsDrafts /\ NoneConsumed /\ Ids' = Ids /\ revisions' = revisions
  <1>0. \A d \in Ids : drafts[d].gen \in Nat
    BY DEF IInv, AreDrafts, IsDraft, Ids
  <1>1. ASSUME drafts' = drafts PROVE KeepsDrafts /\ NoneConsumed /\ Ids' = Ids
    BY <1>0, <1>1 DEF KeepsDrafts, MovesOn, NoneConsumed, Ids
  <1>2. ASSUME NEW key \in DraftKeys, RetryDraft(key) PROVE KeepsDrafts /\ NoneConsumed /\ Ids' = Ids
    <2>1. PICK d \in WithKey(key) : Leave(d, drafts)
      BY <1>2 DEF RetryDraft
    <2>2. d \in DOMAIN drafts /\ AreDrafts(drafts)
      BY DEF WithKey, Ids, IInv
    <2>3. DOMAIN drafts' = DOMAIN drafts
      BY <2>1, <2>2, LeaveKeepsDrafts
    <2>4. \A e \in DOMAIN drafts :
                /\ drafts'[e].from = drafts[e].from /\ drafts'[e].base = drafts[e].base
                /\ drafts'[e].state = drafts[e].state /\ drafts'[e].gen = drafts[e].gen
                /\ e # d \/ drafts[e].state # "open" => drafts'[e] = drafts[e]
      BY <2>1, <2>2, LeaveKeeps
    <2> QED BY <1>0, <2>3, <2>4 DEF KeepsDrafts, MovesOn, NoneConsumed, Ids
  <1>3. CASE WorkStep
    BY <1>1, <1>2, <1>3, WorkStepInv DEF WorkStep, StartRecompute, StartRebase, GiveUp
  <1>4. CASE DraftStep
    BY <1>4, DraftStepKeeps, DraftStepInv
  <1>5. CASE AskStep
    BY <1>1, <1>5 DEF AskStep, AskApply, AskSave
  <1>6. CASE Sync \/ UNCHANGED vars
    BY <1>1, <1>6 DEF Sync, vars
  <1> QED BY <1>3, <1>4, <1>5, <1>6 DEF Next

\* What the commands do to the drafts, those that publish aside.
LEMMA QuietStepKeeps ==
    ASSUME IInv, [Next]_vars, \A w \in Workers : ~FinishRebase(w),
           \A k \in AskKeys : ~Apply(k) /\ ~Save(k)
    PROVE  KeepsDrafts /\ NoneConsumed /\ \A n \in Ids' : n \in Ids \/ drafts'[n].from = None
  <1>1. ASSUME NEW w \in Workers, FinishRecompute(w)
        PROVE  KeepsDrafts /\ NoneConsumed /\ \A n \in Ids' : n \in Ids \/ drafts'[n].from = None
    BY <1>1, FinishRecomputeKeeps DEF AddsDraft
  <1> QED BY <1>1, OtherStepKeeps

\* One generation of a draft has one successor, and the draft never comes back to it, whatever
\* else is rebased, recomputed, resumed, published or retried meanwhile.
THEOREM SuccessorsAreUnique == Spec => []OneSuccessor
  <1>1. Init => SuccessorInv
    <2> SUFFICES ASSUME Init PROVE SuccessorInv
      OBVIOUS
    <2>1. Ids = {1} /\ drafts[1].from = None
      BY DEF Init, Ids
    <2>2. \A w \in Workers : work[w] = None
      BY DEF Init
    <2> QED BY <2>1, <2>2 DEF SuccessorInv, OneSuccessor, SourcesInv, GenerationInv
  <1>2. IInv /\ SuccessorInv /\ [Next]_vars => SuccessorInv'
    <2> SUFFICES ASSUME IInv, OneSuccessor, SourcesInv, GenerationInv, [Next]_vars
                 PROVE  OneSuccessor' /\ SourcesInv'
      BY GenerationStep DEF SuccessorInv
    <2>1. ASSUME NEW w \in Workers, FinishRebase(w) PROVE OneSuccessor' /\ SourcesInv'
      BY <2>1, SuccessorAdded
    <2>2. ASSUME NEW k \in AskKeys, Apply(k) PROVE OneSuccessor' /\ SourcesInv'
      BY <2>2, ApplyKeeps, SuccessorsKept
    <2>3. ASSUME NEW k \in AskKeys, Save(k) PROVE OneSuccessor' /\ SourcesInv'
      BY <2>3, SaveKeeps, SuccessorsKept
    <2> QED BY <2>1, <2>2, <2>3, QuietStepKeeps, SuccessorsKept
  <1>3. SuccessorInv => OneSuccessor
    BY DEF SuccessorInv
  <1> QED BY <1>1, <1>2, <1>3, DraftsInvariant, PTL DEF Spec

-----------------------------------------------------------------------------
(* Receipts and drafts.                                                    *)

\* A request to publish names the base of its draft.
BasesInv ==
    \A k \in AskKeys : asks[k] # None /\ asks[k].kind = "apply" =>
        asks[k].base = drafts[asks[k].draft].base

\* The draft of a revision.
ReceiptOf(v) ==
    LET dr == drafts[revisions[v].draft]
    IN  /\ revisions[v].draft \in Ids /\ dr.state = "consumed" /\ dr.base = v - 1
        /\ dr.content = revisions[v].content /\ dr.inputs = revisions[v].inputs

ReceiptsInv ==
    /\ \A v \in 2 .. Latest : ReceiptOf(v)
    /\ \A d \in Ids : drafts[d].state = "consumed" => \E v \in DOMAIN revisions : Applied(d) = {v}

LEMMA BasesStep ==
    ASSUME IInv, BasesInv, [Next]_vars, KeepsDrafts
    PROVE  BasesInv'
  <1>1. ASSUME asks' = asks PROVE BasesInv'
    BY <1>1 DEF BasesInv, KeepsDrafts, IInv, AsksInv
  <1>2. ASSUME NEW k \in AskKeys, NEW d \in Ids, AskApply(k, d) PROVE BasesInv'
    <2> DEFINE q == [kind |-> "apply", draft |-> d, gen |-> drafts[d].gen,
                     base |-> drafts[d].base, shown |-> Digest(drafts[d])]
    <2>1. asks' = [asks EXCEPT ![k] = q] /\ drafts' = drafts
      BY <1>2 DEF AskApply
    <2>2. q.draft = d /\ q.base = drafts[d].base
      OBVIOUS
    <2> HIDE DEF q
    <2> QED BY <2>1, <2>2 DEF BasesInv, IInv, AsksInv
  <1>3. ASSUME NEW k \in AskKeys, NEW source, NEW p, NEW field, NEW value,
               AskSave(k, source, p, field, value)
        PROVE  BasesInv'
    <2> DEFINE q == [kind |-> "save", base |-> Latest, source |-> source,
                     part |-> p, field |-> field, value |-> value]
    <2>1. asks' = [asks EXCEPT ![k] = q] /\ drafts' = drafts /\ q.kind # "apply"
      BY <1>3 DEF AskSave
    <2> HIDE DEF q
    <2> QED BY <2>1 DEF BasesInv, IInv, AsksInv
  <1>4. CASE AskStep
    BY <1>1, <1>2, <1>3, <1>4 DEF AskStep, Apply, Save
  <1>5. CASE DraftStep
    BY <1>1, <1>5 DEF DraftStep, Edit, Prepare, Reconcile, Abandon, Resume
  <1>6. CASE WorkStep
    BY <1>1, <1>6
       DEF WorkStep, StartRecompute, StartRebase, FinishRecompute, FinishRebase, GiveUp, RetryDraft
  <1>7. CASE Sync \/ UNCHANGED vars
    BY <1>1, <1>7 DEF Sync, vars
  <1> QED BY <1>4, <1>5, <1>6, <1>7 DEF Next

LEMMA QuietReceipts ==
    ASSUME IInv, ReceiptsInv, KeepsDrafts, NoneConsumed, revisions' = revisions
    PROVE  ReceiptsInv'
  <1>1. ASSUME NEW v \in 2 .. Latest' PROVE ReceiptOf(v)'
    BY <1>1 DEF ReceiptsInv, ReceiptOf, KeepsDrafts, Latest
  <1>2. ASSUME NEW d \in Ids', drafts'[d].state = "consumed"
        PROVE  \E v \in DOMAIN revisions' : Applied(d)' = {v}
    BY <1>2 DEF ReceiptsInv, NoneConsumed, Applied
  <1> QED BY <1>1, <1>2 DEF ReceiptsInv

\* A publication adds the receipt of the draft that it consumes.
LEMMA PublishedReceipt ==
    ASSUME IInv, ReceiptsInv, NEW k, NEW d, NEW dr, Published(k, d, dr), Applied(d) = {},
           KeepsDrafts, d \in Ids',
           drafts'[d].state = "consumed", drafts'[d].base = Latest,
           drafts'[d].content = dr.content, drafts'[d].inputs = dr.inputs,
           \A e \in Ids' : e # d /\ drafts'[e].state = "consumed" =>
                                e \in Ids /\ drafts[e].state = "consumed"
    PROVE  ReceiptsInv'
  <1> DEFINE rev == [content |-> dr.content, inputs |-> dr.inputs, key |-> <<asks[k].kind, k>>,
                     draft |-> d, request |-> asks[k]]
             n == Len(revisions) + 1
  <1>1. /\ IsSeq(revisions) /\ revisions' = Append(revisions, rev) /\ rev.draft = d
        /\ rev.content = dr.content /\ rev.inputs = dr.inputs
    BY DEF IInv, RevisionsInv, Published
  <1> HIDE DEF rev
  <1>2. /\ Len(revisions) \in Nat /\ DOMAIN revisions = 1 .. Len(revisions)
        /\ Len(revisions') = n /\ DOMAIN revisions' = DOMAIN revisions \cup {n}
        /\ revisions'[n] = rev
        /\ \A v \in DOMAIN revisions : revisions'[v] = revisions[v]
    BY <1>1, SeqDomain, SeqAppend
  <1>3. ASSUME NEW v \in 2 .. Latest' PROVE ReceiptOf(v)'
    <2>1. CASE v = n
      BY <1>1, <1>2, <2>1 DEF ReceiptOf, Latest
    <2>2. CASE v # n
      <3>1. v \in 2 .. Latest /\ v \in DOMAIN revisions
        BY <1>2, <1>3, <2>2 DEF Latest
      <3>2. ReceiptOf(v)
        BY <3>1 DEF ReceiptsInv
      <3> QED BY <1>2, <3>1, <3>2 DEF ReceiptOf, KeepsDrafts
    <2> QED BY <2>1, <2>2
  <1>4. ASSUME NEW e \in Ids', drafts'[e].state = "consumed"
        PROVE  \E v \in DOMAIN revisions' : Applied(e)' = {v}
    <2>1. Applied(e)' = IF e = d THEN Applied(e) \cup {n} ELSE Applied(e)
      BY <1>1, <1>2 DEF Applied
    <2>2. CASE e = d
      BY <1>2, <2>1, <2>2
    <2>3. CASE e # d
      BY <1>2, <1>4, <2>1, <2>3 DEF ReceiptsInv
    <2> QED BY <2>2, <2>3
  <1> QED BY <1>3, <1>4 DEF ReceiptsInv

LEMMA ApplyReceipt ==
    ASSUME IInv, ReceiptsInv, BasesInv, NEW k \in AskKeys, Apply(k)
    PROVE  ReceiptsInv'
  <1> DEFINE d == asks[k].draft
  <1>1. /\ asks[k] # None /\ asks[k].kind = "apply" /\ Published(k, d, drafts[d])
        /\ Applied(d) = {} /\ BaseHolds(asks[k])
    BY AppliedWhen DEF Apply
  <1>2. d \in Ids /\ IsDraft(drafts[d]) /\ drafts[d].base = Latest
    BY <1>1 DEF BasesInv, BaseHolds, IInv, AsksInv, AreDrafts, Ids
  <1>3. /\ KeepsDrafts /\ Ids' = Ids
        /\ \A e \in Ids : drafts'[e] = IF e = d THEN Consumed(drafts[e]) ELSE drafts[e]
    BY ApplyKeeps
  <1>4. /\ drafts'[d].state = "consumed" /\ drafts'[d].base = Latest
        /\ drafts'[d].content = drafts[d].content /\ drafts'[d].inputs = drafts[d].inputs
    BY <1>2, <1>3, ChangesOfDraft
  <1>5. \A e \in Ids' : e # d /\ drafts'[e].state = "consumed" =>
                            e \in Ids /\ drafts[e].state = "consumed"
    BY <1>3
  <1> QED BY <1>1, <1>2, <1>3, <1>4, <1>5, PublishedReceipt

LEMMA SaveReceipt ==
    ASSUME IInv, ReceiptsInv, NEW k \in AskKeys, Save(k)
    PROVE  ReceiptsInv'
  <1> DEFINE q == asks[k]
             n == Len(drafts) + 1
             own == NewDraft(<<"payload", q>>, [base |-> Latest, inputs |-> inputs],
                             Changed(SaveContent(q), q.part, q.field, q.value), None)
             rev == [content |-> own.content, inputs |-> own.inputs,
                     key |-> <<asks[k].kind, k>>, draft |-> n, request |-> asks[k]]
  <1>1. Published(k, n, own) /\ revisions' = Append(revisions, rev)
    BY DEF Save, Published
  <1>2. rev.content = own.content /\ rev.inputs = own.inputs /\ own.inputs = inputs
    BY DEF NewDraft
  <1> HIDE DEF own, rev
  <1>3. revisions'[Latest + 1] = rev
    BY <1>1, SeqAppend DEF IInv, RevisionsInv, Latest
  <1>4. /\ KeepsDrafts /\ Ids' = Ids \cup {n} /\ n \notin Ids
        /\ drafts'[n].state = "consumed"
        /\ drafts'[n].base = Latest /\ drafts'[n].inputs = inputs
        /\ drafts'[n].content = revisions'[Latest + 1].content
        /\ \A d \in Ids : drafts'[d] = drafts[d] \/ drafts'[d].state = "abandoned"
    BY SaveKeeps
  <1>5. Applied(n) = {}
    <2>1. Len(drafts) \in Nat
      BY SeqDomain DEF IInv, AreDrafts
    <2>2. n \notin Ids \cup {None}
      BY <1>4, <2>1, DraftAssumption
    <2> QED BY <2>2 DEF Applied, IInv, RevisionsInv
  <1>6. \A e \in Ids' : e # n /\ drafts'[e].state = "consumed" =>
                            e \in Ids /\ drafts[e].state = "consumed"
    BY <1>4
  <1> QED BY <1>1, <1>2, <1>3, <1>4, <1>5, <1>6, PublishedReceipt

\* A draft is consumed exactly by the revision that holds its content, on the base it had.
THEOREM ReceiptsAlwaysMatch == Spec => []ReceiptsMatchDrafts
  <1>1. Init => BasesInv /\ ReceiptsInv
    <2> SUFFICES ASSUME Init PROVE BasesInv /\ ReceiptsInv
      OBVIOUS
    <2>1. Ids = {1} /\ drafts[1].state = "open" /\ \A k \in AskKeys : asks[k] = None
      BY DEF Init, Ids
    <2>2. revisions = [i \in 1 .. 1 |-> revisions[i]]
      BY DEF Init
    <2>3. Latest = 1
      BY <2>2, SeqFunction DEF Latest
    <2> QED BY <2>1, <2>3 DEF BasesInv, ReceiptsInv
  <1>2. IInv /\ BasesInv /\ ReceiptsInv /\ [Next]_vars => BasesInv' /\ ReceiptsInv'
    <2> SUFFICES ASSUME IInv, BasesInv, ReceiptsInv, [Next]_vars PROVE BasesInv' /\ ReceiptsInv'
      OBVIOUS
    <2>1. ASSUME NEW k \in AskKeys, Apply(k) PROVE BasesInv' /\ ReceiptsInv'
      BY <2>1, ApplyKeeps, ApplyReceipt, BasesStep
    <2>2. ASSUME NEW k \in AskKeys, Save(k) PROVE BasesInv' /\ ReceiptsInv'
      BY <2>2, SaveKeeps, SaveReceipt, BasesStep
    <2>3. ASSUME NEW w \in Workers, FinishRebase(w) PROVE BasesInv' /\ ReceiptsInv'
      <3>1. revisions' = revisions
        BY <2>3 DEF FinishRebase
      <3> QED BY <2>3, <3>1, FinishRebaseKeeps, QuietReceipts, BasesStep
    <2>4. CASE /\ \A w \in Workers : ~FinishRebase(w)
               /\ \A k \in AskKeys : ~Apply(k) /\ ~Save(k)
      <3>1. revisions' = revisions
        <4>1. CASE AskStep
          BY <2>4, <4>1 DEF AskStep, AskApply, AskSave
        <4>2. CASE Sync \/ UNCHANGED vars
          BY <4>2 DEF Sync, vars
        <4> QED BY <4>1, <4>2, DraftStepInv, WorkStepInv DEF Next
      <3> QED BY <2>4, <3>1, QuietStepKeeps, QuietReceipts, BasesStep
    <2> QED BY <2>1, <2>2, <2>3, <2>4
  <1>3. ReceiptsInv => ReceiptsMatchDrafts
    <2> SUFFICES ASSUME ReceiptsInv PROVE ReceiptsMatchDrafts
      OBVIOUS
    <2>1. \A d \in Ids : drafts[d].state = "consumed" => Cardinality(Applied(d)) = 1
      BY FS_Singleton DEF ReceiptsInv
    <2> QED BY <2>1 DEF ReceiptsInv, ReceiptOf, ReceiptsMatchDrafts
  <1> QED BY <1>1, <1>2, <1>3, DraftsInvariant, PTL DEF Spec

-----------------------------------------------------------------------------
(* Edits that survive.                                                     *)

\* Drafts were made on Plans that are still there.
DraftBases == \A d \in Ids : drafts[d].base \in DOMAIN revisions

\* A rebase that is being prepared has kept every decision of the draft it was shown.
RebaseKeeps(x) ==
    /\ x.from # None /\ x.shown.base \in DOMAIN revisions
    /\ \A c \in Kept(x.shown, x.content) : x.content[c[1]][c[2]] = x.shown.content[c[1]][c[2]]

RebasesKeep ==
    \A w \in Workers : work[w] # None /\ work[w].kind = "rebase" => RebaseKeeps(work[w])

\* Revisions stay as they are.
LEMMA RevisionsGrow ==
    ASSUME IInv, [Next]_vars
    PROVE  \A v \in DOMAIN revisions : v \in DOMAIN revisions' /\ revisions'[v] = revisions[v]
  <1>1. ASSUME NEW k, NEW d, NEW dr, Published(k, d, dr)
        PROVE  \A v \in DOMAIN revisions : v \in DOMAIN revisions' /\ revisions'[v] = revisions[v]
    <2> DEFINE rev == [content |-> dr.content, inputs |-> dr.inputs, key |-> <<asks[k].kind, k>>,
                       draft |-> d, request |-> asks[k]]
    <2>1. revisions' = Append(revisions, rev)
      BY <1>1 DEF Published
    <2> HIDE DEF rev
    <2> QED BY <2>1, SeqAppend DEF IInv, RevisionsInv
  <1>2. \A k \in AskKeys : Apply(k) \/ Save(k) => \E d, dr : Published(k, d, dr)
    BY DEF Apply, Save
  <1>3. \A w \in Workers : FinishRebase(w) \/ FinishRecompute(w) => revisions' = revisions
    BY DEF FinishRebase, FinishRecompute
  <1> QED BY <1>1, <1>2, <1>3, OtherStepKeeps

LEMMA BasesStay ==
    ASSUME IInv, DraftBases, [Next]_vars
    PROVE  DraftBases'
  <1>1. Latest \in DOMAIN revisions
    BY SeqDomain DEF IInv, RevisionsInv, Latest
  <1>2. \A v \in DOMAIN revisions : v \in DOMAIN revisions'
    BY RevisionsGrow
  <1>3. ASSUME NEW n, KeepsDrafts, Ids' = Ids \cup {n}, drafts'[n].base = Latest PROVE DraftBases'
    BY <1>1, <1>2, <1>3 DEF DraftBases, KeepsDrafts
  <1>4. ASSUME KeepsDrafts, Ids' = Ids PROVE DraftBases'
    BY <1>2, <1>4 DEF DraftBases, KeepsDrafts
  <1>5. ASSUME NEW w \in Workers, FinishRecompute(w) \/ FinishRebase(w) PROVE DraftBases'
    BY <1>3, <1>5, FinishRecomputeKeeps, FinishRebaseKeeps DEF AddsDraft, NewestIs
  <1>6. ASSUME NEW k \in AskKeys, Apply(k) PROVE DraftBases'
    BY <1>4, <1>6, ApplyKeeps
  <1>7. ASSUME NEW k \in AskKeys, Save(k) PROVE DraftBases'
    BY <1>3, <1>7, SaveKeeps
  <1> QED BY <1>4, <1>5, <1>6, <1>7, OtherStepKeeps

\* The decisions of a draft are those of its content on its base.
LEMMA SameDecisions ==
    ASSUME NEW dr, NEW f, NEW other, NEW g,
           dr.content = other.content, dr.base = other.base, DOMAIN f = DOMAIN g
    PROVE  Kept(dr, f) = Kept(other, g)
  BY DEF Kept, Decided, BaseChoice, IsNew

LEMMA MergedKeeps ==
    ASSUME NEW dr, NEW fresh, NEW c \in Kept(dr, fresh)
    PROVE  Merged(dr, fresh)[c[1]][c[2]] = dr.content[c[1]][c[2]]
  <1>1. PICK p \in DOMAIN dr.content \cap DOMAIN fresh, field \in Fields : c = <<p, field>>
    BY DEF Kept
  <1> QED BY <1>1 DEF Merged, Fields

LEMMA RebaseStarted ==
    ASSUME IInv, DraftBases, NEW w \in Workers, NEW key, NEW d \in Ids, StartRebase(w, key, d)
    PROVE  RebaseKeeps(work'[w])
  <1> DEFINE dr == drafts[d]
             fresh == Scanned(FALSE)
             x == [kind |-> "rebase", key |-> key, base |-> Latest, inputs |-> inputs,
                   content |-> Merged(dr, fresh), from |-> <<d, Generation(dr)>>,
                   state |-> dr.state, gen |-> dr.gen, shown |-> Digest(dr)]
  <1>1. work'[w] = x
    BY DEF StartRebase, IInv, WorkInv
  <1>2. /\ x.from = <<d, Generation(dr)>> /\ x.content = Merged(dr, fresh)
        /\ x.shown.base = dr.base /\ x.shown.content = dr.content
    BY DEF Digest
  <1>3. d \in Nat /\ Generation(dr) \in Nat
    BY SeqDomain DEF IInv, AreDrafts, IsDraft, Ids, Generation
  <1>4. x.from # None
    BY <1>2, <1>3, DraftAssumption
  <1>5. DOMAIN Merged(dr, fresh) = DOMAIN fresh
    BY DEF Merged
  <1> HIDE DEF x, fresh, dr
  <1>6. Kept(x.shown, x.content) = Kept(dr, fresh)
    BY <1>2, <1>5, SameDecisions
  <1>7. \A c \in Kept(x.shown, x.content) : x.content[c[1]][c[2]] = x.shown.content[c[1]][c[2]]
    BY <1>2, <1>6, MergedKeeps
  <1> QED BY <1>1, <1>2, <1>4, <1>7 DEF DraftBases, RebaseKeeps, dr

\* Later revisions take nothing from it.
LEMMA RebaseStays ==
    ASSUME IInv, [Next]_vars, NEW x, RebaseKeeps(x)
    PROVE  RebaseKeeps(x)'
  <1>1. /\ x.shown.base \in DOMAIN revisions'
        /\ revisions'[x.shown.base] = revisions[x.shown.base]
    BY RevisionsGrow DEF RebaseKeeps
  <1>2. Kept(x.shown, x.content)' = Kept(x.shown, x.content)
    BY <1>1, SMTT(60) DEF Kept, Decided, BaseChoice, IsNew
  <1> QED BY <1>1, <1>2 DEF RebaseKeeps

LEMMA RebasesStep ==
    ASSUME IInv, DraftBases, RebasesKeep, [Next]_vars
    PROVE  RebasesKeep'
  <1> SUFFICES ASSUME NEW w \in Workers, work'[w] # None, work'[w].kind = "rebase"
               PROVE  RebaseKeeps(work[w])'
    BY DEF RebasesKeep
  <1>1. RebaseKeeps(work'[w])
    <2>1. CASE work'[w] = work[w]
      BY <2>1 DEF RebasesKeep
    <2>2. ASSUME NEW key \in DraftKeys, NEW d \in Ids, StartRebase(w, key, d) PROVE RebaseKeeps(work'[w])
      BY <2>2, RebaseStarted
    <2>3. ASSUME NEW v \in Workers, NEW x, work' = [work EXCEPT ![v] = x],
                 x = None \/ x.kind # "rebase"
          PROVE  work'[w] = work[w]
      BY <2>3 DEF IInv, WorkInv
    <2>4. ASSUME NEW v \in Workers, NEW key, NEW manifest, StartRecompute(v, key, manifest)
          PROVE  work'[w] = work[w]
      <3> DEFINE x == [kind |-> "recompute", key |-> key, base |-> Latest, inputs |-> inputs,
                       content |-> Scanned(manifest), manifest |-> manifest]
      <3>1. work' = [work EXCEPT ![v] = x] /\ x.kind # "rebase"
        BY <2>4 DEF StartRecompute
      <3> HIDE DEF x
      <3> QED BY <2>3, <3>1
    <2>5. ASSUME NEW v \in Workers, FinishRecompute(v) \/ FinishRebase(v) \/ GiveUp(v)
          PROVE  work'[w] = work[w]
      BY <2>3, <2>5 DEF FinishRecompute, FinishRebase, GiveUp
    <2>6. ASSUME NEW v \in Workers, NEW key, NEW d, StartRebase(v, key, d), v # w
          PROVE  work'[w] = work[w]
      BY <2>6 DEF StartRebase, IInv, WorkInv
    <2>7. CASE WorkStep
      BY <2>1, <2>2, <2>4, <2>5, <2>6, <2>7 DEF WorkStep, RetryDraft
    <2>8. DraftStep \/ AskStep \/ Sync \/ UNCHANGED vars => work' = work
      BY DEF DraftStep, Edit, Prepare, Reconcile, Abandon, Resume, AskStep, AskApply, AskSave,
             Apply, Save, Sync, vars
    <2> QED BY <2>1, <2>7, <2>8 DEF Next
  <1>2. \A x : RebaseKeeps(x) => RebaseKeeps(x)'
    BY RebaseStays
  <1> QED BY <1>1, <1>2 DEF RebaseKeeps, Kept, Decided, BaseChoice, IsNew

\* The open draft with the highest id.
LEMMA HasLeast ==
    ASSUME NEW T, T \subseteq Nat, T # {}
    PROVE  \E x \in T : \A y \in T : ~(y < x)
  <1> DEFINE R == {ss \in Nat \X Nat : ss[1] < ss[2]}
  <1>1. IsWellFoundedOn(R, Nat)
    BY NatLessThanWellFounded, Zenon DEF OpToRel
  <1>2. \E x \in T : \A y \in T : ~(<<y, x>> \in R)
    <2> HIDE DEF R
    <2> QED BY <1>1, WFMin
  <1> QED BY <1>2

LEMMA MaxIsIn ==
    ASSUME NEW n \in Nat, NEW S, S \subseteq 1 .. n, S # {}
    PROVE  Max(S) \in S
  <1> DEFINE T == {n - i : i \in S}
  <1>1. T \subseteq Nat
    OBVIOUS
  <1>2. T # {}
    <2>1. PICK i \in S : TRUE
      OBVIOUS
    <2>2. n - i \in T
      BY <2>1
    <2> QED BY <2>2
  <1>3. PICK x \in T : \A y \in T : ~(y < x)
    BY <1>1, <1>2, HasLeast
  <1>4. PICK i \in S : x = n - i
    BY <1>3
  <1>5. \A j \in S : i >= j
    <2> TAKE j \in S
    <2>1. n - j \in T /\ i \in Nat /\ j \in Nat
      OBVIOUS
    <2> QED BY <1>3, <1>4, <2>1
  <1> QED BY <1>5 DEF Max

\* What EditsSurvive says of the draft that a step adds.
NewestKeeps ==
    LET n == Len(drafts) + 1
    IN  n \in DOMAIN drafts' /\ drafts'[n].state = "open" =>
            LET new == drafts'[n]
                source == new.from[1]
            IN  IF new.from # None
                THEN \A c \in Kept(drafts[source], new.content) :
                        new.content[c[1]][c[2]] = drafts[source].content[c[1]][c[2]]
                ELSE \A p \in DOMAIN new.content, v \in {c[3] : c \in {e \in Decisions : e[2] = "override"}} \ {None} :
                        (/\ Opened # {}
                         /\ \A d \in Opened : /\ p \in DOMAIN drafts[d].content
                                              /\ drafts[d].content[p].override = v)
                            => new.content[p].override = v

LEMMA RebaseSurvives ==
    ASSUME IInv, RebasesKeep, NEW w \in Workers, FinishRebase(w)
    PROVE  NewestKeeps
  <1> DEFINE x == work[w]
             n == Len(drafts) + 1
             dr == drafts[x.from[1]]
  <1>1. drafts'[n].from = x.from /\ drafts'[n].content = x.content
    BY FinishRebaseKeeps, SMTT(60) DEF AddsDraft, NewestIs
  <1>2. /\ x.from # None
        /\ \A c \in Kept(x.shown, x.content) : x.content[c[1]][c[2]] = x.shown.content[c[1]][c[2]]
    BY DEF RebasesKeep, RebaseKeeps, FinishRebase
  <1>3. dr.content = x.shown.content /\ dr.base = x.shown.base
    BY DEF FinishRebase, SourceHolds, Digest
  <1> HIDE DEF dr, x
  <1>4. Kept(dr, x.content) = Kept(x.shown, x.content)
    BY <1>3, SameDecisions
  <1> QED BY <1>1, <1>2, <1>3, <1>4 DEF NewestKeeps, dr

LEMMA RecomputeSurvives ==
    ASSUME IInv, NEW w \in Workers, FinishRecompute(w)
    PROVE  NewestKeeps
  <1> DEFINE x == work[w]
             n == Len(drafts) + 1
             new == Carried(x.content, x.manifest)
  <1>1. drafts'[n].from = None /\ drafts'[n].content = new
    BY FinishRecomputeKeeps DEF AddsDraft, NewestIs
  <1>2. ASSUME NEW p \in DOMAIN new, NEW v, v # None, Opened # {},
               \A d \in Opened : p \in DOMAIN drafts[d].content /\ drafts[d].content[p].override = v
        PROVE  new[p].override = v
    <2> DEFINE S == {d \in Opened : p \in DOMAIN drafts[d].content}
    <2>1. /\ Len(drafts) \in Nat /\ Opened \subseteq 1 .. Len(drafts)
      BY SeqDomain DEF Opened, Ids, IInv, AreDrafts
    <2>2. S \subseteq 1 .. Len(drafts) /\ S # {} /\ S = Opened
      BY <1>2, <2>1
    <2>3. Max(S) \in Opened
      BY <2>1, <2>2, MaxIsIn
    <2>4. LastEdit(p).override = v
      BY <1>2, <2>3 DEF LastEdit
    <2>5. ~ \A d \in Opened : p \notin DOMAIN drafts[d].content
      BY <1>2
    <2>6. p \in DOMAIN x.content
      BY <1>2 DEF Carried
    <2>7. new[p] = [included |-> IF x.manifest THEN x.content[p].included ELSE LastEdit(p).included,
                    override |-> IF LastEdit(p).override = None THEN x.content[p].override
                                 ELSE LastEdit(p).override]
      BY <2>5, <2>6 DEF Carried
    <2> QED BY <1>2, <2>4, <2>7
  <1> HIDE DEF new
  <1> QED BY <1>1, <1>2 DEF NewestKeeps

\* A new draft keeps what the operator has decided in the drafts it replaces, however many
\* edits, syncs and publications meet its preparation.
THEOREM EditsAlwaysSurvive == Spec => EditsSurvive
  <1>1. Init => DraftBases /\ RebasesKeep
    <2> SUFFICES ASSUME Init PROVE DraftBases /\ RebasesKeep
      OBVIOUS
    <2>1. Ids = {1} /\ drafts[1].base = 1 /\ \A w \in Workers : work[w] = None
      BY DEF Init, Ids
    <2>2. 1 \in DOMAIN revisions
      BY DEF Init
    <2> QED BY <2>1, <2>2 DEF DraftBases, RebasesKeep
  <1>2. IInv /\ DraftBases /\ RebasesKeep /\ [Next]_vars => DraftBases' /\ RebasesKeep'
    BY BasesStay, RebasesStep
  <1>3. IInv /\ DraftBases /\ RebasesKeep /\ [Next]_vars => [NewestKeeps]_vars
    <2> SUFFICES ASSUME IInv, RebasesKeep, [Next]_vars PROVE NewestKeeps
      OBVIOUS
    <2>1. Len(drafts) + 1 \notin Ids
      BY SeqDomain DEF IInv, AreDrafts, Ids
    <2>2. ASSUME Ids' = Ids PROVE NewestKeeps
      BY <2>1, <2>2 DEF NewestKeeps, Ids
    <2>3. ASSUME NEW k \in AskKeys, Save(k) PROVE NewestKeeps
      BY <2>3, SaveKeeps DEF NewestKeeps
    <2>4. ASSUME NEW k \in AskKeys, Apply(k) PROVE NewestKeeps
      BY <2>2, <2>4, ApplyKeeps
    <2> QED BY <2>2, <2>3, <2>4, RebaseSurvives, RecomputeSurvives, OtherStepKeeps
  <1> QED BY <1>1, <1>2, <1>3, DraftsInvariant, PTL DEF Spec, EditsSurvive, NewestKeeps
=============================================================================
