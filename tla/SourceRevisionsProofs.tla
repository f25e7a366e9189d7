------------------------ MODULE SourceRevisionsProofs ------------------------
(* No snapshot that a revision names is removed, no hold is leaked, and the   *)
(* revision of a Source that asks for no sync was published for it.           *)
(*                                                                            *)
(* A directory may be removed by its creator only.  So the invariant says     *)
(* that a directory has one creator at a time, and that whoever holds it, has *)
(* found it or has just named it can rely on it while the Source exists.      *)
EXTENDS SourceRevisions, FiniteSetTheorems, TLAPS

Stage == {"idle", "begin", "claimed", "looked", "writing", "renamed", "held", "ready",
          "indexing", "extracting", "inlining"}

\* The stages of a publication, in which key and observation are set.
Publishing == {"begin", "claimed", "looked", "writing", "renamed", "held", "ready"}

Condition == {"absent", "whole", "broken"}
Directory == Key \cup Folders \cup {None}
Observed == [active : Key \cup {None}, path : Directory, identity : Identities, cutover : BOOLEAN]
Listing == [tree : Trees \cup Folders \cup {None}, rows : Rows \cup {None}]

Publisher ==
    [at : Stage, kind : Kind \cup {None}, seen : Observed \cup {None}, key : Key \cup {None},
     found : Condition \cup {None}, again : BOOLEAN, created : BOOLEAN,
     todo : SUBSET Pdfs, rows : Rows \cup {None}, since : Rows \cup {None}]

RowTyped ==
    /\ present \in BOOLEAN /\ required \in BOOLEAN /\ cutover \in BOOLEAN /\ moved \in BOOLEAN
    /\ identity \in Identities /\ origin \in Identities \cup {None}
    /\ active \in Key \cup {None} /\ path \in Directory /\ recorded \in SUBSET Key

DocsTyped == index \in Listing /\ text \in [Pdfs -> Rows \cup {None}]

\* A publication has a key and an observation; a manifest is edited on an active revision.
WorkTyped ==
    \A p \in Publishers :
        pub[p].at \in Publishing =>
            /\ pub[p].key \in Key /\ pub[p].seen \in Observed
            /\ pub[p].kind = "manifest" => pub[p].seen.active # None

Typed ==
    /\ RowTyped /\ DocsTyped /\ WorkTyped
    /\ disk \in [Key -> Condition]
    /\ holders \in [Key -> SUBSET Publishers]
    /\ pub \in [Publishers -> Publisher]

-----------------------------------------------------------------------------
(* Types.                                                                     *)

LEMMA IdleTyped == Idle \in Publisher /\ NoRows \in Listing /\ NoText \in [Pdfs -> Rows \cup {None}]
BY DEF Idle, Publisher, Stage, NoRows, Listing, NoText

\* Publishers remember at most one value each.
LEMMA FewValues ==
    ASSUME NEW f, f = [p \in Publishers |-> f[p]]
    PROVE  LET S == {f[p] : p \in Publishers}
           IN  IsFiniteSet(S) /\ Cardinality(S) \in Nat /\ Cardinality(S) <= Cardinality(Publishers)
<1> DEFINE S == {f[p] : p \in Publishers}
<1>1. f \in Surjection(Publishers, S)
  BY DEF Surjection
<1> HIDE DEF S
<1>2. IsFiniteSet(S) /\ Cardinality(S) <= Cardinality(Publishers)
  BY <1>1, FS_Surjection, RowsAssumption
<1>3. Cardinality(S) \in Nat
  BY <1>2, FS_CardinalityType
<1> QED BY <1>2, <1>3 DEF S

LEMMA FreshTyped == Fresh \in Rows
<1> DEFINE f == [p \in Publishers |-> pub[p].rows]
           g == [p \in Publishers |-> pub[p].since]
           S == {f[p] : p \in Publishers}
           T == {g[p] : p \in Publishers}
           all == S \cup T \cup {index.rows}
<1>1. IsFiniteSet(S) /\ Cardinality(S) \in Nat /\ Cardinality(S) <= Cardinality(Publishers)
  BY FewValues
<1>2. IsFiniteSet(T) /\ Cardinality(T) \in Nat /\ Cardinality(T) <= Cardinality(Publishers)
  BY FewValues
<1> HIDE DEF S, T
<1>3. IsFiniteSet(S \cup T) /\ Cardinality(S \cup T) <= Cardinality(S) + Cardinality(T)
  <2>1. Cardinality(S \cap T) \in Nat
    BY <1>1, FS_Subset, FS_CardinalityType
  <2>2. IsFiniteSet(S \cup T) /\ Cardinality(S \cup T) = Cardinality(S) + Cardinality(T) - Cardinality(S \cap T)
    BY <1>1, <1>2, FS_Union
  <2> QED BY <1>1, <1>2, <2>1, <2>2
<1>4. Cardinality(S \cup T) \in Nat /\ Cardinality(Publishers) \in Nat /\ Cardinality(Rows) \in Nat
  BY <1>3, RowsAssumption, FS_CardinalityType
<1>5. IsFiniteSet(all) /\ Cardinality(all) <= Cardinality(S \cup T) + 1
  <2> DEFINE U == S \cup T
  <2>1. IsFiniteSet(U) /\ Cardinality(U) \in Nat
    BY <1>3, <1>4
  <2> HIDE DEF U
  <2>2. /\ IsFiniteSet(U \cup {index.rows})
        /\ Cardinality(U \cup {index.rows}) =
              IF index.rows \in U THEN Cardinality(U) ELSE Cardinality(U) + 1
    BY <2>1, FS_AddElement
  <2>3. Cardinality(U \cup {index.rows}) <= Cardinality(U) + 1
    BY <2>1, <2>2
  <2> QED BY <2>2, <2>3 DEF U
<1>6. Cardinality(all) < Cardinality(Rows)
  <2>1. Cardinality(all) \in Nat
    BY <1>5, FS_CardinalityType
  <2> HIDE DEF all
  <2> QED BY <1>1, <1>2, <1>3, <1>4, <1>5, <2>1, RowsAssumption
<1>7. PICK r \in Rows : r \notin all
  <2> HIDE DEF all
  <2>1. CASE Rows \subseteq all
    <3>1. Cardinality(Rows) <= Cardinality(all)
      BY <1>5, <2>1, FS_Subset
    <3>2. Cardinality(all) \in Nat
      BY <1>5, FS_CardinalityType
    <3> QED BY <1>4, <1>6, <3>1, <3>2
  <2> QED BY <2>1
<1>8. r # index.rows /\ \A p \in Publishers : r # pub[p].rows /\ r # pub[p].since
  BY <1>7 DEF S, T
<1> QED BY <1>8 DEF Fresh

LEMMA InitTyped == Init => Typed
<1> SUFFICES ASSUME Init PROVE Typed
  OBVIOUS
<1>1. RowTyped /\ disk \in [Key -> Condition] /\ holders \in [Key -> SUBSET Publishers]
  BY DEF Init, RowTyped, Condition, Directory
<1>2. DocsTyped /\ pub \in [Publishers -> Publisher]
  BY IdleTyped DEF Init, DocsTyped
<1>3. WorkTyped
  BY DEF Init, WorkTyped, Idle, Publishing
<1> QED BY <1>1, <1>2, <1>3 DEF Typed

\* What p does with its own record leaves the others alone.
LEMMA OwnRecord ==
    ASSUME Typed, NEW p \in Publishers, NEW r \in Publisher, pub' = [pub EXCEPT ![p] = r]
    PROVE  /\ pub' \in [Publishers -> Publisher]
           /\ pub'[p] = r
           /\ \A q \in Publishers \ {p} : pub'[q] = pub[q]
BY DEF Typed

LEMMA ReleasedTyped ==
    ASSUME Typed, NEW p PROVE Released(p) \in [Key -> SUBSET Publishers]
BY DEF Typed, Released

-----------------------------------------------------------------------------
(* The invariant.                                                             *)

\* What a publisher has observed to be active is recorded, and so is what is active.
SeenRecorded ==
    /\ active # None => active \in recorded
    /\ \A p \in Publishers : pub[p].at \in Publishing =>
          /\ pub[p].seen.active # None => pub[p].seen.active \in recorded
          /\ pub[p].at = "ready" => pub[p].key \in recorded

\* A Source that was deleted had no revision, and gets none.
GoneIsEmpty == ~ present => recorded = {}

\* Who has found, named or holds a directory can rely on it.
Relies(p) ==
    \/ pub[p].at = "looked" /\ pub[p].found = "whole"
    \/ pub[p].at \in {"renamed", "held"}

Reliable == present => \A p \in Publishers : Relies(p) => disk[pub[p].key] = "whole"

\* A directory has one creator who may still remove it.
Maker(p) == pub[p].created /\ pub[p].at \in {"renamed", "held"}

Makers ==
    \A p \in Publishers :
        /\ pub[p].at = "renamed" => pub[p].created
        /\ pub[p].created => pub[p].at \in {"renamed", "held"}

OneMaker ==
    present => \A p, q \in Publishers :
        Maker(p) /\ Maker(q) /\ pub[p].key = pub[q].key => p = q

\* Every hold belongs to a publisher that still needs it, and every publisher that needs its
\* directory is counted: no return, early or by an error, leaks a hold or gives up another's.
HoldsAreOpen ==
    \A p \in Publishers, k \in Key :
        p \in holders[k] <=> pub[p].at \in Holding /\ pub[p].key = k

Kept ==
    /\ SeenRecorded /\ GoneIsEmpty /\ HoldsAreOpen /\ RecordedIsOnDisk
    /\ Reliable /\ Makers /\ OneMaker

IInv == Typed /\ Kept

LEMMA InitKept == Init => Kept
BY DEF Init, Kept, SeenRecorded, GoneIsEmpty, HoldsAreOpen, RecordedIsOnDisk, Reliable, Relies,
       Makers, OneMaker, Maker, Idle, Publishing, Holding

-----------------------------------------------------------------------------
(* The snapshot directory.                                                    *)

LEMMA StartKeeps == ASSUME IInv, NEW p \in Publishers, Start(p) PROVE IInv'
<1>1. PICK kind \in Kinds : \E k \in Content(kind) :
          pub' = [pub EXCEPT ![p] =
                     [Idle EXCEPT !.at = IF kind = "manifest" /\ k = active THEN "ready" ELSE "begin",
                                  !.kind = kind, !.seen = Observation, !.key = k]]
  BY DEF Start
<1>2. PICK k \in Content(kind) :
          pub' = [pub EXCEPT ![p] =
                     [Idle EXCEPT !.at = IF kind = "manifest" /\ k = active THEN "ready" ELSE "begin",
                                  !.kind = kind, !.seen = Observation, !.key = k]]
  BY <1>1
<1> DEFINE r == [Idle EXCEPT !.at = IF kind = "manifest" /\ k = active THEN "ready" ELSE "begin",
                             !.kind = kind, !.seen = Observation, !.key = k]
<1>3. k \in Key /\ kind \in Kind /\ (kind = "manifest" => active # None)
  <2>1. kind \in Kind
    BY SourceAssumption
  <2>2. active # None => active \in Key
    BY DEF IInv, Typed, RowTyped
  <2> QED BY <2>1, <2>2 DEF Content, Key, Trees, Kind, IsSync
<1>4. Observation \in Observed
  BY DEF Observation, Observed, IInv, Typed, RowTyped
<1>5. r \in Publisher
  BY <1>3, <1>4 DEF Idle, Publisher, Stage, NoRows, Listing
<1>6. /\ r.at \in {"ready", "begin"}
      /\ r.at = "ready" => k = active /\ active # None
      /\ r.kind = kind /\ r.seen = Observation /\ r.key = k /\ r.created = FALSE
  BY <1>3 DEF Idle
<1> HIDE DEF r
<1>7. /\ pub' \in [Publishers -> Publisher]
      /\ pub'[p] = r /\ \A q \in Publishers \ {p} : pub'[q] = pub[q]
  BY <1>2, <1>5, OwnRecord DEF IInv, r
<1>8. UNCHANGED <<row, disk, holders, docs>> /\ pub[p].at = "idle"
  BY DEF Start
<1>9. Typed'
  BY <1>3, <1>4, <1>6, <1>7, <1>8
  DEF IInv, Typed, RowTyped, DocsTyped, WorkTyped, row, docs, Observation
<1>10. SeenRecorded'
  BY <1>6, <1>7, <1>8 DEF IInv, Kept, SeenRecorded, row, Observation
<1>11. GoneIsEmpty' /\ RecordedIsOnDisk'
  BY <1>8 DEF IInv, Kept, GoneIsEmpty, RecordedIsOnDisk, row
<1>12. HoldsAreOpen'
  BY <1>6, <1>7, <1>8 DEF IInv, Kept, HoldsAreOpen, Holding
<1>13. \A q \in Publishers : (Relies(q)' => Relies(q)) /\ (Maker(q)' => Maker(q) /\ q # p)
  BY <1>6, <1>7 DEF Relies, Maker
<1>14. Reliable' /\ Makers' /\ OneMaker'
  BY <1>6, <1>7, <1>8, <1>13 DEF IInv, Kept, Reliable, Relies, Makers, OneMaker, Maker, row
<1> QED BY <1>9, <1>10, <1>11, <1>12, <1>14 DEF IInv, Kept

LEMMA ClaimKeeps == ASSUME IInv, NEW p \in Publishers, Claim(p) PROVE IInv'
<1> DEFINE r == [pub[p] EXCEPT !.at = "claimed"]
<1>1. pub[p] \in Publisher /\ pub' = [pub EXCEPT ![p] = r]
  BY DEF IInv, Typed, Claim
<1>2. /\ r \in Publisher /\ r.key = pub[p].key /\ r.seen = pub[p].seen /\ r.kind = pub[p].kind
      /\ r.at = "claimed" /\ r.created = pub[p].created
      /\ pub[p].at = "begin" /\ pub[p].key \in Key
  BY <1>1 DEF Claim, IInv, Typed, WorkTyped, Publishing, Publisher, Stage, Condition
<1> HIDE DEF r
<1>3. /\ pub' \in [Publishers -> Publisher]
      /\ pub'[p] = r /\ \A q \in Publishers \ {p} : pub'[q] = pub[q]
  BY <1>1, <1>2, OwnRecord DEF IInv
<1>4. /\ holders' \in [Key -> SUBSET Publishers] /\ UNCHANGED <<row, disk, docs>>
      /\ \A k \in Key, q \in Publishers : q \in holders'[k] <=> q \in holders[k] \/ (q = p /\ k = pub[p].key)
  BY <1>1, <1>2 DEF Claim, IInv, Typed, Retain, Released
<1>5. Typed'
  BY <1>2, <1>3, <1>4 DEF IInv, Typed, RowTyped, DocsTyped, WorkTyped, Publishing, row, docs
<1>6. SeenRecorded' /\ GoneIsEmpty' /\ RecordedIsOnDisk'
  BY <1>2, <1>3, <1>4 DEF IInv, Kept, SeenRecorded, GoneIsEmpty, RecordedIsOnDisk, Publishing, row
<1>7. HoldsAreOpen'
  BY <1>2, <1>3, <1>4 DEF IInv, Kept, HoldsAreOpen, Holding
<1>8. Reliable' /\ Makers' /\ OneMaker'
  BY <1>2, <1>3, <1>4 DEF IInv, Kept, Typed, WorkTyped, Publishing, Reliable, Relies, Makers, OneMaker, Maker, row
<1> QED BY <1>5, <1>6, <1>7, <1>8 DEF IInv, Kept

LEMMA LookKeeps == ASSUME IInv, NEW p \in Publishers, Look(p) PROVE IInv'
<1> DEFINE r == [pub[p] EXCEPT !.at = "looked", !.found = disk[pub[p].key]]
<1>1. pub[p] \in Publisher /\ pub' = [pub EXCEPT ![p] = r]
  BY DEF IInv, Typed, Look
<1>2. /\ r \in Publisher /\ r.key = pub[p].key /\ r.seen = pub[p].seen /\ r.kind = pub[p].kind
      /\ r.at = "looked" /\ r.created = pub[p].created /\ r.found = disk[pub[p].key]
      /\ pub[p].at = "claimed" /\ pub[p].key \in Key
  BY <1>1 DEF Look, IInv, Typed, WorkTyped, Publishing, Publisher, Stage, Condition
<1> HIDE DEF r
<1>3. /\ pub' \in [Publishers -> Publisher]
      /\ pub'[p] = r /\ \A q \in Publishers \ {p} : pub'[q] = pub[q]
  BY <1>1, <1>2, OwnRecord DEF IInv
<1>4. UNCHANGED <<row, disk, holders, docs>>
  BY <1>1, <1>2 DEF Look, IInv, Typed, Retain, Released
<1>5. Typed'
  BY <1>2, <1>3, <1>4 DEF IInv, Typed, RowTyped, DocsTyped, WorkTyped, Publishing, row, docs
<1>6. SeenRecorded' /\ GoneIsEmpty' /\ RecordedIsOnDisk'
  BY <1>2, <1>3, <1>4 DEF IInv, Kept, SeenRecorded, GoneIsEmpty, RecordedIsOnDisk, Publishing, row
<1>7. HoldsAreOpen'
  BY <1>2, <1>3, <1>4 DEF IInv, Kept, HoldsAreOpen, Holding
<1>8. Reliable' /\ Makers' /\ OneMaker'
  BY <1>2, <1>3, <1>4 DEF IInv, Kept, Typed, WorkTyped, Publishing, Reliable, Relies, Makers, OneMaker, Maker, row
<1> QED BY <1>5, <1>6, <1>7, <1>8 DEF IInv, Kept

LEMMA MissingKeeps == ASSUME IInv, NEW p \in Publishers, Missing(p) PROVE IInv'
<1> DEFINE r == [pub[p] EXCEPT !.at = "writing", !.found = None]
<1>1. pub[p] \in Publisher /\ pub' = [pub EXCEPT ![p] = r]
  BY DEF IInv, Typed, Missing
<1>2. /\ r \in Publisher /\ r.key = pub[p].key /\ r.seen = pub[p].seen /\ r.kind = pub[p].kind
      /\ r.at = "writing" /\ r.created = pub[p].created
      /\ pub[p].at = "looked" /\ pub[p].key \in Key
  BY <1>1 DEF Missing, IInv, Typed, WorkTyped, Publishing, Publisher, Stage, Condition
<1> HIDE DEF r
<1>3. /\ pub' \in [Publishers -> Publisher]
      /\ pub'[p] = r /\ \A q \in Publishers \ {p} : pub'[q] = pub[q]
  BY <1>1, <1>2, OwnRecord DEF IInv
<1>4. /\ holders' \in [Key -> SUBSET Publishers] /\ UNCHANGED <<row, disk, docs>>
      /\ \A k \in Key, q \in Publishers : q \in holders'[k] <=> q \in holders[k] /\ q # p
  BY <1>1, <1>2 DEF Missing, IInv, Typed, Retain, Released
<1>5. Typed'
  BY <1>2, <1>3, <1>4 DEF IInv, Typed, RowTyped, DocsTyped, WorkTyped, Publishing, row, docs
<1>6. SeenRecorded' /\ GoneIsEmpty' /\ RecordedIsOnDisk'
  BY <1>2, <1>3, <1>4 DEF IInv, Kept, SeenRecorded, GoneIsEmpty, RecordedIsOnDisk, Publishing, row
<1>7. HoldsAreOpen'
  BY <1>2, <1>3, <1>4 DEF IInv, Kept, HoldsAreOpen, Holding
<1>8. Reliable' /\ Makers' /\ OneMaker'
  BY <1>2, <1>3, <1>4 DEF IInv, Kept, Typed, WorkTyped, Publishing, Reliable, Relies, Makers, OneMaker, Maker, row
<1> QED BY <1>5, <1>6, <1>7, <1>8 DEF IInv, Kept

LEMMA ReuseKeeps == ASSUME IInv, NEW p \in Publishers, Reuse(p) PROVE IInv'
<1> DEFINE r == [pub[p] EXCEPT !.at = "held", !.found = None]
<1>1. pub[p] \in Publisher /\ pub' = [pub EXCEPT ![p] = r]
  BY DEF IInv, Typed, Reuse
<1>2. /\ r \in Publisher /\ r.key = pub[p].key /\ r.seen = pub[p].seen /\ r.kind = pub[p].kind
      /\ r.at = "held" /\ r.created = pub[p].created
      /\ pub[p].at = "looked" /\ pub[p].found = "whole" /\ pub[p].key \in Key
  BY <1>1 DEF Reuse, IInv, Typed, WorkTyped, Publishing, Publisher, Stage, Condition
<1> HIDE DEF r
<1>3. /\ pub' \in [Publishers -> Publisher]
      /\ pub'[p] = r /\ \A q \in Publishers \ {p} : pub'[q] = pub[q]
  BY <1>1, <1>2, OwnRecord DEF IInv
<1>4. UNCHANGED <<row, disk, holders, docs>>
  BY <1>1, <1>2 DEF Reuse, IInv, Typed, Retain, Released
<1>5. Typed'
  BY <1>2, <1>3, <1>4 DEF IInv, Typed, RowTyped, DocsTyped, WorkTyped, Publishing, row, docs
<1>6. SeenRecorded' /\ GoneIsEmpty' /\ RecordedIsOnDisk'
  BY <1>2, <1>3, <1>4 DEF IInv, Kept, SeenRecorded, GoneIsEmpty, RecordedIsOnDisk, Publishing, row
<1>7. HoldsAreOpen'
  BY <1>2, <1>3, <1>4 DEF IInv, Kept, HoldsAreOpen, Holding
<1>8. Reliable' /\ Makers' /\ OneMaker'
  BY <1>2, <1>3, <1>4 DEF IInv, Kept, Typed, WorkTyped, Publishing, Reliable, Relies, Makers, OneMaker, Maker, row
<1> QED BY <1>5, <1>6, <1>7, <1>8 DEF IInv, Kept

LEMMA PromoteKeeps == ASSUME IInv, NEW p \in Publishers, Promote(p) PROVE IInv'
<1> DEFINE r == [pub[p] EXCEPT !.at = "held"]
<1>1. pub[p] \in Publisher /\ pub' = [pub EXCEPT ![p] = r]
  BY DEF IInv, Typed, Promote
<1>2. /\ r \in Publisher /\ r.key = pub[p].key /\ r.seen = pub[p].seen /\ r.kind = pub[p].kind
      /\ r.at = "held" /\ r.created = pub[p].created
      /\ pub[p].at = "renamed" /\ pub[p].key \in Key
  BY <1>1 DEF Promote, IInv, Typed, WorkTyped, Publishing, Publisher, Stage, Condition
<1> HIDE DEF r
<1>3. /\ pub' \in [Publishers -> Publisher]
      /\ pub'[p] = r /\ \A q \in Publishers \ {p} : pub'[q] = pub[q]
  BY <1>1, <1>2, OwnRecord DEF IInv
<1>4. /\ holders' \in [Key -> SUBSET Publishers] /\ UNCHANGED <<row, disk, docs>>
      /\ \A k \in Key, q \in Publishers : q \in holders'[k] <=> q \in holders[k] \/ (q = p /\ k = pub[p].key)
  BY <1>1, <1>2 DEF Promote, IInv, Typed, Retain, Released
<1>5. Typed'
  BY <1>2, <1>3, <1>4 DEF IInv, Typed, RowTyped, DocsTyped, WorkTyped, Publishing, row, docs
<1>6. SeenRecorded' /\ GoneIsEmpty' /\ RecordedIsOnDisk'
  BY <1>2, <1>3, <1>4 DEF IInv, Kept, SeenRecorded, GoneIsEmpty, RecordedIsOnDisk, Publishing, row
<1>7. HoldsAreOpen'
  BY <1>2, <1>3, <1>4 DEF IInv, Kept, HoldsAreOpen, Holding
<1>8. Reliable' /\ Makers' /\ OneMaker'
  BY <1>2, <1>3, <1>4 DEF IInv, Kept, Typed, WorkTyped, Publishing, Reliable, Relies, Makers, OneMaker, Maker, row
<1> QED BY <1>5, <1>6, <1>7, <1>8 DEF IInv, Kept

LEMMA RenameKeeps == ASSUME IInv, NEW p \in Publishers, Rename(p) PROVE IInv'
<1>1. pub[p] \in Publisher /\ pub[p].key \in Key /\ pub[p].at = "writing" /\ ~ pub[p].created
  BY DEF Rename, IInv, Typed, WorkTyped, Publishing, Kept, Makers
<1>2. UNCHANGED <<row, holders, docs>>
  BY DEF Rename
<1>3. CASE disk[pub[p].key] = "absent"
  <2> DEFINE r == [pub[p] EXCEPT !.at = "renamed", !.created = TRUE]
  <2>1. pub' = [pub EXCEPT ![p] = r] /\ disk' = [disk EXCEPT ![pub[p].key] = "whole"]
    BY <1>1, <1>3 DEF Rename, IInv, Typed
  <2>2. /\ r \in Publisher /\ r.key = pub[p].key /\ r.seen = pub[p].seen /\ r.kind = pub[p].kind
        /\ r.at = "renamed" /\ r.created
    BY <1>1 DEF Publisher, Stage
  <2> HIDE DEF r
  <2>3. /\ pub' \in [Publishers -> Publisher]
        /\ pub'[p] = r /\ \A q \in Publishers \ {p} : pub'[q] = pub[q]
    BY <2>1, <2>2, OwnRecord DEF IInv
  <2>4. /\ disk' \in [Key -> Condition] /\ disk'[pub[p].key] = "whole"
        /\ \A k \in Key : k # pub[p].key => disk'[k] = disk[k]
    BY <1>1, <2>1 DEF IInv, Typed, Condition
  <2>5. Typed'
    BY <1>1, <1>2, <2>2, <2>3, <2>4
    DEF IInv, Typed, RowTyped, DocsTyped, WorkTyped, Publishing, row, docs
  <2>6. SeenRecorded' /\ GoneIsEmpty'
    BY <1>1, <1>2, <2>2, <2>3 DEF IInv, Kept, SeenRecorded, GoneIsEmpty, Publishing, row
  <2>7. RecordedIsOnDisk'
    BY <1>2, <2>4 DEF IInv, Kept, Typed, RowTyped, RecordedIsOnDisk, row
  <2>8. HoldsAreOpen'
    BY <1>1, <1>2, <2>2, <2>3 DEF IInv, Kept, HoldsAreOpen, Holding
  <2>9. Reliable'
    BY <1>1, <1>2, <2>2, <2>3, <2>4
    DEF IInv, Kept, Typed, WorkTyped, Publishing, Reliable, Relies, row
  <2>10. Makers'
    BY <2>2, <2>3 DEF IInv, Kept, Makers
  \* A creator of the same directory would still rely on it, and it was not there.
  <2>11. OneMaker'
    <3>1. \A q \in Publishers \ {p} : present /\ Maker(q) => pub[q].key # pub[p].key
      BY <1>3 DEF IInv, Kept, Reliable, Relies, Maker
    <3> QED BY <1>2, <2>2, <2>3, <3>1 DEF IInv, Kept, OneMaker, Maker, row
  <2> QED BY <2>5, <2>6, <2>7, <2>8, <2>9, <2>10, <2>11 DEF IInv, Kept
<1>4. CASE disk[pub[p].key] # "absent"
  <2> DEFINE r == [pub[p] EXCEPT !.at = "begin", !.again = TRUE]
  <2>1. pub' = [pub EXCEPT ![p] = r] /\ UNCHANGED disk
    BY <1>1, <1>4 DEF Rename, IInv, Typed
  <2>2. /\ r \in Publisher /\ r.key = pub[p].key /\ r.seen = pub[p].seen /\ r.kind = pub[p].kind
        /\ r.at = "begin" /\ ~ r.created
    BY <1>1 DEF Publisher, Stage
  <2> HIDE DEF r
  <2>3. /\ pub' \in [Publishers -> Publisher]
        /\ pub'[p] = r /\ \A q \in Publishers \ {p} : pub'[q] = pub[q]
    BY <2>1, <2>2, OwnRecord DEF IInv
  <2>4. Typed'
    BY <1>1, <1>2, <2>1, <2>2, <2>3
    DEF IInv, Typed, RowTyped, DocsTyped, WorkTyped, Publishing, row, docs
  <2>5. SeenRecorded' /\ GoneIsEmpty' /\ RecordedIsOnDisk'
    BY <1>1, <1>2, <2>1, <2>2, <2>3
    DEF IInv, Kept, SeenRecorded, GoneIsEmpty, RecordedIsOnDisk, Publishing, row
  <2>6. HoldsAreOpen'
    BY <1>1, <1>2, <2>2, <2>3 DEF IInv, Kept, HoldsAreOpen, Holding
  <2>7. Reliable' /\ Makers' /\ OneMaker'
    BY <1>2, <2>1, <2>2, <2>3 DEF IInv, Kept, Reliable, Relies, Makers, OneMaker, Maker, row
  <2> QED BY <2>4, <2>5, <2>6, <2>7 DEF IInv, Kept
<1> QED BY <1>3, <1>4

\* A publisher that fails lets go.  What it may have removed is nobody else's.
LEMMA FailKeeps ==
    ASSUME IInv, NEW p \in Publishers, Fail(p), pub[p].key \in Key,
           \/ UNCHANGED disk
           \/ /\ pub[p].at = "held" /\ Removes(p)
              /\ \E left \in {"absent", "broken"} : disk' = [disk EXCEPT ![pub[p].key] = left]
    PROVE  IInv'
<1>1. /\ pub' \in [Publishers -> Publisher]
      /\ pub'[p] = Idle /\ \A q \in Publishers \ {p} : pub'[q] = pub[q]
  BY IdleTyped, OwnRecord DEF IInv, Fail
<1>2. Idle.at = "idle" /\ ~ Idle.created
  BY DEF Idle
<1>3. UNCHANGED <<present, identity, active, path, cutover, moved, recorded, origin, docs>>
  BY DEF Fail
<1>4. required' \in BOOLEAN
  BY DEF Fail, Flagged, IInv, Typed, RowTyped
<1>5. /\ holders' \in [Key -> SUBSET Publishers]
      /\ \A k \in Key, q \in Publishers : q \in holders'[k] <=> q \in holders[k] /\ q # p
  BY DEF Fail, Released, IInv, Typed
<1>6. /\ disk' \in [Key -> Condition]
      /\ \A k \in Key : \/ disk'[k] = disk[k]
                        \/ k = pub[p].key /\ Removes(p) /\ pub[p].at = "held"
  BY DEF IInv, Typed, Condition
<1>7. Typed'
  <2>1. RowTyped' /\ DocsTyped'
    BY <1>3, <1>4 DEF IInv, Typed, RowTyped, DocsTyped, docs
  <2>2. WorkTyped'
    BY <1>1, <1>2 DEF IInv, Typed, WorkTyped, Publishing
  <2> QED BY <1>1, <1>5, <1>6, <2>1, <2>2 DEF Typed
<1>8. SeenRecorded' /\ GoneIsEmpty'
  BY <1>1, <1>2, <1>3 DEF IInv, Kept, SeenRecorded, GoneIsEmpty, Publishing
<1>9. RecordedIsOnDisk'
  BY <1>3, <1>6 DEF IInv, Kept, Typed, RowTyped, RecordedIsOnDisk, Removes
<1>10. HoldsAreOpen'
  BY <1>1, <1>2, <1>5 DEF IInv, Kept, HoldsAreOpen, Holding
<1>11. Makers' /\ OneMaker'
  BY <1>1, <1>2, <1>3 DEF IInv, Kept, Makers, OneMaker, Maker
<1>12. Reliable'
  <2> SUFFICES ASSUME present, NEW q \in Publishers, Relies(q)' PROVE disk'[pub'[q].key] = "whole"
    BY <1>3 DEF Reliable
  <2>1. q # p /\ pub'[q] = pub[q] /\ Relies(q) /\ pub[q].key \in Key
    BY <1>1, <1>2 DEF Relies, IInv, Typed, WorkTyped, Publishing
  <2>2. disk[pub[q].key] = "whole"
    BY <2>1 DEF IInv, Kept, Reliable
  <2>3. ASSUME pub[q].key = pub[p].key, Removes(p), pub[p].at = "held" PROVE FALSE
    <3>1. q \notin holders[pub[q].key] /\ Maker(p)
      BY <2>1, <2>3 DEF Removes, Maker
    <3>2. pub[q].at = "renamed"
      BY <2>1, <3>1 DEF Relies, IInv, Kept, HoldsAreOpen, Holding
    <3> QED BY <2>1, <2>3, <3>1, <3>2 DEF IInv, Kept, Makers, OneMaker, Maker
  <2> QED BY <1>6, <2>1, <2>2, <2>3
<1> QED BY <1>7, <1>8, <1>9, <1>10, <1>11, <1>12 DEF IInv, Kept

LEMMA GiveUpKeeps == ASSUME IInv, NEW p \in Publishers, GiveUp(p) PROVE IInv'
<1>1. pub[p].key \in Key
  BY DEF GiveUp, IInv, Typed, WorkTyped, Publishing
<1> QED BY <1>1, FailKeeps DEF GiveUp

LEMMA RefuseKeeps == ASSUME IInv, NEW p \in Publishers, Refuse(p) PROVE IInv'
<1>1. pub[p].key \in Key
  BY DEF Refuse, IInv, Typed, WorkTyped, Publishing
<1>2. Removes(p) => pub[p].at = "held"
  BY DEF Refuse, Removes, IInv, Kept, Makers
<1> QED BY <1>1, <1>2, FailKeeps DEF Refuse

-----------------------------------------------------------------------------
(* Activation and the index.                                                  *)

LEMMA AfterActivation ==
    ASSUME IInv, NEW p \in Publishers, Activate(p)
    PROVE  /\ pub' \in [Publishers -> Publisher] /\ DocsTyped'
           /\ \A q \in Publishers \ {p} : pub'[q] = pub[q]
           /\ pub'[p].at \in {"idle", "extracting", "indexing"}
           /\ ~ pub'[p].created
<1>1. pub[p] \in Publisher /\ pub[p].key \in Key
  BY DEF Activate, IInv, Typed, WorkTyped, Publishing
<1>2. CASE IsSync(pub[p].kind)
  <2> DEFINE r == [Idle EXCEPT !.at = "extracting", !.kind = pub[p].kind,
                               !.todo = Small, !.rows = Fresh, !.since = Fresh]
  <2>1. AfterSync(p)
    BY <1>2 DEF Activate, IsSync
  <2>2. index' \in Listing /\ text' \in [Pdfs -> Rows \cup {None}]
    BY <1>1, <2>1, IdleTyped, FreshTyped DEF AfterSync, docs, IInv, Typed, DocsTyped, Listing, Key
  <2>3. /\ Idle \in Publisher /\ Idle.at = "idle" /\ ~ Idle.created
        /\ r \in Publisher /\ r.at = "extracting" /\ ~ r.created
    BY <1>1, <2>2, IdleTyped, FreshTyped DEF Idle, Publisher, Stage, Pdfs, IInv
  <2>4. pub' = [pub EXCEPT ![p] = r] \/ pub' = [pub EXCEPT ![p] = Idle]
    BY <2>1 DEF AfterSync
  <2> HIDE DEF r
  <2> QED BY <2>2, <2>3, <2>4, OwnRecord DEF IInv, DocsTyped
<1>3. CASE ~ IsSync(pub[p].kind) /\ pub[p].kind = "upload"
  <2> DEFINE r == [Idle EXCEPT !.at = "indexing", !.kind = "upload", !.key = pub[p].key]
  <2>1. pub' = [pub EXCEPT ![p] = r] /\ UNCHANGED docs
    BY <1>3 DEF Activate
  <2>2. r \in Publisher /\ r.at = "indexing" /\ ~ r.created
    BY <1>1, IdleTyped DEF Idle, Publisher, Stage, Kind
  <2> HIDE DEF r
  <2> QED BY <2>1, <2>2, OwnRecord DEF IInv, Typed, DocsTyped, docs
<1>4. CASE ~ IsSync(pub[p].kind) /\ pub[p].kind # "upload"
  <2>1. pub' = [pub EXCEPT ![p] = Idle] /\ UNCHANGED docs
    BY <1>4 DEF Activate
  <2>2. Idle \in Publisher /\ Idle.at = "idle" /\ ~ Idle.created
    BY IdleTyped DEF Idle
  <2> QED BY <2>1, <2>2, OwnRecord DEF IInv, Typed, DocsTyped, docs
<1> QED BY <1>2, <1>3, <1>4

LEMMA ActivateKeeps == ASSUME IInv, NEW p \in Publishers, Activate(p) PROVE IInv'
<1>1. /\ pub[p].at \in {"held", "ready"} /\ present
      /\ recorded' = recorded \cup {pub[p].key} /\ moved' = FALSE
      /\ active' = pub[p].key /\ path' = pub[p].key
      /\ UNCHANGED <<present, identity, disk>> /\ holders' = Released(p)
  BY DEF Activate
<1>2. pub[p].key \in Key /\ pub[p].seen \in Observed /\ pub[p].key # None
  BY <1>1, SourceAssumption DEF IInv, Typed, WorkTyped, Publishing, Key, Trees
<1>3. required' \in BOOLEAN /\ cutover' \in BOOLEAN /\ origin' \in Identities \cup {None}
  BY <1>2 DEF Activate, IInv, Typed, RowTyped, Observed
<1>4. /\ holders' \in [Key -> SUBSET Publishers]
      /\ \A k \in Key, q \in Publishers : q \in holders'[k] <=> q \in holders[k] /\ q # p
  BY <1>1 DEF Released, IInv, Typed
<1>5. Typed'
  <2>1. RowTyped'
    BY <1>1, <1>2, <1>3 DEF IInv, Typed, RowTyped, Directory
  <2>2. WorkTyped'
    BY <1>1, AfterActivation DEF IInv, Typed, WorkTyped, Publishing
  <2> QED BY <1>1, <1>4, <2>1, <2>2, AfterActivation DEF IInv, Typed
<1>6. SeenRecorded' /\ GoneIsEmpty'
  BY <1>1, AfterActivation DEF IInv, Kept, SeenRecorded, GoneIsEmpty, Publishing
<1>7. RecordedIsOnDisk'
  <2>1. disk[pub[p].key] = "whole"
    BY <1>1 DEF IInv, Kept, SeenRecorded, RecordedIsOnDisk, Reliable, Relies, Publishing
  <2> QED BY <1>1, <2>1 DEF IInv, Kept, RecordedIsOnDisk
<1>8. HoldsAreOpen'
  BY <1>4, AfterActivation DEF IInv, Kept, HoldsAreOpen, Holding
<1>9. Reliable' /\ Makers' /\ OneMaker'
  BY <1>1, AfterActivation DEF IInv, Kept, Reliable, Relies, Makers, OneMaker, Maker
<1> QED BY <1>5, <1>6, <1>7, <1>8, <1>9 DEF IInv, Kept

\* Indexing and extraction are none of the directories' business.
LEMMA AsideKeeps ==
    ASSUME IInv, NEW p \in Publishers, NEW r \in Publisher, pub' = [pub EXCEPT ![p] = r],
           r.at \in {"idle", "extracting", "inlining"}, ~ r.created, pub[p].at \notin Holding,
           UNCHANGED <<row, disk, holders>>, DocsTyped'
    PROVE  IInv'
<1>1. /\ pub' \in [Publishers -> Publisher]
      /\ pub'[p] = r /\ \A q \in Publishers \ {p} : pub'[q] = pub[q]
  BY OwnRecord DEF IInv
<1>2. Typed'
  BY <1>1 DEF IInv, Typed, RowTyped, WorkTyped, Publishing, row
<1>3. SeenRecorded' /\ GoneIsEmpty' /\ RecordedIsOnDisk'
  BY <1>1 DEF IInv, Kept, SeenRecorded, GoneIsEmpty, RecordedIsOnDisk, Publishing, row
<1>4. HoldsAreOpen'
  BY <1>1 DEF IInv, Kept, HoldsAreOpen, Holding
<1>5. Reliable' /\ Makers' /\ OneMaker'
  BY <1>1 DEF IInv, Kept, Reliable, Relies, Makers, OneMaker, Maker, row
<1> QED BY <1>2, <1>3, <1>4, <1>5 DEF IInv, Kept

LEMMA TreeTyped == ASSUME NEW dir \in Directory PROVE Tree(dir) \in Trees \cup Folders \cup {None}
BY DEF Directory, Tree, Key

LEMMA IndexedTyped == ASSUME IInv, NEW dir \in Directory, Indexed(dir) PROVE DocsTyped'
BY TreeTyped, IdleTyped, FreshTyped DEF Indexed, DocsTyped, Listing, IInv

LEMMA IndexUploadKeeps == ASSUME IInv, NEW p \in Publishers, IndexUpload(p) PROVE IInv'
<1>1. DocsTyped'
  <2>1. CASE index' = NoRows /\ text' = NoText
    BY <2>1, IdleTyped DEF DocsTyped
  <2>2. CASE UNCHANGED docs
    BY <2>2 DEF docs, DocsTyped, IInv, Typed
  <2>3. CASE Indexed(active)
    <3>1. active \in Directory
      BY DEF IInv, Typed, RowTyped, Directory
    <3> QED BY <2>3, <3>1, IndexedTyped
  <2> QED BY <2>1, <2>2, <2>3 DEF IndexUpload
<1>2. Idle \in Publisher /\ Idle.at = "idle" /\ ~ Idle.created
  BY IdleTyped DEF Idle
<1> QED BY <1>1, <1>2, AsideKeeps DEF IndexUpload, Holding

LEMMA StartExtractKeeps == ASSUME IInv, NEW p \in Publishers, StartExtract(p) PROVE IInv'
<1>1. PICK D \in {Pending(Pdfs)} \cup {{d} : d \in Pdfs} :
          pub' = [pub EXCEPT ![p] = [Idle EXCEPT !.at = "extracting", !.kind = "extract", !.todo = D,
                                                 !.rows = index.rows, !.since = index.rows]]
  BY DEF StartExtract
<1> DEFINE r == [Idle EXCEPT !.at = "extracting", !.kind = "extract", !.todo = D,
                             !.rows = index.rows, !.since = index.rows]
<1>2. D \in SUBSET Pdfs
  BY DEF Pending
<1>3. index.rows \in Rows \cup {None}
  BY DEF IInv, Typed, DocsTyped, Listing
<1>4. r \in Publisher /\ r.at = "extracting" /\ ~ r.created
  BY <1>2, <1>3 DEF Idle, Publisher, Stage, Kind, NoRows, Listing
<1>5. pub' = [pub EXCEPT ![p] = r]
  BY <1>1
<1>6. DocsTyped' /\ UNCHANGED <<row, disk, holders>> /\ pub[p].at \notin Holding
  BY DEF StartExtract, Holding, docs, DocsTyped, IInv, Typed
<1> HIDE DEF r
<1> QED BY <1>4, <1>5, <1>6, AsideKeeps

LEMMA ExtractKeeps == ASSUME IInv, NEW p \in Publishers, Extract(p) PROVE IInv'
<1>1. PICK d \in pub[p].todo :
          /\ pub' = [pub EXCEPT ![p].todo = @ \ {d}]
          /\ text' = [text EXCEPT ![d] = pub[p].since] \/ UNCHANGED text
  BY DEF Extract
<1> DEFINE r == [pub[p] EXCEPT !.todo = pub[p].todo \ {d}]
<1>2. pub[p] \in Publisher /\ ~ pub[p].created /\ pub[p].at \in {"extracting", "inlining"}
  BY DEF Extract, IInv, Typed, Kept, Makers
<1>3. r \in Publisher /\ r.at = pub[p].at /\ ~ r.created
  BY <1>2 DEF Publisher
<1>4. pub' = [pub EXCEPT ![p] = r]
  BY <1>1, <1>2 DEF IInv, Typed
<1>5. DocsTyped'
  BY <1>1, <1>2 DEF Extract, DocsTyped, IInv, Typed, Publisher
<1>6. UNCHANGED <<row, disk, holders>> /\ pub[p].at \notin Holding
  BY <1>2 DEF Extract, Holding
<1> HIDE DEF r
<1> QED BY <1>2, <1>3, <1>4, <1>5, <1>6, AsideKeeps

LEMMA ListLargeKeeps == ASSUME IInv, NEW p \in Publishers, ListLarge(p) PROVE IInv'
<1> DEFINE r == [pub[p] EXCEPT !.at = "inlining", !.todo = Pending(Large), !.rows = index.rows]
<1>1. pub[p] \in Publisher /\ ~ pub[p].created /\ pub[p].at = "extracting"
  BY DEF ListLarge, IInv, Typed, Kept, Makers
<1>2. Pending(Large) \in SUBSET Pdfs /\ index.rows \in Rows \cup {None}
  BY DEF Pending, Pdfs, IInv, Typed, DocsTyped, Listing
<1>3. r \in Publisher /\ r.at = "inlining" /\ ~ r.created
  BY <1>1, <1>2 DEF Publisher, Stage
<1>4. pub' = [pub EXCEPT ![p] = r]
  BY <1>1 DEF ListLarge, IInv, Typed
<1>5. DocsTyped' /\ UNCHANGED <<row, disk, holders>> /\ pub[p].at \notin Holding
  BY <1>1 DEF ListLarge, Holding, docs, DocsTyped, IInv, Typed
<1> HIDE DEF r
<1> QED BY <1>3, <1>4, <1>5, AsideKeeps

LEMMA ExtractedKeeps == ASSUME IInv, NEW p \in Publishers, Extracted(p) PROVE IInv'
<1>1. Idle \in Publisher /\ Idle.at = "idle" /\ ~ Idle.created
  BY IdleTyped DEF Idle
<1>2. DocsTyped' /\ UNCHANGED <<row, disk, holders>> /\ pub[p].at \notin Holding
  BY DEF Extracted, Holding, docs, DocsTyped, IInv, Typed
<1> QED BY <1>1, <1>2, AsideKeeps DEF Extracted

-----------------------------------------------------------------------------
(* The Source itself.                                                         *)

LEMMA RowKeeps ==
    ASSUME IInv, UNCHANGED <<present, active, recorded, disk, holders, pub>>, RowTyped', DocsTyped'
    PROVE  IInv'
<1>1. Typed'
  BY DEF IInv, Typed, WorkTyped
<1>2. Kept'
  BY DEF IInv, Kept, SeenRecorded, GoneIsEmpty, HoldsAreOpen, RecordedIsOnDisk,
         Reliable, Relies, Makers, OneMaker, Maker
<1> QED BY <1>1, <1>2 DEF IInv

LEMMA ServeDocsKeeps == IInv /\ ServeDocs => IInv'
<1> SUFFICES ASSUME IInv, ServeDocs PROVE IInv'
  OBVIOUS
<1>1. RowTyped'
  BY DEF ServeDocs, row, IInv, Typed, RowTyped
<1>2. path \in Directory /\ Indexed(path)
  BY DEF ServeDocs, IInv, Typed, RowTyped
<1> QED BY <1>1, <1>2, IndexedTyped, RowKeeps DEF ServeDocs, row

LEMMA SyncLocalKeeps == IInv /\ SyncLocal => IInv'
<1> SUFFICES ASSUME IInv, SyncLocal PROVE IInv'
  OBVIOUS
<1>1. RowTyped'
  BY DEF SyncLocal, IInv, Typed, RowTyped
<1>2. DocsTyped'
  <2>1. path \in Directory
    BY DEF IInv, Typed, RowTyped
  <2>2. CASE Indexed(path)
    BY <2>1, <2>2, IndexedTyped
  <2>3. CASE UNCHANGED docs
    BY <2>3 DEF docs, IInv, Typed, DocsTyped
  <2> QED BY <2>2, <2>3 DEF SyncLocal
<1> QED BY <1>1, <1>2, RowKeeps DEF SyncLocal

LEMMA EditSourceKeeps == IInv /\ EditSource => IInv'
<1> SUFFICES ASSUME IInv, EditSource PROVE IInv'
  OBVIOUS
<1>1. RowTyped' /\ DocsTyped'
  BY DEF EditSource, docs, IInv, Typed, RowTyped, DocsTyped, Directory
<1> QED BY <1>1, RowKeeps DEF EditSource

LEMMA DeleteKeeps == IInv /\ Delete => IInv'
<1> SUFFICES ASSUME IInv, Delete PROVE IInv'
  OBVIOUS
<1>1. Typed'
  BY IdleTyped DEF Delete, IInv, Typed, RowTyped, DocsTyped, WorkTyped
<1>2. Kept'
  BY DEF Delete, IInv, Kept, SeenRecorded, GoneIsEmpty, HoldsAreOpen, RecordedIsOnDisk,
         Reliable, Makers, OneMaker
<1> QED BY <1>1, <1>2 DEF IInv

LEMMA RemoveTreeKeeps == IInv /\ RemoveTree => IInv'
<1> SUFFICES ASSUME IInv, RemoveTree PROVE IInv'
  OBVIOUS
<1>1. Typed'
  BY DEF RemoveTree, row, docs, IInv, Typed, RowTyped, DocsTyped, WorkTyped, Condition
<1>2. Kept'
  BY DEF RemoveTree, row, IInv, Kept, SeenRecorded, GoneIsEmpty, HoldsAreOpen, RecordedIsOnDisk,
         Reliable, Makers, OneMaker
<1> QED BY <1>1, <1>2 DEF IInv

\* A crash forgets every publication; what is recorded stays on disk.
LEMMA LostKeeps ==
    ASSUME IInv, Lost, disk' \in [Key -> Condition], \A k \in recorded : disk'[k] = disk[k]
    PROVE  IInv'
<1>1. /\ pub' \in [Publishers -> Publisher] /\ holders' \in [Key -> SUBSET Publishers]
      /\ \A p \in Publishers : pub'[p].at = "idle" /\ ~ pub'[p].created
      /\ \A k \in Key : holders'[k] = {}
  BY IdleTyped DEF Lost, Idle
<1>2. UNCHANGED <<row, docs>>
  BY DEF Lost
<1>3. Typed'
  BY <1>1, <1>2 DEF row, docs, IInv, Typed, RowTyped, DocsTyped, WorkTyped, Publishing
<1>4. Kept'
  BY <1>1, <1>2 DEF row, IInv, Kept, SeenRecorded, GoneIsEmpty, HoldsAreOpen, RecordedIsOnDisk,
                    Reliable, Relies, Makers, OneMaker, Maker, Publishing, Holding
<1> QED BY <1>3, <1>4 DEF IInv

LEMMA CrashKeeps == IInv /\ Crash => IInv'
BY LostKeeps DEF Crash, IInv, Typed

LEMMA CrashInRemovalKeeps == ASSUME IInv, NEW p \in Publishers, CrashInRemoval(p) PROVE IInv'
<1>1. disk' \in [Key -> Condition] /\ \A k \in recorded : disk'[k] = disk[k]
  BY DEF CrashInRemoval, Removes, IInv, Typed, RowTyped, Condition
<1> QED BY <1>1, LostKeeps DEF CrashInRemoval

-----------------------------------------------------------------------------
(* Theorems.                                                                  *)

LEMMA StepKeeps == IInv /\ [Next]_vars => IInv'
<1> SUFFICES ASSUME IInv, [Next]_vars PROVE IInv'
  OBVIOUS
<1>1. CASE UNCHANGED vars
  BY <1>1, RowKeeps DEF vars, row, docs, IInv, Typed, RowTyped, DocsTyped
<1>2. ASSUME NEW p \in Publishers,
             \/ Start(p) \/ Claim(p) \/ Look(p) \/ Missing(p) \/ Reuse(p) \/ Rename(p) \/ Promote(p)
      PROVE IInv'
  BY <1>2, StartKeeps, ClaimKeeps, LookKeeps, MissingKeeps, ReuseKeeps, RenameKeeps, PromoteKeeps
<1>3. ASSUME NEW p \in Publishers,
             \/ GiveUp(p) \/ Activate(p) \/ Refuse(p) \/ IndexUpload(p)
             \/ StartExtract(p) \/ Extract(p) \/ ListLarge(p) \/ Extracted(p) \/ CrashInRemoval(p)
      PROVE IInv'
  BY <1>3, GiveUpKeeps, ActivateKeeps, RefuseKeeps, IndexUploadKeeps, StartExtractKeeps,
     ExtractKeeps, ListLargeKeeps, ExtractedKeeps, CrashInRemovalKeeps
<1>4. CASE ServeDocs \/ SyncLocal \/ EditSource \/ Delete \/ RemoveTree \/ Crash
  BY <1>4, ServeDocsKeeps, SyncLocalKeeps, EditSourceKeeps, DeleteKeeps, RemoveTreeKeeps, CrashKeeps
<1> QED BY <1>1, <1>2, <1>3, <1>4 DEF Next

LEMMA SpecKeeps == Spec => []IInv
<1>1. Init => IInv
  BY InitTyped, InitKept DEF IInv
<1> QED BY <1>1, StepKeeps, PTL DEF Spec

\* A snapshot that a revision names is never removed or damaged
\* (releaseUnreferencedSnapshot, deleteSource).
THEOREM RecordedStays == Spec => []RecordedIsOnDisk
<1>1. IInv => RecordedIsOnDisk
  BY DEF IInv, Kept
<1> QED BY <1>1, SpecKeeps, PTL

\* Holds and the publishers that need them are the same, on every way out (sharedSnapshotHolds).
THEOREM HoldsStayOpen == Spec => []HoldsAreOpen
<1>1. IInv => HoldsAreOpen
  BY DEF IInv, Kept
<1> QED BY <1>1, SpecKeeps, PTL

-----------------------------------------------------------------------------
(* What is active in a Source that asks for no sync.                          *)

LEMMA ActivateTells == ASSUME IInv, FlagTellsOrigin, NEW p \in Publishers, Activate(p) PROVE FlagTellsOrigin'
<1>1. /\ pub[p].at \in {"held", "ready"}
      /\ AlreadyActive(p) \/ Unchanged(p)
      /\ UNCHANGED <<present, identity>>
  BY DEF Activate
<1>2. pub[p].key # None /\ (pub[p].kind = "manifest" => pub[p].seen.active # None)
  BY <1>1, SourceAssumption DEF IInv, Typed, WorkTyped, Publishing, Key, Trees
<1>3. pub[p].seen.identity = identity
  BY <1>1 DEF Activate, AlreadyActive, Unchanged, Observation
<1>4. CASE pub[p].kind = "manifest"
  <2>1. UNCHANGED <<required, origin>>
    BY <1>4 DEF Activate
  <2>2. active # None
    BY <1>2, <1>4 DEF Activate, AlreadyActive, Unchanged, Observation
  <2> QED BY <1>1, <2>1, <2>2 DEF FlagTellsOrigin
<1>5. CASE pub[p].kind # "manifest"
  BY <1>1, <1>3, <1>5 DEF Activate, FlagTellsOrigin
<1> QED BY <1>4, <1>5

LEMMA StepTells == IInv /\ FlagTellsOrigin /\ [Next]_vars => FlagTellsOrigin'
<1> SUFFICES ASSUME IInv, FlagTellsOrigin, [Next]_vars PROVE FlagTellsOrigin'
  OBVIOUS
<1>1. ASSUME UNCHANGED row PROVE FlagTellsOrigin'
  BY <1>1 DEF row, FlagTellsOrigin
<1>2. ASSUME NEW p \in Publishers, Fail(p) PROVE FlagTellsOrigin'
  BY <1>2 DEF Fail, Flagged, FlagTellsOrigin
<1>3. ASSUME NEW p \in Publishers,
             \/ Start(p) \/ Claim(p) \/ Look(p) \/ Missing(p) \/ Reuse(p) \/ Rename(p) \/ Promote(p)
             \/ GiveUp(p) \/ Activate(p) \/ Refuse(p) \/ IndexUpload(p)
             \/ StartExtract(p) \/ Extract(p) \/ ListLarge(p) \/ Extracted(p) \/ CrashInRemoval(p)
      PROVE FlagTellsOrigin'
  BY <1>1, <1>2, <1>3, ActivateTells
  DEF Start, Claim, Look, Missing, Reuse, Rename, Promote, GiveUp, Refuse, IndexUpload,
      StartExtract, Extract, ListLarge, Extracted, CrashInRemoval, Lost
<1>4. CASE ServeDocs \/ RemoveTree \/ Crash
  BY <1>1, <1>4 DEF ServeDocs, RemoveTree, Crash, Lost
<1>5. CASE SyncLocal \/ EditSource \/ Delete
  BY <1>5 DEF SyncLocal, EditSource, Delete, FlagTellsOrigin
<1>6. CASE UNCHANGED vars
  BY <1>1, <1>6 DEF vars
<1> QED BY <1>3, <1>4, <1>5, <1>6 DEF Next

\* The active revision of a Source that is synced from a remote and asks for no sync was
\* published for it, whatever edits and publications overlap (activateSourceRevision, updateSource).
THEOREM FlagIsTrue == Spec => []FlagTellsOrigin
<1>1. Init => FlagTellsOrigin
  BY DEF Init, FlagTellsOrigin
<1> QED BY <1>1, SpecKeeps, StepTells, PTL DEF Spec

-----------------------------------------------------------------------------
(* The index and the text of its documents.                                   *)

Follows ==
    index'.rows # index.rows /\ index' # NoRows => index'.tree \in {Tree(active'), Tree(path')}

LEMMA StepFollows == IInv /\ [Next]_vars => Follows
<1> SUFFICES ASSUME IInv, [Next]_vars PROVE Follows
  OBVIOUS
<1>1. ASSUME UNCHANGED docs \/ index' = NoRows \/ UNCHANGED index PROVE Follows
  BY <1>1 DEF docs, Follows
<1>2. ASSUME NEW dir, Indexed(dir), dir = active' \/ dir = path' PROVE Follows
  BY <1>2 DEF Indexed, Follows
<1>3. ASSUME NEW p \in Publishers, Activate(p) PROVE Follows
  <2>1. active' = pub[p].key /\ Tree(pub[p].key) = pub[p].key[1]
    BY <1>3 DEF Activate, IInv, Typed, WorkTyped, Publishing, Tree
  <2>2. CASE AfterSync(p)
    BY <1>1, <2>1, <2>2, SMTT(60) DEF AfterSync, Follows
  <2> QED BY <1>1, <1>3, <2>2 DEF Activate
<1>4. ASSUME NEW p \in Publishers,
             \/ Start(p) \/ Claim(p) \/ Look(p) \/ Missing(p) \/ Reuse(p) \/ Rename(p) \/ Promote(p)
             \/ GiveUp(p) \/ Refuse(p)
             \/ StartExtract(p) \/ Extract(p) \/ ListLarge(p) \/ Extracted(p) \/ CrashInRemoval(p)
      PROVE Follows
  BY <1>1, <1>4
  DEF Start, Claim, Look, Missing, Reuse, Rename, Promote, GiveUp, Refuse, Fail,
      StartExtract, Extract, ListLarge, Extracted, CrashInRemoval, Lost
<1>5. ASSUME NEW p \in Publishers, IndexUpload(p) PROVE Follows
  BY <1>1, <1>2, <1>5 DEF IndexUpload, row
<1>6. CASE ServeDocs \/ SyncLocal \/ EditSource \/ Delete \/ RemoveTree \/ Crash
  BY <1>1, <1>2, <1>6 DEF ServeDocs, SyncLocal, EditSource, Delete, RemoveTree, Crash, Lost, row
<1>7. CASE UNCHANGED vars
  BY <1>1, <1>7 DEF vars
<1> QED BY <1>3, <1>4, <1>5, <1>6, <1>7 DEF Next

\* Whoever rewrites the index lists the revision that is active then, or the directory that
\* local_path names then (indexDocsForActivatedRevision, syncProjectById, ensureDocsIndexed).
THEOREM IndexIsActive == Spec => IndexFollowsActive
<1>1. IInv /\ [Next]_vars => [Follows]_vars
  BY StepFollows
<1> QED BY <1>1, SpecKeeps, PTL DEF Spec, IndexFollowsActive, Follows

\* An extraction lists once, when it chooses its directory; a watcher's sync lists the large
\* documents a second time.
ListsOnce ==
    \A p \in Publishers :
        /\ pub[p].at # "idle" /\ pub[p].kind = "watch" => "watch" \in Kinds
        /\ pub[p].at = "extracting" => pub[p].since = pub[p].rows
        /\ pub[p].at = "inlining" => pub[p].kind = "watch" /\ pub[p].todo \subseteq Large

\* A publisher whose record says so, and the others as before.
LEMMA OneListsOnce ==
    ASSUME IInv, ListsOnce, NEW p \in Publishers, NEW r, pub' = [pub EXCEPT ![p] = r],
           r.at # "idle" /\ r.kind = "watch" => "watch" \in Kinds,
           r.at = "extracting" => r.since = r.rows,
           r.at = "inlining" => r.kind = "watch" /\ r.todo \subseteq Large
    PROVE  ListsOnce'
<1>1. pub'[p] = r /\ \A q \in Publishers \ {p} : pub'[q] = pub[q]
  BY DEF IInv, Typed
<1> QED BY <1>1 DEF ListsOnce

\* A publisher that goes on with the kind it has and is not extracting.
LEMMA MoveListsOnce ==
    ASSUME IInv, ListsOnce, NEW p \in Publishers, NEW r, pub' = [pub EXCEPT ![p] = r],
           pub[p].at # "idle" /\ r.kind = pub[p].kind, r.at \notin {"extracting", "inlining"}
    PROVE  ListsOnce'
BY OneListsOnce DEF ListsOnce

LEMMA IdleListsOnce ==
    ASSUME IInv, ListsOnce, NEW p \in Publishers, pub' = [pub EXCEPT ![p] = Idle]
    PROVE  ListsOnce'
BY OneListsOnce DEF Idle

LEMMA StepListsOnce ==
    ASSUME IInv, ListsOnce, [Next]_vars
    PROVE  ListsOnce'
<1>0. ASSUME NEW p \in Publishers PROVE pub[p] \in Publisher
  BY <1>0 DEF IInv, Typed
<1>1. ASSUME NEW p \in Publishers, Start(p) PROVE ListsOnce'
  <2>1. PICK kind \in Kinds : \E k \in Content(kind) :
          pub' = [pub EXCEPT ![p] =
                     [Idle EXCEPT !.at = IF kind = "manifest" /\ k = active THEN "ready" ELSE "begin",
                                  !.kind = kind, !.seen = Observation, !.key = k]]
    BY <1>1 DEF Start
  <2> QED BY <2>1, OneListsOnce DEF Idle
<1>2. ASSUME NEW p \in Publishers,
             Claim(p) \/ Look(p) \/ Missing(p) \/ Reuse(p) \/ Rename(p) \/ Promote(p)
      PROVE ListsOnce'
  <2>1. PICK r : pub' = [pub EXCEPT ![p] = r] /\ pub[p].at # "idle" /\ r.kind = pub[p].kind
                 /\ r.at \notin {"extracting", "inlining"}
    BY <1>0, <1>2 DEF Claim, Look, Missing, Reuse, Rename, Promote, Publisher
  <2> QED BY <2>1, MoveListsOnce
<1>3. ASSUME NEW p \in Publishers, GiveUp(p) \/ Refuse(p) \/ IndexUpload(p) \/ Extracted(p)
      PROVE ListsOnce'
  BY <1>3, IdleListsOnce DEF GiveUp, Refuse, Fail, IndexUpload, Extracted
<1>4. ASSUME NEW p \in Publishers, Activate(p) PROVE ListsOnce'
  <2>1. pub[p].at # "idle"
    BY <1>4 DEF Activate
  <2>2. CASE AfterSync(p)
    <3>1. CASE pub' = [pub EXCEPT ![p] = Idle]
      BY <3>1, IdleListsOnce
    <3>2. CASE /\ index' = [tree |-> pub[p].key[1], rows |-> Fresh]
               /\ pub' = [pub EXCEPT ![p] =
                     [Idle EXCEPT !.at = "extracting", !.kind = pub[p].kind,
                                  !.todo = Small, !.rows = Fresh, !.since = Fresh]]
      <4> DEFINE r == [Idle EXCEPT !.at = "extracting", !.kind = pub[p].kind,
                                   !.todo = Small, !.rows = Fresh, !.since = Fresh]
      <4>1. r.kind = pub[p].kind /\ r.at = "extracting" /\ r.since = r.rows
        BY <3>2 DEF Idle
      <4>2. pub' = [pub EXCEPT ![p] = r]
        BY <3>2
      <4> QED BY <2>1, <4>1, <4>2, OneListsOnce DEF ListsOnce
    <3> QED BY <2>2, <3>1, <3>2 DEF AfterSync
  <2>3. CASE pub' = [pub EXCEPT ![p] = [Idle EXCEPT !.at = "indexing", !.kind = "upload",
                                                   !.key = pub[p].key]]
    BY <2>3, OneListsOnce DEF Idle
  <2>4. CASE pub' = [pub EXCEPT ![p] = Idle]
    BY <2>4, IdleListsOnce
  <2> QED BY <1>4, <2>2, <2>3, <2>4 DEF Activate
<1>5. ASSUME NEW p \in Publishers, StartExtract(p) PROVE ListsOnce'
  <2>1. PICK D : pub' = [pub EXCEPT ![p] = [Idle EXCEPT !.at = "extracting", !.kind = "extract", !.todo = D,
                                                        !.rows = index.rows, !.since = index.rows]]
    BY <1>5 DEF StartExtract
  <2> QED BY <2>1, OneListsOnce DEF Idle
<1>6. ASSUME NEW p \in Publishers, Extract(p) PROVE ListsOnce'
  <2>1. PICK d : pub' = [pub EXCEPT ![p].todo = @ \ {d}]
    BY <1>6 DEF Extract
  <2>2. \A q \in Publishers : /\ pub'[q].at = pub[q].at /\ pub'[q].kind = pub[q].kind
                              /\ pub'[q].rows = pub[q].rows /\ pub'[q].since = pub[q].since
                              /\ pub'[q].todo \subseteq pub[q].todo
    BY <1>0, <2>1 DEF IInv, Typed, Publisher
  <2> QED BY <2>2 DEF ListsOnce
<1>7. ASSUME NEW p \in Publishers, ListLarge(p) PROVE ListsOnce'
  <2> DEFINE r == [pub[p] EXCEPT !.at = "inlining", !.todo = Pending(Large), !.rows = index.rows]
  <2>1. pub' = [pub EXCEPT ![p] = r] /\ pub[p].at # "idle" /\ pub[p].kind = "watch"
    BY <1>7 DEF ListLarge
  <2>2. r.at = "inlining" /\ r.kind = pub[p].kind /\ r.todo = Pending(Large)
    BY <1>0 DEF Publisher
  <2>3. Pending(Large) \subseteq Large
    BY DEF Pending
  <2> QED BY <2>1, <2>2, <2>3, OneListsOnce DEF ListsOnce
<1>8. ASSUME pub' = [p \in Publishers |-> Idle] PROVE ListsOnce'
  BY <1>8 DEF ListsOnce, Idle
<1>9. ASSUME UNCHANGED pub PROVE ListsOnce'
  BY <1>9 DEF ListsOnce
<1>10. CASE ServeDocs \/ SyncLocal \/ EditSource \/ Delete \/ RemoveTree \/ UNCHANGED vars
  BY <1>9, <1>10 DEF ServeDocs, SyncLocal, EditSource, Delete, RemoveTree, vars
<1>11. CASE Crash \/ \E p \in Publishers : CrashInRemoval(p)
  BY <1>8, <1>11 DEF Crash, CrashInRemoval, Lost
<1> QED BY <1>1, <1>2, <1>3, <1>4, <1>5, <1>6, <1>7, <1>10, <1>11 DEF Next

\* The text of a document changes by an extraction that lists the row it read for, or is cleared.
LEMMA StepText ==
    ASSUME IInv, ListsOnce, TextOfItsRow, [Next]_vars
    PROVE  TextOfItsRow'
<1>1. ASSUME UNCHANGED docs \/ text' = NoText PROVE TextOfItsRow'
  BY <1>1 DEF docs, NoText, TextOfItsRow
<1>2. ASSUME NEW p \in Publishers, Extract(p) PROVE TextOfItsRow'
  <2>1. CASE UNCHANGED text
    BY <1>1, <1>2, <2>1 DEF Extract, docs
  <2>2. ASSUME NEW d \in Pdfs, d \in pub[p].todo,
               text' = [text EXCEPT ![d] = pub[p].since], index.rows = pub[p].rows
        PROVE  TextOfItsRow'
    <3>1. UNCHANGED index
      BY <1>2 DEF Extract
    <3>2. ListedLate(d) \/ pub[p].since = index.rows
      BY <1>2, <2>2 DEF Extract, ListsOnce, ListedLate
    <3> QED BY <2>2, <3>1, <3>2 DEF TextOfItsRow, IInv, Typed, DocsTyped
  <2>3. pub[p].todo \subseteq Pdfs
    BY SMTT(60) DEF IInv, Typed, Publisher
  <2> QED BY <1>2, <2>1, <2>2, <2>3 DEF Extract
<1>3. ASSUME NEW p \in Publishers,
             \/ Start(p) \/ Claim(p) \/ Look(p) \/ Missing(p) \/ Reuse(p) \/ Rename(p) \/ Promote(p)
             \/ GiveUp(p) \/ Refuse(p) \/ StartExtract(p) \/ ListLarge(p) \/ Extracted(p)
             \/ CrashInRemoval(p)
      PROVE TextOfItsRow'
  BY <1>1, <1>3
  DEF Start, Claim, Look, Missing, Reuse, Rename, Promote, GiveUp, Refuse, Fail,
      StartExtract, ListLarge, Extracted, CrashInRemoval, Lost
<1>4. ASSUME NEW p \in Publishers, Activate(p) \/ IndexUpload(p) PROVE TextOfItsRow'
  BY <1>1, <1>4 DEF Activate, AfterSync, IndexUpload, Indexed, docs
<1>5. CASE ServeDocs \/ SyncLocal \/ EditSource \/ Delete \/ RemoveTree \/ Crash
  BY <1>1, <1>5 DEF ServeDocs, SyncLocal, EditSource, Delete, RemoveTree, Crash, Lost, Indexed, docs
<1>6. CASE UNCHANGED vars
  BY <1>1, <1>6 DEF vars
<1> QED BY <1>2, <1>3, <1>4, <1>5, <1>6 DEF Next

\* A late extraction does not answer for a row that has replaced its own
\* (updateSourceDocExtract compares the row it listed), but for what a watcher's sync lists late.
THEOREM TextIsOfItsRow == Spec => []TextOfItsRow
<1>1. Init => ListsOnce /\ TextOfItsRow
  BY DEF Init, ListsOnce, TextOfItsRow, Idle, NoText
<1>2. IInv /\ ListsOnce /\ TextOfItsRow /\ [Next]_vars => ListsOnce' /\ TextOfItsRow'
  BY StepListsOnce, StepText
<1> QED BY <1>1, <1>2, SpecKeeps, PTL DEF Spec
=============================================================================
