--------------------------- MODULE SourceRevisions ---------------------------
(* The revisions of one Source on the Node server: how a tree of files        *)
(* becomes a snapshot directory, how the directory becomes the active         *)
(* revision, and how the documents of the active revision are indexed and     *)
(* their text extracted.                                                      *)
(*                                                                            *)
(* An upload, a sync, an edit of the manifest and an extraction are           *)
(* publishers.  Each observes the Source, works on files while other handlers *)
(* run, and ends in a SQLite transaction that compares the Source with what   *)
(* was observed.  Between two awaits a handler is one step; an operation on   *)
(* the file system happens between its call and the await's return.           *)
(*                                                                            *)
(* A revision key is a digest of the content, so a key stands for a tree.  A  *)
(* candidate directory is private until its rename and is not modelled.       *)
EXTENDS Naturals, FiniteSets

CONSTANTS
    Publishers,     \* handlers and jobs that may be under way at once
    Kinds,          \* what they do
    Uploads,        \* the trees that users may upload
    Commits,        \* the trees that the remote may hold
    Manifests,      \* the manifests that users may save
    Folders,        \* the folders that users may point local_path at; hosted users may not
    Leaves,         \* bound: when they do, <<local_path, revisions, index>>
    Identities,     \* what a Source's url, branch, tag, kind and type may be
    Remote,         \* those that are synced from a remote
    Small, Large,   \* the PDF documents of every tree, by size
    Rows,           \* generations of index rows
    None

Kind == {"upload", "sync", "watch", "manifest", "extract"}

ASSUME SourceAssumption ==
    /\ Kinds \subseteq Kind
    /\ Uploads \cap Commits = {} /\ Remote \subseteq Identities
    /\ Small \cap Large = {}
    /\ None \notin Manifests /\ None \notin Identities /\ None \notin Rows
    /\ None \notin Folders
    /\ None \notin (Uploads \cup Commits) \X (Manifests \cup {None})

\* There is always a generation of rows that nobody remembers.
ASSUME RowsAssumption ==
    /\ IsFiniteSet(Publishers) /\ IsFiniteSet(Rows)
    /\ Cardinality(Rows) > 2 * Cardinality(Publishers) + 1

VARIABLES
    present,    \* the Source has its row
    identity,   \* url, branch, tag, kind and type of the row
    required,   \* sync_required in the row's metadata
    active,     \* current_source_revision_id and last_commit_sha, as a key
    path,       \* local_path: the directory of a revision, a user's folder, or none
    cutover,    \* legacy_manifest_cutover
    moved,      \* last_synced_at is not the active revision's
    recorded,   \* source_revisions
    disk,       \* the directories under revisions/
    holders,    \* sharedSnapshotHolds: who holds each directory
    index,      \* source_docs: the tree they list and their generation
    text,       \* extract_status: None, or the rows that were listed when the directory of the text
                \* was chosen
    pub,        \* the publishers
    origin      \* history: the identity that the active content was published for

row == <<present, identity, required, active, path, cutover, moved, recorded, origin>>
docs == <<index, text>>
vars == <<row, disk, holders, docs, pub>>

Trees == Uploads \cup Commits
Key == Trees \X (Manifests \cup {None})     \* a tree, with its manifest replaced or not
Pdfs == Small \cup Large

\* The tree that a directory holds; a folder stands for its own.
Tree(dir) == IF dir \in Key THEN dir[1] ELSE dir

IsSync(kind) == kind \in {"sync", "watch"}

NoRows == [tree |-> None, rows |-> None]
NoText == [d \in Pdfs |-> None]

Observation == [active |-> active, path |-> path, identity |-> identity, cutover |-> cutover]

\* A publisher with nothing in hand.
Idle == [at |-> "idle", kind |-> None, seen |-> None, key |-> None, found |-> None,
         again |-> FALSE, created |-> FALSE, todo |-> {}, rows |-> None, since |-> None]

\* Where a publisher is counted as a holder of its directory.
Holding == {"claimed", "looked", "held"}

Init ==
    /\ present = TRUE /\ identity \in Identities
    /\ required = FALSE /\ cutover = FALSE /\ moved = FALSE
    /\ active = None /\ recorded = {} /\ origin = None
    /\ path = None      \* a Source made with a folder is edited at once
    /\ disk = [k \in Key |-> "absent"]
    /\ holders = [k \in Key |-> {}]
    /\ index = NoRows /\ text = NoText
    /\ pub = [p \in Publishers |-> Idle]

-----------------------------------------------------------------------------
(* The snapshot directory.                                                    *)

Retain(p) == holders' = [holders EXCEPT ![pub[p].key] = @ \cup {p}]
Released(p) == [k \in Key |-> holders[k] \ {p}]

\* What each kind may publish, by what it observes.
Content(kind) ==
    CASE kind = "upload" -> Uploads \X {None}
      [] IsSync(kind) /\ identity \in Remote -> Commits \X {None}
      [] kind = "manifest" /\ active # None /\ disk[active] = "whole" -> {active[1]} \X Manifests
      [] OTHER -> {}

\* A manifest that changes nothing makes no directory: the active one is used, unheld.  There is
\* one watcher, and it goes from one sync to the next.
Start(p) ==
    /\ present /\ pub[p].at = "idle"
    /\ \E kind \in Kinds : \E k \in Content(kind) :
          /\ kind = "watch" => \A q \in Publishers : pub[q].kind # "watch"
          /\ pub' = [pub EXCEPT ![p] =
                        [Idle EXCEPT !.at = IF kind = "manifest" /\ k = active THEN "ready" ELSE "begin",
                                     !.kind = kind, !.seen = Observation, !.key = k]]
    /\ UNCHANGED <<row, disk, holders, docs>>

\* The hold is taken before the directory is looked for.
Claim(p) ==
    /\ pub[p].at = "begin"
    /\ Retain(p)
    /\ pub' = [pub EXCEPT ![p].at = "claimed"]
    /\ UNCHANGED <<row, disk, docs>>

Look(p) ==
    /\ pub[p].at = "claimed"
    /\ pub' = [pub EXCEPT ![p].at = "looked", ![p].found = disk[pub[p].key]]
    /\ UNCHANGED <<row, disk, holders, docs>>

Missing(p) ==
    /\ pub[p].at = "looked" /\ pub[p].found = "absent" /\ ~ pub[p].again
    /\ holders' = Released(p)
    /\ pub' = [pub EXCEPT ![p].at = "writing", ![p].found = None]
    /\ UNCHANGED <<row, disk, docs>>

Reuse(p) ==
    /\ pub[p].at = "looked" /\ pub[p].found = "whole"
    /\ pub' = [pub EXCEPT ![p].at = "held", ![p].found = None]
    /\ UNCHANGED <<row, disk, holders, docs>>

\* The complete candidate takes its name, or finds it taken and looks again.
Rename(p) ==
    /\ pub[p].at = "writing"
    /\ IF disk[pub[p].key] = "absent"
       THEN /\ disk' = [disk EXCEPT ![pub[p].key] = "whole"]
            /\ pub' = [pub EXCEPT ![p].at = "renamed", ![p].created = TRUE]
       ELSE /\ pub' = [pub EXCEPT ![p].at = "begin", ![p].again = TRUE]
            /\ UNCHANGED disk
    /\ UNCHANGED <<row, holders, docs>>

Promote(p) ==
    /\ pub[p].at = "renamed"
    /\ Retain(p)
    /\ pub' = [pub EXCEPT ![p].at = "held"]
    /\ UNCHANGED <<row, disk, docs>>

\* A sync that fails says so, unless the Source has changed since it was observed.
Flagged(p) ==
    required \/ (IsSync(pub[p].kind) /\ present /\ pub[p].seen = Observation)

Fail(p) ==
    /\ holders' = Released(p)
    /\ pub' = [pub EXCEPT ![p] = Idle]
    /\ required' = Flagged(p)
    /\ UNCHANGED <<present, identity, active, path, cutover, moved, recorded, origin, docs>>

\* A limit, a file that cannot be read or written, a directory that is broken or gone again,
\* or a staging area that cannot be removed.
GiveUp(p) ==
    /\ pub[p].at \in {"begin", "claimed", "looked", "writing", "held"}
    /\ Fail(p)
    /\ UNCHANGED disk

-----------------------------------------------------------------------------
(* Activation and the index.                                                  *)

\* The revision is active already, for the same Source as was observed.
AlreadyActive(p) ==
    /\ active = pub[p].key /\ path = active /\ ~ moved
    /\ identity = pub[p].seen.identity /\ cutover = pub[p].seen.cutover
    /\ pub[p].kind = "manifest" => cutover

\* Mutant: only the revision is compared.
SameRevision(p) == pub[p].seen.active = active /\ pub[p].seen.cutover = cutover

Unchanged(p) == pub[p].seen = Observation

\* Row generations that nobody remembers any more are used again.
Fresh ==
    CHOOSE r \in Rows :
        r # index.rows /\ \A p \in Publishers : r # pub[p].rows /\ r # pub[p].since

\* The documents of a directory are listed anew, and none has its text.
Indexed(dir) ==
    /\ index' = [tree |-> Tree(dir), rows |-> Fresh] \/ (dir \in Folders /\ index' = NoRows)
    /\ text' = NoText

\* A sync goes on to index the documents before anyone else runs, and to extract the small ones.
\* When it cannot list them, the old rows stay.
AfterSync(p) ==
    \/ /\ index' = [tree |-> pub[p].key[1], rows |-> Fresh] /\ text' = NoText
       /\ pub' = [pub EXCEPT ![p] =
                     IF Pdfs = {} THEN Idle
                     ELSE [Idle EXCEPT !.at = "extracting", !.kind = pub[p].kind,
                                       !.todo = Small, !.rows = Fresh, !.since = Fresh]]
    \/ /\ pub' = [pub EXCEPT ![p] = Idle]
       /\ UNCHANGED docs

\* Record, activate and mark current in one transaction.  An upload's handler indexes when its
\* own await has returned.
Activate(p) ==
    /\ pub[p].at \in {"held", "ready"} /\ present
    /\ AlreadyActive(p) \/ Unchanged(p)
    /\ recorded' = recorded \cup {pub[p].key}
    /\ active' = pub[p].key /\ path' = pub[p].key
    /\ moved' = FALSE
    /\ IF pub[p].kind = "manifest"
       THEN cutover' = TRUE /\ UNCHANGED <<required, origin>>
       ELSE required' = FALSE /\ origin' = pub[p].seen.identity /\ UNCHANGED cutover
    /\ holders' = Released(p)
    /\ CASE IsSync(pub[p].kind) -> AfterSync(p)
         [] pub[p].kind = "upload" ->
                pub' = [pub EXCEPT ![p] = [Idle EXCEPT !.at = "indexing", !.kind = "upload",
                                                       !.key = pub[p].key]]
                /\ UNCHANGED docs
         [] OTHER -> pub' = [pub EXCEPT ![p] = Idle] /\ UNCHANGED docs
    /\ UNCHANGED <<present, identity, disk>>

\* Mutant: the recorded revisions are not looked at.
RemovesUnheld(p) ==
    /\ pub[p].created
    /\ holders[pub[p].key] \subseteq {p}

\* Only its creator removes a directory, if nobody else holds it and no revision names it.
Removes(p) ==
    /\ pub[p].created
    /\ holders[pub[p].key] \subseteq {p}
    /\ pub[p].key \notin recorded

\* The transaction is rolled back: the Source has changed, or a statement failed.  The removal
\* may fail in its turn, before it begins or halfway.
Refuse(p) ==
    /\ pub[p].at \in {"held", "ready"}
    /\ Fail(p)
    /\ \/ Removes(p) /\ \E left \in {"absent", "broken"} : disk' = [disk EXCEPT ![pub[p].key] = left]
       \/ UNCHANGED disk

\* Mutant: an upload indexes its own tree, active or not.
IndexOwnTree(p) ==
    /\ pub[p].at = "indexing"
    /\ index' = [tree |-> pub[p].key[1], rows |-> Fresh] /\ text' = NoText
    /\ pub' = [pub EXCEPT ![p] = Idle]
    /\ UNCHANGED <<row, disk, holders>>

\* Another revision may be active by now; then the index is not this upload's to write.  Where
\* local_path points by now does not matter.
IndexUpload(p) ==
    /\ pub[p].at = "indexing"
    /\ IF active = pub[p].key
       THEN Indexed(active) \/ (index' = NoRows /\ text' = NoText)     \* cleared when it fails
       ELSE UNCHANGED docs
    /\ pub' = [pub EXCEPT ![p] = Idle]
    /\ UNCHANGED <<row, disk, holders>>

\* Listing the documents of a Source whose index is empty fills it.
ServeDocs ==
    /\ present /\ index = NoRows /\ Pdfs # {} /\ path # None
    /\ Indexed(path)
    /\ UNCHANGED <<row, disk, holders, pub>>

Pending(D) == {d \in D : index.rows # None /\ text[d] = None}

\* A job extracts what is pending, a request the document it serves.
StartExtract(p) ==
    /\ "extract" \in Kinds /\ present /\ pub[p].at = "idle" /\ path # None
    /\ \E D \in {Pending(Pdfs)} \cup {{d} : d \in Pdfs} :
          pub' = [pub EXCEPT ![p] = [Idle EXCEPT !.at = "extracting", !.kind = "extract", !.todo = D,
                                                 !.rows = index.rows, !.since = index.rows]]
    /\ UNCHANGED <<row, disk, holders, docs>>

\* Mutant: the row is found by its path alone.
ExtractByPath(p) ==
    /\ pub[p].at \in {"extracting", "inlining"}
    /\ \E d \in pub[p].todo :
          /\ pub' = [pub EXCEPT ![p].todo = @ \ {d}]
          /\ text' = IF index = NoRows THEN text ELSE [text EXCEPT ![d] = pub[p].since]
    /\ UNCHANGED <<row, disk, holders, index>>

\* The text of one document arrives; it is recorded if the listed row is still there.
Extract(p) ==
    /\ pub[p].at \in {"extracting", "inlining"}
    /\ \E d \in pub[p].todo :
          /\ pub' = [pub EXCEPT ![p].todo = @ \ {d}]
          /\ \/ /\ index.rows = pub[p].rows /\ index.rows # None
                /\ text' = [text EXCEPT ![d] = pub[p].since]
             \/ UNCHANGED text      \* another row, or no text
    /\ UNCHANGED <<row, disk, holders, index>>

\* A sync that enqueues no job for the large documents lists them itself, after the small ones.
ListLarge(p) ==
    /\ pub[p].at = "extracting" /\ pub[p].todo = {}
    /\ pub[p].kind = "watch" /\ Large # {}
    /\ pub' = [pub EXCEPT ![p].at = "inlining", ![p].todo = Pending(Large), ![p].rows = index.rows]
    /\ UNCHANGED <<row, disk, holders, docs>>

Extracted(p) ==
    /\ pub[p].at \in {"extracting", "inlining"} /\ pub[p].todo = {}
    /\ pub[p].at = "extracting" => pub[p].kind # "watch" \/ Large = {}
    /\ pub' = [pub EXCEPT ![p] = Idle]
    /\ UNCHANGED <<row, disk, holders, docs>>

-----------------------------------------------------------------------------
(* The Source itself.                                                         *)

\* The sync of a Source without a remote: index what is there and call it current.
SyncLocal ==
    /\ present /\ identity \notin Remote
    /\ \/ /\ IF path # None THEN Indexed(path) ELSE UNCHANGED docs
          /\ required' = FALSE /\ moved' = TRUE
       \/ required' = TRUE /\ UNCHANGED <<docs, moved>>     \* it cannot be read
    /\ UNCHANGED <<present, identity, active, path, cutover, recorded, origin, disk, holders, pub>>

\* A new identity asks for a sync; a new local_path leaves the revision and the request alone.
EditSource ==
    /\ present
    /\ identity' \in Identities
    /\ path' = path \/ (<<path, recorded, index>> \in Leaves /\ path' \in Folders)
    /\ required' = (required \/ identity' # identity)
    /\ UNCHANGED <<present, active, cutover, moved, recorded, origin, disk, holders, docs, pub>>

\* A Source with revisions is kept.
Delete ==
    /\ present /\ recorded = {}
    /\ present' = FALSE
    /\ index' = NoRows /\ text' = NoText
    /\ UNCHANGED <<identity, required, active, path, cutover, moved, recorded, origin, disk, holders, pub>>

\* A hosted server then removes the directories, whoever holds them.
RemoveTree ==
    /\ ~ present
    /\ disk' = [k \in Key |-> "absent"]
    /\ UNCHANGED <<row, holders, docs, pub>>

Lost ==
    /\ pub' = [p \in Publishers |-> Idle]
    /\ holders' = [k \in Key |-> {}]
    /\ UNCHANGED <<row, docs>>

\* The process dies; what is held and under way is in its memory.
Crash == Lost /\ UNCHANGED disk

\* It dies while a directory is being removed.
CrashInRemoval(p) ==
    /\ pub[p].at = "held" /\ Removes(p)
    /\ disk' = [disk EXCEPT ![pub[p].key] = "broken"]
    /\ Lost

Next ==
    \/ \E p \in Publishers :
          \/ Start(p) \/ Claim(p) \/ Look(p) \/ Missing(p) \/ Reuse(p) \/ Rename(p) \/ Promote(p)
          \/ GiveUp(p) \/ Activate(p) \/ Refuse(p) \/ IndexUpload(p)
          \/ StartExtract(p) \/ Extract(p) \/ ListLarge(p) \/ Extracted(p) \/ CrashInRemoval(p)
    \/ ServeDocs \/ SyncLocal \/ EditSource \/ Delete \/ RemoveTree \/ Crash

Spec == Init /\ [][Next]_vars

-----------------------------------------------------------------------------
(* Properties.                                                                *)

\* A snapshot that a revision names is never removed or damaged, whichever publishers of the same
\* content fail, are rolled back or die (releaseUnreferencedSnapshot, deleteSource).
RecordedIsOnDisk == \A k \in recorded : disk[k] = "whole"

\* The active revision of a Source that is synced from a remote and does not ask for a sync was
\* published for its present url, branch and tag: an edit during a publication is not
\* overlooked, and neither is the request for a sync that it left.
FlagTellsOrigin ==
    present /\ identity \in Remote /\ active # None /\ ~ required => origin = identity

\* Whoever rewrites the index lists the revision that is active then, or the directory that
\* local_path names then, where a user has moved it: never a revision that was superseded, nor a
\* folder that was left, while its publisher waited.
IndexFollowsActive ==
    [][index'.rows # index.rows /\ index' # NoRows
         => index'.tree \in {Tree(active'), Tree(path')}]_vars

\* Documents that a watcher's sync lists again after an await, and reads from the directory of the
\* revision it activated before.
ListedLate(d) == d \in Large /\ "watch" \in Kinds

\* The text recorded for any other document comes from a directory that was chosen when its row
\* was there: a late extraction does not answer for a row that has replaced its own.
TextOfItsRow ==
    \A d \in Pdfs : text[d] # None /\ ~ ListedLate(d) => text[d] = index.rows
=============================================================================
