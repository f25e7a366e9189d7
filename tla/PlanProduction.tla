--------------------------- MODULE PlanProduction ---------------------------
(***************************************************************************)
(* Production against the accepted Plan: the Checkoff links that say which *)
(* Required units a printer file makes, the sends whose rows and jobs      *)
(* carry such units, the host status that advances the links, the          *)
(* operator's verification, and publication, which gives every part a new  *)
(* id and has to carry the units of unfinished production along.           *)
(*                                                                         *)
(* A unit of a link or a send is stored as a coordinate, a part id and an  *)
(* index.  A part id is the part key and the version that inserted its     *)
(* row: ids are never used again.  Next to each coordinate the model keeps *)
(* the token of the unit the operator meant, which the code does not have. *)
(***************************************************************************)
EXTENDS AcceptedPlan

CONSTANTS
    Links,      \* the Checkoff links that may be created
    Sends,      \* the sends that may be made, with a queue row or without
    Files,
    FileOf,     \* the printer file of each link and send
    MaxUnits    \* bound on the units that each link or send is given

ASSUME ProductionAssumption ==
    /\ FileOf \in [Links \cup Sends -> Files]
    /\ MaxUnits \in [Links \cup Sends -> Nat]
    /\ None \notin Files

VARIABLES
    links,      \* printer.checkoff_links
    sends       \* printer.send_queue and the upload jobs

vars == <<planVars, links, sends>>

PartIds == (1 .. MaxVersion) \X Parts
StoredUnits == [at : PartIds \X (1 .. MaxCount), meant : Tokens]

\* seen: saw_active and whether last_progress reached 99.  late: the link's upload was
\* overtaken by a publication (for the properties only).
LinkRecords == [state : {"absent", "watching", "awaiting_verify", "verified",
                         "host_failed", "dismissed"},
                units : SUBSET StoredUnits, resolved : SUBSET (PartIds \X (1 .. MaxCount)),
                seen : {"no", "active", "near"}, started : BOOLEAN, late : BOOLEAN]
NoLink == [state |-> "absent", units |-> {}, resolved |-> {}, seen |-> "no",
           started |-> FALSE, late |-> FALSE]

\* payload: the units a running upload job was started with.  overtaken: a publication has
\* happened since (for the properties only).
SendRecords == [row : {"none", "queued", "sending", "done", "error", "cancelled"},
                units : SUBSET StoredUnits, flying : BOOLEAN,
                payload : SUBSET StoredUnits, overtaken : BOOLEAN]
NoSend == [row |-> "none", units |-> {}, flying |-> FALSE, payload |-> {}, overtaken |-> FALSE]

Init ==
    /\ PlanInit
    /\ links = [l \in Links |-> NoLink]
    /\ sends = [s \in Sends |-> NoSend]

-----------------------------------------------------------------------------
(* Coordinates.                                                            *)

At(c) == <<<<version, c[1]>>, c[2]>>
Stored(c) == [at |-> At(c), meant |-> UnitAt(c).token]

\* The place in the accepted Plan that a coordinate names, if its part id is a current one.
PlaceOf(at) == <<at[1][2], at[2]>>
Resolves(at) == at[1][1] = version /\ PlaceOf(at) \in Accepted

Active(l) == links[l].state \in {"watching", "awaiting_verify"}
Waiting(s) == sends[s].row \in {"queued", "sending", "error"}
Pending(l) == {u.at : u \in links[l].units} \ links[l].resolved

\* Units that a fresh attribution may name: required and not printed.
Available == {c \in Required : ~UnitAt(c).printed}
Choices(x) == {S \in SUBSET Available : Cardinality(S) <= MaxUnits[x]}

-----------------------------------------------------------------------------
(* Links.                                                                  *)

AlreadyLinked(f) == \E l \in Links : Active(l) /\ FileOf[l] = f

\* The operator assigns a file or claims a print, or a poll sees a file printing that no
\* link watches.  completed: the print is over, so the link waits for verification at once.
Attribute(l, S, completed) ==
    /\ links[l].state = "absent"
    /\ ~AlreadyLinked(FileOf[l])
    /\ S \in Choices(l)
    /\ links' = [links EXCEPT ![l] =
            [NoLink EXCEPT !.state = IF completed THEN "awaiting_verify" ELSE "watching",
                           !.units = {Stored(c) : c \in S}]]
    /\ UNCHANGED <<planVars, sends>>

\* A link without units is attributed again from its object names.
Repair(l, S) ==
    /\ links[l].state = "awaiting_verify" /\ links[l].units = {}
    /\ S \in Choices(l) /\ S # {}
    /\ links' = [links EXCEPT ![l].units = {Stored(c) : c \in S}]
    /\ UNCHANGED <<planVars, sends>>

\* What a poll of the host may report: the file is None when the host names none, and near
\* says that a print's progress is 99 or more.
Statuses == [state : {"printing"}, file : Files, near : BOOLEAN]
                \cup [state : {"complete", "error"}, file : Files \cup {None}, near : {FALSE}]
                \cup [state : {"idle", "offline"}, file : {None}, near : {FALSE}]

\* Mutant: links are advanced whatever their state.
AnyLink(l) == links[l].state # "absent"

Watching(l) == links[l].state = "watching"

MarkActive(link, near) ==
    [link EXCEPT !.seen = IF near \/ link.seen = "near" THEN "near" ELSE "active"]

\* What was seen of the print is read only while it is watched.
Ended(link, state) == [link EXCEPT !.state = state, !.seen = "no", !.started = FALSE]

\* Also what the operator does for a printer without a host.
AwaitVerify(link) == Ended(link, "awaiting_verify")

\* How a link advances.  An idle host ends a print it was seen to make: well if the last
\* progress was near the end, since a brief completion may have been missed.
Advanced(l, st) ==
    LET link == links[l]
        matches == st.file = FileOf[l]
    IN  CASE st.state = "printing" /\ matches -> MarkActive(link, st.near)
          [] st.state = "complete" /\ matches -> AwaitVerify(link)
          [] st.state = "complete" /\ st.file = None /\ (link.seen # "no" \/ link.started)
                -> AwaitVerify(link)
          [] st.state = "error" /\ (matches \/ link.seen # "no")
                -> Ended(link, "host_failed")
          [] st.state = "idle" /\ link.seen = "near" -> AwaitVerify(link)
          [] st.state = "idle" /\ link.seen = "active"
                -> Ended(link, "host_failed")
          [] OTHER -> link

\* A poll has awaited the status and now reads the links.  stale: the links older than two
\* days; those the host was never seen to print are given up.
Poll(st, stale) ==
    /\ links' = [l \in Links |->
            IF ~Watching(l) THEN links[l]
            ELSE IF l \in stale /\ links[l].seen = "no" /\ st.state \in {"idle", "offline"}
            THEN Ended(links[l], "dismissed")
            ELSE Advanced(l, st)]
    /\ links' # links
    /\ UNCHANGED <<planVars, sends>>

Dismiss(l) ==
    /\ links[l].state = "host_failed"
    /\ links' = [links EXCEPT ![l].state = "dismissed"]
    /\ UNCHANGED <<planVars, sends>>

\* The operator confirms and rejects pending units of a finished print.  All units of the
\* link, decided or not, have to be in the accepted Plan.
Verify(l, yes, no) ==
    LET decided == links[l].resolved \cup yes \cup no
    IN  /\ links[l].state = "awaiting_verify"
        /\ yes \cup no # {} /\ yes \cap no = {}
        /\ yes \cup no \subseteq Pending(l)
        /\ \A u \in links[l].units : Resolves(u.at)
        /\ ConfirmUnits({PlaceOf(at) : at \in yes})
        /\ links' = [links EXCEPT ![l].resolved = decided,
                ![l].state = IF {u.at : u \in links[l].units} \subseteq decided
                             THEN "verified" ELSE "awaiting_verify"]
        /\ UNCHANGED sends

-----------------------------------------------------------------------------
(* Sends.  The queue's own rules are those of NodeSendQueue.               *)

Enqueue(s, S) ==
    /\ sends[s] = NoSend
    /\ S \in Choices(s)
    /\ sends' = [sends EXCEPT ![s].row = "queued", ![s].units = {Stored(c) : c \in S}]
    /\ UNCHANGED <<planVars, links>>

\* The job takes the row's units with it.
Dispatch(s) ==
    /\ sends[s].row \in {"queued", "error"} /\ ~sends[s].flying
    /\ sends' = [sends EXCEPT ![s].row = "sending", ![s].flying = TRUE,
                              ![s].payload = sends[s].units, ![s].overtaken = FALSE]
    /\ UNCHANGED <<planVars, links>>

\* A one-shot upload has no row.
Upload(s, S) ==
    /\ sends[s] = NoSend
    /\ S \in Choices(s)
    /\ sends' = [sends EXCEPT ![s].flying = TRUE, ![s].payload = {Stored(c) : c \in S}]
    /\ UNCHANGED <<planVars, links>>

\* The host has the file: the link is created from the job's units as they were at its start.
UploadReturns(s, l, started) ==
    /\ sends[s].flying
    /\ links[l].state = "absent" /\ FileOf[l] = FileOf[s]
    /\ links' = [links EXCEPT ![l] =
            [NoLink EXCEPT !.state = "watching", !.units = sends[s].payload,
                           !.started = started, !.late = sends[s].overtaken]]
    /\ sends' = [sends EXCEPT ![s].flying = FALSE, ![s].payload = {}, ![s].overtaken = FALSE,
                              ![s].row = IF @ = "sending" THEN "done" ELSE "none"]
    /\ UNCHANGED planVars

UploadFails(s) ==
    /\ sends[s].flying
    /\ sends' = [sends EXCEPT ![s].flying = FALSE, ![s].payload = {}, ![s].overtaken = FALSE,
                              ![s].row = IF @ = "sending" THEN "error" ELSE "none"]
    /\ UNCHANGED <<planVars, links>>

Cancel(s) ==
    /\ sends[s].row \in {"queued", "error"}
    /\ sends' = [sends EXCEPT ![s].row = "cancelled"]
    /\ UNCHANGED <<planVars, links>>

-----------------------------------------------------------------------------
(* Publication.                                                            *)

\* Mutant: links that wait for verification are taken to be finished production.
WatchingOnly == \/ \E l \in Links : links[l].state = "watching"
                \/ \E s \in Sends : Waiting(s)

ProductionActive == (\E l \in Links : Active(l)) \/ (\E s \in Sends : Waiting(s))

\* The coordinates of every stored link and row, finished ones too.
RowUnits == UNION {sends[s].units : s \in Sends}
LinkUnits == UNION {links[l].units : l \in Links}
StoredCoordinates == {u.at : u \in LinkUnits \cup RowUnits} \cup UNION {links[l].resolved : l \in Links}

\* Where the draft puts a unit of the accepted Plan, if it keeps it in an included part.
NewPlaces(d, c) ==
    {k \in Coordinates :
        /\ k[1] \in PublishedIncluded(d)
        /\ k[2] \in DOMAIN Published(d)[k[1]]
        /\ Published(d)[k[1]][k[2]].token = UnitAt(c).token}

\* A stored coordinate has a current part id, its part key is in the new Plan with enough
\* units, and the unit it names is kept and included.
Carried(d, at) ==
    /\ Resolves(at)
    /\ at[2] <= d.edit[PlaceOf(at)[1]].count
    /\ NewPlaces(d, PlaceOf(at)) # {}
RemapSafe(d) == \A at \in StoredCoordinates : Carried(d, at)

\* Mutant: the index is kept.
SameIndex(d, at) == <<<<version + 1, at[1][2]>>, at[2]>>

\* The unit is followed, not the index.
Remapped(d, at) ==
    LET k == CHOOSE k \in NewPlaces(d, PlaceOf(at)) : TRUE
    IN  <<<<version + 1, k[1]>>, k[2]>>

RemapUnits(d, U) == {[u EXCEPT !.at = Remapped(d, u.at)] : u \in U}

RemapLink(d, link) ==
    [link EXCEPT !.units = RemapUnits(d, @), !.resolved = {Remapped(d, at) : at \in @}]

Overtake(send) == [send EXCEPT !.overtaken = send.flying]

\* Without unfinished production nothing is carried along.
PublishIdle ==
    /\ ~ProductionActive
    /\ Publish
    /\ sends' = [s \in Sends |-> Overtake(sends[s])]
    /\ UNCHANGED links

\* With it the operator must ask for the remap, and every stored unit must have a new place.
\* The units of running jobs are not touched.
PublishRemapped ==
    /\ ProductionActive
    /\ Publish
    /\ RemapSafe(draft)
    /\ links' = [l \in Links |-> RemapLink(draft, links[l])]
    /\ sends' = [s \in Sends |->
            Overtake([sends[s] EXCEPT !.units = RemapUnits(draft, @)])]

LinkStep ==
    \E l \in Links :
        \/ \E S \in Choices(l) : Repair(l, S) \/ \E b \in BOOLEAN : Attribute(l, S, b)
        \/ \E yes \in SUBSET Pending(l), no \in SUBSET Pending(l) : Verify(l, yes, no)
        \/ Dismiss(l)

HostStep == \E st \in Statuses, stale \in SUBSET Links : Poll(st, stale)

SendStep ==
    \E s \in Sends :
        \/ \E S \in Choices(s) : Enqueue(s, S) \/ Upload(s, S)
        \/ Dispatch(s) \/ UploadFails(s) \/ Cancel(s)
        \/ \E l \in Links, b \in BOOLEAN : UploadReturns(s, l, b)

\* Progress is the Build's, so its other commands run beside production.
PlanStep == (ProgressStep \/ DraftStep \/ Archive) /\ UNCHANGED <<links, sends>>

Next == PlanStep \/ LinkStep \/ HostStep \/ SendStep \/ PublishIdle \/ PublishRemapped

Spec == Init /\ [][Next]_vars

-----------------------------------------------------------------------------
(* Properties.                                                             *)

\* The links, the rows and the jobs hold only what their commands may write.
TypeOK ==
    /\ PlanTypeOK
    /\ \A l \in Links : links[l] \in LinkRecords
    /\ \A s \in Sends : sends[s] \in SendRecords

\* A coordinate of unfinished production that is in the accepted Plan names the unit the
\* operator meant, however often publications have moved that unit to another index or part:
\* confirming it marks no other unit printed.
UnitsFollow ==
    /\ \A l \in Links : Active(l) =>
        \A u \in links[l].units : Resolves(u.at) => UnitAt(PlaceOf(u.at)).token = u.meant
    /\ \A s \in Sends : Waiting(s) =>
        \A u \in sends[s].units : Resolves(u.at) => UnitAt(PlaceOf(u.at)).token = u.meant

\* No publication leaves a coordinate of unfinished production behind, except those of an
\* upload that was under way.
OnlyUploadsAreLeftBehind ==
    /\ \A l \in Links : Active(l) /\ ~links[l].late => \A u \in links[l].units : Resolves(u.at)
    /\ \A s \in Sends : Waiting(s) => \A u \in sends[s].units : Resolves(u.at)

\* A print has one outcome: polls that overlap a verification, a dismissal or another poll
\* never bring a link back that has ended or wait for a verification again.
OneOutcome ==
    [][\A l \in Links :
        LET old == links[l].state
            new == links'[l].state
        IN  \/ new = old
            \/ old = "absent" /\ new \in {"watching", "awaiting_verify"}
            \/ old = "watching" /\ new \in {"awaiting_verify", "host_failed", "dismissed"}
            \/ old = "awaiting_verify" /\ new = "verified"
            \/ old = "host_failed" /\ new = "dismissed"
      ]_vars

\* A Required unit that publications keep in the Plan is still the one that unfinished
\* production of it names.
KeptUnitsFollow ==
    \A l \in Links : Active(l) => \A u \in links[l].units :
        (\E c \in Required : UnitAt(c).token = u.meant)
            => Resolves(u.at) /\ UnitAt(PlaceOf(u.at)).token = u.meant
=============================================================================
