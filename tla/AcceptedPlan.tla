---------------------------- MODULE AcceptedPlan ----------------------------
(***************************************************************************)
(* The accepted Plan of one Build on the Node server: its Parts, the       *)
(* Required units of each Part with their Progress, the Progress commands, *)
(* archiving, and the publication of a draft whose units have been         *)
(* reconciled with the accepted ones.                                      *)
(*                                                                         *)
(* Every command is one SQLite transaction that reads the accepted Plan    *)
(* and compares it with the basis the client names, so a command is one    *)
(* action.  A draft is reconciled in one request and published in a later  *)
(* one: Progress may change between the two.  Units are numbered from 1    *)
(* where the code numbers them from 0.                                     *)
(***************************************************************************)
EXTENDS Integers, Sequences, FiniteSets

CONSTANTS
    Parts,          \* the part keys
    MaxCount,       \* bound on the units of a part
    MaxVersion,     \* bound on Plan versions
    FirstCounts,    \* the units of each part at version 1
    Edits,          \* the plans a draft may ask for
    None

\* What a draft asks of one part.  count 0: the part is not in the draft.  from: the
\* accepted part it continues, or None when it is new or replaced.  accept: the operator
\* lets an inexact predecessor pass on its printed units only.
Targets == [count : 0 .. MaxCount, included : BOOLEAN,
            from : Parts \cup {None}, accept : BOOLEAN]

ASSUME PlanAssumption ==
    /\ MaxCount \in Nat /\ MaxVersion \in Nat \ {0}
    /\ FirstCounts \in [Parts -> 0 .. MaxCount]
    /\ Edits \subseteq [Parts -> Targets]
    /\ None \notin Parts

VARIABLES
    version,    \* build_profiles.accepted_plan_version
    plan,       \* the units of each part, <<>> for a part that is not in the Plan
    included,   \* the parts that are included
    archived,   \* archived_at is set
    draft       \* the open draft and its saved reconciliation, or None

planVars == <<version, plan, included, archived, draft>>

\* A token names the publication that created the unit; it is never given again.
Tokens == (1 .. MaxVersion) \X Parts \X (1 .. MaxCount)
Units == [token : Tokens, printed : BOOLEAN, assembled : BOOLEAN]
UnitLists == UNION {[1 .. n -> Units] : n \in 0 .. MaxCount}

NewToken(v, p, i) == <<v, p, i>>

NewUnit(v, p, i) == [token |-> NewToken(v, p, i), printed |-> FALSE, assembled |-> FALSE]

PlanInit ==
    /\ version = 1
    /\ plan = [p \in Parts |-> [i \in 1 .. FirstCounts[p] |-> NewUnit(1, p, i)]]
    /\ included = {p \in Parts : FirstCounts[p] > 0}
    /\ archived = FALSE
    /\ draft = None

-----------------------------------------------------------------------------
(* Progress commands.  All are refused for an archived Build.              *)

\* Mutant: marks the named unit only.
MarkedAlone(units, i) == [units EXCEPT ![i].printed = TRUE]

\* Marking a unit printed marks every lower one too.
MarkedUpTo(units, i) ==
    [k \in DOMAIN units |-> IF k <= i THEN [units[k] EXCEPT !.printed = TRUE] ELSE units[k]]

\* Clearing a unit clears every higher one too, with its assembled mark.
ClearedFrom(units, i) ==
    [k \in DOMAIN units |->
        IF k >= i THEN [units[k] EXCEPT !.printed = FALSE, !.assembled = FALSE] ELSE units[k]]

Unarchived == ~archived

SetCompletion(p, i, completed) ==
    /\ Unarchived
    /\ plan' = [plan EXCEPT ![p] = IF completed THEN MarkedUpTo(@, i) ELSE ClearedFrom(@, i)]
    /\ UNCHANGED <<version, included, archived, draft>>

\* The part's printed units become its first n; an import may name several parts at once,
\* which is a sequence of these.
SetPrintedCount(p, n) ==
    /\ Unarchived
    /\ plan' = [plan EXCEPT ![p] = ClearedFrom(MarkedUpTo(@, n), n + 1)]
    /\ UNCHANGED <<version, included, archived, draft>>

\* Asking to assemble a unit that is not printed changes nothing.
SetAssembly(p, i, assembled) ==
    /\ Unarchived
    /\ assembled => plan[p][i].printed
    /\ plan' = [plan EXCEPT ![p][i].assembled = assembled]
    /\ UNCHANGED <<version, included, archived, draft>>

\* Progress fills from the left: below the highest confirmed unit of a part every unit is
\* printed or confirmed too.
FillsFromLeft(p, S) ==
    \A i \in DOMAIN plan[p], j \in DOMAIN plan[p] :
        i < j /\ <<p, j>> \in S => plan[p][i].printed \/ <<p, i>> \in S

\* Confirms the units S, pairs of a part and an index.
ConfirmUnits(S) ==
    /\ Unarchived
    /\ \A p \in Parts : FillsFromLeft(p, S)
    /\ plan' = [p \in Parts |-> [i \in DOMAIN plan[p] |->
            IF <<p, i>> \in S THEN [plan[p][i] EXCEPT !.printed = TRUE] ELSE plan[p][i]]]
    /\ UNCHANGED <<version, included, archived, draft>>

Coordinates == {<<p, i>> : p \in Parts, i \in 1 .. MaxCount}
Accepted == {c \in Coordinates : c[2] \in DOMAIN plan[c[1]]}
Required == {c \in Accepted : c[1] \in included}
UnitAt(c) == plan[c[1]][c[2]]

\* Only a Build whose included units are all printed is archived.
Archive ==
    /\ ~archived
    /\ Required # {}
    /\ \A c \in Required : UnitAt(c).printed
    /\ archived' = TRUE
    /\ UNCHANGED <<version, plan, included, draft>>

-----------------------------------------------------------------------------
(* Reconciliation and publication.                                         *)

\* The seats of a target part: for each of its units the predecessor's unit it continues,
\* or 0 for a new one.  Continued units keep their order and come first.
Seatings(n) ==
    {s \in [1 .. n -> 0 .. MaxCount] :
        \A i \in 1 .. n, j \in 1 .. n : i < j /\ s[j] # 0 => s[i] # 0 /\ s[i] < s[j]}
Continued(s) == {s[i] : i \in DOMAIN s} \ {0}

\* Printed units are kept first, then older ones; equally old ones are ordered by token,
\* which is random.
Preferred(u, w) == \/ u.printed /\ ~w.printed
                   \/ u.printed = w.printed /\ u.token[1] < w.token[1]

\* The seatings that keep as many of the candidate units as there is room for.
Selections(n, units, candidates) ==
    {s \in Seatings(n) :
        /\ Continued(s) \subseteq candidates
        /\ \A i \in Continued(s), j \in candidates \ Continued(s) :
                ~Preferred(units[j], units[i])
        /\ Continued(s) = candidates \/ Cardinality(Continued(s)) = n}

\* The units a target continues, whatever their seats.
Candidates(t, units) ==
    IF t.accept THEN {i \in DOMAIN units : units[i].printed} ELSE DOMAIN units

SeatingsOf(t) ==
    IF t.from = None THEN {[i \in 1 .. t.count |-> 0]}
    ELSE Selections(t.count, plan[t.from], Candidates(t, plan[t.from]))

\* The selection looked at the Progress of the predecessor's units.
Selective(t) ==
    t.from # None /\ (t.accept \/ t.count < Len(plan[t.from]))

\* Each accepted part is continued at most once: a second claim is a conflict the
\* operator has to resolve first.
ClaimedOnce(e) == \A p \in Parts, q \in Parts :
                    p # q /\ e[p].from # None => e[p].from # e[q].from

\* The operator saves a reconciliation of the draft with the accepted Plan.  (No draft is
\* reconciled at the last version, which cannot be followed by another.)
SaveReconciliation(e, seats) ==
    /\ version < MaxVersion
    /\ ClaimedOnce(e)
    /\ \A p \in Parts : e[p].from # None => plan[e[p].from] # <<>>
    /\ draft' = [base |-> version, edit |-> e, seats |-> seats,
                 basis |-> [p \in Parts |->
                    IF Selective(e[p]) THEN plan[e[p].from] ELSE <<>>]]
    /\ UNCHANGED <<version, plan, included, archived>>

\* An edit or a discarded draft takes its reconciliation away.
DropReconciliation ==
    /\ draft # None
    /\ draft' = None
    /\ UNCHANGED <<version, plan, included, archived>>

\* Mutant: an old selection is published.
AnyBasis(d) == TRUE

\* No Progress the selection looked at has changed since.
BasisHolds(d) ==
    \A p \in Parts : d.basis[p] # <<>> => d.basis[p] = plan[d.edit[p].from]

\* The published units carry the Progress the accepted ones have now.
Published(d) ==
    [p \in Parts |-> [i \in 1 .. d.edit[p].count |->
        IF d.seats[p][i] = 0 THEN NewUnit(version + 1, p, i)
        ELSE plan[d.edit[p].from][d.seats[p][i]]]]

PublishedIncluded(d) == {p \in Parts : d.edit[p].count > 0 /\ d.edit[p].included}

Publish ==
    /\ draft # None /\ ~archived
    /\ draft.base = version /\ version < MaxVersion
    /\ BasisHolds(draft)
    /\ plan' = Published(draft)
    /\ included' = PublishedIncluded(draft)
    /\ version' = version + 1
    /\ draft' = None
    /\ UNCHANGED archived

ProgressStep ==
    \/ \E c \in Accepted, b \in BOOLEAN : SetCompletion(c[1], c[2], b) \/ SetAssembly(c[1], c[2], b)
    \/ \E p \in Parts : \E n \in 0 .. Len(plan[p]) : plan[p] # <<>> /\ SetPrintedCount(p, n)

DraftStep ==
    \/ \E e \in Edits : \E seats \in [Parts -> UNION {SeatingsOf(e[p]) : p \in Parts}] :
        /\ \A p \in Parts : seats[p] \in SeatingsOf(e[p])
        /\ SaveReconciliation(e, seats)
    \/ DropReconciliation

PlanNext == ProgressStep \/ DraftStep \/ Archive \/ Publish
            \/ \E S \in SUBSET Accepted : ConfirmUnits(S)

PlanSpec == PlanInit /\ [][PlanNext]_planVars

-----------------------------------------------------------------------------
(* Properties.                                                             *)

\* The accepted Plan holds only what its commands may write.
PlanTypeOK ==
    /\ version \in 1 .. MaxVersion
    /\ plan \in [Parts -> UnitLists]
    /\ included \subseteq Parts
    /\ archived \in BOOLEAN

\* The printed units of a part are its first ones, whichever commands and publications
\* produced them: verification relies on it, and counts stand for sets of units.
PrintedIsPrefix ==
    \A p \in Parts : \A i \in DOMAIN plan[p], j \in DOMAIN plan[p] :
        i < j /\ plan[p][j].printed => plan[p][i].printed

\* No unit is assembled that is not printed (the publication throws on such a base).
AssembledIsPrinted ==
    \A p \in Parts : \A i \in DOMAIN plan[p] : plan[p][i].assembled => plan[p][i].printed

\* A Required unit has one place in the accepted Plan, after any number of publications
\* that shrink, rename, replace and bring back parts.
TokensUnique ==
    \A c \in Accepted, d \in Accepted : UnitAt(c).token = UnitAt(d).token => c = d

Places(t) == {c \in Accepted : UnitAt(c).token = t}
TokensIn(p) == {plan[p][i].token : i \in DOMAIN plan[p]}

\* Publication carries Progress: a unit that stays keeps it, and where a part loses units
\* while others of it stay, no printed one is lost for an unprinted one, however old the
\* operator's view of Progress was when the draft was reconciled.
PublicationKeepsProgress ==
    [][version' # version =>
        \A p \in Parts : \A i \in DOMAIN plan[p] :
            LET kept == {k \in Parts \X (1 .. MaxCount) :
                            /\ k[2] \in DOMAIN plan'[k[1]]
                            /\ plan'[k[1]][k[2]].token \in TokensIn(p)}
            IN  \/ \E k \in kept : plan'[k[1]][k[2]] = plan[p][i]
                \/ /\ \A k \in kept : plan'[k[1]][k[2]].token # plan[p][i].token
                   /\ plan[p][i].printed =>
                        \A k \in kept : plan'[k[1]][k[2]].printed
      ]_planVars
=============================================================================
