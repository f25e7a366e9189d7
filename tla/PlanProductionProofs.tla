------------------------ MODULE PlanProductionProofs ------------------------
(***************************************************************************)
(* Proofs about the accepted Plan of one Build and about Production, for   *)
(* any parts, counts, drafts, links and sends.                             *)
(*                                                                         *)
(* First AcceptedPlan: its inductive invariant says what a saved           *)
(* reconciliation is relative to the accepted Plan it was made for: its    *)
(* continued units exist, keep their order, come first, and belong to      *)
(* parts claimed once.                                                     *)
(*                                                                         *)
(* Then PlanProduction, a refinement of the accepted Plan, whose           *)
(* coordinates follow the units they were meant for.  The inductive        *)
(* invariant is about every stored coordinate, those of ended links and of *)
(* running uploads included: none is of a later version, and one that is   *)
(* in the accepted Plan names the unit it means.                           *)
(***************************************************************************)
EXTENDS PlanProduction, FiniteSetTheorems, TLAPS

\* The seats of a draft part.
SeatsOK(d, p) ==
    LET t == d.edit[p] IN
    /\ d.seats[p] \in Seatings(t.count)
    /\ t.from = None => \A i \in 1 .. t.count : d.seats[p][i] = 0
    /\ t.from # None => \A i \in 1 .. t.count :
                            d.seats[p][i] # 0 => d.seats[p][i] \in DOMAIN plan[t.from]

DraftOK ==
    draft # None =>
        /\ draft.edit \in [Parts -> Targets]
        /\ ClaimedOnce(draft.edit)
        /\ \A p \in Parts : SeatsOK(draft, p)

\* Tokens of later publications are not in use yet.
TokensPast == \A p \in Parts : \A i \in DOMAIN plan[p] : plan[p][i].token[1] \in 1 .. version

Distinct ==
    \A p \in Parts, q \in Parts : \A i \in DOMAIN plan[p], j \in DOMAIN plan[q] :
        plan[p][i].token = plan[q][j].token => p = q /\ i = j

IInv == PlanTypeOK /\ PrintedIsPrefix /\ AssembledIsPrinted /\ DraftOK /\ TokensPast /\ Distinct

Ordered(u) ==
    /\ \A i \in DOMAIN u, j \in DOMAIN u : i < j /\ u[j].printed => u[i].printed
    /\ \A i \in DOMAIN u : u[i].assembled => u[i].printed

\* What every Progress command keeps of a part: its units, and their order.
KeepsPart(u, w) ==
    /\ w \in UnitLists
    /\ DOMAIN w = DOMAIN u
    /\ \A i \in DOMAIN u : w[i].token = u[i].token
    /\ Ordered(w)

KeepsUnits(before, after) == \A p \in Parts : KeepsPart(before[p], after[p])

LEMMA ListShape ==
    ASSUME NEW u \in UnitLists
    PROVE  /\ DOMAIN u \subseteq 1 .. MaxCount
           /\ \A i \in DOMAIN u : u[i] \in Units
           /\ \A i \in DOMAIN u : \A k \in 1 .. i : k \in DOMAIN u
  BY PlanAssumption DEF UnitLists

LEMMA SameShape ==
    ASSUME NEW u \in UnitLists, NEW w, w = [k \in DOMAIN u |-> w[k]],
           \A k \in DOMAIN u : w[k] \in Units
    PROVE  w \in UnitLists
  BY DEF UnitLists

\* A step that only changes Progress keeps the invariant.
LEMMA ProgressKeeps ==
    ASSUME IInv, plan' = [p \in Parts |-> plan'[p]], KeepsUnits(plan, plan'),
           UNCHANGED <<version, included, archived, draft>>
    PROVE  IInv'
<1>1. PlanTypeOK'
  BY DEF IInv, PlanTypeOK, KeepsUnits, KeepsPart
<1>2. PrintedIsPrefix' /\ AssembledIsPrinted'
  BY DEF KeepsUnits, KeepsPart, Ordered, PrintedIsPrefix, AssembledIsPrinted
<1>3. DraftOK'
  BY DEF IInv, DraftOK, SeatsOK, KeepsUnits, KeepsPart, ClaimedOnce, Targets
<1>4. TokensPast' /\ Distinct'
  BY DEF IInv, TokensPast, Distinct, KeepsUnits, KeepsPart
<1> QED BY <1>1, <1>2, <1>3, <1>4 DEF IInv

\* Marking a unit and the lower ones keeps the printed units a prefix.
LEMMA MarkedKeeps ==
    ASSUME NEW u \in UnitLists, NEW n \in Int, Ordered(u)
    PROVE  KeepsPart(u, MarkedUpTo(u, n))
<1> DEFINE w == MarkedUpTo(u, n)
<1>1. \A i \in DOMAIN u : u[i] \in Units /\ i \in Int
  BY ListShape, PlanAssumption
<1>2. DOMAIN w = DOMAIN u /\ w = [k \in DOMAIN u |-> w[k]]
  BY DEF MarkedUpTo
<1>3. \A i \in DOMAIN u : /\ w[i] \in Units /\ w[i].token = u[i].token
                          /\ w[i].assembled = u[i].assembled
                          /\ i <= n => w[i].printed
                          /\ ~(i <= n) => w[i] = u[i]
  BY <1>1 DEF MarkedUpTo, Units
<1> HIDE DEF w
<1>4. w \in UnitLists
  BY <1>2, <1>3, SameShape
<1>5. Ordered(w)
  BY <1>1, <1>2, <1>3 DEF Ordered
<1> QED BY <1>2, <1>3, <1>4, <1>5 DEF KeepsPart, w

\* Clearing a unit and the higher ones does too, and takes their assembled marks along.
LEMMA ClearedKeeps ==
    ASSUME NEW u \in UnitLists, NEW n \in Int, Ordered(u)
    PROVE  KeepsPart(u, ClearedFrom(u, n))
<1> DEFINE w == ClearedFrom(u, n)
<1>1. \A i \in DOMAIN u : u[i] \in Units /\ i \in Int
  BY ListShape, PlanAssumption
<1>2. DOMAIN w = DOMAIN u /\ w = [k \in DOMAIN u |-> w[k]]
  BY DEF ClearedFrom
<1>3. \A i \in DOMAIN u : /\ w[i] \in Units /\ w[i].token = u[i].token
                          /\ i >= n => ~w[i].printed /\ ~w[i].assembled
                          /\ ~(i >= n) => w[i] = u[i]
  BY <1>1 DEF ClearedFrom, Units
<1> HIDE DEF w
<1>4. w \in UnitLists
  BY <1>2, <1>3, SameShape
<1>5. Ordered(w)
  BY <1>1, <1>2, <1>3 DEF Ordered
<1> QED BY <1>2, <1>3, <1>4, <1>5 DEF KeepsPart, w

\* One part's units are replaced by ones that keep them.
LEMMA OnePart ==
    ASSUME IInv, NEW p \in Parts, NEW w, KeepsPart(plan[p], w),
           plan' = [plan EXCEPT ![p] = w],
           UNCHANGED <<version, included, archived, draft>>
    PROVE  IInv'
<1>1. \A q \in Parts : plan[q] \in UnitLists /\ KeepsPart(plan[q], plan[q])
  BY DEF IInv, PlanTypeOK, PrintedIsPrefix, AssembledIsPrinted, KeepsPart, Ordered
<1>2. plan' = [q \in Parts |-> plan'[q]] /\ KeepsUnits(plan, plan')
  BY <1>1 DEF IInv, PlanTypeOK, KeepsUnits
<1> QED BY <1>2, ProgressKeeps

LEMMA PartOrdered == ASSUME IInv, NEW p \in Parts PROVE plan[p] \in UnitLists /\ Ordered(plan[p])
  BY DEF IInv, PlanTypeOK, PrintedIsPrefix, AssembledIsPrinted, Ordered

LEMMA CompletionKeeps ==
    ASSUME IInv, NEW p \in Parts, NEW i \in Int, NEW b \in BOOLEAN, SetCompletion(p, i, b)
    PROVE  IInv'
<1>1. CASE b
  <2>1. KeepsPart(plan[p], MarkedUpTo(plan[p], i))
    BY PartOrdered, MarkedKeeps
  <2> QED BY <1>1, <2>1, OnePart DEF SetCompletion
<1>2. CASE ~b
  <2>1. KeepsPart(plan[p], ClearedFrom(plan[p], i))
    BY PartOrdered, ClearedKeeps
  <2> QED BY <1>2, <2>1, OnePart DEF SetCompletion
<1> QED BY <1>1, <1>2

LEMMA CountKeeps ==
    ASSUME IInv, NEW p \in Parts, NEW n \in Int, SetPrintedCount(p, n)
    PROVE  IInv'
<1> DEFINE m == MarkedUpTo(plan[p], n)
           w == ClearedFrom(m, n + 1)
<1>1. KeepsPart(plan[p], m)
  BY PartOrdered, MarkedKeeps
<1>2. KeepsPart(m, w)
  BY <1>1, ClearedKeeps DEF KeepsPart
<1>3. KeepsPart(plan[p], w)
  BY <1>1, <1>2 DEF KeepsPart
<1> QED BY <1>3, OnePart DEF SetPrintedCount

LEMMA AssemblyKeeps ==
    ASSUME IInv, NEW p \in Parts, NEW i \in DOMAIN plan[p], NEW b \in BOOLEAN,
           SetAssembly(p, i, b)
    PROVE  IInv'
<1> DEFINE w == [plan[p] EXCEPT ![i].assembled = b]
<1>1. plan[p] \in UnitLists /\ Ordered(plan[p]) /\ (b => plan[p][i].printed)
  BY PartOrdered DEF SetAssembly
<1>2. \A k \in DOMAIN plan[p] : plan[p][k] \in Units
  BY <1>1, ListShape
<1>3. DOMAIN w = DOMAIN plan[p] /\ w = [k \in DOMAIN plan[p] |-> w[k]]
  BY <1>1 DEF UnitLists
<1>4. \A k \in DOMAIN plan[p] :
        /\ w[k] \in Units /\ w[k].token = plan[p][k].token /\ w[k].printed = plan[p][k].printed
        /\ k # i => w[k] = plan[p][k]
        /\ k = i => w[k].assembled = b
  BY <1>1, <1>2 DEF UnitLists, Units
<1>5. plan' = [plan EXCEPT ![p] = w]
  BY DEF SetAssembly, IInv, PlanTypeOK
<1> HIDE DEF w
<1>6. w \in UnitLists
  BY <1>1, <1>3, <1>4, SameShape
<1>7. Ordered(w)
  BY <1>1, <1>3, <1>4 DEF Ordered
<1>8. KeepsPart(plan[p], w)
  BY <1>3, <1>4, <1>6, <1>7 DEF KeepsPart
<1> QED BY <1>5, <1>8, OnePart DEF SetAssembly

LEMMA ConfirmKeeps ==
    ASSUME IInv, NEW S, ConfirmUnits(S)
    PROVE  IInv'
<1>1. ASSUME NEW p \in Parts PROVE KeepsPart(plan[p], plan'[p])
  <2> DEFINE u == plan[p]
             w == plan'[p]
  <2>1. u \in UnitLists /\ Ordered(u) /\ FillsFromLeft(p, S)
    BY PartOrdered DEF ConfirmUnits
  <2>2. w = [i \in DOMAIN u |->
            IF <<p, i>> \in S THEN [u[i] EXCEPT !.printed = TRUE] ELSE u[i]]
    BY DEF ConfirmUnits
  <2>3. \A i \in DOMAIN u : u[i] \in Units
    BY <2>1, ListShape
  <2>4. \A i \in DOMAIN u : /\ w[i] \in Units /\ w[i].token = u[i].token
                            /\ w[i].assembled = u[i].assembled
                            /\ <<p, i>> \in S => w[i].printed
                            /\ <<p, i>> \notin S => w[i] = u[i]
                            /\ u[i].printed => w[i].printed
    BY <2>2, <2>3, ZenonT(60) DEF Units
  <2>5. DOMAIN w = DOMAIN u /\ w = [i \in DOMAIN u |-> w[i]]
    BY <2>2
  <2>6. w \in UnitLists
    BY <2>1, <2>4, <2>5, SameShape
  <2>7. Ordered(w)
    BY <2>1, <2>4, <2>5 DEF Ordered, FillsFromLeft
  <2> QED BY <2>4, <2>5, <2>6, <2>7 DEF KeepsPart
<1>2. plan' = [p \in Parts |-> plan'[p]]
  BY DEF ConfirmUnits
<1> QED BY <1>1, <1>2, ProgressKeeps DEF KeepsUnits, ConfirmUnits

LEMMA NewUnitShape ==
    ASSUME NEW v, NEW p, NEW i
    PROVE  /\ NewUnit(v, p, i).token = <<v, p, i>>
           /\ NewUnit(v, p, i).token[1] = v
           /\ ~NewUnit(v, p, i).printed
           /\ ~NewUnit(v, p, i).assembled
  BY DEF NewUnit, NewToken

LEMMA StartsOK == ASSUME PlanInit PROVE IInv
<1>1. \A p \in Parts : FirstCounts[p] \in Nat /\ FirstCounts[p] <= MaxCount
  BY PlanAssumption
<1>2. \A p \in Parts : \A i \in 1 .. FirstCounts[p] :
        /\ plan[p][i] = NewUnit(1, p, i)
        /\ NewUnit(1, p, i) \in Units
        /\ NewUnit(1, p, i).token = <<1, p, i>>
        /\ NewUnit(1, p, i).printed = FALSE /\ NewUnit(1, p, i).assembled = FALSE
  BY <1>1, PlanAssumption DEF PlanInit, NewUnit, NewToken, Units, Tokens
<1>3. \A p \in Parts : DOMAIN plan[p] = 1 .. FirstCounts[p]
  BY DEF PlanInit
<1>4. \A p \in Parts : plan[p] \in UnitLists
  <2>1. \A p \in Parts : plan[p] \in [1 .. FirstCounts[p] -> Units]
    BY <1>2, <1>3 DEF PlanInit
  <2> QED BY <1>1, <2>1, PlanAssumption DEF UnitLists
<1>5. PlanTypeOK
  <2>1. plan = [p \in Parts |-> plan[p]] /\ version = 1
    BY DEF PlanInit
  <2>2. included \subseteq Parts /\ archived \in BOOLEAN
    BY DEF PlanInit
  <2>3. plan \in [Parts -> UnitLists]
    BY <1>4, <2>1
  <2>4. version \in 1 .. MaxVersion
    BY <2>1, PlanAssumption
  <2> QED BY <2>2, <2>3, <2>4 DEF PlanTypeOK
<1>6. PrintedIsPrefix /\ AssembledIsPrinted
  BY <1>2, <1>3 DEF PrintedIsPrefix, AssembledIsPrinted
<1>7. DraftOK
  BY DEF PlanInit, DraftOK
<1>8. TokensPast /\ Distinct
  <2>1. \A p \in Parts : \A i \in DOMAIN plan[p] : plan[p][i].token = <<1, p, i>>
    BY <1>2, <1>3
  <2>2. version = 1
    BY DEF PlanInit
  <2> QED BY <2>1, <2>2 DEF TokensPast, Distinct
<1> QED BY <1>5, <1>6, <1>7, <1>8 DEF IInv

\* A seating continues units of its predecessor, in their order and before the new ones.
LEMMA SeatingShape ==
    ASSUME NEW t \in Targets, t.from # None => t.from \in Parts /\ plan[t.from] \in UnitLists,
           NEW s \in SeatingsOf(t)
    PROVE  /\ s \in Seatings(t.count)
           /\ t.from = None => \A i \in 1 .. t.count : s[i] = 0
           /\ t.from # None => \A i \in 1 .. t.count : s[i] # 0 => s[i] \in DOMAIN plan[t.from]
<1>1. CASE t.from = None
  <2>1. s = [i \in 1 .. t.count |-> 0]
    BY <1>1 DEF SeatingsOf
  <2> QED BY <1>1, <2>1, PlanAssumption DEF Seatings, Targets
<1>2. CASE t.from # None
  <2> DEFINE c == Candidates(t, plan[t.from])
  <2>1. s \in Seatings(t.count) /\ Continued(s) \subseteq c
    BY <1>2 DEF SeatingsOf, Selections
  <2>2. c \subseteq DOMAIN plan[t.from]
    BY DEF Candidates
  <2>3. \A i \in 1 .. t.count : s[i] # 0 => s[i] \in Continued(s)
    BY <2>1 DEF Continued, Seatings
  <2> QED BY <1>2, <2>1, <2>2, <2>3
<1> QED BY <1>1, <1>2

LEMMA DraftKeeps == ASSUME IInv, DraftStep PROVE IInv'
<1>1. ASSUME NEW e \in Edits, NEW seats,
             \A p \in Parts : seats[p] \in SeatingsOf(e[p]),
             SaveReconciliation(e, seats)
      PROVE  DraftOK'
  <2>1. e \in [Parts -> Targets] /\ ClaimedOnce(e)
    BY <1>1, PlanAssumption DEF SaveReconciliation
  <2>2. draft'.edit = e /\ draft'.seats = seats /\ plan' = plan
    BY <1>1 DEF SaveReconciliation
  <2>3. ASSUME NEW p \in Parts PROVE SeatsOK(draft, p)'
    <3>1. e[p] \in Targets /\ seats[p] \in SeatingsOf(e[p])
      BY <1>1, <2>1
    <3>2. e[p].from # None => e[p].from \in Parts /\ plan[e[p].from] \in UnitLists
      BY <3>1, PartOrdered DEF Targets
    <3> QED BY <2>2, <3>1, <3>2, SeatingShape DEF SeatsOK
  <2> QED BY <2>1, <2>2, <2>3 DEF DraftOK, ClaimedOnce
<1>2. DropReconciliation => DraftOK'
  BY DEF DropReconciliation, DraftOK
<1>3. DraftOK' /\ UNCHANGED <<version, plan, included, archived>>
  BY <1>1, <1>2 DEF DraftStep, SaveReconciliation, DropReconciliation
<1> QED BY <1>3 DEF IInv, PlanTypeOK, PrintedIsPrefix, AssembledIsPrinted, TokensPast, Distinct

LEMMA ArchiveKeeps == ASSUME IInv, Archive PROVE IInv'
  BY DEF Archive, IInv, PlanTypeOK, PrintedIsPrefix, AssembledIsPrinted, DraftOK, SeatsOK,
         ClaimedOnce, TokensPast, Distinct

\* Where each published unit comes from: it is new, or it is its predecessor's unit.
LEMMA PublishedUnit ==
    ASSUME IInv, Publish, NEW p \in Parts, NEW i \in DOMAIN plan'[p]
    PROVE  /\ i \in 1 .. draft.edit[p].count
           /\ draft.seats[p][i] = 0 =>
                /\ plan'[p][i] \in Units
                /\ plan'[p][i].token = <<version + 1, p, i>>
                /\ plan'[p][i].token[1] = version + 1
                /\ ~plan'[p][i].printed /\ ~plan'[p][i].assembled
           /\ draft.seats[p][i] # 0 =>
                /\ draft.edit[p].from \in Parts
                /\ draft.seats[p][i] \in DOMAIN plan[draft.edit[p].from]
                /\ plan'[p][i] = plan[draft.edit[p].from][draft.seats[p][i]]
                /\ plan'[p][i] \in Units
<1> DEFINE t == draft.edit[p]
           s == draft.seats[p]
<1>1. t \in Targets /\ SeatsOK(draft, p)
  BY DEF IInv, DraftOK, Publish
<1>2. plan'[p] = [k \in 1 .. t.count |->
        IF s[k] = 0 THEN NewUnit(version + 1, p, k) ELSE plan[t.from][s[k]]]
  BY SMTT(60) DEF Publish, Published
<1>3. i \in 1 .. t.count
  BY <1>2
<1>4. CASE s[i] = 0
  <2>1. version + 1 \in 1 .. MaxVersion
    BY PlanAssumption DEF IInv, PlanTypeOK, Publish
  <2>2. i \in 1 .. MaxCount
    BY <1>1, <1>3, PlanAssumption DEF Targets
  <2>3. NewUnit(version + 1, p, i) \in Units
    BY <2>1, <2>2, SMTT(60) DEF NewUnit, NewToken, Units, Tokens
  <2>4. plan'[p][i] = NewUnit(version + 1, p, i)
    BY <1>2, <1>3, <1>4
  <2> DEFINE n == NewUnit(version + 1, p, i)
  <2>5. n.token = <<version + 1, p, i>> /\ n.token[1] = version + 1 /\ ~n.printed /\ ~n.assembled
    BY NewUnitShape, SMTT(60)
  <2> HIDE DEF n
  <2> QED BY <1>3, <1>4, <2>3, <2>4, <2>5 DEF n
<1>5. CASE s[i] # 0
  <2>1. t.from \in Parts /\ s[i] \in DOMAIN plan[t.from]
    BY <1>1, <1>3, <1>5 DEF SeatsOK, Targets
  <2>2. plan[t.from][s[i]] \in Units
    BY <2>1, PartOrdered, ListShape, SMTT(60)
  <2>3. plan'[p][i] = plan[t.from][s[i]]
    BY <1>2, <1>3, <1>5
  <2> QED BY <1>3, <1>5, <2>1, <2>2, <2>3
<1> QED BY <1>3, <1>4, <1>5

LEMMA PublishKeeps == ASSUME IInv, Publish PROVE IInv'
<1>1. version' = version + 1 /\ version \in Nat /\ version' \in 1 .. MaxVersion
  BY PlanAssumption DEF IInv, PlanTypeOK, Publish
<1>2. PlanTypeOK'
  <2>1. ASSUME NEW p \in Parts PROVE plan'[p] \in UnitLists
    <3>1. draft.edit[p].count \in 0 .. MaxCount
      BY DEF IInv, DraftOK, Publish, Targets
    <3>2. plan'[p] = [k \in 1 .. draft.edit[p].count |-> plan'[p][k]]
      BY DEF Publish, Published
    <3>3. \A k \in 1 .. draft.edit[p].count : plan'[p][k] \in Units
      BY <3>2, PublishedUnit
    <3>4. plan'[p] \in [1 .. draft.edit[p].count -> Units]
      BY <3>2, <3>3
    <3> QED BY <3>1, <3>4 DEF UnitLists
  <2>2. plan' = [p \in Parts |-> plan'[p]]
    BY DEF Publish, Published
  <2> QED BY <1>1, <2>1, <2>2 DEF PlanTypeOK, IInv, Publish, PublishedIncluded
<1>3. PrintedIsPrefix' /\ AssembledIsPrinted'
  <2>1. ASSUME NEW p \in Parts, NEW i \in DOMAIN plan'[p], NEW j \in DOMAIN plan'[p],
               i < j, plan'[p][j].printed
        PROVE  plan'[p][i].printed
    <3> DEFINE s == draft.seats[p]
               u == plan[draft.edit[p].from]
    <3>1. s[j] # 0
      BY <2>1, PublishedUnit
    <3>2. s[i] # 0 /\ s[i] < s[j]
      BY <2>1, <3>1, PublishedUnit DEF IInv, DraftOK, Publish, SeatsOK, Seatings
    <3>3. /\ draft.edit[p].from \in Parts
          /\ s[i] \in DOMAIN u /\ plan'[p][i] = u[s[i]]
          /\ s[j] \in DOMAIN u /\ plan'[p][j] = u[s[j]]
      BY <3>1, <3>2, PublishedUnit
    <3> QED BY <2>1, <3>2, <3>3 DEF IInv, PrintedIsPrefix
  <2>2. ASSUME NEW p \in Parts, NEW i \in DOMAIN plan'[p], plan'[p][i].assembled
        PROVE  plan'[p][i].printed
    <3>1. draft.seats[p][i] # 0
      BY <2>2, PublishedUnit
    <3> QED BY <2>2, <3>1, PublishedUnit DEF IInv, AssembledIsPrinted
  <2> QED BY <2>1, <2>2 DEF PrintedIsPrefix, AssembledIsPrinted
<1>4. DraftOK'
  BY DEF Publish, DraftOK
<1>5. TokensPast'
  <2>1. ASSUME NEW p \in Parts, NEW i \in DOMAIN plan'[p]
        PROVE  plan'[p][i].token[1] \in 1 .. version'
    <3>1. CASE draft.seats[p][i] = 0
      BY <1>1, <3>1, PublishedUnit
    <3>2. CASE draft.seats[p][i] # 0
      BY <1>1, <3>2, PublishedUnit DEF IInv, TokensPast
    <3> QED BY <3>1, <3>2
  <2> QED BY <2>1 DEF TokensPast
<1>6. Distinct'
  <2> SUFFICES ASSUME NEW p \in Parts, NEW q \in Parts,
                      NEW i \in DOMAIN plan'[p], NEW j \in DOMAIN plan'[q],
                      plan'[p][i].token = plan'[q][j].token
               PROVE  p = q /\ i = j
    BY DEF Distinct
  <2> DEFINE e == draft.edit
             s == draft.seats
             Old(r, k) == plan[e[r].from][s[r][k]]
  <2>1. ASSUME NEW r \in Parts, NEW k \in DOMAIN plan'[r]
        PROVE  /\ s[r][k] = 0 => plan'[r][k].token = <<version + 1, r, k>>
               /\ s[r][k] # 0 => /\ e[r].from \in Parts /\ s[r][k] \in DOMAIN plan[e[r].from]
                                 /\ plan'[r][k] = Old(r, k)
                                 /\ plan'[r][k].token[1] \in 1 .. version
    <3>1. s[r][k] = 0 => plan'[r][k].token = <<version + 1, r, k>>
      BY PublishedUnit
    <3>2. s[r][k] # 0 => /\ e[r].from \in Parts /\ s[r][k] \in DOMAIN plan[e[r].from]
                         /\ plan'[r][k] = Old(r, k)
      BY PublishedUnit
    <3>3. s[r][k] # 0 => plan'[r][k].token[1] \in 1 .. version
      BY <3>2 DEF IInv, TokensPast
    <3> QED BY <3>1, <3>2, <3>3
  <2>2. CASE s[p][i] = 0 /\ s[q][j] = 0
    BY <2>1, <2>2
  <2>3. CASE s[p][i] = 0 /\ s[q][j] # 0
    BY <1>1, <2>1, <2>3
  <2>4. CASE s[p][i] # 0 /\ s[q][j] = 0
    BY <1>1, <2>1, <2>4
  <2>5. CASE s[p][i] # 0 /\ s[q][j] # 0
    <3>1. e[p].from = e[q].from /\ s[p][i] = s[q][j] /\ e[p].from \in Parts
      BY <2>1, <2>5 DEF IInv, Distinct
    <3>2. p = q
      BY <3>1, PlanAssumption DEF IInv, DraftOK, Publish, ClaimedOnce
    <3>3. s[p] \in Seatings(e[p].count) /\ i \in 1 .. e[p].count /\ j \in 1 .. e[p].count
      BY <3>2, PublishedUnit DEF IInv, DraftOK, Publish, SeatsOK
    <3>4. ~(i < j) /\ ~(j < i)
      <4>1. \A k \in 1 .. e[p].count : s[p][k] \in Int
        <5>1. s[p] \in [1 .. e[p].count -> 0 .. MaxCount]
          BY <3>3 DEF Seatings
        <5>2. 0 .. MaxCount \subseteq Int
          BY PlanAssumption
        <5> QED BY <5>1, <5>2
      <4>2. \A k \in 1 .. e[p].count, l \in 1 .. e[p].count :
                k < l /\ s[p][l] # 0 => s[p][k] < s[p][l]
        BY <3>3 DEF Seatings
      <4> QED BY <2>5, <3>1, <3>2, <3>3, <4>1, <4>2
    <3> QED BY <3>2, <3>3, <3>4
  <2> QED BY <2>2, <2>3, <2>4, <2>5
<1> QED BY <1>2, <1>3, <1>4, <1>5, <1>6 DEF IInv

LEMMA StepKeeps == ASSUME IInv, [PlanNext]_planVars PROVE IInv'
<1>1. CASE ProgressStep
  <2>1. \A p \in Parts : plan[p] \in UnitLists /\ DOMAIN plan[p] \subseteq Int /\ Len(plan[p]) \in Int
    BY PartOrdered, PlanAssumption DEF UnitLists
  <2>2. \A c \in Accepted : c[1] \in Parts /\ c[2] \in DOMAIN plan[c[1]] /\ c[2] \in Int
    BY PlanAssumption DEF Accepted, Coordinates
  <2> QED BY <1>1, <2>1, <2>2, CompletionKeeps, AssemblyKeeps, CountKeeps DEF ProgressStep
<1>2. CASE DraftStep
  BY <1>2, DraftKeeps
<1>3. CASE Archive
  BY <1>3, ArchiveKeeps
<1>4. CASE Publish
  BY <1>4, PublishKeeps
<1>5. CASE \E S \in SUBSET Accepted : ConfirmUnits(S)
  BY <1>5, ConfirmKeeps
<1>6. CASE UNCHANGED planVars
  BY <1>6 DEF planVars, IInv, PlanTypeOK, PrintedIsPrefix, AssembledIsPrinted, DraftOK, SeatsOK,
              ClaimedOnce, TokensPast, Distinct
<1> QED BY <1>1, <1>2, <1>3, <1>4, <1>5, <1>6 DEF PlanNext

\* The invariant holds in every state of every accepted Plan.
THEOREM PlanInvariant == PlanSpec => []IInv
<1>1. PlanInit => IInv
  BY StartsOK
<1>2. IInv /\ [PlanNext]_planVars => IInv'
  BY StepKeeps
<1> QED BY <1>1, <1>2, PTL DEF PlanSpec

\* The accepted Plan holds only what its commands may write.
THEOREM PlanTypes == PlanSpec => []PlanTypeOK
<1>1. IInv => PlanTypeOK
  BY DEF IInv
<1> QED BY <1>1, PlanInvariant, PTL

\* The printed units of a part are its first ones, for any number of parts, units, Progress
\* commands and publications.
THEOREM PrintedPrefix == PlanSpec => []PrintedIsPrefix
<1>1. IInv => PrintedIsPrefix
  BY DEF IInv
<1> QED BY <1>1, PlanInvariant, PTL

\* No unit is assembled that is not printed.
THEOREM AssembledPrinted == PlanSpec => []AssembledIsPrinted
<1>1. IInv => AssembledIsPrinted
  BY DEF IInv
<1> QED BY <1>1, PlanInvariant, PTL

\* A Required unit has one place in the accepted Plan, whatever drafts are published.
THEOREM UniqueTokens == PlanSpec => []TokensUnique
<1>1. IInv => TokensUnique
  BY DEF IInv, Distinct, TokensUnique, Accepted, Coordinates, UnitAt
<1> QED BY <1>1, PlanInvariant, PTL

-----------------------------------------------------------------------------
(* Publication and Progress.                                               *)

\* What the saved selection of a draft part was made from: the Progress that it still has
\* to meet, or no Progress because every unit is continued.
SelectionOf(d, p) ==
    LET t == d.edit[p]
        s == d.seats[p]
    IN  t.from # None =>
            \/ /\ d.basis[p] # <<>>
               /\ s \in Selections(t.count, d.basis[p], Candidates(t, d.basis[p]))
            \/ d.basis[p] = <<>> /\ Continued(s) = DOMAIN plan[t.from]

SelectionInv == draft # None => \A p \in Parts : SelectionOf(draft, p)

\* A seating of a part with room for every unit, all of which are candidates, has them all.
LEMMA RoomForAll ==
    ASSUME NEW n \in Nat, NEW u \in UnitLists, Len(u) <= n,
           NEW s \in Selections(n, u, DOMAIN u)
    PROVE  Continued(s) = DOMAIN u
<1>1. Len(u) \in Nat /\ DOMAIN u = 1 .. Len(u)
  BY PlanAssumption DEF UnitLists
<1>2. IsFiniteSet(DOMAIN u) /\ Cardinality(DOMAIN u) = Len(u)
  <2>1. \A m \in Nat : IsFiniteSet(1 .. m) /\ Cardinality(1 .. m) = m
    BY FS_Interval
  <2> QED BY <1>1, <2>1
<1>3. Continued(s) \subseteq DOMAIN u
  BY DEF Selections
<1>4. \/ Continued(s) = DOMAIN u
      \/ Cardinality(Continued(s)) = n
  BY DEF Selections
<1> QED BY <1>1, <1>2, <1>3, <1>4, FS_Subset

LEMMA SavedSelection ==
    ASSUME IInv, NEW e \in Edits, NEW seats,
           \A p \in Parts : seats[p] \in SeatingsOf(e[p]),
           SaveReconciliation(e, seats)
    PROVE  SelectionInv'
<1>1. ASSUME NEW p \in Parts PROVE SelectionOf(draft, p)'
  <2> DEFINE t == e[p]
             u == plan[t.from]
  <2>1. /\ draft'.edit = e /\ draft'.seats = seats /\ plan' = plan
        /\ draft'.basis[p] = IF Selective(t) THEN u ELSE <<>>
    BY DEF SaveReconciliation
  <2>2. SUFFICES ASSUME t.from # None
                 PROVE  \/ /\ Selective(t) /\ u # <<>>
                           /\ seats[p] \in Selections(t.count, u, Candidates(t, u))
                        \/ ~Selective(t) /\ Continued(seats[p]) = DOMAIN u
    BY <2>1 DEF SelectionOf
  <2>3. t \in Targets
    BY PlanAssumption
  <2>4. t.count \in Nat /\ t.accept \in BOOLEAN /\ t.from \in Parts
    BY <2>2, <2>3, PlanAssumption DEF Targets
  <2>5. u \in UnitLists /\ u # <<>>
    BY <2>2, <2>4, PartOrdered DEF SaveReconciliation
  <2>6. seats[p] \in Selections(t.count, u, Candidates(t, u))
    BY <2>2 DEF SeatingsOf
  <2>7. CASE ~Selective(t)
    <3>1. Candidates(t, u) = DOMAIN u
      BY <2>2, <2>7 DEF Selective, Candidates
    <3>2. Len(u) \in Nat
      BY <2>5, PlanAssumption DEF UnitLists
    <3>3. Len(u) <= t.count
      BY <2>2, <2>4, <2>7, <3>2 DEF Selective
    <3> QED BY <2>4, <2>5, <2>6, <2>7, <3>1, <3>3, RoomForAll
  <2> QED BY <2>5, <2>6, <2>7
<1> QED BY <1>1 DEF SelectionInv

\* Progress does not change which units a part has.
LEMMA ProgressKeepsUnits ==
    ASSUME IInv, ProgressStep \/ \E S \in SUBSET Accepted : ConfirmUnits(S)
    PROVE  draft' = draft /\ version' = version
           /\ \A p \in Parts : DOMAIN plan'[p] = DOMAIN plan[p]
<1>1. plan = [p \in Parts |-> plan[p]]
  BY DEF IInv, PlanTypeOK
<1>2. ASSUME NEW p, NEW i, NEW b, SetCompletion(p, i, b)
      PROVE  \A q \in Parts : DOMAIN plan'[q] = DOMAIN plan[q]
  BY <1>1, <1>2 DEF SetCompletion, MarkedUpTo, ClearedFrom
<1>3. ASSUME NEW p, NEW i, NEW b, SetAssembly(p, i, b)
      PROVE  \A q \in Parts : DOMAIN plan'[q] = DOMAIN plan[q]
  BY <1>1, <1>3, SMTT(60) DEF SetAssembly
<1>4. ASSUME NEW p, NEW n, SetPrintedCount(p, n)
      PROVE  \A q \in Parts : DOMAIN plan'[q] = DOMAIN plan[q]
  BY <1>1, <1>4 DEF SetPrintedCount, MarkedUpTo, ClearedFrom
<1>5. ASSUME NEW S, ConfirmUnits(S)
      PROVE  \A q \in Parts : DOMAIN plan'[q] = DOMAIN plan[q]
  BY <1>5 DEF ConfirmUnits
<1>6. draft' = draft /\ version' = version
  BY DEF ProgressStep, SetCompletion, SetAssembly, SetPrintedCount, ConfirmUnits
<1> QED BY <1>2, <1>3, <1>4, <1>5, <1>6 DEF ProgressStep

LEMMA SelectionStep == ASSUME IInv, SelectionInv, [PlanNext]_planVars PROVE SelectionInv'
<1>1. ASSUME draft' = draft, \A p \in Parts : DOMAIN plan'[p] = DOMAIN plan[p]
      PROVE  SelectionInv'
  <2> SUFFICES ASSUME draft # None, NEW p \in Parts, draft.edit[p].from # None
               PROVE  SelectionOf(draft, p)'
    BY <1>1 DEF SelectionInv, SelectionOf
  <2>1. draft.edit[p].from \in Parts
    BY DEF IInv, DraftOK, Targets
  <2> QED BY <1>1, <2>1 DEF SelectionInv, SelectionOf
<1>2. CASE ProgressStep \/ \E S \in SUBSET Accepted : ConfirmUnits(S)
  BY <1>1, <1>2, ProgressKeepsUnits
<1>3. CASE DraftStep
  BY <1>3, SavedSelection DEF DraftStep, DropReconciliation, SelectionInv
<1>4. CASE Archive \/ UNCHANGED planVars
  BY <1>1, <1>4 DEF Archive, planVars
<1>5. CASE Publish
  BY <1>5 DEF Publish, SelectionInv
<1> QED BY <1>2, <1>3, <1>4, <1>5 DEF PlanNext

\* The units that stay of a part, after a publication.
StillThere(p) ==
    {k \in Parts \X (1 .. MaxCount) : k[2] \in DOMAIN plan'[k[1]]
                                      /\ plan'[k[1]][k[2]].token \in TokensIn(p)}

\* A unit that stays of a part is continued by the one target that claims the part.
LEMMA StayedUnit ==
    ASSUME IInv, Publish, NEW p \in Parts, NEW k \in StillThere(p)
    PROVE  LET j == draft.seats[k[1]][k[2]]
           IN  /\ draft.edit[k[1]].from = p
               /\ j \in DOMAIN plan[p] /\ j \in Continued(draft.seats[k[1]])
               /\ plan'[k[1]][k[2]] = plan[p][j]
<1> DEFINE q == k[1]
           l == k[2]
           s == draft.seats[q]
           f == draft.edit[q].from
<1>1. q \in Parts /\ l \in DOMAIN plan'[q] /\ plan'[q][l].token \in TokensIn(p)
  BY DEF StillThere
<1>2. PICK i \in DOMAIN plan[p] : plan'[q][l].token = plan[p][i].token
  BY <1>1 DEF TokensIn
<1>3. version \in Int /\ plan[p][i].token[1] \in 1 .. version
  BY PlanAssumption DEF IInv, PlanTypeOK, TokensPast
<1>4. s[l] # 0
  BY <1>1, <1>2, <1>3, PublishedUnit
<1>5. f \in Parts /\ s[l] \in DOMAIN plan[f] /\ plan'[q][l] = plan[f][s[l]]
      /\ l \in 1 .. draft.edit[q].count
  BY <1>1, <1>4, PublishedUnit, SMTT(60)
<1>6. f = p /\ s[l] = i
  <2>1. plan[f][s[l]].token = plan[p][i].token
    BY <1>2, <1>5
  <2> HIDE DEF f, s, l
  <2> QED BY <1>5, <2>1 DEF IInv, Distinct
<1>7. s \in Seatings(draft.edit[q].count)
  BY <1>1, SMTT(60) DEF IInv, DraftOK, Publish, SeatsOK
<1>8. s[l] \in Continued(s)
  BY <1>4, <1>5, <1>7 DEF Seatings, Continued
<1> QED BY <1>5, <1>6, <1>8

\* A continued unit is still there.
LEMMA ContinuedStays ==
    ASSUME IInv, Publish, NEW p \in Parts, NEW q \in Parts, draft.edit[q].from = p,
           NEW i \in DOMAIN plan[p], i \in Continued(draft.seats[q])
    PROVE  \E k \in StillThere(p) : plan'[k[1]][k[2]] = plan[p][i]
<1> DEFINE s == draft.seats[q]
           n == draft.edit[q].count
<1>1. s \in Seatings(n) /\ n \in 0 .. MaxCount
  BY DEF IInv, DraftOK, Publish, SeatsOK, Targets
<1>2. PICK l \in 1 .. n : s[l] = i /\ i # 0
  BY <1>1 DEF Continued, Seatings
<1>3. plan'[q] = [k \in 1 .. n |-> IF s[k] = 0 THEN NewUnit(version + 1, q, k) ELSE plan[p][s[k]]]
  BY DEF Publish, Published
<1>4. plan'[q][l] = plan[p][i] /\ l \in DOMAIN plan'[q] /\ l \in 1 .. MaxCount
  BY <1>1, <1>2, <1>3, PlanAssumption, SMTT(60)
<1>5. <<q, l>> \in StillThere(p)
  BY <1>4 DEF StillThere, TokensIn
<1> QED BY <1>4, <1>5

\* Publication carries Progress: a unit that stays keeps it, and a printed one is not lost
\* for an unprinted one, whatever commands came between reconciliation and publication.
THEOREM ProgressIsCarried == PlanSpec => PublicationKeepsProgress
<1>1. PlanInit => SelectionInv
  BY DEF PlanInit, SelectionInv
<1>2. IInv /\ SelectionInv /\ [PlanNext]_planVars => SelectionInv'
  BY SelectionStep
<1> DEFINE Carries ==
        version' # version =>
            \A p \in Parts : \A i \in DOMAIN plan[p] :
                \/ \E k \in StillThere(p) : plan'[k[1]][k[2]] = plan[p][i]
                \/ /\ \A k \in StillThere(p) : plan'[k[1]][k[2]].token # plan[p][i].token
                   /\ plan[p][i].printed =>
                        \A k \in StillThere(p) : plan'[k[1]][k[2]].printed
<1>3. IInv /\ SelectionInv /\ [PlanNext]_planVars => [Carries]_planVars
  <2> SUFFICES ASSUME IInv, SelectionInv, [PlanNext]_planVars, version' # version,
                      NEW p \in Parts, NEW i \in DOMAIN plan[p],
                      ~ \E k \in StillThere(p) : plan'[k[1]][k[2]] = plan[p][i],
                      NEW k \in StillThere(p)
               PROVE  /\ plan'[k[1]][k[2]].token # plan[p][i].token
                      /\ plan[p][i].printed => plan'[k[1]][k[2]].printed
    OBVIOUS
  <2>1. Publish
    BY ProgressKeepsUnits DEF PlanNext, DraftStep, SaveReconciliation, DropReconciliation,
                              Archive, planVars
  <2> DEFINE q == k[1]
             d == draft
             t == d.edit[q]
             s == d.seats[q]
             j == s[k[2]]
             u == plan[p]
  <2>2. t.from = p /\ j \in DOMAIN u /\ j \in Continued(s) /\ plan'[q][k[2]] = u[j] /\ q \in Parts
    BY <2>1, StayedUnit DEF StillThere
  <2>3. i \notin Continued(s)
    BY <2>1, <2>2, ContinuedStays
  <2>4. u[j].token # u[i].token
    BY <2>2, <2>3 DEF IInv, Distinct
  <2>5. p # None /\ SelectionOf(d, q)
    BY <2>1, <2>2, PlanAssumption DEF SelectionInv, Publish
  <2>6. Continued(s) # DOMAIN u
    BY <2>3
  <2>7. d.basis[q] = u /\ s \in Selections(t.count, u, Candidates(t, u))
    BY <2>1, <2>2, <2>5, <2>6, SMTT(60) DEF SelectionOf, Publish, BasisHolds
  <2>8. ASSUME u[i].printed PROVE u[j].printed
    <3>1. i \in Candidates(t, u)
      BY <2>8 DEF Candidates
    <3>2. ~Preferred(u[i], u[j])
      BY <2>2, <2>3, <2>7, <3>1 DEF Selections
    <3> QED BY <2>8, <3>2 DEF Preferred
  <2> QED BY <2>2, <2>4, <2>8
<1>4. [Carries]_planVars => [version' # version =>
        \A p \in Parts : \A i \in DOMAIN plan[p] :
            LET kept == {k \in Parts \X (1 .. MaxCount) :
                            /\ k[2] \in DOMAIN plan'[k[1]]
                            /\ plan'[k[1]][k[2]].token \in TokensIn(p)}
            IN  \/ \E k \in kept : plan'[k[1]][k[2]] = plan[p][i]
                \/ /\ \A k \in kept : plan'[k[1]][k[2]].token # plan[p][i].token
                   /\ plan[p][i].printed =>
                        \A k \in kept : plan'[k[1]][k[2]].printed]_planVars
  BY Zenon DEF StillThere
<1> HIDE DEF Carries
<1> QED BY <1>1, <1>2, <1>3, <1>4, PlanInvariant, PTL DEF PlanSpec, PublicationKeepsProgress

-----------------------------------------------------------------------------
(* Production.                                                               *)

\* The coordinate of a stored unit is in the Plan pl at version v.
NamedIn(v, pl, u) == u.at[1][1] = v /\ u.at[2] \in DOMAIN pl[u.at[1][2]]

FollowsIn(v, pl, u) ==
    /\ u.at[1][1] <= v
    /\ NamedIn(v, pl, u) => pl[u.at[1][2]][u.at[2]].token = u.meant

\* A link of which nothing is left behind while it is unfinished.
LinkOK(v, pl, r) ==
    /\ \A u \in r.units : FollowsIn(v, pl, u)
    /\ r.state \in {"watching", "awaiting_verify"} /\ ~r.late =>
            \A u \in r.units : NamedIn(v, pl, u)

\* The same of a row, and of an upload that no publication overtook.
SendOK(v, pl, r) ==
    /\ \A u \in r.units \cup r.payload : FollowsIn(v, pl, u)
    /\ r.row \in {"queued", "sending", "error"} => \A u \in r.units : NamedIn(v, pl, u)
    /\ r.flying /\ ~r.overtaken => \A u \in r.payload : NamedIn(v, pl, u)

ProductionTypes == links \in [Links -> LinkRecords] /\ sends \in [Sends -> SendRecords]

PInv ==
    /\ IInv
    /\ ProductionTypes
    /\ \A l \in Links : LinkOK(version, plan, links[l])
    /\ \A s \in Sends : SendOK(version, plan, sends[s])

KeepsTokens ==
    /\ version' = version
    /\ \A p \in Parts : /\ DOMAIN plan'[p] = DOMAIN plan[p]
                        /\ \A i \in DOMAIN plan[p] : plan'[p][i].token = plan[p][i].token

-----------------------------------------------------------------------------
\* Every step of production is a step of the accepted Plan or leaves it alone.
THEOREM RefinesPlan == Spec => PlanSpec
<1>1. Init => PlanInit
  BY DEF Init
<1>2. [Next]_vars => [PlanNext]_planVars
  <2>1. CASE PlanStep
    BY <2>1 DEF PlanStep, PlanNext
  <2>2. CASE LinkStep
    <3>1. ASSUME NEW l \in Links, NEW S \in Choices(l), NEW b \in BOOLEAN
          PROVE  Repair(l, S) \/ Attribute(l, S, b) => UNCHANGED planVars
      BY DEF Repair, Attribute
    <3>2. ASSUME NEW l \in Links PROVE Dismiss(l) => UNCHANGED planVars
      BY DEF Dismiss
    <3>3. ASSUME NEW l \in Links, NEW yes \in SUBSET Pending(l), NEW no, Verify(l, yes, no)
          PROVE  \E S \in SUBSET Accepted : ConfirmUnits(S)
      <4>1. ConfirmUnits({PlaceOf(at) : at \in yes})
        BY <3>3 DEF Verify
      <4>2. \A at \in yes : Resolves(at)
        BY <3>3 DEF Verify, Pending
      <4> QED BY <4>1, <4>2 DEF Resolves
    <3> QED BY <2>2, <3>1, <3>2, <3>3 DEF LinkStep, PlanNext
  <2>3. CASE HostStep
    BY <2>3 DEF HostStep, Poll
  <2>4. CASE SendStep
    BY <2>4 DEF SendStep, Enqueue, Upload, Dispatch, UploadFails, Cancel, UploadReturns
  <2>5. CASE PublishIdle \/ PublishRemapped
    BY <2>5 DEF PublishIdle, PublishRemapped, PlanNext
  <2>6. CASE UNCHANGED vars
    BY <2>6 DEF vars
  <2> QED BY <2>1, <2>2, <2>3, <2>4, <2>5, <2>6 DEF Next
<1> QED BY <1>1, <1>2, PTL DEF Spec, PlanSpec

\* The printed units of a part are its first ones, with production running beside the
\* Progress commands.
THEOREM ProductionPrintedPrefix == Spec => []PrintedIsPrefix
  BY RefinesPlan, PrintedPrefix, PTL

\* A Required unit has one place in the accepted Plan, whatever production does meanwhile.
THEOREM ProductionUniqueTokens == Spec => []TokensUnique
  BY RefinesPlan, UniqueTokens, PTL

\* Publication carries Progress, whatever uploads, polls and verifications run beside it.
THEOREM ProductionKeepsProgress == Spec => PublicationKeepsProgress
  BY RefinesPlan, ProgressIsCarried

-----------------------------------------------------------------------------
\* No command but publication changes which units there are.
LEMMA ProgressTokens == ASSUME IInv, ProgressStep PROVE KeepsTokens
<1>1. \A p \in Parts : plan[p] \in UnitLists /\ Ordered(plan[p])
  BY PartOrdered
<1>2. ASSUME NEW p \in Parts, NEW w, KeepsPart(plan[p], w), version' = version,
             plan' = [plan EXCEPT ![p] = w]
      PROVE  KeepsTokens
  BY <1>2 DEF KeepsTokens, KeepsPart, IInv, PlanTypeOK
<1>3. ASSUME NEW c \in Accepted, NEW b \in BOOLEAN, SetCompletion(c[1], c[2], b)
      PROVE  KeepsTokens
  <2>1. c[1] \in Parts /\ c[2] \in Int
    BY PlanAssumption DEF Accepted, Coordinates
  <2>2. KeepsPart(plan[c[1]], MarkedUpTo(plan[c[1]], c[2]))
    BY <1>1, <2>1, MarkedKeeps
  <2>3. KeepsPart(plan[c[1]], ClearedFrom(plan[c[1]], c[2]))
    BY <1>1, <2>1, ClearedKeeps
  <2>4. CASE b
    BY <1>2, <1>3, <2>1, <2>2, <2>4 DEF SetCompletion
  <2>5. CASE ~b
    BY <1>2, <1>3, <2>1, <2>3, <2>5 DEF SetCompletion
  <2> QED BY <2>4, <2>5
<1>4. ASSUME NEW c \in Accepted, NEW b \in BOOLEAN, SetAssembly(c[1], c[2], b)
      PROVE  KeepsTokens
  <2>1. c[1] \in Parts /\ c[2] \in DOMAIN plan[c[1]]
    BY DEF Accepted, Coordinates
  <2>2. \A i \in DOMAIN plan[c[1]] : plan[c[1]][i] \in Units
    BY <1>1, <2>1, ListShape
  <2>3. plan' = [plan EXCEPT ![c[1]][c[2]].assembled = b] /\ version' = version
    BY <1>4 DEF SetAssembly
  <2> QED BY <2>1, <2>2, <2>3 DEF KeepsTokens, IInv, PlanTypeOK, Units
<1>5. ASSUME NEW p \in Parts, NEW n \in 0 .. Len(plan[p]), SetPrintedCount(p, n)
      PROVE  KeepsTokens
  <2> DEFINE m == MarkedUpTo(plan[p], n)
  <2>1. n \in Int /\ n + 1 \in Int
    OBVIOUS
  <2>2. KeepsPart(plan[p], m)
    BY <1>1, <2>1, MarkedKeeps
  <2>3. KeepsPart(m, ClearedFrom(m, n + 1))
    BY <2>1, <2>2, ClearedKeeps DEF KeepsPart
  <2>4. KeepsPart(plan[p], ClearedFrom(m, n + 1))
    BY <2>2, <2>3 DEF KeepsPart
  <2> QED BY <1>2, <1>5, <2>4 DEF SetPrintedCount
<1> QED BY <1>3, <1>4, <1>5, Zenon DEF ProgressStep

LEMMA ConfirmTokens == ASSUME IInv, NEW S, ConfirmUnits(S) PROVE KeepsTokens
<1>1. \A p \in Parts : \A i \in DOMAIN plan[p] : plan[p][i] \in Units
  BY PartOrdered, ListShape
<1> QED BY <1>1 DEF ConfirmUnits, KeepsTokens, Units

LEMMA QuietTokens == ASSUME UNCHANGED <<version, plan>> PROVE KeepsTokens
  BY DEF KeepsTokens

LEMMA TokensFollow ==
    ASSUME KeepsTokens, NEW u \in StoredUnits
    PROVE  /\ NamedIn(version, plan, u) => NamedIn(version', plan', u)
           /\ FollowsIn(version, plan, u) => FollowsIn(version', plan', u)
<1>1. u.at[1][2] \in Parts
  BY DEF StoredUnits, PartIds
<1> QED BY <1>1 DEF KeepsTokens, NamedIn, FollowsIn

\* A step that keeps the units of the Plan keeps the invariant when the links and sends it
\* writes are right for the Plan it started from.
LEMMA QuietKeeps ==
    ASSUME PInv, IInv', KeepsTokens, ProductionTypes',
           \A l \in Links : LinkOK(version, plan, links'[l]),
           \A s \in Sends : SendOK(version, plan, sends'[s])
    PROVE  PInv'
<1>1. ASSUME NEW l \in Links PROVE LinkOK(version', plan', links'[l])
  <2>1. links'[l].units \subseteq StoredUnits
    BY DEF ProductionTypes, LinkRecords
  <2> QED BY <2>1, TokensFollow DEF LinkOK
<1>2. ASSUME NEW s \in Sends PROVE SendOK(version', plan', sends'[s])
  <2>1. sends'[s].units \cup sends'[s].payload \subseteq StoredUnits
    BY DEF ProductionTypes, SendRecords
  <2> QED BY <2>1, TokensFollow DEF SendOK
<1> QED BY <1>1, <1>2 DEF PInv

\* A fresh attribution names units of the accepted Plan.
LEMMA FreshUnits ==
    ASSUME IInv, NEW S \in SUBSET Available, NEW u \in {Stored(c) : c \in S}
    PROVE  u \in StoredUnits /\ NamedIn(version, plan, u) /\ FollowsIn(version, plan, u)
<1>1. PICK c \in S : u = Stored(c)
  OBVIOUS
<1>2. c \in Parts \X (1 .. MaxCount) /\ c[2] \in DOMAIN plan[c[1]]
  BY DEF Available, Required, Accepted, Coordinates
<1>3. plan[c[1]][c[2]].token \in Tokens
  BY <1>2, PartOrdered, ListShape DEF Units
<1>4. version \in 1 .. MaxVersion
  BY DEF IInv, PlanTypeOK
<1>5. u.at = <<<<version, c[1]>>, c[2]>> /\ u.meant = plan[c[1]][c[2]].token
  BY <1>1 DEF Stored, At, UnitAt
<1>6. u \in StoredUnits
  BY <1>1, <1>2, <1>3, <1>4 DEF Stored, At, UnitAt, StoredUnits, PartIds
<1>7. version <= version
  BY <1>4, PlanAssumption
<1> QED BY <1>2, <1>5, <1>6, <1>7 DEF NamedIn, FollowsIn

\* The links and sends of a step whose other ones stay as they are.
LEMMA OneLink ==
    ASSUME PInv, NEW l \in Links, NEW r \in LinkRecords, LinkOK(version, plan, r),
           links' = [links EXCEPT ![l] = r]
    PROVE  /\ links' \in [Links -> LinkRecords]
           /\ \A k \in Links : LinkOK(version, plan, links'[k])
  BY DEF PInv, ProductionTypes

LEMMA OneSend ==
    ASSUME PInv, NEW s \in Sends, NEW r \in SendRecords, SendOK(version, plan, r),
           sends' = [sends EXCEPT ![s] = r]
    PROVE  /\ sends' \in [Sends -> SendRecords]
           /\ \A k \in Sends : SendOK(version, plan, sends'[k])
  BY DEF PInv, ProductionTypes

LEMMA InitProduction == Init => PInv
<1> SUFFICES ASSUME Init PROVE PInv
  OBVIOUS
<1>1. IInv
  BY StartsOK DEF Init
<1>2. NoLink \in LinkRecords /\ NoSend \in SendRecords
  BY DEF NoLink, LinkRecords, NoSend, SendRecords
<1>3. NoLink.units = {} /\ NoSend.units \cup NoSend.payload = {} /\ ~NoSend.flying
      /\ NoSend.units = {}
  BY DEF NoLink, NoSend
<1>4. LinkOK(version, plan, NoLink) /\ SendOK(version, plan, NoSend)
  BY <1>3 DEF LinkOK, SendOK
<1> QED BY <1>1, <1>2, <1>4 DEF Init, PInv, ProductionTypes

LEMMA LinkStepKeeps == ASSUME PInv, IInv', LinkStep PROVE PInv'
<1>1. sends' = sends /\ \A s \in Sends : SendOK(version, plan, sends'[s])
  BY DEF PInv, LinkStep, Repair, Attribute, Verify, Dismiss
<1>2. ASSUME NEW l \in Links, NEW S \in Choices(l), NEW b \in BOOLEAN, Attribute(l, S, b)
      PROVE  PInv'
  <2> DEFINE r == [NoLink EXCEPT !.state = IF b THEN "awaiting_verify" ELSE "watching",
                                 !.units = {Stored(c) : c \in S}]
  <2>1. \A u \in {Stored(c) : c \in S} :
            u \in StoredUnits /\ NamedIn(version, plan, u) /\ FollowsIn(version, plan, u)
    BY FreshUnits DEF Choices, PInv
  <2>2. r \in LinkRecords /\ r.units = {Stored(c) : c \in S}
    BY <2>1 DEF NoLink, LinkRecords
  <2>3. LinkOK(version, plan, r)
    BY <2>1, <2>2 DEF LinkOK
  <2>4. links' = [links EXCEPT ![l] = r] /\ UNCHANGED planVars
    BY <1>2 DEF Attribute
  <2> HIDE DEF r
  <2>5. KeepsTokens
    BY <2>4, QuietTokens DEF planVars
  <2> QED BY <1>1, <2>2, <2>3, <2>4, <2>5, OneLink, QuietKeeps DEF PInv, ProductionTypes
<1>3. ASSUME NEW l \in Links, NEW S \in Choices(l), Repair(l, S)
      PROVE  PInv'
  <2> DEFINE r == [links[l] EXCEPT !.units = {Stored(c) : c \in S}]
  <2>1. \A u \in {Stored(c) : c \in S} :
            u \in StoredUnits /\ NamedIn(version, plan, u) /\ FollowsIn(version, plan, u)
    BY FreshUnits DEF Choices, PInv
  <2>2. r \in LinkRecords /\ r.units = {Stored(c) : c \in S}
    BY <2>1 DEF LinkRecords, PInv, ProductionTypes
  <2>3. LinkOK(version, plan, r)
    BY <2>1, <2>2 DEF LinkOK
  <2>4. links' = [links EXCEPT ![l] = r] /\ UNCHANGED planVars
    BY <1>3 DEF Repair, PInv, ProductionTypes
  <2> HIDE DEF r
  <2>5. KeepsTokens
    BY <2>4, QuietTokens DEF planVars
  <2> QED BY <1>1, <2>2, <2>3, <2>4, <2>5, OneLink, QuietKeeps DEF PInv, ProductionTypes
<1>4. ASSUME NEW l \in Links, Dismiss(l)
      PROVE  PInv'
  <2> DEFINE r == [links[l] EXCEPT !.state = "dismissed"]
  <2>1. r \in LinkRecords /\ r.units = links[l].units /\ r.state = "dismissed"
    BY DEF LinkRecords, PInv, ProductionTypes
  <2>2. LinkOK(version, plan, r)
    BY <2>1 DEF LinkOK, PInv
  <2>3. links' = [links EXCEPT ![l] = r] /\ UNCHANGED planVars
    BY <1>4 DEF Dismiss, PInv, ProductionTypes
  <2> HIDE DEF r
  <2>4. KeepsTokens
    BY <2>3, QuietTokens DEF planVars
  <2> QED BY <1>1, <2>1, <2>2, <2>3, <2>4, OneLink, QuietKeeps DEF PInv, ProductionTypes
<1>5. ASSUME NEW l \in Links, NEW yes \in SUBSET Pending(l), NEW no \in SUBSET Pending(l),
             Verify(l, yes, no)
      PROVE  PInv'
  <2> DEFINE all == {u.at : u \in links[l].units}
             decided == links[l].resolved \cup yes \cup no
             r == [links[l] EXCEPT !.resolved = decided,
                     !.state = IF all \subseteq decided THEN "verified" ELSE "awaiting_verify"]
  <2>1. links[l] \in LinkRecords /\ links[l].state = "awaiting_verify"
    BY <1>5 DEF PInv, ProductionTypes, Verify
  <2>2. all \subseteq PartIds \X (1 .. MaxCount)
    BY <2>1 DEF LinkRecords, StoredUnits
  <2>3. decided \subseteq PartIds \X (1 .. MaxCount)
    BY <2>1, <2>2 DEF Pending, LinkRecords
  <2>4. r \in LinkRecords /\ r.units = links[l].units /\ r.late = links[l].late
    BY <2>1, <2>3 DEF LinkRecords
  <2>5. LinkOK(version, plan, r)
    BY <2>1, <2>4 DEF LinkOK, PInv
  <2>6. links' = [links EXCEPT ![l] = r]
    BY <1>5 DEF Verify, PInv, ProductionTypes
  <2> HIDE DEF r
  <2>7. KeepsTokens
    BY <1>5, ConfirmTokens DEF Verify, PInv
  <2> QED BY <1>1, <2>4, <2>5, <2>6, <2>7, OneLink, QuietKeeps DEF PInv, ProductionTypes
<1> QED BY <1>2, <1>3, <1>4, <1>5 DEF LinkStep

\* A poll changes what was seen of a link and its state, never its units.
LEMMA HostStepKeeps == ASSUME PInv, IInv', HostStep PROVE PInv'
<1>1. PICK st \in Statuses, stale \in SUBSET Links : Poll(st, stale)
  BY DEF HostStep
<1>2. ASSUME NEW l \in Links
      PROVE  links'[l] \in LinkRecords /\ LinkOK(version, plan, links'[l])
  <2>1. links[l] \in LinkRecords /\ LinkOK(version, plan, links[l])
    BY DEF PInv, ProductionTypes
  <2> DEFINE Watched(r) == /\ r \in LinkRecords
                           /\ r.units = links[l].units /\ r.late = links[l].late
  <2>2. Watched(links[l]) /\ Watched(MarkActive(links[l], st.near))
    BY <2>1 DEF MarkActive, LinkRecords
  <2>3. \A x \in {"awaiting_verify", "host_failed", "dismissed"} : Watched(Ended(links[l], x))
    BY <2>1 DEF Ended, LinkRecords
  <2>4. Watched(AwaitVerify(links[l]))
    BY <2>3 DEF AwaitVerify
  <2>5. Watched(Advanced(l, st))
    BY <2>2, <2>3, <2>4 DEF Advanced
  <2>6. links'[l] = links[l] \/ (Watching(l) /\ Watched(links'[l]))
    BY <1>1, <2>3, <2>5 DEF Poll
  <2> QED BY <2>1, <2>6 DEF Watching, LinkOK
<1>3. links' \in [Links -> LinkRecords] /\ UNCHANGED planVars /\ sends' = sends
  BY <1>1, <1>2 DEF Poll
<1>4. KeepsTokens
  BY <1>3, QuietTokens DEF planVars
<1> QED BY <1>2, <1>3, <1>4, QuietKeeps DEF PInv, ProductionTypes

LEMMA SendStepKeeps == ASSUME PInv, IInv', SendStep PROVE PInv'
<1>1. PICK s \in Sends :
        \/ \E S \in Choices(s) : Enqueue(s, S) \/ Upload(s, S)
        \/ Dispatch(s) \/ UploadFails(s) \/ Cancel(s)
        \/ \E l \in Links, b \in BOOLEAN : UploadReturns(s, l, b)
  BY DEF SendStep
<1>2. UNCHANGED planVars /\ KeepsTokens
  BY <1>1, QuietTokens DEF planVars, Enqueue, Upload, Dispatch, UploadFails, Cancel, UploadReturns
<1>3. sends[s] \in SendRecords /\ SendOK(version, plan, sends[s])
  BY DEF PInv, ProductionTypes
<1>4. ASSUME NEW r \in SendRecords, SendOK(version, plan, r), sends' = [sends EXCEPT ![s] = r],
             \/ links' = links
             \/ \E l \in Links, k \in LinkRecords :
                    LinkOK(version, plan, k) /\ links' = [links EXCEPT ![l] = k]
      PROVE  PInv'
  <2>1. links' \in [Links -> LinkRecords] /\ \A l \in Links : LinkOK(version, plan, links'[l])
    BY <1>4, OneLink DEF PInv, ProductionTypes
  <2> QED BY <1>2, <1>4, <2>1, OneSend, QuietKeeps DEF ProductionTypes
<1>5. ASSUME NEW S \in Choices(s), Enqueue(s, S) PROVE PInv'
  <2> DEFINE r == [sends[s] EXCEPT !.row = "queued", !.units = {Stored(c) : c \in S}]
  <2>1. \A u \in {Stored(c) : c \in S} :
            u \in StoredUnits /\ NamedIn(version, plan, u) /\ FollowsIn(version, plan, u)
    BY FreshUnits DEF Choices, PInv
  <2>2. r \in SendRecords /\ r.units = {Stored(c) : c \in S} /\ r.payload = sends[s].payload
        /\ r.flying = sends[s].flying /\ r.overtaken = sends[s].overtaken
    BY <1>3, <2>1 DEF SendRecords
  <2>3. SendOK(version, plan, r)
    BY <1>3, <2>1, <2>2 DEF SendOK
  <2>4. sends' = [sends EXCEPT ![s] = r] /\ links' = links
    BY <1>5 DEF Enqueue, PInv, ProductionTypes
  <2> HIDE DEF r
  <2> QED BY <1>4, <2>2, <2>3, <2>4
<1>6. ASSUME NEW S \in Choices(s), Upload(s, S) PROVE PInv'
  <2> DEFINE r == [sends[s] EXCEPT !.flying = TRUE, !.payload = {Stored(c) : c \in S}]
  <2>1. \A u \in {Stored(c) : c \in S} :
            u \in StoredUnits /\ NamedIn(version, plan, u) /\ FollowsIn(version, plan, u)
    BY FreshUnits DEF Choices, PInv
  <2>2. r \in SendRecords /\ r.units = sends[s].units /\ r.payload = {Stored(c) : c \in S}
        /\ r.row = sends[s].row
    BY <1>3, <2>1 DEF SendRecords
  <2>3. SendOK(version, plan, r)
    BY <1>3, <2>1, <2>2 DEF SendOK
  <2>4. sends' = [sends EXCEPT ![s] = r] /\ links' = links
    BY <1>6 DEF Upload, PInv, ProductionTypes
  <2> HIDE DEF r
  <2> QED BY <1>4, <2>2, <2>3, <2>4
<1>7. ASSUME Dispatch(s) PROVE PInv'
  <2> DEFINE r == [sends[s] EXCEPT !.row = "sending", !.flying = TRUE,
                                   !.payload = sends[s].units, !.overtaken = FALSE]
  <2>1. r \in SendRecords /\ r.units = sends[s].units /\ r.payload = sends[s].units
    BY <1>3 DEF SendRecords
  <2>2. \A u \in sends[s].units : FollowsIn(version, plan, u) /\ NamedIn(version, plan, u)
    BY <1>3, <1>7 DEF SendOK, Dispatch
  <2>3. SendOK(version, plan, r)
    BY <2>1, <2>2 DEF SendOK
  <2>4. sends' = [sends EXCEPT ![s] = r] /\ links' = links
    BY <1>7 DEF Dispatch, PInv, ProductionTypes
  <2> HIDE DEF r
  <2> QED BY <1>4, <2>1, <2>3, <2>4
<1> DEFINE Landed(row) == [sends[s] EXCEPT !.flying = FALSE, !.payload = {}, !.overtaken = FALSE,
                                           !.row = IF @ = "sending" THEN row ELSE "none"]
<1>8. ASSUME NEW row \in {"done", "error"}
      PROVE  Landed(row) \in SendRecords
             /\ (sends[s].flying => SendOK(version, plan, Landed(row)))
  <2> DEFINE r == Landed(row)
  <2>1. r \in SendRecords /\ r.units = sends[s].units /\ r.payload = {} /\ ~r.flying
        /\ r.row = IF sends[s].row = "sending" THEN row ELSE "none"
    BY <1>3 DEF SendRecords
  <2>2. SendOK(version, plan, r)
    BY <1>3, <2>1 DEF SendOK
  <2> QED BY <2>1, <2>2
<1>9. ASSUME UploadFails(s) PROVE PInv'
  <2>1. sends' = [sends EXCEPT ![s] = Landed("error")] /\ links' = links /\ sends[s].flying
    BY <1>9 DEF UploadFails, PInv, ProductionTypes
  <2> HIDE DEF Landed
  <2> QED BY <1>4, <1>8, <2>1
<1>10. ASSUME NEW l \in Links, NEW b \in BOOLEAN, UploadReturns(s, l, b) PROVE PInv'
  <2> DEFINE k == [NoLink EXCEPT !.state = "watching", !.units = sends[s].payload,
                                 !.started = b, !.late = sends[s].overtaken]
  <2>1. k \in LinkRecords /\ k.units = sends[s].payload /\ k.late = sends[s].overtaken
    BY <1>3 DEF NoLink, LinkRecords, SendRecords
  <2>2. LinkOK(version, plan, k)
    BY <1>3, <1>10, <2>1 DEF LinkOK, SendOK, UploadReturns
  <2>3. /\ sends' = [sends EXCEPT ![s] = Landed("done")] /\ sends[s].flying
        /\ links' = [links EXCEPT ![l] = k]
    BY <1>10 DEF UploadReturns, PInv, ProductionTypes
  <2> HIDE DEF Landed, k
  <2> QED BY <1>4, <1>8, <2>1, <2>2, <2>3
<1>11. ASSUME Cancel(s) PROVE PInv'
  <2> DEFINE r == [sends[s] EXCEPT !.row = "cancelled"]
  <2>1. r \in SendRecords /\ r.units = sends[s].units /\ r.payload = sends[s].payload
        /\ r.flying = sends[s].flying /\ r.overtaken = sends[s].overtaken /\ r.row = "cancelled"
    BY <1>3 DEF SendRecords
  <2>2. SendOK(version, plan, r)
    BY <1>3, <2>1 DEF SendOK
  <2>3. sends' = [sends EXCEPT ![s] = r] /\ links' = links
    BY <1>11 DEF Cancel, PInv, ProductionTypes
  <2> HIDE DEF r
  <2> QED BY <1>4, <2>1, <2>2, <2>3
<1> QED BY <1>1, <1>5, <1>6, <1>7, <1>9, <1>10, <1>11

-----------------------------------------------------------------------------
\* A unit of the published version is not one of an earlier one.
LEMMA LeftBehind ==
    ASSUME IInv, Publish, NEW u \in StoredUnits, FollowsIn(version, plan, u)
    PROVE  FollowsIn(version', plan', u)
<1>1. u.at[1][1] \in Int /\ version \in Int /\ version' = version + 1
  BY PlanAssumption DEF StoredUnits, PartIds, IInv, PlanTypeOK, Publish
<1> QED BY <1>1 DEF FollowsIn, NamedIn

\* A remapped coordinate names the unit it named.
LEMMA RemapFollows ==
    ASSUME IInv, Publish, NEW u \in StoredUnits, FollowsIn(version, plan, u), Carried(draft, u.at),
           NEW w, w = [u EXCEPT !.at = Remapped(draft, u.at)]
    PROVE  /\ w \in StoredUnits /\ w.at = Remapped(draft, u.at)
           /\ NamedIn(version', plan', w) /\ FollowsIn(version', plan', w)
<1> DEFINE k == CHOOSE k \in NewPlaces(draft, PlaceOf(u.at)) : TRUE
<1>1. k \in NewPlaces(draft, PlaceOf(u.at))
  BY DEF Carried
<1>2. /\ k \in Parts \X (1 .. MaxCount)
      /\ k[2] \in DOMAIN plan'[k[1]]
      /\ plan'[k[1]][k[2]].token = UnitAt(PlaceOf(u.at)).token
  <2>1. plan' = Published(draft)
    BY DEF Publish
  <2> HIDE DEF k
  <2> QED BY <1>1, <2>1 DEF NewPlaces, Coordinates
<1>3. UnitAt(PlaceOf(u.at)).token = u.meant
  BY DEF Carried, Resolves, Accepted, UnitAt, PlaceOf, FollowsIn, NamedIn
<1>4. Remapped(draft, u.at) = <<<<version + 1, k[1]>>, k[2]>>
  BY DEF Remapped
<1> HIDE DEF k
<1>5. version' = version + 1 /\ version + 1 \in 1 .. MaxVersion
  BY PlanAssumption DEF IInv, PlanTypeOK, Publish
<1>6. Remapped(draft, u.at) \in PartIds \X (1 .. MaxCount)
  BY <1>2, <1>4, <1>5 DEF PartIds
<1>7. w \in StoredUnits /\ w.at = Remapped(draft, u.at) /\ w.meant = u.meant
  BY <1>6 DEF StoredUnits
<1>8. w.at[1][1] = version' /\ w.at[1][2] = k[1] /\ w.at[2] = k[2]
  BY <1>4, <1>5, <1>7
<1> QED BY <1>2, <1>3, <1>5, <1>7, <1>8 DEF NamedIn, FollowsIn

LEMMA IdleKeeps == ASSUME PInv, IInv', PublishIdle PROVE PInv'
<1>1. Publish /\ links' = links /\ sends' = [s \in Sends |-> Overtake(sends[s])]
  BY DEF PublishIdle
<1>2. ASSUME NEW l \in Links PROVE LinkOK(version', plan', links'[l])
  <2>1. links[l] \in LinkRecords /\ ~Active(l) /\ LinkOK(version, plan, links[l])
    BY DEF PInv, ProductionTypes, PublishIdle, ProductionActive
  <2>2. links[l].units \subseteq StoredUnits
    BY <2>1 DEF LinkRecords
  <2> QED BY <1>1, <2>1, <2>2, LeftBehind DEF LinkOK, Active, PInv
<1>3. ASSUME NEW s \in Sends
      PROVE  sends'[s] \in SendRecords /\ SendOK(version', plan', sends'[s])
  <2>1. sends[s] \in SendRecords /\ ~Waiting(s) /\ SendOK(version, plan, sends[s])
    BY DEF PInv, ProductionTypes, PublishIdle, ProductionActive
  <2>2. sends'[s] = [sends[s] EXCEPT !.overtaken = sends[s].flying]
    BY <1>1 DEF Overtake
  <2>3. /\ sends'[s] \in SendRecords /\ sends'[s].overtaken = sends[s].flying
        /\ sends'[s].units = sends[s].units /\ sends'[s].payload = sends[s].payload
        /\ sends'[s].row = sends[s].row /\ sends'[s].flying = sends[s].flying
    BY <2>1, <2>2 DEF SendRecords
  <2>4. sends[s].units \cup sends[s].payload \subseteq StoredUnits
    BY <2>1 DEF SendRecords
  <2> QED BY <1>1, <2>1, <2>3, <2>4, LeftBehind DEF SendOK, Waiting, PInv
<1>4. ProductionTypes'
  BY <1>1, <1>3 DEF PInv, ProductionTypes
<1> QED BY <1>2, <1>3, <1>4 DEF PInv

LEMMA RemappedKeeps == ASSUME PInv, IInv', PublishRemapped PROVE PInv'
<1>1. /\ Publish /\ RemapSafe(draft)
      /\ links' = [l \in Links |-> RemapLink(draft, links[l])]
      /\ sends' = [s \in Sends |->
            Overtake([sends[s] EXCEPT !.units = RemapUnits(draft, @)])]
  BY DEF PublishRemapped
<1>2. ASSUME NEW U \in SUBSET StoredUnits,
             \A u \in U : FollowsIn(version, plan, u) /\ Carried(draft, u.at),
             NEW w \in RemapUnits(draft, U)
      PROVE  w \in StoredUnits /\ NamedIn(version', plan', w) /\ FollowsIn(version', plan', w)
  <2>1. PICK u \in U : w = [u EXCEPT !.at = Remapped(draft, u.at)]
    BY <1>2 DEF RemapUnits
  <2> QED BY <1>1, <1>2, <2>1, RemapFollows DEF PInv
<1>3. ASSUME NEW l \in Links
      PROVE  links'[l] \in LinkRecords /\ LinkOK(version', plan', links'[l])
  <2>1. links[l] \in LinkRecords /\ LinkOK(version, plan, links[l])
    BY DEF PInv, ProductionTypes
  <2>2. /\ links[l].units \subseteq StoredUnits
        /\ \A u \in links[l].units : FollowsIn(version, plan, u) /\ Carried(draft, u.at)
    BY <1>1, <2>1 DEF LinkRecords, LinkOK, RemapSafe, StoredCoordinates, LinkUnits
  <2>3. \A at \in links[l].resolved : Remapped(draft, at) \in PartIds \X (1 .. MaxCount)
    <3>1. ASSUME NEW at \in links[l].resolved
          PROVE  Remapped(draft, at) \in PartIds \X (1 .. MaxCount)
      <4>1. Carried(draft, at)
        BY <1>1 DEF RemapSafe, StoredCoordinates
      <4> DEFINE k == CHOOSE k \in NewPlaces(draft, PlaceOf(at)) : TRUE
      <4>2. k \in Parts \X (1 .. MaxCount)
        BY <4>1 DEF Carried, NewPlaces, Coordinates
      <4>3. Remapped(draft, at) = <<<<version + 1, k[1]>>, k[2]>>
        BY DEF Remapped
      <4>4. version + 1 \in 1 .. MaxVersion
        BY <1>1, PlanAssumption DEF PInv, IInv, PlanTypeOK, Publish
      <4> HIDE DEF k
      <4> QED BY <4>2, <4>3, <4>4 DEF PartIds
    <3> QED BY <3>1
  <2> DEFINE U == RemapUnits(draft, links[l].units)
             R == {Remapped(draft, at) : at \in links[l].resolved}
  <2>4. \A w \in U : w \in StoredUnits /\ NamedIn(version', plan', w) /\ FollowsIn(version', plan', w)
    BY <1>2, <2>2
  <2>5. links'[l] = [links[l] EXCEPT !.units = U, !.resolved = R]
    BY <1>1, <2>1 DEF RemapLink, LinkRecords
  <2>6. U \subseteq StoredUnits /\ R \subseteq PartIds \X (1 .. MaxCount)
    BY <2>3, <2>4
  <2> HIDE DEF U, R
  <2>7. links'[l] \in LinkRecords /\ links'[l].units = U
    BY <2>1, <2>5, <2>6 DEF LinkRecords
  <2> QED BY <2>4, <2>7 DEF LinkOK
<1>4. ASSUME NEW s \in Sends
      PROVE  sends'[s] \in SendRecords /\ SendOK(version', plan', sends'[s])
  <2>1. sends[s] \in SendRecords /\ SendOK(version, plan, sends[s])
    BY DEF PInv, ProductionTypes
  <2>2. /\ sends[s].units \subseteq StoredUnits /\ sends[s].payload \subseteq StoredUnits
        /\ \A u \in sends[s].units : FollowsIn(version, plan, u) /\ Carried(draft, u.at)
        /\ \A u \in sends[s].payload : FollowsIn(version, plan, u)
    BY <1>1, <2>1 DEF SendRecords, SendOK, RemapSafe, StoredCoordinates, RowUnits
  <2> DEFINE U == RemapUnits(draft, sends[s].units)
  <2>3. \A w \in U : w \in StoredUnits /\ NamedIn(version', plan', w) /\ FollowsIn(version', plan', w)
    BY <1>2, <2>2
  <2>4. \A u \in sends[s].payload : FollowsIn(version', plan', u)
    <3>1. IInv /\ Publish
      BY <1>1 DEF PInv
    <3>2. ASSUME NEW u \in sends[s].payload PROVE FollowsIn(version', plan', u)
      <4>1. u \in StoredUnits /\ FollowsIn(version, plan, u)
        BY <2>2
      <4> QED BY <3>1, <4>1, LeftBehind
    <3> QED BY <3>2
  <2>5. U \subseteq StoredUnits
    BY <2>3
  <2>6. sends'[s] = Overtake([sends[s] EXCEPT !.units = U])
    BY <1>1, <2>1 DEF SendRecords
  <2> HIDE DEF U
  <2>7. /\ sends'[s] \in SendRecords /\ sends'[s].units = U
        /\ sends'[s].payload = sends[s].payload
        /\ sends'[s].flying = sends[s].flying /\ sends'[s].overtaken = sends[s].flying
    BY <2>1, <2>5, <2>6 DEF Overtake, SendRecords
  <2> QED BY <2>3, <2>4, <2>7 DEF SendOK
<1>5. ProductionTypes'
  BY <1>1, <1>3, <1>4 DEF ProductionTypes
<1> QED BY <1>3, <1>4, <1>5 DEF PInv

LEMMA ProductionStep == ASSUME PInv, IInv', [Next]_vars PROVE PInv'
<1>1. CASE PlanStep
  <2>1. KeepsTokens
    BY <1>1, ProgressTokens, QuietTokens
       DEF PlanStep, PInv, DraftStep, SaveReconciliation, DropReconciliation, Archive
  <2> QED BY <1>1, <2>1, QuietKeeps DEF PlanStep, PInv, ProductionTypes
<1>2. CASE UNCHANGED vars
  <2>1. KeepsTokens
    BY <1>2, QuietTokens DEF vars, planVars
  <2> QED BY <1>2, <2>1, QuietKeeps DEF vars, PInv, ProductionTypes
<1> QED BY <1>1, <1>2, LinkStepKeeps, HostStepKeeps, SendStepKeeps, IdleKeeps, RemappedKeeps DEF Next

\* The invariant holds in every state of production.
THEOREM ProductionInvariant == Spec => []PInv
<1>1. Init => PInv
  BY InitProduction
<1>2. PInv /\ IInv' /\ [Next]_vars => PInv'
  BY ProductionStep
<1>3. Spec => []IInv
  BY RefinesPlan, PlanInvariant, PTL
<1> QED BY <1>1, <1>2, <1>3, PTL DEF Spec

\* The links, the rows and the jobs hold only what their commands may write.
THEOREM ProductionTypeCorrect == Spec => []TypeOK
<1>1. PInv => TypeOK
  BY DEF PInv, IInv, ProductionTypes, TypeOK
<1> QED BY <1>1, ProductionInvariant, PTL

\* A coordinate of unfinished production that is in the accepted Plan names the unit the
\* operator meant, after any number of publications.
THEOREM CoordinatesFollow == Spec => []UnitsFollow
<1>1. PInv => UnitsFollow
  <2> SUFFICES ASSUME PInv PROVE UnitsFollow
    OBVIOUS
  <2>1. \A u : FollowsIn(version, plan, u) /\ Resolves(u.at)
                => UnitAt(PlaceOf(u.at)).token = u.meant
    BY DEF FollowsIn, NamedIn, Resolves, PlaceOf, Accepted, UnitAt
  <2> QED BY <2>1 DEF PInv, LinkOK, SendOK, UnitsFollow
<1> QED BY <1>1, ProductionInvariant, PTL

\* No publication leaves a coordinate of unfinished production behind, except those of an
\* upload that was under way.
THEOREM NothingElseLeftBehind == Spec => []OnlyUploadsAreLeftBehind
<1>1. PInv => OnlyUploadsAreLeftBehind
  <2> SUFFICES ASSUME PInv PROVE OnlyUploadsAreLeftBehind
    OBVIOUS
  <2>1. ASSUME NEW u \in StoredUnits, NamedIn(version, plan, u) PROVE Resolves(u.at)
    BY <2>1 DEF NamedIn, StoredUnits, PartIds, Resolves, PlaceOf, Accepted, Coordinates
  <2>2. \A l \in Links : links[l].units \subseteq StoredUnits
    BY DEF PInv, ProductionTypes, LinkRecords
  <2>3. \A s \in Sends : sends[s].units \subseteq StoredUnits
    BY DEF PInv, ProductionTypes, SendRecords
  <2> QED BY <2>1, <2>2, <2>3
          DEF PInv, LinkOK, SendOK, Active, Waiting, OnlyUploadsAreLeftBehind
<1> QED BY <1>1, ProductionInvariant, PTL

-----------------------------------------------------------------------------
Outcome(old, new) ==
    \/ new = old
    \/ old = "absent" /\ new \in {"watching", "awaiting_verify"}
    \/ old = "watching" /\ new \in {"awaiting_verify", "host_failed", "dismissed"}
    \/ old = "awaiting_verify" /\ new = "verified"
    \/ old = "host_failed" /\ new = "dismissed"

\* A link that is watched goes on being watched, or ends in one of the ways a poll knows.
LEMMA AdvancedOutcome ==
    ASSUME NEW l \in Links, NEW st, links[l] \in LinkRecords, Watching(l)
    PROVE  Advanced(l, st).state \in {"watching", "awaiting_verify", "host_failed"}
<1> DEFINE link == links[l]
<1>1. link.state = "watching" /\ MarkActive(link, st.near).state = "watching"
  BY DEF Watching, MarkActive, LinkRecords
<1>2. /\ AwaitVerify(link).state = "awaiting_verify"
      /\ Ended(link, "host_failed").state = "host_failed"
  BY DEF AwaitVerify, Ended, LinkRecords
<1>3. Advanced(l, st) \in {MarkActive(link, st.near), AwaitVerify(link),
                           Ended(link, "host_failed"), link}
  BY Zenon DEF Advanced
<1> QED BY <1>1, <1>2, <1>3

\* Whatever polls, commands and publications meet, a print of a link has one outcome.
THEOREM OutcomesAreFinal == Spec => OneOutcome
<1>1. PInv /\ [Next]_vars => [\A l \in Links : Outcome(links[l].state, links'[l].state)]_vars
  <2> SUFFICES ASSUME PInv, [Next]_vars
               PROVE  \A l \in Links : Outcome(links[l].state, links'[l].state)
    OBVIOUS
  <2> USE DEF Outcome
  <2>0. links \in [Links -> LinkRecords]
    BY DEF PInv, ProductionTypes
  <2>1. CASE links' = links
    BY <2>1
  <2>2. ASSUME NEW l \in Links, NEW S, NEW b, Attribute(l, S, b) PROVE \A k \in Links : Outcome(links[k].state, links'[k].state)
    BY <2>0, <2>2 DEF Attribute, NoLink
  <2>3. ASSUME NEW l \in Links, NEW S, Repair(l, S) PROVE \A k \in Links : Outcome(links[k].state, links'[k].state)
    BY <2>0, <2>3 DEF Repair, LinkRecords
  <2>4. ASSUME NEW l \in Links, Dismiss(l) PROVE \A k \in Links : Outcome(links[k].state, links'[k].state)
    BY <2>0, <2>4 DEF Dismiss, LinkRecords
  <2>5. ASSUME NEW l \in Links, NEW yes, NEW no, Verify(l, yes, no) PROVE \A k \in Links : Outcome(links[k].state, links'[k].state)
    BY <2>0, <2>5 DEF Verify, LinkRecords
  <2>6. ASSUME NEW s \in Sends, NEW l \in Links, NEW b, UploadReturns(s, l, b) PROVE \A k \in Links : Outcome(links[k].state, links'[k].state)
    BY <2>0, <2>6 DEF UploadReturns, NoLink
  <2>7. ASSUME NEW st, NEW stale, Poll(st, stale) PROVE \A k \in Links : Outcome(links[k].state, links'[k].state)
    <3> SUFFICES ASSUME NEW l \in Links PROVE Outcome(links[l].state, links'[l].state)
      OBVIOUS
    <3>1. CASE ~Watching(l)
      BY <2>7, <3>1 DEF Poll
    <3>2. CASE Watching(l)
      <4>1. links'[l] \in {Ended(links[l], "dismissed"), Advanced(l, st)}
        BY <2>7, <3>2 DEF Poll
      <4>2. links[l].state = "watching" /\ Ended(links[l], "dismissed").state = "dismissed"
        BY <2>0, <3>2 DEF Watching, Ended, LinkRecords
      <4>3. Advanced(l, st).state \in {"watching", "awaiting_verify", "host_failed"}
        BY <2>0, <3>2, AdvancedOutcome
      <4> QED BY <4>1, <4>2, <4>3
    <3> QED BY <3>1, <3>2
  <2>8. CASE PublishRemapped
    BY <2>0, <2>8 DEF PublishRemapped, RemapLink, LinkRecords
  <2>9. CASE LinkStep
    BY <2>9, <2>2, <2>3, <2>4, <2>5, Zenon DEF LinkStep
  <2>10. CASE SendStep
    <3>1. ASSUME NEW s \in Sends, NEW S
          PROVE  Enqueue(s, S) \/ Upload(s, S) \/ Dispatch(s) \/ UploadFails(s) \/ Cancel(s)
                    => links' = links
      BY DEF Enqueue, Upload, Dispatch, UploadFails, Cancel
    <3> QED BY <2>10, <2>1, <2>6, <3>1, Zenon DEF SendStep
  <2>11. PlanStep \/ PublishIdle \/ UNCHANGED vars => links' = links
    BY DEF PlanStep, PublishIdle, vars
  <2>12. CASE HostStep
    BY <2>12, <2>7, Zenon DEF HostStep
  <2> QED BY <2>1, <2>8, <2>9, <2>10, <2>11, <2>12 DEF Next
<1> QED BY <1>1, ProductionInvariant, PTL DEF Spec, OneOutcome, Outcome
=============================================================================
