-------------------------- MODULE JobPromiseProofs --------------------------
(* What follows from the promise of JobPromise, whoever keeps it.            *)
EXTENDS JobPromise, TLAPS

PromiseTyped ==
    /\ granted \in [Job -> SUBSET Effect]
    /\ done \in [Job -> [Effect -> {0, 1}]]
    /\ verdict \in [Job -> Verdict]

\* Exclusive effects are not even granted together.
GrantsExclude ==
    \A j \in Job : \A X \in Exclusive : \A a, b \in X :
        {a, b} \subseteq granted[j] => a = b

NothingUngranted == \A j \in Job : Happened(j) \subseteq granted[j]

\* An untouched job was granted nothing, and a proven one has nothing left.
EndsAreTrue ==
    \A j \in Job :
        /\ verdict[j] = "untouched" => granted[j] = {}
        /\ verdict[j] = "proven" => granted[j] = Happened(j)

PromiseInv == PromiseTyped /\ GrantsExclude /\ NothingUngranted /\ EndsAreTrue

LEMMA PromiseInit == Init => PromiseInv
BY DEF Init, PromiseInv, PromiseTyped, GrantsExclude, NothingUngranted,
       EndsAreTrue, Happened, Verdict

LEMMA GrantKeeps ==
    ASSUME PromiseInv, NEW j \in Job, NEW i \in Effect, Grant(j, i)
    PROVE  PromiseInv'
<1>1. /\ granted' = [granted EXCEPT ![j] = @ \cup {i}]
      /\ UNCHANGED <<done, verdict>> /\ verdict[j] = "open"
      /\ \A X \in Exclusive : i \in X => X \cap granted[j] = {}
  BY DEF Grant
<1>2. /\ granted'[j] = granted[j] \cup {i}
      /\ \A k \in Job \ {j} : granted'[k] = granted[k]
  BY <1>1 DEF PromiseInv, PromiseTyped
<1>3. PromiseTyped'
  BY <1>1 DEF PromiseInv, PromiseTyped
<1>4. NothingUngranted' /\ EndsAreTrue'
  BY <1>1, <1>2 DEF PromiseInv, NothingUngranted, EndsAreTrue, Happened
<1>5. GrantsExclude'
  BY <1>1, <1>2 DEF PromiseInv, GrantsExclude
<1> QED BY <1>3, <1>4, <1>5 DEF PromiseInv

LEMMA ActKeeps ==
    ASSUME PromiseInv, NEW j \in Job, NEW i \in Effect, Act(j, i)
    PROVE  PromiseInv'
<1>1. /\ done' = [done EXCEPT ![j][i] = 1] /\ UNCHANGED <<granted, verdict>>
      /\ i \in granted[j] /\ done[j][i] = 0
  BY DEF Act
<1>2. PromiseTyped'
  BY <1>1 DEF PromiseInv, PromiseTyped
<1>3. /\ \A k \in Job : Happened(k)' \subseteq Happened(k) \cup {i}
      /\ \A k \in Job \ {j} : Happened(k)' = Happened(k)
  BY <1>1 DEF PromiseInv, PromiseTyped, Happened
<1>4. verdict[j] # "untouched" /\ verdict[j] # "proven"
  BY <1>1 DEF PromiseInv, EndsAreTrue, Happened
<1>5. NothingUngranted' /\ EndsAreTrue' /\ GrantsExclude'
  BY <1>1, <1>3, <1>4
     DEF PromiseInv, NothingUngranted, EndsAreTrue, GrantsExclude
<1> QED BY <1>2, <1>5 DEF PromiseInv

LEMMA JudgeKeeps == PromiseInv /\ Judge => PromiseInv'
BY DEF Judge, MayBecome, PromiseInv, PromiseTyped, GrantsExclude,
       NothingUngranted, EndsAreTrue, Happened

\* Whoever keeps the promise can be trusted for good: no effect of an
\* untouched job happens later, a proven one has done what it was granted,
\* and no effect happens twice or beside one that excludes it.
THEOREM PromiseIsSafe == Spec => []VerdictsHold
<1>1. PromiseInv /\ [Next]_vars => PromiseInv'
  <2>1. PromiseInv /\ UNCHANGED vars => PromiseInv'
    BY DEF vars, PromiseInv, PromiseTyped, GrantsExclude, NothingUngranted,
           EndsAreTrue, Happened
  <2> QED BY <2>1, GrantKeeps, ActKeeps, JudgeKeeps DEF Next
<1>2. PromiseInv => VerdictsHold
  <2> SUFFICES ASSUME PromiseInv PROVE VerdictsHold
    OBVIOUS
  <2>1. \A j \in Job, i \in Effect : done[j][i] \in {0, 1}
    BY DEF PromiseInv, PromiseTyped
  <2>2. \A j \in Job : /\ Happened(j) \subseteq granted[j]
                       /\ verdict[j] = "untouched" => Happened(j) = {}
                       /\ verdict[j] = "proven" => Happened(j) = granted[j]
    BY DEF PromiseInv, NothingUngranted, EndsAreTrue
  <2>3. \A j \in Job : \A X \in Exclusive : \A a, b \in X :
           {a, b} \subseteq Happened(j) => a = b
    BY <2>2 DEF PromiseInv, GrantsExclude
  <2> QED BY <2>1, <2>2, <2>3 DEF VerdictsHold
<1> QED BY <1>1, <1>2, PromiseInit, PTL DEF Spec

=============================================================================
