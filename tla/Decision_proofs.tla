-------------------------- MODULE Decision_proofs ---------------------------
(***************************************************************************)
(* For any audiences, modes, notes, scores and budgets: the audiences a    *)
(* preparation selects are apart on evidence, each one it drops overlaps a *)
(* better one that it keeps, and the plans are what the phase budget       *)
(* should buy.  For any keywords: the duplicates are dropped, and nothing  *)
(* else.                                                                   *)
(*                                                                         *)
(* The comparison of a candidate takes a step for each selected audience,  *)
(* so the invariant says what the steps so far have established: the      *)
(* considered audiences rank before those left, and the next candidate is  *)
(* apart from all those it was compared with.                              *)
(***************************************************************************)
EXTENDS Decision, Keywords_proofs

\* Audiences are considered in ranking order.
InRankingOrder == \A d \in ready \ left, c \in left : d < c

\* The candidate is of one mode with those it was compared with, and apart
\* from them.
ComparedAreApart ==
    policy = "HARD" => \A c : First(c, left) =>
        \A a \in compared : {a, c} \in apart

MatrixInv == /\ MatrixTypeOK
             /\ InRankingOrder
             /\ ComparedAreApart
             /\ SelectedAreApart
             /\ RejectedForBetter

-----------------------------------------------------------------------------

\* The candidate is one.
LEMMA FirstIsUnique ==
    ASSUME NEW S, S \subseteq Nat, NEW c, NEW d, First(c, S), First(d, S)
    PROVE  c = d
  BY DEF First

LEMMA MatrixInitInv == ASSUME MatrixAssumption, Init PROVE MatrixInv
  BY DEF MatrixAssumption, Init, MatrixInit, MatrixOff, MatrixEmpty, MatrixInv,
         MatrixTypeOK, InRankingOrder, ComparedAreApart, SelectedAreApart,
         RejectedForBetter

\* SelectAll only happens under WARNING_ONLY, where nothing is promised.
LEMMA SelectAllInv ==
    ASSUME MatrixAssumption, MatrixInv, SelectAll PROVE MatrixInv'
  BY DEF MatrixAssumption, MatrixInv, MatrixTypeOK, InRankingOrder,
         ComparedAreApart, SelectedAreApart, RejectedForBetter, SelectAll,
         audienceVars, pairVars

\* A candidate that faces nobody is apart from all selected ones of its mode.
LEMMA SelectInv ==
    ASSUME MatrixAssumption, MatrixInv, NEW c \in Audiences, Select(c)
    PROVE  MatrixInv'
<1>0. /\ policy = "HARD" /\ c \in left
      /\ selected' = selected \cup {c}
      /\ left' = left \ {c}
      /\ compared' = {}
      /\ UNCHANGED <<stage, policy, ready, apart, alike, pairVars>>
  BY DEF Select, First
<1>1. MatrixTypeOK'
  BY <1>0 DEF MatrixInv, MatrixTypeOK, pairVars
<1>2. InRankingOrder'
  BY <1>0 DEF MatrixInv, MatrixTypeOK, MatrixAssumption, InRankingOrder,
              Select, First
<1>3. ComparedAreApart'
  BY <1>0 DEF ComparedAreApart
<1>4. SelectedAreApart'
  <2>1. \A a \in selected : Mode[a] = Mode[c] => {a, c} \in apart
    BY <1>0 DEF MatrixInv, ComparedAreApart, Select, Facing
  <2>2. SUFFICES ASSUME NEW a \in selected', NEW b \in selected', a # b,
                        Mode[a] = Mode[b]
                 PROVE  {a, b} \in apart'
    BY <1>0 DEF SelectedAreApart
  <2>3. CASE a = c
    <3>1. {b, c} \in apart
      BY <1>0, <2>1, <2>2, <2>3
    <3>2. {b, c} = {a, b}
      BY <2>3
    <3> QED BY <1>0, <3>1, <3>2
  <2>4. CASE b = c
    BY <1>0, <2>1, <2>2, <2>4
  <2>5. CASE a # c /\ b # c
    BY <1>0, <2>2, <2>5 DEF MatrixInv, SelectedAreApart
  <2> QED BY <2>3, <2>4, <2>5
<1>5. RejectedForBetter'
  BY <1>0 DEF MatrixInv, MatrixTypeOK, RejectedForBetter
<1> QED BY <1>1, <1>2, <1>3, <1>4, <1>5 DEF MatrixInv

\* The candidate stays the same, and one more was found apart from it.
LEMMA CompareApartInv ==
    ASSUME MatrixAssumption, MatrixInv, NEW c \in Audiences, NEW a \in Audiences,
           CompareApart(c, a)
    PROVE  MatrixInv'
<1>0. /\ policy = "HARD" /\ First(c, left) /\ c \in left /\ a \in selected
      /\ apart' = apart \cup {{a, c}}
      /\ compared' = compared \cup {a}
      /\ UNCHANGED <<stage, policy, ready, left, selected, alike, pairVars>>
  BY DEF CompareApart, First, Facing
<1>1. MatrixTypeOK'
  BY <1>0 DEF MatrixInv, MatrixTypeOK, pairVars
<1>2. InRankingOrder'
  BY <1>0 DEF MatrixInv, InRankingOrder
<1>3. ComparedAreApart'
  <2>1. SUFFICES ASSUME NEW d, First(d, left), NEW b \in compared'
                 PROVE  {b, d} \in apart'
    BY <1>0 DEF ComparedAreApart, First
  <2>2. d = c
    BY <1>0, <2>1, FirstIsUnique DEF MatrixInv, MatrixTypeOK, MatrixAssumption
  <2> QED BY <1>0, <2>1, <2>2 DEF MatrixInv, ComparedAreApart
<1>4. SelectedAreApart' /\ RejectedForBetter'
  BY <1>0 DEF MatrixInv, SelectedAreApart, RejectedForBetter
<1> QED BY <1>1, <1>2, <1>3, <1>4 DEF MatrixInv

\* The one it overlaps was considered before it, hence ranks better.
LEMMA RejectInv ==
    ASSUME MatrixAssumption, MatrixInv, NEW c \in Audiences, NEW a \in Audiences,
           Reject(c, a)
    PROVE  MatrixInv'
<1>0. /\ policy = "HARD" /\ c \in left /\ a \in selected /\ Mode[a] = Mode[c]
      /\ alike' = alike \cup {{a, c}}
      /\ left' = left \ {c}
      /\ compared' = {}
      /\ UNCHANGED <<stage, policy, ready, selected, apart, pairVars>>
  BY DEF Reject, First, Facing
<1>1. MatrixTypeOK'
  BY <1>0 DEF MatrixInv, MatrixTypeOK, pairVars
<1>2. InRankingOrder'
  BY <1>0 DEF MatrixInv, MatrixTypeOK, MatrixAssumption, InRankingOrder,
              Reject, First
<1>3. ComparedAreApart' /\ SelectedAreApart'
  BY <1>0 DEF MatrixInv, ComparedAreApart, SelectedAreApart
<1>4. RejectedForBetter'
  <2>1. a < c
    BY <1>0 DEF MatrixInv, MatrixTypeOK, InRankingOrder
  <2> QED BY <1>0, <2>1 DEF MatrixInv, RejectedForBetter
<1> QED BY <1>1, <1>2, <1>3, <1>4 DEF MatrixInv

\* The plans are selected from the audiences, and change none of them.
LEMMA OthersInv ==
    ASSUME MatrixAssumption, MatrixInv,
           \/ AudiencesDone
           \/ SelectPlans
           \/ \E c, a \in Audiences : EvidenceMissing(c, a)
           \/ UNCHANGED matrixVars
    PROVE  MatrixInv'
<1>1. UNCHANGED audienceVars
  BY DEF AudiencesDone, SelectPlans, EvidenceMissing, matrixVars
<1>2. InRankingOrder' /\ ComparedAreApart' /\ SelectedAreApart' /\ RejectedForBetter'
  BY <1>1 DEF MatrixInv, audienceVars, InRankingOrder, ComparedAreApart,
              SelectedAreApart, RejectedForBetter, First
<1>3. CASE SelectPlans
  <2>1. PICK R \in SUBSET [note: Notes, audience: selected, score: Scores] : rows' = R
    BY <1>3 DEF SelectPlans
  <2>2. /\ budget' \in Budgets
        /\ stage' \in {"raised", "waiting", "planned"}
        /\ plans' = plans \/ plans' \subseteq Notes \X selected
    BY <1>3 DEF SelectPlans
  <2>3. rows' \subseteq Row
    BY <2>1 DEF MatrixInv, MatrixTypeOK, Row
  <2>4. MatrixTypeOK'
    BY <1>1, <2>2, <2>3 DEF MatrixInv, MatrixTypeOK, audienceVars
  <2> QED BY <1>2, <2>4 DEF MatrixInv
<1>4. CASE ~SelectPlans
  <2>1. UNCHANGED pairVars /\ stage' \in {stage, "raised", "pairs"}
    BY <1>4 DEF AudiencesDone, EvidenceMissing, matrixVars
  <2>2. MatrixTypeOK'
    BY <1>1, <2>1 DEF MatrixInv, MatrixTypeOK, audienceVars, pairVars
  <2> QED BY <1>2, <2>2 DEF MatrixInv
<1> QED BY <1>3, <1>4

LEMMA MatrixNextInv ==
    ASSUME MatrixAssumption, MatrixInv, [Next]_vars PROVE MatrixInv'
<1>1. MatrixNext \/ UNCHANGED matrixVars
  BY DEF Next, vars
<1>2. CASE \E c \in Audiences : Select(c)
  BY <1>2, SelectInv
<1>3. CASE \E c, a \in Audiences : CompareApart(c, a)
  BY <1>3, CompareApartInv
<1>4. CASE \E c, a \in Audiences : Reject(c, a)
  BY <1>4, RejectInv
<1> QED BY <1>1, <1>2, <1>3, <1>4, SelectAllInv, OthersInv DEF MatrixNext

(***************************************************************************)
(* The walk along the pairs of a note (_select_pairs): the pairs that come *)
(* before one are fewer than those that come before a later one.           *)
(***************************************************************************)

LEMMA RowsAreFinite == ASSUME NEW R \in SUBSET Row PROVE IsFiniteSet(R)
<1> DEFINE P == Notes \X (Audiences \X Scores)
           f == [p \in P |-> [note |-> p[1], audience |-> p[2][1], score |-> p[2][2]]]
<1>1. IsFiniteSet(P)
  BY FS_Product, MatrixAssumption DEF MatrixAssumption
<1>2. f \in Surjection(P, Row)
  <2>1. f \in [P -> Row]
    BY DEF Row
  <2>2. ASSUME NEW r \in Row PROVE \E p \in P : f[p] = r
    <3>1. <<r.note, <<r.audience, r.score>>>> \in P
      BY DEF Row
    <3>2. f[<<r.note, <<r.audience, r.score>>>>] = r
      BY <3>1 DEF Row
    <3> QED BY <3>1, <3>2
  <2> QED BY <2>1, <2>2 DEF Surjection
<1>3. IsFiniteSet(Row)
  BY <1>1, <1>2, FS_Surjection
<1> QED BY <1>3, FS_Subset

\* A row is typed.
LEMMA RowFields ==
    ASSUME NEW R \in SUBSET Row, NEW r \in R
    PROVE  /\ r.note \in Notes /\ r.audience \in Audiences /\ r.score \in Scores
           /\ r.audience \in Nat /\ r.score \in Nat
           /\ r = [note |-> r.note, audience |-> r.audience, score |-> r.score]
  BY MatrixAssumption DEF MatrixAssumption, Row

LEMMA WalkIsOrdered ==
    ASSUME NEW R \in SUBSET Row, NEW r \in R, NEW q \in R, r.note = q.note
    PROVE  /\ r \notin Ahead(r, R)
           /\ r = q \/ r \in Ahead(q, R) \/ q \in Ahead(r, R)
           /\ q \in Ahead(r, R) => /\ Ahead(q, R) \subseteq Ahead(r, R)
                                   /\ r.score <= q.score
                                   /\ Cardinality(Ahead(q, R)) < Cardinality(Ahead(r, R))
           /\ Cardinality(Ahead(r, R)) \in Nat
<1>1. \A x \in R : /\ x.audience \in Nat /\ x.score \in Nat
                   /\ x = [note |-> x.note, audience |-> x.audience, score |-> x.score]
  BY RowFields
<1>2. r \notin Ahead(r, R) /\ (r = q \/ r \in Ahead(q, R) \/ q \in Ahead(r, R))
  BY <1>1 DEF Ahead
<1>3. \A x \in R : /\ IsFiniteSet(Ahead(x, R)) /\ Cardinality(Ahead(x, R)) \in Nat
                   /\ x \notin Ahead(x, R)
  BY <1>1, RowsAreFinite, FS_CardinalityType DEF Ahead
<1>4. ASSUME q \in Ahead(r, R)
      PROVE  /\ Ahead(q, R) \subseteq Ahead(r, R) /\ r.score <= q.score
             /\ Cardinality(Ahead(q, R)) < Cardinality(Ahead(r, R))
  <2>1. Ahead(q, R) \subseteq Ahead(r, R) /\ r.score <= q.score
    BY <1>1, <1>4 DEF Ahead
  <2>2. Ahead(q, R) # Ahead(r, R)
    BY <1>3, <1>4
  <2> QED BY <1>3, <2>1, <2>2, FS_Subset
<1> QED BY <1>2, <1>3, <1>4

\* Some pairs of one note have a first and a last one on the walk.
LEMMA FirstPair ==
    ASSUME NEW R \in SUBSET Row, NEW S \in SUBSET R, S # {},
           \A q, r \in S : q.note = r.note
    PROVE  \E r \in S : \A q \in S : q = r \/ r \in Ahead(q, R)
<1> DEFINE places == {Cardinality(Ahead(q, R)) : q \in S}
<1>0. \A q \in S : Cardinality(Ahead(q, R)) \in Nat
  BY WalkIsOrdered
<1>1. places \subseteq Nat /\ places # {}
  BY <1>0
<1>2. PICK x \in places : \A y \in places : x <= y
  <2> HIDE DEF places
  <2> QED BY <1>1, LeastNumber
<1>3. PICK r \in S : x = Cardinality(Ahead(r, R))
  OBVIOUS
<1>4. ASSUME NEW q \in S PROVE q = r \/ r \in Ahead(q, R)
  <2>1. Cardinality(Ahead(r, R)) <= Cardinality(Ahead(q, R))
    BY <1>2, <1>3
  <2>2. /\ q = r \/ r \in Ahead(q, R) \/ q \in Ahead(r, R)
        /\ q \in Ahead(r, R) => Cardinality(Ahead(q, R)) < Cardinality(Ahead(r, R))
        /\ Cardinality(Ahead(r, R)) \in Nat
    BY WalkIsOrdered
  <2>3. Cardinality(Ahead(q, R)) \in Nat
    BY WalkIsOrdered
  <2> QED BY <2>1, <2>2, <2>3
<1> QED BY <1>4

LEMMA LastPair ==
    ASSUME NEW R \in SUBSET Row, NEW S \in SUBSET R, S # {},
           \A q, r \in S : q.note = r.note
    PROVE  \E r \in S : \A q \in S : q = r \/ q \in Ahead(r, R)
<1>0. /\ IsFiniteSet(R) /\ Cardinality(R) \in Nat
      /\ \A q \in S : /\ Cardinality(Ahead(q, R)) \in Nat
                      /\ Cardinality(Ahead(q, R)) <= Cardinality(R)
  <2>1. IsFiniteSet(R) /\ Cardinality(R) \in Nat
    BY RowsAreFinite, FS_CardinalityType
  <2>2. ASSUME NEW q \in S PROVE Cardinality(Ahead(q, R)) <= Cardinality(R)
    <3>1. Ahead(q, R) \in SUBSET R
      BY DEF Ahead
    <3> QED BY <2>1, <3>1, FS_Subset
  <2> QED BY <2>1, <2>2, WalkIsOrdered
<1> DEFINE places == {Cardinality(R) - Cardinality(Ahead(q, R)) : q \in S}
<1>1. places \subseteq Nat /\ places # {}
  BY <1>0
<1>2. PICK x \in places : \A y \in places : x <= y
  <2> HIDE DEF places
  <2> QED BY <1>1, LeastNumber
<1>3. PICK r \in S : x = Cardinality(R) - Cardinality(Ahead(r, R))
  OBVIOUS
<1>4. ASSUME NEW q \in S PROVE q = r \/ q \in Ahead(r, R)
  <2>1. Cardinality(R) - Cardinality(Ahead(r, R)) <= Cardinality(R) - Cardinality(Ahead(q, R))
    BY <1>2, <1>3
  <2>2. q = r \/ r \in Ahead(q, R) \/ q \in Ahead(r, R)
    BY WalkIsOrdered
  <2>3. r \in Ahead(q, R) => Cardinality(Ahead(r, R)) < Cardinality(Ahead(q, R))
    BY WalkIsOrdered
  <2> QED BY <1>0, <2>1, <2>2, <2>3
<1> QED BY <1>4

\* As many audiences as pairs, at most; and fewer pairs have fewer.
LEMMA AudiencesAreFinite ==
    ASSUME NEW R \in SUBSET Row
    PROVE  /\ AudiencesOf(R) \in SUBSET Audiences
           /\ IsFiniteSet(AudiencesOf(R)) /\ Cardinality(AudiencesOf(R)) \in Nat
           /\ \A S \in SUBSET R : /\ AudiencesOf(S) \subseteq AudiencesOf(R)
                                  /\ Cardinality(AudiencesOf(S)) \in Nat
                                  /\ Cardinality(AudiencesOf(S)) <= Cardinality(AudiencesOf(R))
<1>1. \A S \in SUBSET R : AudiencesOf(S) \in SUBSET Audiences
  BY DEF AudiencesOf, Row
<1>2. \A S \in SUBSET R : IsFiniteSet(AudiencesOf(S)) /\ Cardinality(AudiencesOf(S)) \in Nat
  BY <1>1, FS_Subset, FS_CardinalityType, MatrixAssumption DEF MatrixAssumption
<1>3. \A S \in SUBSET R : AudiencesOf(S) \in SUBSET AudiencesOf(R)
  BY DEF AudiencesOf
<1> QED BY <1>1, <1>2, <1>3, FS_Subset

\* The walk takes as many audiences as it should when the note has them.
LEMMA WalkTakesItsNumber ==
    ASSUME NEW R \in SUBSET Row, NEW n, NEW k \in Nat \ {0},
           k <= Cardinality(Partners(n, R))
    PROVE  /\ SelectPairs(n, R, k) \subseteq Partners(n, R)
           /\ IsFiniteSet(SelectPairs(n, R, k))
           /\ Cardinality(SelectPairs(n, R, k)) = k
<1> DEFINE S == {r \in R : r.note = n}
           seen(r) == Cardinality(AudiencesOf(Ahead(r, R)))
           T == {r \in R : r.note = n /\ seen(r) < k}
<1>1. /\ T \in SUBSET S /\ S \in SUBSET R /\ S \in SUBSET Row /\ T \in SUBSET Row
      /\ \A r \in S : r.note = n /\ Ahead(r, R) \in SUBSET S
  BY DEF Ahead
<1>2. SelectPairs(n, R, k) = AudiencesOf(T) /\ Partners(n, R) = AudiencesOf(S)
  BY DEF SelectPairs, Partners
<1> HIDE DEF S
<1>3. /\ AudiencesOf(T) \subseteq AudiencesOf(S) /\ IsFiniteSet(AudiencesOf(T))
      /\ Cardinality(AudiencesOf(T)) \in Nat /\ Cardinality(AudiencesOf(S)) \in Nat
      /\ \A r \in S : seen(r) \in Nat
  <2> HIDE DEF T
  <2> QED BY <1>1, AudiencesAreFinite
<1>4. \A r \in S \ T : seen(r) >= k
  BY <1>1, <1>3 DEF S
<1>5. \A r \in T : seen(r) < k
  OBVIOUS
<1> HIDE DEF T
<1>6. Cardinality(AudiencesOf(T)) >= k
  <2>1. CASE T = S
    BY <1>2, <2>1
  <2>2. CASE T # S
    <3>1. PICK r \in S \ T : \A q \in S \ T : q = r \/ r \in Ahead(q, R)
      BY <1>1, <2>2, FirstPair
    <3>2. Ahead(r, R) \subseteq T
      <4> SUFFICES ASSUME NEW q \in Ahead(r, R), q \in S \ T PROVE FALSE
        BY <1>1
      <4>1. q.note = r.note /\ q \in R /\ r \in R
        BY <1>1
      <4>2. r \notin Ahead(q, R) /\ q # r
        BY <4>1, WalkIsOrdered
      <4> QED BY <3>1, <4>2
    <3>3. seen(r) <= Cardinality(AudiencesOf(T))
      BY <1>1, <3>2, AudiencesAreFinite
    <3> QED BY <1>3, <1>4, <3>1, <3>3
  <2> QED BY <2>1, <2>2
<1>7. Cardinality(AudiencesOf(T)) <= k
  <2>1. CASE T = {}
    BY <2>1, FS_EmptySet DEF AudiencesOf
  <2>2. CASE T # {}
    <3>1. PICK r \in T : \A q \in T : q = r \/ q \in Ahead(r, R)
      BY <1>1, <2>2, LastPair
    <3>2. AudiencesOf(T) \subseteq AudiencesOf(Ahead(r, R)) \cup {r.audience}
      BY <3>1 DEF AudiencesOf
    <3>3. /\ IsFiniteSet(AudiencesOf(Ahead(r, R)) \cup {r.audience})
          /\ Cardinality(AudiencesOf(Ahead(r, R)) \cup {r.audience}) <= seen(r) + 1
          /\ Cardinality(AudiencesOf(Ahead(r, R)) \cup {r.audience}) \in Nat
      <4>1. IsFiniteSet(AudiencesOf(Ahead(r, R))) /\ seen(r) \in Nat
        BY <1>1, <1>3, AudiencesAreFinite
      <4>2. /\ IsFiniteSet(AudiencesOf(Ahead(r, R)) \cup {r.audience})
            /\ Cardinality(AudiencesOf(Ahead(r, R)) \cup {r.audience}) =
                  IF r.audience \in AudiencesOf(Ahead(r, R)) THEN seen(r) ELSE seen(r) + 1
        BY <4>1, FS_AddElement
      <4> QED BY <4>1, <4>2
    <3>4. Cardinality(AudiencesOf(T)) <= seen(r) + 1
      <4>1. Cardinality(AudiencesOf(T)) <= Cardinality(AudiencesOf(Ahead(r, R)) \cup {r.audience})
        BY <3>2, <3>3, FS_Subset
      <4> QED BY <1>1, <1>3, <3>3, <4>1
    <3> QED BY <1>1, <1>3, <1>5, <3>1, <3>4
  <2> QED BY <2>1, <2>2
<1> QED BY <1>2, <1>3, <1>6, <1>7

\* A pair of an audience that was not taken comes after one of each that was.
LEMMA WalkTakesTheBest ==
    ASSUME NEW R \in SUBSET Row, NEW n, NEW k \in Nat,
           NEW a \in SelectPairs(n, R, k), NEW b, b \notin SelectPairs(n, R, k)
    PROVE  \E r \in R : /\ r.note = n /\ r.audience = a
                        /\ \A q \in R : q.note = n /\ q.audience = b => q.score <= r.score
<1>1. PICK r \in R : /\ r.note = n /\ r.audience = a
                     /\ Cardinality(AudiencesOf(Ahead(r, R))) < k
  BY DEF SelectPairs, AudiencesOf
<1>2. ASSUME NEW q \in R, q.note = n, q.audience = b PROVE q.score <= r.score
  <2>1. ~(Cardinality(AudiencesOf(Ahead(q, R))) < k)
    BY <1>2 DEF SelectPairs, AudiencesOf
  <2>2. q \notin Ahead(r, R)
    <3> SUFFICES ASSUME q \in Ahead(r, R) PROVE FALSE
      OBVIOUS
    <3>1. Ahead(q, R) \in SUBSET Ahead(r, R) /\ Ahead(r, R) \in SUBSET Row
      BY <1>1, <1>2, WalkIsOrdered DEF Ahead
    <3>2. /\ Cardinality(AudiencesOf(Ahead(q, R))) <= Cardinality(AudiencesOf(Ahead(r, R)))
          /\ Cardinality(AudiencesOf(Ahead(q, R))) \in Nat
          /\ Cardinality(AudiencesOf(Ahead(r, R))) \in Nat
      BY <3>1, AudiencesAreFinite
    <3> QED BY <1>1, <2>1, <3>2
  <2>3. q = r \/ r \in Ahead(q, R)
    BY <1>1, <1>2, <2>2, WalkIsOrdered
  <2>4. r \in Ahead(q, R) => q.score <= r.score
    BY <1>1, <1>2, WalkIsOrdered
  <2> QED BY <2>3, <2>4, RowFields
<1> QED BY <1>1, <1>2

(***************************************************************************)
(* The plans: what the stage says of the rows, the budget and the plans.   *)
(***************************************************************************)

PlansInv ==
    /\ stage # "planned" => plans = {}
    /\ stage \in {"waiting", "planned"} =>
          budget \in Budgets /\ EligiblePerNote(rows) # 0
    /\ stage = "waiting" => PerNote(rows, budget) = 0
    /\ stage = "planned" =>
          /\ PerNote(rows, budget) # 0
          /\ rows \subseteq [note: Notes, audience: selected, score: Scores]
          /\ plans = {p \in Notes \X selected :
                         p[2] \in SelectPairs(p[1], rows, PerNote(rows, budget))}

LEMMA PlansInitInv == ASSUME Init PROVE PlansInv
  BY DEF Init, MatrixInit, MatrixOff, MatrixEmpty, PlansInv

LEMMA PlansNextInv == ASSUME PlansInv, [Next]_vars PROVE PlansInv'
<1>1. CASE SelectPlans
  <2>1. PICK R \in SUBSET [note: Notes, audience: selected, score: Scores], b \in Budgets :
           /\ rows' = R /\ budget' = b
           /\ IF EligiblePerNote(R) = 0
              THEN stage' = "raised" /\ UNCHANGED plans
              ELSE IF PerNote(R, b) = 0
                   THEN stage' = "waiting" /\ UNCHANGED plans
                   ELSE /\ stage' = "planned"
                        /\ plans' = {p \in Notes \X selected :
                                       p[2] \in SelectPairs(p[1], R, PerNote(R, b))}
    BY <1>1 DEF SelectPlans
  <2>2. stage = "pairs" /\ selected' = selected
    BY <1>1 DEF SelectPlans, audienceVars
  <2>3. plans = {}
    BY <2>2 DEF PlansInv
  <2>4. CASE EligiblePerNote(R) = 0
    BY <2>1, <2>3, <2>4 DEF PlansInv
  <2>5. CASE EligiblePerNote(R) # 0 /\ PerNote(R, b) = 0
    BY <2>1, <2>3, <2>5 DEF PlansInv
  <2>6. CASE EligiblePerNote(R) # 0 /\ PerNote(R, b) # 0
    BY <2>1, <2>2, <2>6 DEF PlansInv
  <2> QED BY <2>4, <2>5, <2>6
<1>2. CASE UNCHANGED matrixVars
  BY <1>2 DEF PlansInv, matrixVars, audienceVars, pairVars
<1>3. CASE MatrixNext /\ ~SelectPlans
  <2>1. stage \notin {"waiting", "planned"} /\ stage' \notin {"waiting", "planned"}
    BY <1>3 DEF MatrixNext, SelectAll, Select, EvidenceMissing, CompareApart, Reject,
                AudiencesDone, audienceVars
  <2>2. UNCHANGED pairVars
    BY <1>3 DEF MatrixNext, SelectAll, Select, EvidenceMissing, CompareApart, Reject,
                AudiencesDone
  <2> QED BY <2>1, <2>2 DEF PlansInv, pairVars
<1> QED BY <1>1, <1>2, <1>3 DEF Next, vars

\* Smallest finds the least number of a set that has one.
LEMMA SmallestIsLeast ==
    ASSUME NEW S \in SUBSET Int, NEW x \in S, \A y \in S : x <= y
    PROVE  Smallest(S) = x
<1>1. Smallest(S) \in S /\ \A y \in S : Smallest(S) <= y
  BY DEF Smallest
<1>2. /\ Smallest(S) \in Int /\ x \in Int
      /\ Smallest(S) <= x /\ x <= Smallest(S)
  BY <1>1
<1> QED BY <1>2

LEMMA Quotients ==
    ASSUME NEW b \in Nat, NEW c \in Nat \ {0}, NEW m \in Nat \ {0}
    PROVE  /\ (b \div c) \div m \in Nat
           /\ \A k \in Nat : k <= (b \div c) \div m => (m * k) * c <= b
           /\ b < (m * ((b \div c) \div m) + m) * c
<1>1. \A d \in Nat, e \in Nat \ {0} :
         d \div e \in Nat /\ (d \div e) * e <= d /\ d < (d \div e) * e + e
  OBVIOUS
<1> DEFINE d == b \div c
           e == d \div m
<1>2. d \in Nat /\ d * c <= b /\ b < d * c + c
  BY <1>1
<1> HIDE DEF d
<1>3. e \in Nat /\ e * m <= d /\ d < e * m + m
  BY <1>1, <1>2
<1> HIDE DEF e
<1>4. ASSUME NEW k \in Nat, k <= e PROVE (m * k) * c <= b
  <2>1. m * k <= e * m
    BY <1>3, <1>4
  <2>2. m * k <= d /\ m * k \in Nat
    BY <1>2, <1>3, <2>1
  <2>3. (m * k) * c <= d * c
    BY <1>2, <2>2
  <2> QED BY <1>2, <2>2, <2>3
<1>5. b < (m * e + m) * c
  <2>1. d + 1 <= m * e + m /\ m * e + m \in Nat
    BY <1>2, <1>3
  <2>2. (d + 1) * c <= (m * e + m) * c
    BY <1>2, <2>1
  <2> QED BY <1>2, <2>1, <2>2
<1> QED BY <1>3, <1>4, <1>5 DEF d, e

\* The number of audiences for each note is the least of the three limits.
LEMMA PerNoteIsLeast ==
    ASSUME NEW R \in SUBSET Row, NEW b \in Nat
    PROVE  /\ PerNote(R, b) \in Nat
           /\ PerNote(R, b) <= (b \div Cost) \div Cardinality(Notes)
           /\ \A n \in Notes : PerNote(R, b) <= Cardinality(Partners(n, R))
           /\ \/ PerNote(R, b) = (b \div Cost) \div Cardinality(Notes)
              \/ \E n \in Notes : PerNote(R, b) = Cardinality(Partners(n, R))
              \/ PerNote(R, b) = Cap
           /\ EligiblePerNote(R) # 0 /\ PerNote(R, b) = 0
                  => (b \div Cost) \div Cardinality(Notes) = 0
<1>0. /\ Cap \in Nat \ {0} /\ Cost \in Nat \ {0}
      /\ Notes # {} /\ Cardinality(Notes) \in Nat \ {0}
  BY FS_EmptySet, FS_CardinalityType, MatrixAssumption DEF MatrixAssumption
<1> DEFINE sizes == {Cardinality(Partners(n, R)) : n \in Notes}
<1>1. \A n \in Notes : Cardinality(Partners(n, R)) \in Nat
  <2> SUFFICES ASSUME NEW n \in Notes PROVE Cardinality(Partners(n, R)) \in Nat
    OBVIOUS
  <2> QED BY AudiencesAreFinite DEF Partners
<1>2. sizes \subseteq Nat /\ sizes # {}
  BY <1>0, <1>1
<1>3. /\ EligiblePerNote(R) \in Nat /\ EligiblePerNote(R) \in sizes
      /\ \A n \in Notes : EligiblePerNote(R) <= Cardinality(Partners(n, R))
  <2>1. EligiblePerNote(R) = Smallest(sizes)
    BY DEF EligiblePerNote
  <2>2. PICK x \in sizes : \A y \in sizes : x <= y
    <3> HIDE DEF sizes
    <3> QED BY <1>2, LeastNumber
  <2>3. EligiblePerNote(R) = x
    <3>1. sizes \in SUBSET Int
      BY <1>2
    <3> HIDE DEF sizes
    <3> QED BY <2>1, <2>2, <3>1, SmallestIsLeast
  <2> QED BY <1>2, <2>2, <2>3
<1> DEFINE slots == (b \div Cost) \div Cardinality(Notes)
           limits == {slots, EligiblePerNote(R), Cap}
<1>4. slots \in Nat
  BY <1>0, Quotients
<1>5. PerNote(R, b) \in limits /\ \A y \in limits : PerNote(R, b) <= y
  <2>1. limits \subseteq Nat /\ limits # {}
    BY <1>0, <1>3, <1>4
  <2>2. PerNote(R, b) = Smallest(limits)
    BY DEF PerNote
  <2> HIDE DEF limits
  <2>3. PICK x \in limits : \A y \in limits : x <= y
    BY <2>1, LeastNumber
  <2>4. PerNote(R, b) = x
    <3>1. limits \in SUBSET Int
      BY <2>1
    <3> QED BY <2>2, <2>3, <3>1, SmallestIsLeast
  <2> QED BY <2>3, <2>4
<1> HIDE DEF slots
<1>6. /\ PerNote(R, b) \in Nat /\ PerNote(R, b) <= slots
      /\ \A n \in Notes : PerNote(R, b) <= Cardinality(Partners(n, R))
  BY <1>0, <1>1, <1>3, <1>4, <1>5
<1>7. \/ PerNote(R, b) = slots
      \/ \E n \in Notes : PerNote(R, b) = Cardinality(Partners(n, R))
      \/ PerNote(R, b) = Cap
  BY <1>3, <1>5
<1>8. EligiblePerNote(R) # 0 /\ PerNote(R, b) = 0 => slots = 0
  BY <1>0, <1>5
<1> QED BY <1>6, <1>7, <1>8 DEF slots

\* Every note gets the number of plans; matching a note and a number up to it
\* with the plan counts all of them.
LEMMA PlanCounts ==
    ASSUME MatrixTypeOK, PlansInv, stage = "planned"
    PROVE  /\ PerNote(rows, budget) \in Nat \ {0}
           /\ \A n \in Notes : Cardinality(PlansOf(n)) = PerNote(rows, budget)
           /\ Cardinality(plans) = Cardinality(Notes) * PerNote(rows, budget)
<1> DEFINE k == PerNote(rows, budget)
           Sel(n) == SelectPairs(n, rows, k)
<1>1. rows \in SUBSET Row /\ budget \in Nat
  BY MatrixAssumption DEF MatrixAssumption, MatrixTypeOK
<1>2. k \in Nat \ {0} /\ \A n \in Notes : k <= Cardinality(Partners(n, rows))
  BY <1>1, PerNoteIsLeast DEF PlansInv
<1>3. plans = {p \in Notes \X selected : p[2] \in Sel(p[1])}
  BY DEF PlansInv
<1> HIDE DEF k
<1>4. ASSUME NEW n \in Notes
      PROVE  IsFiniteSet(Sel(n)) /\ Cardinality(Sel(n)) = k /\ Sel(n) \subseteq selected
  <2>1. /\ Sel(n) \subseteq Partners(n, rows) /\ IsFiniteSet(Sel(n))
        /\ Cardinality(Sel(n)) = k
    BY <1>1, <1>2, WalkTakesItsNumber
  <2>2. Partners(n, rows) \subseteq selected
    BY DEF Partners, AudiencesOf, PlansInv
  <2> QED BY <2>1, <2>2
<1> HIDE DEF Sel
<1>5. \A n \in Notes : PlansOf(n) = {<<n, a>> : a \in Sel(n)}
  BY <1>3, <1>4 DEF PlansOf
<1>6. \A n \in Notes : \A a \in Sel(n) : <<n, a>> \in plans
  <2> SUFFICES ASSUME NEW n \in Notes, NEW a \in Sel(n) PROVE <<n, a>> \in plans
    OBVIOUS
  <2>1. <<n, a>> \in Notes \X selected
    BY <1>4
  <2> QED BY <1>3, <2>1
<1>7. ASSUME NEW n \in Notes PROVE Cardinality(PlansOf(n)) = k
  <2> DEFINE f == [a \in Sel(n) |-> <<n, a>>]
  <2>1. f \in Bijection(Sel(n), PlansOf(n))
    BY <1>5 DEF Bijection, Injection, IsInjective, Surjection
  <2> QED BY <1>4, <2>1, FS_Bijection DEF ExistsBijection
<1>8. Cardinality(plans) = Cardinality(Notes) * k
  <2> DEFINE B == [n \in Notes |-> CHOOSE f : f \in Bijection(1 .. k, Sel(n))]
             g == [p \in Notes \X (1 .. k) |-> <<p[1], B[p[1]][p[2]]>>]
  <2>1. \A n \in Notes : B[n] \in Bijection(1 .. k, Sel(n))
    <3>1. \A n \in Notes : ExistsBijection(1 .. k, Sel(n))
      BY <1>4, FS_CardinalityType
    <3> QED BY <3>1 DEF ExistsBijection
  <2> HIDE DEF B
  <2>2. \A n \in Notes :
           /\ B[n] \in [1 .. k -> Sel(n)]
           /\ \A i, j \in 1 .. k : B[n][i] = B[n][j] => i = j
           /\ \A a \in Sel(n) : \E i \in 1 .. k : B[n][i] = a
    BY <2>1 DEF Bijection, Injection, IsInjective, Surjection
  <2>3. g \in [Notes \X (1 .. k) -> plans]
    <3> SUFFICES ASSUME NEW n \in Notes, NEW i \in 1 .. k
                 PROVE  <<n, B[n][i]>> \in plans
      OBVIOUS
    <3>1. B[n][i] \in Sel(n)
      BY <2>2
    <3> QED BY <1>6, <3>1
  <2>4. \A p, q \in Notes \X (1 .. k) : g[p] = g[q] => p = q
    BY <2>2
  <2>5. \A p \in plans : \E q \in Notes \X (1 .. k) : g[q] = p
    <3> SUFFICES ASSUME NEW p \in plans
                 PROVE  \E q \in Notes \X (1 .. k) : g[q] = p
      OBVIOUS
    <3>1. p[1] \in Notes /\ p[2] \in Sel(p[1]) /\ p = <<p[1], p[2]>>
      BY <1>3
    <3>2. PICK i \in 1 .. k : B[p[1]][i] = p[2]
      BY <2>2, <3>1
    <3>3. /\ <<p[1], i>> \in Notes \X (1 .. k)
          /\ g[<<p[1], i>>] = <<p[1], p[2]>>
      BY <3>1, <3>2
    <3> QED BY <3>1, <3>3
  <2>6. g \in Bijection(Notes \X (1 .. k), plans)
    <3> HIDE DEF g
    <3> QED BY <2>3, <2>4, <2>5 DEF Bijection, Injection, IsInjective, Surjection
  <2>7. /\ IsFiniteSet(Notes \X (1 .. k))
        /\ Cardinality(Notes \X (1 .. k)) = Cardinality(Notes) * k
    <3>1. IsFiniteSet(1 .. k) /\ Cardinality(1 .. k) = k
      BY <1>2, FS_Interval
    <3> QED BY <3>1, FS_Product, MatrixAssumption DEF MatrixAssumption
  <2> HIDE DEF g
  <2> QED BY <2>6, <2>7, FS_Bijection DEF ExistsBijection
<1> QED BY <1>2, <1>7, <1>8 DEF k

LEMMA InvGivesWithinBudget ==
    ASSUME MatrixTypeOK, PlansInv PROVE WithinBudget
<1>0. /\ Cap \in Nat \ {0} /\ Cost \in Nat \ {0} /\ Cardinality(Notes) \in Nat \ {0}
      /\ budget \in Nat /\ rows \in SUBSET Row
  BY FS_EmptySet, FS_CardinalityType, MatrixAssumption DEF MatrixAssumption, MatrixTypeOK
<1>1. CASE stage = "planned"
  <2>1. /\ PerNote(rows, budget) \in Nat
        /\ PerNote(rows, budget) <= (budget \div Cost) \div Cardinality(Notes)
        /\ Cardinality(plans) = Cardinality(Notes) * PerNote(rows, budget)
    BY <1>0, <1>1, PlanCounts, PerNoteIsLeast
  <2>2. (Cardinality(Notes) * PerNote(rows, budget)) * Cost <= budget
    BY <1>0, <2>1, Quotients
  <2> QED BY <1>1, <2>1, <2>2 DEF WithinBudget
<1>2. CASE stage # "planned"
  <2>1. Cardinality(plans) = 0
    BY <1>2, FS_EmptySet DEF PlansInv
  <2>2. ASSUME stage = "waiting" PROVE budget < Cost * Cardinality(Notes)
    <3>1. (budget \div Cost) \div Cardinality(Notes) = 0
      BY <1>0, <2>2, PerNoteIsLeast DEF PlansInv
    <3>2. budget < (Cardinality(Notes) * 0 + Cardinality(Notes)) * Cost
      BY <1>0, <3>1, Quotients
    <3> QED BY <1>0, <3>2
  <2> QED BY <1>0, <2>1, <2>2 DEF WithinBudget
<1> QED BY <1>1, <1>2

LEMMA InvGivesSpentEvenly ==
    ASSUME MatrixTypeOK, PlansInv PROVE SpentEvenly
<1> SUFFICES ASSUME stage = "planned" PROVE SpentEvenly
  BY DEF SpentEvenly
<1> DEFINE k == PerNote(rows, budget)
<1>0. /\ Cost \in Nat \ {0} /\ Cardinality(Notes) \in Nat \ {0}
      /\ budget \in Nat /\ rows \in SUBSET Row
  BY FS_EmptySet, FS_CardinalityType, MatrixAssumption DEF MatrixAssumption, MatrixTypeOK
<1>1. /\ k \in Nat /\ Cardinality(plans) = Cardinality(Notes) * k
      /\ \A n \in Notes : Cardinality(PlansOf(n)) = k
  BY PlanCounts
<1>2. \/ k = (budget \div Cost) \div Cardinality(Notes)
      \/ \E m \in Notes : k = Cardinality(Partners(m, rows))
      \/ k = Cap
  BY <1>0, PerNoteIsLeast
<1>3. k = (budget \div Cost) \div Cardinality(Notes)
         => (Cardinality(plans) + Cardinality(Notes)) * Cost > budget
  <2> SUFFICES ASSUME k = (budget \div Cost) \div Cardinality(Notes)
               PROVE  (Cardinality(plans) + Cardinality(Notes)) * Cost > budget
    OBVIOUS
  <2>1. budget < (Cardinality(Notes) * k + Cardinality(Notes)) * Cost
    BY <1>0, Quotients
  <2> HIDE DEF k
  <2> QED BY <1>0, <1>1, <2>1
<1> HIDE DEF k
<1> QED BY <1>1, <1>2, <1>3 DEF SpentEvenly

\* The first pair of an audience is its best.
LEMMA BestIsAScore ==
    ASSUME MatrixTypeOK, NEW n, NEW a \in Partners(n, rows)
    PROVE  \E r \in rows : /\ r.note = n /\ r.audience = a
                           /\ Best(n, a) = 0 - r.score
                           /\ \A q \in rows : q.note = n /\ q.audience = a => q.score <= r.score
<1> DEFINE S == {r \in rows : r.note = n /\ r.audience = a}
<1>1. rows \in SUBSET Row /\ S \in SUBSET rows /\ S # {}
  BY DEF MatrixTypeOK, Partners, AudiencesOf
<1>2. PICK r \in S : \A q \in S : q = r \/ r \in Ahead(q, rows)
  BY <1>1, FirstPair
<1>3. \A q \in S : q.score <= r.score /\ q.score \in Nat
  <2>1. ASSUME NEW q \in S PROVE q.score <= r.score /\ q.score \in Nat
    <3>1. q.score \in Nat /\ r.score \in Nat
      BY <1>1, RowFields
    <3>2. r \in Ahead(q, rows) => q.score <= r.score
      BY <1>1, WalkIsOrdered
    <3> QED BY <1>2, <3>1, <3>2
  <2> QED BY <2>1
<1> DEFINE scores == {0 - q.score : q \in S}
<1>4. /\ scores \in SUBSET Int /\ 0 - r.score \in scores
      /\ \A y \in scores : 0 - r.score <= y
  BY <1>3
<1>5. Best(n, a) = Smallest(scores)
  BY DEF Best
<1>6. Best(n, a) = 0 - r.score
  <2> HIDE DEF scores
  <2> QED BY <1>4, <1>5, SmallestIsLeast
<1> QED BY <1>3, <1>6

LEMMA InvGivesBestArePlanned ==
    ASSUME MatrixTypeOK, PlansInv PROVE BestArePlanned
<1> DEFINE k == PerNote(rows, budget)
<1> SUFFICES ASSUME NEW p \in plans, NEW b \in Partners(p[1], rows),
                    <<p[1], b>> \notin plans
             PROVE  Best(p[1], p[2]) <= Best(p[1], b)
  BY DEF BestArePlanned
<1>1. /\ stage = "planned" /\ rows \in SUBSET Row /\ budget \in Nat
      /\ plans = {q \in Notes \X selected : q[2] \in SelectPairs(q[1], rows, k)}
      /\ Partners(p[1], rows) \subseteq selected
  BY MatrixAssumption
     DEF MatrixAssumption, MatrixTypeOK, PlansInv, Partners, AudiencesOf
<1>2. k \in Nat
  BY <1>1, PerNoteIsLeast
<1> HIDE DEF k
<1>3. /\ p[1] \in Notes /\ p[2] \in SelectPairs(p[1], rows, k)
      /\ b \notin SelectPairs(p[1], rows, k)
  BY <1>1
<1>4. PICK r \in rows : /\ r.note = p[1] /\ r.audience = p[2]
                        /\ \A q \in rows : q.note = p[1] /\ q.audience = b
                                             => q.score <= r.score
  BY <1>1, <1>2, <1>3, WalkTakesTheBest
<1>5. p[2] \in Partners(p[1], rows)
  BY <1>4 DEF Partners, AudiencesOf
<1>6. PICK s \in rows : /\ s.note = p[1] /\ s.audience = p[2]
                        /\ Best(p[1], p[2]) = 0 - s.score
                        /\ r.score <= s.score
  BY <1>4, <1>5, BestIsAScore
<1>7. PICK t \in rows : /\ t.note = p[1] /\ t.audience = b
                        /\ Best(p[1], b) = 0 - t.score
  BY BestIsAScore
<1>8. /\ t.score <= r.score
      /\ r.score \in Nat /\ s.score \in Nat /\ t.score \in Nat
  BY <1>1, <1>4, <1>7, RowFields
<1> QED BY <1>6, <1>7, <1>8

LEMMA PlansAreWellSpent == MatrixInv /\ PlansInv => BudgetWellSpent
  BY InvGivesWithinBudget, InvGivesSpentEvenly, InvGivesBestArePlanned
     DEF MatrixInv, BudgetWellSpent

-----------------------------------------------------------------------------
(* Keywords and plans in one preparation.                                  *)

\* While the audiences are decided on, the keywords are at rest.
LEMMA DecisionInitKeywords == ASSUME Init PROVE KeywordsInv
<1>1. CASE KeywordsInit
  BY <1>1, KeywordsInitInv
<1>2. CASE KeywordsOff
  <2>1. (CHOOSE n \in Lanes : TRUE) \in Lanes
    BY KeywordsAssumption DEF KeywordsAssumption
  <2>2. KeywordsTypeOK
    BY <1>2, <2>1, KeywordsAssumption
       DEF KeywordsAssumption, KeywordsOff, KeywordsEmpty, KeywordsTypeOK
  <2> QED BY <1>2, <2>2, NobodyIsMerged
          DEF KeywordsOff, KeywordsEmpty, KeywordsInv, RepsInv, WinnersInv
<1> QED BY <1>1, <1>2 DEF Init

LEMMA DecisionNextKeywords == ASSUME KeywordsInv, [Next]_vars PROVE KeywordsInv'
  BY KeywordsNextInv DEF Next, vars

-----------------------------------------------------------------------------

\* The selection keeps its types and its invariant.
THEOREM MatrixIsInv == Spec => []MatrixInv
<1>1. Init => MatrixInv
  BY MatrixAssumption, MatrixInitInv
<1>2. MatrixInv /\ [Next]_vars => MatrixInv'
  BY MatrixAssumption, MatrixNextInv
<1> QED BY <1>1, <1>2, PTL DEF Spec

\* Two selected audiences of a mode are apart on evidence (evaluate_audiences).
THEOREM SelectedApart == Spec => []SelectedAreApart
  BY MatrixIsInv, PTL DEF MatrixInv

\* A dropped audience overlaps a better one that was kept (evaluate_audiences).
THEOREM RejectedBetter == Spec => []RejectedForBetter
  BY MatrixIsInv, PTL DEF MatrixInv

\* What the phase budget buys is what it should: it pays for all plans, every
\* note gets as many, no limit leaves room for one more each, and a note's plans
\* are its best audiences (uniform_budget_capacity, _select_pairs).
THEOREM BudgetSpent == Spec => []BudgetWellSpent
<1>1. Init => PlansInv
  BY PlansInitInv
<1>2. PlansInv /\ [Next]_vars => PlansInv'
  BY PlansNextInv
<1> QED BY <1>1, <1>2, MatrixIsInv, PlansAreWellSpent, PTL DEF Spec

\* The union-find and the representatives keep their invariant
\* (evaluate_keywords).
THEOREM KeywordsIsInv == Spec => []KeywordsInv
<1>1. Init => KeywordsInv
  BY DecisionInitKeywords
<1>2. KeywordsInv /\ [Next]_vars => KeywordsInv'
  BY DecisionNextKeywords
<1> QED BY <1>1, <1>2, PTL DEF Spec

\* Both decisions keep their types; a parent never has a larger id than its
\* child, so every walk to a root ends.
THEOREM DecisionTypes == Spec => []TypeOK
<1>1. MatrixInv /\ KeywordsInv => TypeOK
  BY DEF MatrixInv, KeywordsInv, GroupsInv, TypeOK
<1> QED BY <1>1, MatrixIsInv, KeywordsIsInv, PTL

\* Whatever rows of evidence come, in whatever order, two keywords have one root
\* exactly when rows connect them (_UnionFind).
THEOREM RootsAreConnected == Spec => []RootsAreGroups
<1>1. KeywordsInv => RootsAreGroups
  BY GroupsAreConnected DEF KeywordsInv
<1> QED BY <1>1, KeywordsIsInv, PTL

\* Bought keywords are no duplicates of each other, and each one dropped as a
\* duplicate has a winner it lost to (evaluate_keywords).
THEOREM DuplicatesDropped == Spec => []DuplicatesAreDropped
  BY KeywordsIsInv, InvGivesDuplicatesAreDropped, PTL

=============================================================================
