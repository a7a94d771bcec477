-------------------------- MODULE Keywords_proofs ---------------------------
(***************************************************************************)
(* For any keywords, texts, lanes and heats, and whatever rows of evidence *)
(* come in whatever order: the union-find of evaluate_keywords keeps one   *)
(* root for each group of connected keywords, and the deduplications drop  *)
(* every duplicate and nothing else.                                       *)
(*                                                                         *)
(* Root and Path are walks along parents.  A parent is never larger than   *)
(* its child, so what holds of them is shown by the least keyword for      *)
(* which it would not hold.                                                *)
(***************************************************************************)
EXTENDS Keywords, FiniteSetTheorems, TLAPS

(***************************************************************************)
(* Numbers, and keywords, one after the other.                             *)
(***************************************************************************)

\* A set of numbers has a least one: among the intervals from 1 to them, one
\* has none of the others below it.
LEMMA LeastNumber ==
    ASSUME NEW T, T \subseteq Nat, T # {}
    PROVE  \E x \in T : \A y \in T : x <= y
<1> DEFINE F == {1 .. n : n \in T}
<1>1. F \subseteq FiniteSubsetsOf(Nat)
  <2> SUFFICES ASSUME NEW n \in T PROVE 1 .. n \in FiniteSubsetsOf(Nat)
    OBVIOUS
  <2>1. n \in Nat /\ IsFiniteSet(1 .. n)
    BY FS_Interval
  <2> QED BY <2>1 DEF FiniteSubsetsOf
<1>2. F # {}
  OBVIOUS
<1>3. PICK f \in F : \A g \in F : <<g, f>> \notin StrictSubsetOrdering(Nat)
  <2> HIDE DEF F
  <2> QED BY <1>1, <1>2, FS_StrictSubsetOrderingWellFounded, WFMin
<1>4. PICK x \in T : f = 1 .. x
  OBVIOUS
<1>5. ASSUME NEW y \in T, y < x PROVE FALSE
  <2>1. y \in Nat /\ x \in Nat
    OBVIOUS
  <2>2. 1 .. y \subseteq 1 .. x /\ 1 .. x \subseteq Nat /\ x \in 1 .. x /\ x \notin 1 .. y
    BY <2>1, <1>5
  <2>3. <<1 .. y, 1 .. x>> \in StrictSubsetOrdering(Nat)
    BY <2>2 DEF StrictSubsetOrdering
  <2> QED BY <2>3, <1>3, <1>4
<1> QED BY <1>5

\* What holds of a keyword when it holds of all smaller ones holds of all.
LEMMA WordByWord ==
    ASSUME NEW S,
           \A k \in Words : (\A l \in Words : l < k => l \in S) => k \in S
    PROVE  Words \subseteq S
<1> SUFFICES ASSUME Words \ S # {} PROVE FALSE
  OBVIOUS
<1>1. PICK k \in Words \ S : \A l \in Words \ S : k <= l
  BY LeastNumber, KeywordsAssumption DEF KeywordsAssumption
<1>2. \A l \in Words : l < k => l \in S
  BY <1>1, KeywordsAssumption DEF KeywordsAssumption
<1> QED BY <1>1, <1>2

(***************************************************************************)
(* The walks of a union-find.                                              *)
(***************************************************************************)

LEMMA WordsAreNumbers == \A k \in Words : k \in Nat
  BY KeywordsAssumption DEF KeywordsAssumption

\* No parent is larger than its child.
Hanging == {p \in [Words -> Words] : \A k \in Words : p[k] <= k}

LEMMA ParentIsSmaller ==
    ASSUME NEW p \in Hanging, NEW k \in Words, p[k] # k
    PROVE  p[k] \in Words /\ p[k] < k
<1>1. p[k] \in Words /\ p[k] <= k
  BY DEF Hanging
<1>2. p[k] \in Nat /\ k \in Nat
  BY <1>1, WordsAreNumbers
<1> QED BY <1>1, <1>2

RootIn(p) == CHOOSE f : f = [k \in Words |-> IF p[k] = k THEN k ELSE f[p[k]]]

PathIn(p) == CHOOSE f : f = [k \in Words |-> IF p[k] = k THEN {k}
                                             ELSE {k} \cup f[p[k]]]

LEMMA RootIsRootIn == Root = RootIn(parent) /\ Path = PathIn(parent)
  BY DEF Root, RootIn, Path, PathIn

LEMMA NextRootIsRootIn == Root' = RootIn(parent') /\ Path' = PathIn(parent')
  BY DEF Root, RootIn, Path, PathIn

\* What is reached from k: what no set that contains k and the parents of its
\* elements can leave out.
ParentClosed(p) == {S \in SUBSET Words : \A m \in S : p[m] \in S}

Reach(p, k) == {l \in Words : \A S \in ParentClosed(p) : k \in S => l \in S}

LEMMA ReachStep ==
    ASSUME NEW p \in [Words -> Words], NEW k \in Words
    PROVE  Reach(p, k) = IF p[k] = k THEN {k} ELSE {k} \cup Reach(p, p[k])
<1>1. k \in Reach(p, k)
  BY DEF Reach
<1>2. Reach(p, p[k]) \subseteq Reach(p, k)
  BY DEF Reach, ParentClosed
<1>3. {k} \cup Reach(p, p[k]) \in ParentClosed(p)
  <2>1. p[k] \in Reach(p, p[k])
    BY DEF Reach
  <2>2. \A m \in Reach(p, p[k]) : p[m] \in Reach(p, p[k])
    BY DEF Reach, ParentClosed
  <2>3. {k} \cup Reach(p, p[k]) \subseteq Words
    BY DEF Reach
  <2> QED BY <2>1, <2>2, <2>3 DEF ParentClosed
<1>4. Reach(p, k) \subseteq {k} \cup Reach(p, p[k])
  BY <1>3 DEF Reach
<1>5. CASE p[k] = k
  <2>1. {k} \in ParentClosed(p)
    BY <1>5 DEF ParentClosed
  <2>2. Reach(p, k) \subseteq {k}
    BY <2>1 DEF Reach
  <2> QED BY <1>1, <1>5, <2>2
<1>6. CASE p[k] # k
  BY <1>1, <1>2, <1>4, <1>6
<1> QED BY <1>5, <1>6

\* The equations that define the walks have solutions.
LEMMA PathEquation ==
    ASSUME NEW p \in [Words -> Words]
    PROVE  PathIn(p) = [k \in Words |-> IF p[k] = k THEN {k}
                                        ELSE {k} \cup PathIn(p)[p[k]]]
<1> DEFINE f == [k \in Words |-> Reach(p, k)]
<1>1. \A k \in Words : f[k] = IF p[k] = k THEN {k} ELSE {k} \cup f[p[k]]
  BY ReachStep
<1>2. f = [k \in Words |-> IF p[k] = k THEN {k} ELSE {k} \cup f[p[k]]]
  BY <1>1
<1>3. \E g : g = [k \in Words |-> IF p[k] = k THEN {k} ELSE {k} \cup g[p[k]]]
  <2> HIDE DEF f
  <2> QED BY <1>2
<1> QED BY <1>3 DEF PathIn

LEMMA RootEquation ==
    ASSUME NEW p \in [Words -> Words]
    PROVE  RootIn(p) = [k \in Words |-> IF p[k] = k THEN k ELSE RootIn(p)[p[k]]]
<1> DEFINE tops(k) == {r \in Reach(p, k) : p[r] = r}
           f == [k \in Words |-> CHOOSE r : r \in tops(k)]
<1>1. ASSUME NEW k \in Words, p[k] = k PROVE f[k] = k
  <2>1. tops(k) = {k}
    BY <1>1, ReachStep
  <2> QED BY <2>1
<1>2. ASSUME NEW k \in Words, p[k] # k PROVE f[k] = f[p[k]]
  <2>1. tops(k) = tops(p[k])
    BY <1>2, ReachStep
  <2>2. p[k] \in Words
    OBVIOUS
  <2> HIDE DEF tops
  <2> QED BY <2>1, <2>2
<1> HIDE DEF f
<1>3. f = [k \in Words |-> IF p[k] = k THEN k ELSE f[p[k]]]
  <2>1. f = [k \in Words |-> f[k]]
    BY DEF f
  <2> QED BY <2>1, <1>1, <1>2
<1>4. \E g : g = [k \in Words |-> IF p[k] = k THEN k ELSE g[p[k]]]
  BY <1>3
<1> QED BY <1>4 DEF RootIn


\* A root is its own parent, is no larger than what hangs below it, and is
\* the root of each keyword's parent.
LEMMA RootFacts ==
    ASSUME NEW p \in Hanging, NEW k \in Words
    PROVE  /\ RootIn(p)[k] \in Words
           /\ p[RootIn(p)[k]] = RootIn(p)[k]
           /\ RootIn(p)[k] <= k
           /\ p[k] = k => RootIn(p)[k] = k
           /\ RootIn(p)[p[k]] = RootIn(p)[k]
           /\ RootIn(p)[RootIn(p)[k]] = RootIn(p)[k]
<1> DEFINE R == RootIn(p)
           S == {m \in Words : R[m] \in Words /\ p[R[m]] = R[m] /\ R[m] <= m}
<1>0. p \in [Words -> Words] /\ \A m \in Words : p[m] <= m
  BY DEF Hanging
<1>1. \A m \in Words : R[m] = IF p[m] = m THEN m ELSE R[p[m]]
  BY <1>0, RootEquation
<1>2. ASSUME NEW m \in Words, \A l \in Words : l < m => l \in S
      PROVE  m \in S
  <2>1. CASE p[m] = m
    <3>1. R[m] = m
      BY <1>1, <2>1
    <3> QED BY <2>1, <3>1, KeywordsAssumption DEF KeywordsAssumption
  <2>2. CASE p[m] # m
    <3>1. p[m] \in Words /\ p[m] < m /\ p[m] \in Nat /\ m \in Nat
      BY <1>0, <2>2, ParentIsSmaller, WordsAreNumbers
    <3>2. p[m] \in S /\ R[m] = R[p[m]]
      BY <1>1, <1>2, <2>2, <3>1
    <3>3. R[p[m]] \in Nat
      BY <3>2, KeywordsAssumption DEF KeywordsAssumption
    <3> QED BY <3>1, <3>2, <3>3
  <2> QED BY <2>1, <2>2
<1>3. Words \subseteq S
  <2> HIDE DEF S
  <2> QED BY <1>2, WordByWord
<1>4. R[k] \in Words /\ p[R[k]] = R[k] /\ R[k] <= k
  BY <1>3
<1>5. p[k] \in Words /\ (p[k] = k => R[k] = k) /\ R[p[k]] = R[k]
  BY <1>0, <1>1
<1>6. R[R[k]] = R[k]
  BY <1>1, <1>4
<1> QED BY <1>4, <1>5, <1>6

\* A walk passes keywords of one root only.
LEMMA PathFacts ==
    ASSUME NEW p \in Hanging, NEW k \in Words, NEW l \in PathIn(p)[k]
    PROVE  l \in Words /\ RootIn(p)[l] = RootIn(p)[k]
<1> DEFINE S == {m \in Words : \A n \in PathIn(p)[m] :
                    n \in Words /\ RootIn(p)[n] = RootIn(p)[m]}
<1>0. p \in [Words -> Words] /\ \A m \in Words : p[m] <= m
  BY DEF Hanging
<1>1. \A m \in Words : PathIn(p)[m] = IF p[m] = m THEN {m} ELSE {m} \cup PathIn(p)[p[m]]
  BY <1>0, PathEquation
<1>2. ASSUME NEW m \in Words, \A n \in Words : n < m => n \in S
      PROVE  m \in S
  <2>1. CASE p[m] = m
    <3>1. PathIn(p)[m] = {m}
      BY <1>1, <2>1
    <3> QED BY <3>1
  <2>2. CASE p[m] # m
    <3>1. p[m] \in Words /\ p[m] < m
      BY <2>2, ParentIsSmaller
    <3>2. p[m] \in S /\ RootIn(p)[p[m]] = RootIn(p)[m]
      BY <1>2, <3>1, RootFacts
    <3> QED BY <1>1, <2>2, <3>2
  <2> QED BY <2>1, <2>2
<1>3. Words \subseteq S
  <2> HIDE DEF S
  <2> QED BY <1>2, WordByWord
<1> QED BY <1>3

\* A function that is the identity on roots and does not change along
\* parents is the one that takes keywords to their roots.
LEMMA RootIsUnique ==
    ASSUME NEW p \in Hanging, NEW g,
           \A k \in Words : IF p[k] = k THEN g[k] = k ELSE g[k] = g[p[k]],
           NEW l \in Words
    PROVE  RootIn(p)[l] = g[l]
<1> DEFINE S == {m \in Words : RootIn(p)[m] = g[m]}
<1>1. ASSUME NEW m \in Words, \A n \in Words : n < m => n \in S
      PROVE  m \in S
  <2>1. CASE p[m] = m
    BY <2>1, RootFacts
  <2>2. CASE p[m] # m
    <3>1. p[m] \in Words /\ p[m] < m
      BY <2>2, ParentIsSmaller
    <3>2. p[m] \in S
      BY <1>1, <3>1
    <3>3. RootIn(p)[p[m]] = RootIn(p)[m]
      BY RootFacts
    <3> QED BY <2>2, <3>2, <3>3
  <2> QED BY <2>1, <2>2
<1>2. Words \subseteq S
  <2> HIDE DEF S
  <2> QED BY <1>1, WordByWord
<1> QED BY <1>2

\* The parents after a union, whatever the order of the two.
LEMMA UnionFacts ==
    ASSUME parent \in Hanging, NEW l \in Words, NEW r \in Words
    PROVE  /\ Union(l, r) \in Hanging
           /\ \A k \in Words :
                 RootIn(Union(l, r))[k] =
                    IF Root[k] \in {Root[l], Root[r]}
                    THEN (IF Root[l] < Root[r] THEN Root[l] ELSE Root[r])
                    ELSE Root[k]
<1> DEFINE low == IF Root[l] < Root[r] THEN Root[l] ELSE Root[r]
           high == IF Root[l] < Root[r] THEN Root[r] ELSE Root[l]
           walked == Path[l] \cup Path[r]
           q == Union(l, r)
           g == [k \in Words |-> IF Root[k] \in {Root[l], Root[r]} THEN low ELSE Root[k]]
<1>1. \A k \in Words : /\ Root[k] \in Words /\ parent[Root[k]] = Root[k]
                       /\ Root[k] <= k /\ (parent[k] = k => Root[k] = k)
                       /\ Root[parent[k]] = Root[k] /\ Root[Root[k]] = Root[k]
  BY RootFacts, RootIsRootIn
<1>2. \A k \in walked : Root[k] \in {Root[l], Root[r]}
  BY PathFacts, RootIsRootIn
<1>3. /\ low \in Words /\ high \in Words /\ low <= high
      /\ {Root[l], Root[r]} = {low, high}
      /\ Root[low] = low /\ Root[high] = high
  <2>1. /\ Root[l] \in Words /\ Root[l] \in Nat /\ Root[Root[l]] = Root[l]
        /\ Root[r] \in Words /\ Root[r] \in Nat /\ Root[Root[r]] = Root[r]
    BY <1>1, WordsAreNumbers
  <2> QED BY <2>1
<1>4. q = [k \in Words |-> IF k = high THEN low
                           ELSE IF k \in walked THEN Root[k] ELSE parent[k]]
  BY <1>1, <1>3 DEF Union
<1>5. parent \in [Words -> Words] /\ \A k \in Words : parent[k] <= k
  BY DEF Hanging
<1> HIDE DEF low, high, walked, q
<1>6. q \in Hanging
  <2>1. \A k \in Words : q[k] \in Words /\ q[k] <= k
    BY <1>1, <1>3, <1>4, <1>5
  <2> QED BY <1>4, <2>1 DEF Hanging
<1>7. ASSUME NEW k \in Words
      PROVE  IF q[k] = k THEN g[k] = k ELSE g[k] = g[q[k]]
  <2>0. g[k] = IF Root[k] \in {low, high} THEN low ELSE Root[k]
    BY <1>3
  <2>1. \A m \in Words : g[m] = IF Root[m] \in {low, high} THEN low ELSE Root[m]
    BY <1>3
  <2> HIDE DEF g
  <2>2. CASE k = high
    BY <1>3, <1>4, <2>1, <2>2
  <2>3. CASE k # high /\ k \in walked
    <3>1. q[k] = Root[k] /\ Root[k] \in {low, high} /\ Root[k] \in Words
      BY <1>1, <1>2, <1>3, <1>4, <2>3
    <3>2. g[k] = low /\ g[q[k]] = low
      BY <1>1, <2>1, <3>1
    <3> QED BY <2>3, <3>1, <3>2
  <2>4. CASE k # high /\ k \notin walked
    <3>1. q[k] = parent[k] /\ parent[k] \in Words
      BY <1>4, <1>5, <2>4
    <3>2. g[q[k]] = g[k]
      BY <1>1, <2>1, <3>1
    <3>3. parent[k] = k => g[k] = k
      BY <1>1, <2>1, <2>4
    <3> QED BY <3>1, <3>2, <3>3
  <2> QED BY <2>2, <2>3, <2>4
<1>8. \A k \in Words : RootIn(q)[k] = g[k]
  <2> HIDE DEF g
  <2> QED BY <1>6, <1>7, RootIsUnique
<1> QED BY <1>6, <1>8 DEF low, q


(***************************************************************************)
(* The groups.  Any step of the union-find keeps each keyword on its       *)
(* root's side of every set that no row leads out of, and the keywords of  *)
(* every row under one root.                                               *)
(***************************************************************************)

RowsAreJoined == \A m \in merged : Root[m[1]] = Root[m[2]]

RootsAreReached == \A S \in Closed : \A k \in Words : k \in S <=> Root[k] \in S

GroupsInv == KeywordsTypeOK /\ RowsAreJoined /\ RootsAreReached

LEMMA ParentsHang == KeywordsTypeOK => parent \in Hanging
  BY DEF KeywordsTypeOK, Hanging

LEMMA GroupsAreConnected == GroupsInv => RootsAreGroups
<1> SUFFICES ASSUME GroupsInv
             PROVE  \A k, l \in Words : Root[k] = Root[l] <=> <<k, l>> \in Connected
  <2>1. Connected \subseteq Words \X Words
    BY DEF Connected
  <2> QED BY <2>1 DEF RootsAreGroups
<1> TAKE k, l \in Words
<1>1. ASSUME Root[k] = Root[l] PROVE <<k, l>> \in Connected
  <2>1. \A S \in Closed : k \in S <=> l \in S
    BY <1>1 DEF GroupsInv, RootsAreReached
  <2> QED BY <2>1 DEF Connected
<1>2. ASSUME <<k, l>> \in Connected PROVE Root[k] = Root[l]
  <2> DEFINE S == {m \in Words : Root[m] = Root[k]}
  <2>1. S \in Closed
    <3>1. \A m \in merged : m[1] \in Words /\ m[2] \in Words
      BY DEF GroupsInv, KeywordsTypeOK
    <3> QED BY <3>1 DEF Closed, GroupsInv, RowsAreJoined
  <2>2. k \in S => l \in S
    <3> HIDE DEF S
    <3> QED BY <1>2, <2>1 DEF Connected
  <2> QED BY <2>2
<1> QED BY <1>1, <1>2

\* A new row joins the groups of its two keywords, and no others.
LEMMA MergeKeepsGroups ==
    ASSUME GroupsInv, NEW l \in Words, NEW r \in Words, MergeSimilar(l, r)
    PROVE  GroupsInv'
<1> DEFINE low == IF Root[l] < Root[r] THEN Root[l] ELSE Root[r]
<1>0. /\ parent' = Union(l, r)
      /\ merged' = merged \cup {<<l, r>>}
      /\ UNCHANGED <<round, lane, heat, reps, winners, eligible>>
  BY DEF MergeSimilar, inputVars
<1>1. /\ parent' \in Hanging
      /\ \A k \in Words : Root'[k] = IF Root[k] \in {Root[l], Root[r]} THEN low ELSE Root[k]
  BY <1>0, ParentsHang, UnionFacts, NextRootIsRootIn DEF GroupsInv
<1>2. KeywordsTypeOK'
  BY <1>0, <1>1 DEF GroupsInv, KeywordsTypeOK, Hanging
<1>3. RowsAreJoined'
  <2> SUFFICES ASSUME NEW m \in merged' PROVE Root'[m[1]] = Root'[m[2]]
    BY DEF RowsAreJoined
  <2>1. m[1] \in Words /\ m[2] \in Words
    BY <1>0 DEF GroupsInv, KeywordsTypeOK
  <2>2. CASE m \in merged
    BY <1>1, <2>1, <2>2 DEF GroupsInv, RowsAreJoined
  <2>3. CASE m = <<l, r>>
    BY <1>1, <2>3
  <2> QED BY <1>0, <2>2, <2>3
<1>4. RootsAreReached'
  <2> SUFFICES ASSUME NEW S \in Closed', NEW k \in Words
               PROVE  k \in S <=> Root'[k] \in S
    BY DEF RootsAreReached
  <2>1. S \in Closed /\ (l \in S <=> r \in S)
    <3>1. S \in SUBSET Words /\ \A m \in merged' : m[1] \in S <=> m[2] \in S
      BY DEF Closed
    <3>2. <<l, r>> \in merged' /\ merged \subseteq merged'
      BY <1>0
    <3>3. <<l, r>>[1] \in S <=> <<l, r>>[2] \in S
      BY <3>1, <3>2
    <3> QED BY <3>1, <3>2, <3>3 DEF Closed
  <2>2. \A m \in Words : m \in S <=> Root[m] \in S
    BY <2>1 DEF GroupsInv, RootsAreReached
  <2>3. low \in {Root[l], Root[r]} /\ (low \in S <=> l \in S)
    BY <2>1, <2>2
  <2>4. CASE Root[k] \in {Root[l], Root[r]}
    BY <1>1, <2>1, <2>2, <2>3, <2>4
  <2>5. CASE Root[k] \notin {Root[l], Root[r]}
    BY <1>1, <2>2, <2>5
  <2> QED BY <2>4, <2>5
<1> QED BY <1>2, <1>3, <1>4 DEF GroupsInv

(***************************************************************************)
(* The preference.                                                         *)
(***************************************************************************)

InputOK == lane \in [Words -> Lanes] /\ heat \in [Words -> Heats]

LEMMA PreferredIsOrder ==
    ASSUME InputOK, NEW k \in Words, NEW l \in Words
    PROVE  /\ k # l => Preferred(k, l) \/ Preferred(l, k)
           /\ \A m \in Words : Preferred(k, l) /\ Preferred(l, m) => Preferred(k, m)
           /\ ~(Preferred(k, l) /\ Preferred(l, k))
<1>1. \A m \in Words : m \in Nat /\ lane[m] \in Nat /\ heat[m] \in Nat
  BY KeywordsAssumption DEF KeywordsAssumption, InputOK
<1> QED BY <1>1 DEF Preferred

\* min: every group has a keyword that is preferred to all others of it.
LEMMA WinnerFacts ==
    ASSUME InputOK, NEW G, G \subseteq Words, G # {}
    PROVE  Winner(G) \in G /\ \A l \in G \ {Winner(G)} : Preferred(Winner(G), l)
<1> DEFINE Best(H, k) == k \in H /\ \A l \in H \ {k} : Preferred(k, l)
           Bad == {H \in SUBSET Words : H # {} /\ \A k \in Words : ~Best(H, k)}
<1>1. Bad = {}
  <2> SUFFICES ASSUME Bad # {} PROVE FALSE
    OBVIOUS
  <2>1. Bad \subseteq FiniteSubsetsOf(Words)
    BY FS_FiniteSubsetsOfFinite, KeywordsAssumption DEF KeywordsAssumption
  <2>2. PICK H \in Bad : \A J \in Bad : <<J, H>> \notin StrictSubsetOrdering(Words)
    <3> HIDE DEF Bad
    <3> QED BY <2>1, FS_StrictSubsetOrderingWellFounded, WFMin
  <2>3. PICK x \in H : TRUE
    OBVIOUS
  <2>4. H \subseteq Words /\ x \in Words
    OBVIOUS
  <2>5. <<H \ {x}, H>> \in StrictSubsetOrdering(Words)
    BY <2>3, <2>4 DEF StrictSubsetOrdering
  <2>6. H \ {x} \notin Bad
    BY <2>2, <2>5
  <2>7. CASE H \ {x} = {}
    <3>1. Best(H, x)
      BY <2>3, <2>7
    <3> QED BY <2>4, <3>1
  <2>8. CASE H \ {x} # {}
    <3>1. PICK b \in Words : Best(H \ {x}, b)
      BY <2>4, <2>6, <2>8
    <3>2. b \in H /\ b # x /\ \A l \in H \ {x, b} : Preferred(b, l)
      BY <3>1
    <3>3. CASE Preferred(b, x)
      <4>1. Best(H, b)
        BY <3>2, <3>3
      <4> QED BY <4>1
    <3>4. CASE Preferred(x, b)
      <4>1. \A l \in H \ {x} : Preferred(x, l)
        BY <2>4, <3>2, <3>4, PreferredIsOrder
      <4>2. Best(H, x)
        BY <2>3, <4>1
      <4> QED BY <2>4, <4>2
    <3> QED BY <2>4, <3>2, <3>3, <3>4, PreferredIsOrder
  <2> QED BY <2>7, <2>8
<1>2. \E k \in G : \A l \in G \ {k} : Preferred(k, l)
  BY <1>1
<1> QED BY <1>2 DEF Winner


(***************************************************************************)
(* What the deduplications leave.                                          *)
(***************************************************************************)

\* After the exact round: one keyword for each text, the preferred one.
RepsInv ==
    round \in {"semantic", "limit", "done"} =>
        /\ \A k, l \in reps : Text[k] = Text[l] => k = l
        /\ \A k \in Words : \E m \in reps : Text[m] = Text[k] /\ (m = k \/ Preferred(m, k))

\* After the semantic round: one for each group of those, the preferred one.
WinnersInv ==
    /\ round \in {"off", "exact", "semantic"} => winners = {}
    /\ \A k, l \in winners : Root[k] = Root[l] => k = l
    /\ round \in {"limit", "done"} =>
          \A m \in reps : \E l \in winners :
              Root[l] = Root[m] /\ (l = m \/ Preferred(l, m))

KeywordsInv == GroupsInv /\ RepsInv /\ WinnersInv

LEMMA InvGivesDuplicatesAreDropped == KeywordsInv => DuplicatesAreDropped
<1> SUFFICES ASSUME KeywordsInv PROVE OneOfAKind /\ DroppedForPreferred
  BY DEF DuplicatesAreDropped
<1>1. \A k, l \in Words : <<k, l>> \in Connected <=> Root[k] = Root[l]
  BY GroupsAreConnected DEF KeywordsInv, RootsAreGroups
<1>2. reps \subseteq Words /\ winners \subseteq reps /\ eligible \subseteq winners
  BY DEF KeywordsInv, GroupsInv, KeywordsTypeOK
<1>3. OneOfAKind
  <2> SUFFICES ASSUME NEW k \in eligible, NEW l \in eligible, k # l
               PROVE  Text[k] # Text[l] /\ <<k, l>> \notin Connected
    BY DEF OneOfAKind
  <2>1. k \in winners /\ l \in winners /\ k \in reps /\ l \in reps
    BY <1>2
  <2>2. round \in {"limit", "done"}
    BY <2>1 DEF KeywordsInv, WinnersInv, GroupsInv, KeywordsTypeOK
  <2> QED BY <1>1, <1>2, <2>1, <2>2 DEF KeywordsInv, RepsInv, WinnersInv
<1>4. DroppedForPreferred
  <2> SUFFICES ASSUME round \in {"limit", "done"}, NEW k \in Words \ winners
               PROVE  \E l \in winners :
                         /\ Preferred(l, k)
                         /\ \E m \in reps : Text[m] = Text[k] /\ <<m, l>> \in Connected
    BY DEF DroppedForPreferred
  <2>1. PICK m \in reps : Text[m] = Text[k] /\ (m = k \/ Preferred(m, k))
    BY DEF KeywordsInv, RepsInv
  <2>2. PICK l \in winners : Root[l] = Root[m] /\ (l = m \/ Preferred(l, m))
    BY DEF KeywordsInv, WinnersInv
  <2>3. Preferred(l, k)
    BY <1>2, <2>1, <2>2, PreferredIsOrder
       DEF KeywordsInv, GroupsInv, KeywordsTypeOK, InputOK
  <2>4. <<m, l>> \in Connected
    BY <1>1, <1>2, <2>2
  <2> QED BY <2>1, <2>3, <2>4
<1> QED BY <1>3, <1>4

-----------------------------------------------------------------------------

\* Before the first row every keyword is its own root.
LEMMA NobodyIsMerged ==
    ASSUME KeywordsTypeOK, parent = [k \in Words |-> k], merged = {}
    PROVE  GroupsInv /\ \A k \in Words : Root[k] = k
<1>1. \A k \in Words : Root[k] = k
  BY ParentsHang, RootFacts, RootIsRootIn
<1> QED BY <1>1 DEF GroupsInv, RowsAreJoined, RootsAreReached

LEMMA KeywordsInitInv == ASSUME KeywordsInit PROVE KeywordsInv
<1>1. KeywordsTypeOK
  BY KeywordsAssumption DEF KeywordsAssumption, KeywordsInit, KeywordsEmpty, KeywordsTypeOK
<1> QED BY <1>1, NobodyIsMerged
        DEF KeywordsInit, KeywordsEmpty, KeywordsInv, RepsInv, WinnersInv

LEMMA DedupeExactInv == ASSUME KeywordsInv, DedupeExact PROVE KeywordsInv'
<1>0. /\ round = "exact" /\ round' = "semantic"
      /\ reps' = {Winner(ExactGroup(k)) : k \in Words}
      /\ UNCHANGED <<lane, heat, parent, merged, winners, eligible>>
      /\ winners = {} /\ InputOK
  BY DEF DedupeExact, inputVars, KeywordsInv, WinnersInv, GroupsInv, KeywordsTypeOK, InputOK
<1>1. ASSUME NEW k \in Words
      PROVE  /\ Winner(ExactGroup(k)) \in Words
             /\ Text[Winner(ExactGroup(k))] = Text[k]
             /\ Winner(ExactGroup(k)) = k \/ Preferred(Winner(ExactGroup(k)), k)
  <2>1. k \in ExactGroup(k) /\ ExactGroup(k) \subseteq Words
    BY DEF ExactGroup
  <2>2. /\ Winner(ExactGroup(k)) \in ExactGroup(k)
        /\ \A l \in ExactGroup(k) \ {Winner(ExactGroup(k))} :
              Preferred(Winner(ExactGroup(k)), l)
    BY <1>0, <2>1, WinnerFacts
  <2> QED BY <2>1, <2>2 DEF ExactGroup
<1>2. reps' \subseteq Words
  BY <1>0, <1>1
<1>3. GroupsInv'
  <2>1. Root' = Root /\ Closed' = Closed
    BY <1>0 DEF Root, Closed
  <2>2. KeywordsTypeOK'
    BY <1>0, <1>2 DEF KeywordsInv, GroupsInv, KeywordsTypeOK, WinnersInv
  <2>3. RowsAreJoined' /\ RootsAreReached'
    BY <1>0, <2>1 DEF KeywordsInv, GroupsInv, RowsAreJoined, RootsAreReached
  <2> QED BY <2>2, <2>3 DEF GroupsInv
<1>4. RepsInv'
  <2>1. ASSUME NEW k \in reps', NEW l \in reps', Text[k] = Text[l] PROVE k = l
    <3>1. PICK m \in Words : k = Winner(ExactGroup(m))
      BY <1>0
    <3>2. PICK n \in Words : l = Winner(ExactGroup(n))
      BY <1>0
    <3>3. Text[m] = Text[n]
      BY <1>1, <2>1, <3>1, <3>2
    <3>4. ExactGroup(m) = ExactGroup(n)
      BY <3>3 DEF ExactGroup
    <3> QED BY <3>1, <3>2, <3>4
  <2>2. ASSUME NEW k \in Words
        PROVE  \E m \in reps' : Text[m] = Text[k] /\ (m = k \/ Preferred(m, k)')
    <3>1. Winner(ExactGroup(k)) \in reps'
      BY <1>0
    <3>2. \A m : Preferred(m, k)' <=> Preferred(m, k)
      BY <1>0 DEF Preferred
    <3> QED BY <1>1, <3>1, <3>2
  <2> QED BY <2>1, <2>2 DEF RepsInv
<1>5. WinnersInv'
  BY <1>0 DEF WinnersInv
<1> QED BY <1>3, <1>4, <1>5 DEF KeywordsInv

LEMMA MergeSimilarInv ==
    ASSUME KeywordsInv, NEW l \in Words, NEW r \in Words, MergeSimilar(l, r)
    PROVE  KeywordsInv'
<1>0. round = "semantic" /\ winners = {} /\ UNCHANGED <<round, lane, heat, reps, winners>>
  BY DEF MergeSimilar, inputVars, KeywordsInv, WinnersInv
<1>1. GroupsInv'
  BY MergeKeepsGroups DEF KeywordsInv
<1>2. RepsInv' /\ WinnersInv'
  BY <1>0 DEF KeywordsInv, RepsInv, WinnersInv, Preferred
<1> QED BY <1>1, <1>2 DEF KeywordsInv

LEMMA DedupeSemanticInv == ASSUME KeywordsInv, DedupeSemantic PROVE KeywordsInv'
<1>0. /\ round = "semantic" /\ round' = "limit"
      /\ winners' = {Winner(SemanticGroup(k)) : k \in reps}
      /\ UNCHANGED <<lane, heat, reps, parent, merged, eligible>>
      /\ winners = {} /\ eligible = {} /\ InputOK /\ reps \subseteq Words
  BY DEF DedupeSemantic, inputVars, KeywordsInv, WinnersInv, GroupsInv,
         KeywordsTypeOK, InputOK
<1>1. ASSUME NEW k \in reps
      PROVE  /\ Winner(SemanticGroup(k)) \in reps
             /\ Root[Winner(SemanticGroup(k))] = Root[k]
             /\ Winner(SemanticGroup(k)) = k \/ Preferred(Winner(SemanticGroup(k)), k)
  <2>1. k \in SemanticGroup(k) /\ SemanticGroup(k) \subseteq Words
    BY <1>0 DEF SemanticGroup
  <2>2. /\ Winner(SemanticGroup(k)) \in SemanticGroup(k)
        /\ \A l \in SemanticGroup(k) \ {Winner(SemanticGroup(k))} :
              Preferred(Winner(SemanticGroup(k)), l)
    BY <1>0, <2>1, WinnerFacts
  <2> QED BY <2>1, <2>2 DEF SemanticGroup
<1>2. Root' = Root /\ \A k, l : Preferred(k, l)' <=> Preferred(k, l)
  BY <1>0 DEF Root, Preferred
<1>3. GroupsInv'
  <2>1. winners' \subseteq reps
    BY <1>0, <1>1
  <2>2. KeywordsTypeOK'
    BY <1>0, <2>1 DEF KeywordsInv, GroupsInv, KeywordsTypeOK
  <2>3. Closed' = Closed
    BY <1>0 DEF Closed
  <2>4. RowsAreJoined' /\ RootsAreReached'
    BY <1>0, <1>2, <2>3 DEF KeywordsInv, GroupsInv, RowsAreJoined, RootsAreReached
  <2> QED BY <2>2, <2>4 DEF GroupsInv
<1>4. RepsInv'
  BY <1>0, <1>2 DEF KeywordsInv, RepsInv
<1>5. WinnersInv'
  <2>1. ASSUME NEW k \in winners', NEW l \in winners', Root[k] = Root[l] PROVE k = l
    <3>1. PICK m \in reps : k = Winner(SemanticGroup(m))
      BY <1>0
    <3>2. PICK n \in reps : l = Winner(SemanticGroup(n))
      BY <1>0
    <3>3. Root[m] = Root[n]
      BY <1>1, <2>1, <3>1, <3>2
    <3>4. SemanticGroup(m) = SemanticGroup(n)
      BY <3>3 DEF SemanticGroup
    <3> QED BY <3>1, <3>2, <3>4
  <2>2. ASSUME NEW m \in reps
        PROVE  \E l \in winners' : Root[l] = Root[m] /\ (l = m \/ Preferred(l, m))
    <3>1. Winner(SemanticGroup(m)) \in winners'
      BY <1>0
    <3> QED BY <1>1, <3>1
  <2> QED BY <1>0, <1>2, <2>1, <2>2 DEF WinnersInv
<1> QED BY <1>3, <1>4, <1>5 DEF KeywordsInv

LEMMA LimitLanesInv == ASSUME KeywordsInv, LimitLanes PROVE KeywordsInv'
<1>0. /\ round = "limit" /\ round' = "done"
      /\ eligible' \subseteq winners
      /\ UNCHANGED <<lane, heat, reps, parent, merged, winners>>
  BY DEF LimitLanes, inputVars, FirstOfLane, LaneItems
<1>1. Root' = Root /\ \A k, l : Preferred(k, l)' <=> Preferred(k, l)
  BY <1>0 DEF Root, Preferred
<1>2. GroupsInv'
  BY <1>0, <1>1 DEF KeywordsInv, GroupsInv, KeywordsTypeOK, RowsAreJoined,
                    RootsAreReached, Closed
<1> QED BY <1>0, <1>1, <1>2 DEF KeywordsInv, RepsInv, WinnersInv

\* A step that leaves the keywords alone.
LEMMA KeywordsStutterInv == ASSUME KeywordsInv, UNCHANGED keywordVars PROVE KeywordsInv'
<1>1. /\ UNCHANGED <<round, lane, heat, reps, parent, merged, winners, eligible>>
      /\ Root' = Root /\ \A k, l : Preferred(k, l)' <=> Preferred(k, l)
  BY DEF keywordVars, inputVars, Root, Preferred
<1> QED BY <1>1 DEF KeywordsInv, GroupsInv, KeywordsTypeOK, RowsAreJoined,
                    RootsAreReached, Closed, RepsInv, WinnersInv

LEMMA KeywordsNextInv ==
    ASSUME KeywordsInv, KeywordsNext \/ UNCHANGED keywordVars
    PROVE  KeywordsInv'
<1>1. CASE \E l, r \in Words : MergeSimilar(l, r)
  BY <1>1, MergeSimilarInv
<1> QED BY <1>1, DedupeExactInv, DedupeSemanticInv, LimitLanesInv, KeywordsStutterInv
        DEF KeywordsNext

=============================================================================
