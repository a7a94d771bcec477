------------------------------ MODULE Keywords -------------------------------
(***************************************************************************)
(* evaluate_keywords: exact duplicates lose to the preferred keyword of    *)
(* their text, similar ones of a lane are merged by a union-find and lose  *)
(* to the preferred one of their group, and each lane keeps its hottest.   *)
(*                                                                         *)
(* Keywords are numbered in the order of their ids, and lanes in           *)
(* LANE_PRIORITY.  Heat 0 stands for a heat below the threshold.  The      *)
(* semantic rows come in any order; those below the similarity threshold   *)
(* or across lanes change nothing.  Whether a keyword gets a bid is any    *)
(* choice: the peer quantiles are left out.                                *)
(***************************************************************************)
EXTENDS Integers, FiniteSets

CONSTANTS Words,    \* keyword_ids, as numbers
          Text,     \* normalized_text of each
          Lanes,    \* primary lanes, as numbers
          Heats,    \* 0: below the threshold
          Limit     \* keyword_business_limit

ASSUME KeywordsAssumption ==
    /\ Words \subseteq Nat /\ IsFiniteSet(Words)
    /\ Lanes \subseteq Nat /\ Lanes # {}
    /\ Heats \subseteq Nat /\ 0 \in Heats
    /\ Limit \in Nat \ {0}

VARIABLES
    round,    \* where the evaluation is
    lane, heat,
    reps,     \* representatives: the winners of their texts
    parent,   \* _UnionFind.parent
    merged,   \* history: the semantic rows that were merged
    winners,  \* semantic_representatives
    eligible  \* eligible_by_lane, of all lanes

inputVars == <<lane, heat>>
keywordVars == <<round, inputVars, reps, parent, merged, winners, eligible>>

-----------------------------------------------------------------------------

\* The types; roots have the smallest id of their group, so that no walk
\* along parents can go round.
KeywordsTypeOK ==
    /\ round \in {"off", "exact", "semantic", "limit", "done"}
    /\ lane \in [Words -> Lanes]
    /\ heat \in [Words -> Heats]
    /\ reps \subseteq Words
    /\ parent \in [Words -> Words]
    /\ merged \subseteq Words \X Words
    /\ winners \subseteq reps
    /\ eligible \subseteq winners
    /\ \A k \in Words : parent[k] <= k

KeywordsEmpty ==
    /\ reps = {} /\ merged = {} /\ winners = {} /\ eligible = {}
    /\ parent = [k \in Words |-> k]

KeywordsInit ==
    /\ round = "exact"
    /\ lane \in [Words -> Lanes]
    /\ heat \in [Words -> Heats]
    /\ KeywordsEmpty

-----------------------------------------------------------------------------

\* preference, as the order it induces
Preferred(k, l) ==
    \/ lane[k] < lane[l]
    \/ lane[k] = lane[l] /\ heat[k] > heat[l]
    \/ lane[k] = lane[l] /\ heat[k] = heat[l] /\ k < l

\* min(group, key=preference)
Winner(group) == CHOOSE k \in group : \A l \in group \ {k} : Preferred(k, l)

ExactGroup(k) == {l \in Words : Text[l] = Text[k]}

DedupeExact ==
    /\ round = "exact"
    /\ reps' = {Winner(ExactGroup(k)) : k \in Words}
    /\ round' = "semantic"
    /\ UNCHANGED <<inputVars, parent, merged, winners, eligible>>

-----------------------------------------------------------------------------
(* _UnionFind.                                                             *)

Root[k \in Words] == IF parent[k] = k THEN k ELSE Root[parent[k]]

Path[k \in Words] == IF parent[k] = k THEN {k} ELSE {k} \cup Path[parent[k]]

\* Mutated: the keyword itself is hung below the other root, not its root.
UnionLeaf(l, r) ==
    LET compressed == [k \in Words |-> IF k \in Path[l] \cup Path[r] THEN Root[k]
                                                                    ELSE parent[k]]
    IN  IF Root[l] < Root[r] THEN [compressed EXCEPT ![r] = Root[l]]
                             ELSE [compressed EXCEPT ![l] = Root[r]]

\* Mutated: the smaller root is hung below the larger one.
UnionUnder(l, r) ==
    LET compressed == [k \in Words |-> IF k \in Path[l] \cup Path[r] THEN Root[k]
                                                                    ELSE parent[k]]
    IN  IF Root[l] < Root[r] THEN [compressed EXCEPT ![Root[l]] = Root[r]]
                             ELSE [compressed EXCEPT ![Root[r]] = Root[l]]

\* union: both walks compress their path, then the larger root is hung below
\* the smaller one.
Union(l, r) ==
    LET compressed == [k \in Words |-> IF k \in Path[l] \cup Path[r] THEN Root[k]
                                                                    ELSE parent[k]]
    IN  IF Root[l] < Root[r] THEN [compressed EXCEPT ![Root[r]] = Root[l]]
                             ELSE [compressed EXCEPT ![Root[l]] = Root[r]]

\* A row of similarity evidence; it counts for two representatives of a lane.
MergeSimilar(l, r) ==
    /\ round = "semantic"
    /\ {l, r} \subseteq reps
    /\ l < r
    /\ lane[l] = lane[r]
    /\ <<l, r>> \notin merged
    /\ parent' = Union(l, r)
    /\ merged' = merged \cup {<<l, r>>}
    /\ UNCHANGED <<round, inputVars, reps, winners, eligible>>

\* Mutated: the group is told by the parent, which need not be the root.
SemanticGroupByParent(k) == {l \in reps : parent[l] = parent[k]}

SemanticGroup(k) == {l \in reps : Root[l] = Root[k]}

DedupeSemantic ==
    /\ round = "semantic"
    /\ winners' = {Winner(SemanticGroup(k)) : k \in reps}
    /\ round' = "limit"
    /\ UNCHANGED <<inputVars, reps, parent, merged, eligible>>

\* lane_items: the winners of a lane that are hot enough.
LaneItems(n) == {k \in winners : lane[k] = n /\ heat[k] > 0}

HotterInLane(k) == {l \in LaneItems(lane[k]) : \/ heat[l] > heat[k]
                                               \/ heat[l] = heat[k] /\ l < k}

\* The hottest of a lane, up to the limit.
FirstOfLane(n) == {k \in LaneItems(n) : Cardinality(HotterInLane(k)) < Limit}

\* A keyword within the limit that gets no bid is not eligible, and its place
\* is lost.
LimitLanes ==
    /\ round = "limit"
    /\ \E priced \in SUBSET UNION {FirstOfLane(n) : n \in Lanes} : eligible' = priced
    /\ round' = "done"
    /\ UNCHANGED <<inputVars, reps, parent, merged, winners>>

KeywordsNext ==
    \/ DedupeExact
    \/ \E l, r \in Words : MergeSimilar(l, r)
    \/ DedupeSemantic
    \/ LimitLanes

KeywordsSpec == KeywordsInit /\ [][KeywordsNext]_keywordVars

-----------------------------------------------------------------------------
(* Properties.                                                             *)

\* The sets of keywords no row leads out of.
Closed == {S \in SUBSET Words : \A m \in merged : m[1] \in S <=> m[2] \in S}

\* Rows connect two keywords, in one or in several steps, when no such set
\* parts them.
Connected == LET closed == Closed IN
    {p \in Words \X Words : \A S \in closed : p[1] \in S <=> p[2] \in S}

\* Whatever the order of the rows, two keywords have one root exactly when
\* rows connect them.
RootsAreGroups ==
    {p \in Words \X Words : Root[p[1]] = Root[p[2]]} = Connected

\* No two of the keywords bought share their text or are connected.
OneOfAKind ==
    LET connected == Connected IN
    \A k, l \in eligible : k # l => Text[k] # Text[l] /\ <<k, l>> \notin connected

\* A keyword is dropped as a duplicate only for a winner preferred to it that
\* shares its text or is connected with the keyword that does.
DroppedForPreferred ==
    LET connected == Connected IN
    round \in {"limit", "done"} => \A k \in Words \ winners :
        \E l \in winners : /\ Preferred(l, k)
                           /\ \E m \in reps : Text[m] = Text[k] /\ <<m, l>> \in connected

\* The two rounds of deduplication drop every duplicate, and nothing else.
DuplicatesAreDropped == OneOfAKind /\ DroppedForPreferred

=============================================================================
