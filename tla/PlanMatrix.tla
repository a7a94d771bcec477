----------------------------- MODULE PlanMatrix ------------------------------
(***************************************************************************)
(* How a PREPARE run selects the FEED plans of a project: the audiences    *)
(* are filtered by their overlap (evaluate_audiences), their pairs with    *)
(* the notes are ranked, and the phase budget buys the same number of      *)
(* pairs for every note (uniform_budget_capacity, _select_pairs).          *)
(*                                                                         *)
(* Audiences are numbered in the order they are ranked within their mode.  *)
(* An input is chosen where the code first reads it: the overlap of two    *)
(* audiences when they are compared, the pairs and the budget when the     *)
(* plans are selected.  Scores of audiences and gates on their population  *)
(* are left out: any set of audiences may be the eligible one.             *)
(***************************************************************************)
EXTENDS Integers, FiniteSets

CONSTANTS Audiences,   \* numbers, in ranking order
          Mode,        \* STATIC_DMP or DYNAMIC_BEHAVIOR, of each audience
          Notes,       \* the eligible notes
          Scores,      \* the pair scores at or above min_pair_score
          Budgets,     \* phase_budget_fen
          Cost,        \* expected_daily_spend_fen * observation_days
          Cap          \* business_audience_cap

ASSUME MatrixAssumption ==
    /\ Audiences \subseteq Nat /\ IsFiniteSet(Audiences)
    /\ Notes # {} /\ IsFiniteSet(Notes)
    /\ Scores \subseteq Nat /\ IsFiniteSet(Scores)
    /\ Budgets \subseteq Nat \ {0}
    /\ Cost \in Nat \ {0}
    /\ Cap \in Nat \ {0}

VARIABLES
    stage,     \* where the selection is
    policy,    \* overlap_policy: a hard one, or WARNING_ONLY
    ready,     \* the audiences that passed their gates
    left,      \* those not considered yet
    compared,  \* the selected ones the next audience was compared with
    selected,  \* eligible_audience_ids
    apart,     \* pairs whose evidence showed too little overlap to matter
    alike,     \* pairs whose evidence showed an overlap above the threshold
    rows,      \* the pairs of notes and audiences, each with its score
    budget,
    plans      \* the plans, as pairs of note and audience

audienceVars == <<policy, ready, left, compared, selected, apart, alike>>
pairVars == <<rows, budget, plans>>
matrixVars == <<stage, audienceVars, pairVars>>

-----------------------------------------------------------------------------

Row == [note: Notes, audience: Audiences, score: Scores]

\* The types; an audience is selected once it was considered.
MatrixTypeOK ==
    /\ stage \in {"off", "audiences", "pairs", "planned", "waiting", "raised"}
    /\ policy \in {"HARD", "WARNING_ONLY"}
    /\ ready \subseteq Audiences
    /\ left \subseteq ready
    /\ selected \subseteq ready \ left
    /\ compared \subseteq selected
    /\ apart \subseteq SUBSET ready
    /\ alike \subseteq SUBSET ready
    /\ rows \subseteq Row
    /\ budget \in Budgets \cup {0}
    /\ plans \subseteq Notes \X selected

MatrixEmpty ==
    /\ compared = {} /\ selected = {}
    /\ apart = {} /\ alike = {}
    /\ rows = {} /\ budget = 0 /\ plans = {}

MatrixInit ==
    /\ stage = "audiences"
    /\ policy \in {"HARD", "WARNING_ONLY"}
    /\ ready \in SUBSET Audiences
    /\ left = ready
    /\ MatrixEmpty

-----------------------------------------------------------------------------
(* evaluate_audiences.                                                     *)

First(c, S) == c \in S /\ \A d \in S : c <= d

\* Mutated: a candidate is compared with the rejected ones too.
FacingConsidered(c) == {a \in ready \ (left \cup compared) : Mode[a] = Mode[c]}

\* The selected audiences candidate c is still to be compared with.
Facing(c) == {a \in selected \ compared : Mode[a] = Mode[c]}

\* Only under WARNING_ONLY nothing is compared.
SelectAll ==
    /\ stage = "audiences"
    /\ policy = "WARNING_ONLY"
    /\ left # {}
    /\ selected' = ready
    /\ left' = {}
    /\ UNCHANGED <<stage, policy, ready, compared, apart, alike, pairVars>>

\* Mutated: a pair without evidence is passed over.
EvidenceIgnored(c, a) ==
    /\ stage = "audiences" /\ policy = "HARD"
    /\ First(c, left) /\ First(a, Facing(c))
    /\ compared' = compared \cup {a}
    /\ UNCHANGED <<stage, policy, ready, left, selected, apart, alike, pairVars>>

\* Without evidence for the pair the preparation raises.
EvidenceMissing(c, a) ==
    /\ stage = "audiences" /\ policy = "HARD"
    /\ First(c, left) /\ First(a, Facing(c))
    /\ stage' = "raised"
    /\ UNCHANGED <<audienceVars, pairVars>>

CompareApart(c, a) ==
    /\ stage = "audiences" /\ policy = "HARD"
    /\ First(c, left) /\ First(a, Facing(c))
    /\ apart' = apart \cup {{a, c}}
    /\ compared' = compared \cup {a}
    /\ UNCHANGED <<stage, policy, ready, left, selected, alike, pairVars>>

Reject(c, a) ==
    /\ stage = "audiences" /\ policy = "HARD"
    /\ First(c, left) /\ First(a, Facing(c))
    /\ alike' = alike \cup {{a, c}}
    /\ left' = left \ {c}
    /\ compared' = {}
    /\ UNCHANGED <<stage, policy, ready, selected, apart, pairVars>>

Select(c) ==
    /\ stage = "audiences" /\ policy = "HARD"
    /\ First(c, left) /\ Facing(c) = {}
    /\ selected' = selected \cup {c}
    /\ left' = left \ {c}
    /\ compared' = {}
    /\ UNCHANGED <<stage, policy, ready, apart, alike, pairVars>>

\* Without an eligible audience the preparation raises.
AudiencesDone ==
    /\ stage = "audiences"
    /\ left = {}
    /\ stage' = IF selected = {} THEN "raised" ELSE "pairs"
    /\ UNCHANGED <<audienceVars, pairVars>>

-----------------------------------------------------------------------------
(* _continue_prepare_after_validation.                                     *)

AudiencesOf(R) == {r.audience : r \in R}

Partners(n, R) == AudiencesOf({r \in R : r.note = n})

Smallest(S) == CHOOSE x \in S : \A y \in S : x <= y

\* min over the eligible notes; a note without a row has none.
EligiblePerNote(R) == Smallest({Cardinality(Partners(n, R)) : n \in Notes})

\* Mutated: the slots are not divided among the notes.
PerNoteUndivided(R, b) == Smallest({b \div Cost, EligiblePerNote(R), Cap})

\* uniform_budget_capacity: selected_audiences_per_note
PerNote(R, b) ==
    Smallest({(b \div Cost) \div Cardinality(Notes), EligiblePerNote(R), Cap})

\* The pairs that come before r: a note's are sorted by descending score, then
\* by the rank of their audience.
Ahead(r, R) == {q \in R : /\ q.note = r.note
                          /\ \/ q.score > r.score
                             \/ q.score = r.score /\ q.audience < r.audience}

\* _select_pairs: the walk along a note's pairs ends with the k-th audience.
SelectPairs(n, R, k) ==
    AudiencesOf({r \in R : r.note = n /\ Cardinality(AudiencesOf(Ahead(r, R))) < k})

\* A note without a pair raises; a budget that pays for none waits.
SelectPlans ==
    /\ stage = "pairs"
    /\ \E R \in SUBSET [note: Notes, audience: selected, score: Scores],
          b \in Budgets :
         /\ rows' = R
         /\ budget' = b
         /\ IF EligiblePerNote(R) = 0
            THEN stage' = "raised" /\ UNCHANGED plans
            ELSE IF PerNote(R, b) = 0
                 THEN stage' = "waiting" /\ UNCHANGED plans
                 ELSE /\ stage' = "planned"
                      /\ plans' = {p \in Notes \X selected :
                                     p[2] \in SelectPairs(p[1], R, PerNote(R, b))}
    /\ UNCHANGED audienceVars

MatrixNext ==
    \/ SelectAll
    \/ \E c \in Audiences : Select(c)
    \/ \E c, a \in Audiences :
          EvidenceMissing(c, a) \/ CompareApart(c, a) \/ Reject(c, a)
    \/ AudiencesDone
    \/ SelectPlans

MatrixSpec == MatrixInit /\ [][MatrixNext]_matrixVars

-----------------------------------------------------------------------------
(* Properties.                                                             *)

\* Two audiences of one mode are both selected only on evidence that they
\* hardly overlap; none is taken on trust.
SelectedAreApart ==
    policy = "HARD" => \A a, b \in selected :
        a # b /\ Mode[a] = Mode[b] => {a, b} \in apart

\* An audience is dropped only for its overlap with a better one of its mode
\* that was kept: never for one that was itself dropped.
RejectedForBetter ==
    policy = "HARD" => \A c \in ready \ (left \cup selected) :
        \E a \in selected : Mode[a] = Mode[c] /\ a < c /\ {a, c} \in alike

PlansOf(n) == {p \in plans : p[1] = n}

\* The plans cost no more than the phase budget, and a budget that could buy
\* one plan for each note is not left waiting.
WithinBudget ==
    /\ Cardinality(plans) * Cost <= budget
    /\ stage = "waiting" => budget < Cost * Cardinality(Notes)

\* Every note gets the same number of plans, and one more for each would
\* exceed the budget, the cap, or the audiences of some note.
SpentEvenly ==
    stage = "planned" => \A n \in Notes :
        /\ \A m \in Notes : Cardinality(PlansOf(n)) = Cardinality(PlansOf(m))
        /\ \/ (Cardinality(plans) + Cardinality(Notes)) * Cost > budget
           \/ Cardinality(PlansOf(n)) = Cap
           \/ \E m \in Notes : Cardinality(PlansOf(m)) = Cardinality(Partners(m, rows))

Best(n, a) == Smallest({0 - r.score : r \in {q \in rows : q.note = n /\ q.audience = a}})

\* A note's plans are its best audiences: the one left out has no pair that
\* scores above the best pair of one that was taken.
BestArePlanned ==
    \A p \in plans : \A a \in Partners(p[1], rows) :
        <<p[1], a>> \in plans \/ Best(p[1], p[2]) <= Best(p[1], a)

\* The plans of a matrix are what the phase budget should buy: no more than it
\* pays for, the same for every note, and the best audiences of each.
BudgetWellSpent == WithinBudget /\ SpentEvenly /\ BestArePlanned

=============================================================================
