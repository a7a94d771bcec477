SPECIFICATION Spec
CONSTANTS
    Audiences = {1, 2, 3, 4}
    Mode <- MCMode
    Notes = {n1, n2}
    Scores = {1, 2}
    Budgets = {5, 11, 26}
    Cost = 3
    Cap = 2
    Words = {1, 2, 3, 4, 5}
    Text <- MCText
    Lanes = {1, 2}
    Heats = {0, 1}
    Limit = 2
INVARIANTS TypeOK SelectedAreApart RejectedForBetter BudgetWellSpent
INVARIANTS RootsAreGroups DuplicatesAreDropped
CHECK_DEADLOCK FALSE
